CONSTANTS
  Sinks = {s1, s2}
  Topic <- MCTopic
  Empty = "none"
  Payloads <- MCPayloads
  Unstorable = {"nul"}
  Hash <- MCHash
  Jsonb <- MCJsonb
  Genesis = Genesis
  MaxCrashes = 1
  MaxRebalances = 1
  None = None
SPECIFICATION LiveSpec
INVARIANT LostOnlyByFailure
PROPERTIES AppendsOnly Drained
CHECK_DEADLOCK FALSE
