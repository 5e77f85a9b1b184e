CONSTANTS
  Consumers = {1, 2}
  Topic <- MCTopic
  MaxRetries = 2
  MaxCrashes <- MCMaxCrashes
  MaxFailures = 1
SPECIFICATION LiveSpec
INVARIANTS CountsAccounted LossAtBirthOnly LogHonest
PROPERTIES AllConsumed
CHECK_DEADLOCK FALSE
