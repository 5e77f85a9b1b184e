CONSTANTS
  Calls = {c1, c2}
  MaxVersion = 2
  RedisTTL = 2
  ChainTTL = 2
  FetchMax = 1
SPECIFICATION LiveSpec
INVARIANT LagBounded
PROPERTIES Converges
