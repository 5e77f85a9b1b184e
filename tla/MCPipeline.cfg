CONSTANTS
  Requests = {1, 2}
  Inputs <- MCInputs
  Route <- MCRoute
  Chains <- MCChains
  KeyApi = "b"
  NoEntry = NoEntry
  IntroTTL = 1
  CacheTTL = 1
  FetchMax = 1
  StoreMax = 1
SPECIFICATION LiveSpec
INVARIANTS AuthBeforeUpstream HitsAreGood
PROPERTIES RevokedTokenEnds RequestsAnswered
