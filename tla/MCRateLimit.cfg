CONSTANTS
  Slots = {r1, r2}
  Gateways = {"ahead", "behind"}
  Offset <- MCOffset
  Skew = 1
  Delay = 1
  Len <- MCLen
  Configs <- MCConfigs
  DefaultRpm = 1
  Plans <- MCPlans
  PlanTTL = 2
  MaxTime = 4
  MaxTotal <- MCMaxTotal
  MaxFailures = 1
  None = None
SPECIFICATION LimitSpec
SYMMETRY MCSymmetry
INVARIANTS SlidingHolds FixedHolds BucketHolds 
CHECK_DEADLOCK FALSE
