CONSTANTS
  free = free
  basic = basic
  a1 = a1
  c1 = c1
  k1 = k1
  k2 = k2
  k3 = k3
  k4 = k4
  Subs = {s1}
  Plans = {free, basic}
  Admins = {a1, a2}
  NoPlan = NoPlan
  NoReq = NoReq
  Keys = {k1, k2, k3, k4}
  Requests = {r1, r2}
  Creators = {c1, c2}
  MaxKeys <- PlanLimits
  TTL = 2
  FailOpen = FALSE
  TornPipeline = TRUE
  NoKey = NoKey
  NoEntry = NoEntry
  NoFill = NoFill
  NoSub = NoSub
SPECIFICATION LiveSpec
INVARIANTS SubInv KeyInv OvershootBounded
PROPERTIES IllegalMeansOvertaken CancelSettles DeadKeysStayDead RevocationTakesHold
CONSTRAINT Scope
