CONSTANTS
  a1 = a1
  v1 = v1
  v2 = v2
  APIs = {a1}
  Versions = {v1, v2}
  ApiOf <- TwoVersions
  Upstreams = {u1}
  Jobs = {j1, j2}
  MaxTime = 1
  NoRow = NoRow
  NoJob = NoJob
  NoUpstream = NoUpstream
  Gateways = {g1}
  MaxRestarts = 1
  NoTable = NoTable
CHECK_DEADLOCK FALSE
SPECIFICATION LiveSpec
INVARIANT SyncInv
PROPERTIES RoutesWrittenOnce LostRoutesStayLost RoutesKept RoutesArrive
