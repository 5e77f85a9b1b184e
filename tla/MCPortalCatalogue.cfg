CONSTANTS
  t1 = t1
  t2 = t2
  Tabs = {t1, t2}
  Worlds <- MCWorlds
  Client = client
  Callers <- MCCallers
  Apis = {a1}
  Keys = {k1}
  Tokens = {x1, x2, xc}
  ClientToken = xc
  MaxKeys = 1
  MaxFailures = 1
SPECIFICATION Spec
PROPERTIES CatalogueShown
CHECK_DEADLOCK FALSE
