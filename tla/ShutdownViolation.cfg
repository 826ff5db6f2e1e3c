SPECIFICATION FairSpec
CONSTANTS
  i1 = i1
  c1 = c1
  IDs = {i1, i2}
  Conns = {c1, c2}
  NotInt = NotInt
  NoReq = NoReq
  Configs <- MCConfigs
  Bodies <- MCBodies
  Pages <- MCPages
  Asks <- MCAsks
INVARIANT ShutdownWaits
CHECK_DEADLOCK FALSE
