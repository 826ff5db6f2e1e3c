SPECIFICATION FairSpec
CONSTANTS
  i1 = i1
  c1 = c1
  IDs = {i1, i2}
  Conns = {c1, c2}
  NotInt = NotInt
  NoReq = NoReq
  Configs <- MCConfigs
  Bodies <- MCBodies
  Pages <- MCPages
  Asks <- MCAsks
INVARIANTS
  TypeOK
  MetricsAreExact
  ErrorNeedsRace
  ReadsSeeAcked
  ListIsComplete
  QueuedIsLive
  OneWithdraws
  RecordOutlivesBatch
PROPERTIES
  RequestEnds
  SignalEnds
CHECK_DEADLOCK FALSE
