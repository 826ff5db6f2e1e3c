SPECIFICATION Spec
CONSTANTS
  j1 = j1
  j2 = j2
  Jobs = {j1, j2}
  Consumers = {c1, c2}
  Producers = {s1, s2}
  Calls <- MCCalls
  Capacity = 1
INVARIANTS
  TypeOK
  RegisteredAreOpen
  FifoPerCall
  PanicOnlyAfterClose
PROPERTIES
  SentReachesAll
  SendReturns
CHECK_DEADLOCK FALSE
