SPECIFICATION FairSpec
CONSTANTS
  Total = 3
  MaxJobConcurrency = 2
INVARIANTS
  TypeOK
  ConcurrencyBound
  CountsExact
PROPERTIES
  PhaseSpec
  JobEnds
  LinesEnd
CHECK_DEADLOCK FALSE
