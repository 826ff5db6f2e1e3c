SPECIFICATION FairSpec
CONSTANTS
  MaxRetries = 3
  Codes = {200, 201, 302, 400, 401, 403, 404, 429, 500, 501, 503}
INVARIANTS
  TypeOK
  RetryableMeansExhausted
PROPERTIES
  DefiniteNotResent
  GenerateReturns
CHECK_DEADLOCK FALSE
