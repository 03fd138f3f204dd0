CONSTANTS
  Callers = {c1}
  BatchSize = 2
  Concurrency = 1
  Shared = Shared
  Retries = 1
  JsonRetries = 1
  Expiries = 1
SPECIFICATION FairSpec
INVARIANTS
  RequestsTypeOK
  BilledAreBooked
  ExpiredOnce
  FinalErrorsEnd
  PermitsAccounted
  BatchReportsAnswers
PROPERTIES
  BatchEnds
CHECK_DEADLOCK FALSE
