\* Two key ids and a breaker of two failures; three keys, one with a limit of
\* its own, under every strategy and requests of two models; two threads on a
\* budget of one request.
SPECIFICATION PartsSpec
CONSTANTS
  NumIds = 2
  MaxCalls = 2
  Nobody = Nobody
  MaxParallel = 1
  CooldownTicks = 1
  FailureThreshold = 2
  CounterCap = 2
  NumMembers = 3
  OwnLimit <- MCOwnLimit
  Limits = {1, 3}
  Slots = 1
  MaxRequests = 1
  Threads = {t1, t2}
  RpmLimit = 1
  Window = 1
  Horizon = 2
  MaxClock = 3
  MaxQuota = 1
INVARIANTS
  PartsTypeOK
  CapExceededOnlyByOperator IdleKeysAvailable
  NoCandidateStarves WeightsBalance
  WindowForgetsNothing BudgetOvershoot
PROPERTIES
  EnabledOnProbation OperatorAloneRestores FreshIdsReplaceNothing
  QuotaStaysExhausted
