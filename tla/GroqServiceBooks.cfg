\* Two requests, two keys of one slot, one retry, a breaker of one failure;
\* no symmetry, for requests must end.
SPECIFICATION GroqFairSpec
CONSTANTS
  Callers = {c1, c2}
  NoCaller = NoCaller
  NumKeys = 2
  MaxParallel = 1
  CooldownTicks = 1
  FailureThreshold = 1
  CounterCap = 1
  Retries = 1
  Strategy = "any"
CHECK_DEADLOCK FALSE
INVARIANTS GroqTypeOK BooksAgree SlotsComeBack OutputDeliveredOnce
PROPERTIES RequestsEnd
