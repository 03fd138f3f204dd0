\* Three requests, with a retry each, on one key of one slot: two streams may
\* fail and be released twice while others take their slots.
SPECIFICATION GeminiSpec
CONSTANTS
  Callers = {c1, c2, c3}
  NoCaller = NoCaller
  NumKeys = 1
  MaxParallel = 1
  CooldownTicks = 1
  FailureThreshold = 3
  CounterCap = 3
  Retries = 1
  Strategy = "any"
CHECK_DEADLOCK FALSE
SYMMETRY CallerSymmetry
INVARIANTS  OverloadBounded
