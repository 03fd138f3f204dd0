\* A failed stream gives two slots back.
SPECIFICATION GeminiSpec
CONSTANTS
  Callers = {c1, c2, c3}
  NoCaller = NoCaller
  NumKeys = 1
  MaxParallel = 1
  CooldownTicks = 1
  FailureThreshold = 3
  CounterCap = 3
  Retries = 0
  Strategy = "any"
CHECK_DEADLOCK FALSE
SYMMETRY CallerSymmetry
INVARIANTS CapRespected
