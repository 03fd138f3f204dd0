\* Three callers on one key of two slots: late outcomes, a breaker race,
\* and progress under fair scheduling; no symmetry.
SPECIFICATION TimedFairSpec
CONSTANTS
  Callers = {c1, c2, c3}
  NoCaller = NoCaller
  NumKeys = 1
  MaxParallel = 2
  CooldownTicks = 2
  FailureThreshold = 2
  CounterCap = 3
INVARIANTS SlotAccounting BreakerComplete
PROPERTIES OutOfServiceForGood AcquireCompletes RateLimitedPoolRecovers
