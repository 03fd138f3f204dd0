\* The breaker counts 429s.
SPECIFICATION HSpec
CONSTANTS
  Callers = {c1}
  NoCaller = NoCaller
  NumKeys = 1
  MaxParallel = 1
  CooldownTicks = 1
  FailureThreshold = 2
  CounterCap = 2
SYMMETRY CallerSymmetry
INVARIANTS TripsOnOtherFailures
