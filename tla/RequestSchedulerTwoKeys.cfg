\* Two keys of one slot, two callers: full keys, failover, resets, and
\* searches that find nothing.
SPECIFICATION HSpec
CONSTANTS
  Callers = {c1, c2}
  NoCaller = NoCaller
  NumKeys = 2
  MaxParallel = 1
  CooldownTicks = 1
  FailureThreshold = 2
  CounterCap = 2
SYMMETRY CallerSymmetry
INVARIANTS TypeOK CapRespected NoFalseExhaustion
PROPERTIES ImplementsKeyLeases
