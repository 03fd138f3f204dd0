\* A cooldown is cut short: one key, one slot, two callers.
SPECIFICATION HSpec
CONSTANTS
  Callers = {c1, c2}
  NoCaller = NoCaller
  NumKeys = 1
  MaxParallel = 1
  CooldownTicks = 1
  FailureThreshold = 2
  CounterCap = 2
SYMMETRY CallerSymmetry
INVARIANTS HeldInCooldown
