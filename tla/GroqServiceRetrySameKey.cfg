\* A retry takes the key that has just failed.
SPECIFICATION GroqSpec
CONSTANTS
  Callers = {c1}
  NoCaller = NoCaller
  NumKeys = 2
  MaxParallel = 1
  CooldownTicks = 1
  FailureThreshold = 2
  CounterCap = 2
  Retries = 1
  Strategy = "priority_failover"
CHECK_DEADLOCK FALSE
PROPERTIES RetryChangesKey
