\* Two threads flush one service.
SPECIFICATION Spec
CONSTANTS
  Services = {"groq"}
  Recorders = {r1}
  Flushers = {f1, f2}
  NoThread = NoThread
  Days = 1
  MaxCount = 1
CHECK_DEADLOCK FALSE
INVARIANTS FlushedIsDurable
