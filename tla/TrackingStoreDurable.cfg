\* Two services in one directory, one flushing thread, crashes, midnight.
SPECIFICATION FairSpec
CONSTANTS
  Services = {"groq", "gemini"}
  Recorders = {r1}
  Flushers = {f1}
  NoThread = NoThread
  Days = 2
  MaxCount = 1
CHECK_DEADLOCK FALSE
INVARIANTS StoreTypeOK FlushedIsDurable
PROPERTIES ImplementsDurableCounts FlushEnds
