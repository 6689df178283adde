SPECIFICATION Spec
CONSTANTS
  Name <- Names
  Key <- Nested
  Value = {1}
  NoValue = NoValue
  TicksPerSecond = 1
  Requests <- MixedRequests
  EnableCache = FALSE
  Faults = {"write", "commit", "stop", "crash"}
  MaxTime = 3
  MaxReaders = 0
INVARIANTS ExpiryIsScheduled 
PROPERTIES PassRemovesExpired Atomic
