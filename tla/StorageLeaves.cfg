SPECIFICATION Spec
CONSTANTS
  Name <- Names
  Key <- Forest
  Value = {1, 2}
  NoValue = NoValue
  TicksPerSecond = 1
  Requests <- LeafRequests
  EnableCache = TRUE
  Faults = {"crash"}
  MaxTime = 3
  MaxReaders = 0
INVARIANTS  ValueCacheCoherent
