SPECIFICATION FairSpec
CONSTANTS
  Name <- Names
  Key <- Nested
  Value = {1}
  NoValue = NoValue
  TicksPerSecond = 1
  Requests <- RegularRequests
  EnableCache = TRUE
  Faults = {}
  MaxTime = 3
  MaxReaders = 1
INVARIANTS NoDanglingChild
PROPERTIES ExpiredKeyRemoved 
