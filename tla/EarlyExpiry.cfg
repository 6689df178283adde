SPECIFICATION Spec
CONSTANTS
  Name <- Names
  Key <- Nested
  Value = {1}
  NoValue = NoValue
  TicksPerSecond = 1
  Requests <- RenewRequests
  EnableCache = FALSE
  Faults = {}
  MaxTime = 3
  MaxReaders = 0
PROPERTIES NotRemovedEarly
