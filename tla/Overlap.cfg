SPECIFICATION Spec
CONSTANTS
  Name <- Names
  Key <- Keys
  c1 = c1
  c2 = c2
  Client = {c1, c2}
  Cleaner = cleaner
  Requests <- OverlapRequests
  InitialSize = 1
  MaxTime = 3
INVARIANTS ExpiryIsScheduled 
PROPERTIES NoOverwrite OwnKeysOnly RequestEnds LeakedLocksReleased
