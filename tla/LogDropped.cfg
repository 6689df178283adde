SPECIFICATION FairSpec
CONSTANTS
  t1 = t1  t2 = t2  a = a  None = None
  Thread <- Threads  Message <- FewMessages  Character = {a}
  LogLevel = 1  StackSize = 5  HeapSize = 7  BufferSize = 2
PROPERTIES NotDropped
CHECK_DEADLOCK FALSE
