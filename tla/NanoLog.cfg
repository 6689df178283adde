SPECIFICATION Spec
CONSTANTS
  t1 = t1  t2 = t2  a = a  None = None
  Thread <- Threads  Message <- Messages  Character = {a}
  LogLevel = 1  StackSize = 5  HeapSize = 7  BufferSize = 2
INVARIANTS ThreadOrder Drained SomeoneSetsUp
CHECK_DEADLOCK FALSE
