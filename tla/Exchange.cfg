SPECIFICATION Spec
CONSTANTS
  t1 = t1  t2 = t2  c1 = c1  c2 = c2  p = p  q = q  bp = bp  v1 = v1
  NoValue = NoValue  None = None  Undefined = Undefined  Raised = Raised
  Thread <- Threads  Con <- Conns  Key <- Keys2  Bare <- Bares
  Slashed <- SlashedIs  Children <- ChildrenOf
  Call <- Calls  HttpRequest <- Https
  ServerBuf = 3  ClientBuf = 3  MaxDoc = 4
  MaxCalls = 2  MaxHttp = 1  MaxTears = 2  MaxFaults = 1
INVARIANTS  ProcessedOnce AnsweredUnlessTorn CreatedOnce NoMutualWait
CHECK_DEADLOCK FALSE
