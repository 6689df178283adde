SPECIFICATION Spec
CONSTANTS
  n1 = n1
  n2 = n2
  n3 = n3
  t1 = t1
  t2 = t2
  g = g
  j = j
  k = k
  u = u
  v = v
  Node = {n1, n2, n3}
  Thread = {t1, t2}
  Listens <- Chain
  Key = {g, j, k}
  Value = {u, v}
  NoValue = NoValue
  None = None
  Request <- Reqs
  Owner <- Owners
  Size <- Sizes
  BufSize = 3
  MaxChanges = 2
  MaxPings = 1
  MaxFaults = 1
CHECK_DEADLOCK FALSE
 
PROPERTIES Arrives Reconnects
