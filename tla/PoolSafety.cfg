SPECIFICATION Spec
CONSTANTS
  Thread = {t1, t2, t3}
  InitialSize = 1
  MaxPoolSize = 2
  MaxConnections = 2
  MaxIdleTime = 2
  CreatorThrows = TRUE
  MaxCreated = 6
  MaxTime = 4
SYMMETRY Threads
INVARIANTS Exclusive OvershootBounded UseCounted
PROPERTIES SweepComplete
