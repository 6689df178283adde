SPECIFICATION Spec
CONSTANTS
  t1 = t1  t2 = t2  t3 = t3  b1 = b1  b2 = b2  b3 = b3  b4 = b4
  Null = Null  Empty = Empty  NoItem = NoItem
  Thread <- Threads  Block <- Blocks  HashOf <- Hashes  Script <- Scripts
  InitialBlocks <- Pool
  HashSize = 2  BlockSize = 2  IndexSize = 2  MaxFailures = 1
INVARIANTS TypeOK TakenOnce ThreadFIFO NoBlockLost EmptySlot
CHECK_DEADLOCK FALSE
