SPECIFICATION FairSpec
CONSTANTS
  Threads = {t1, t2, t3}
  Counts = {0, 1}
  BufferNums = {1, 2}
  Careful = TRUE
  MaxGets = 2
  MaxCalls = 5
INVARIANTS
  WorkersAccounted
  QuietWhenStopped
PROPERTY
  StopReturns
