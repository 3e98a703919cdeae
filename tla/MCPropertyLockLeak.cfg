SPECIFICATION Spec
CONSTANTS
  Streams = {s1, s2}
  Threads = {t1, t2, t3}
  Keys <- KeysOf
  Rank <- RankOf
  Callbacks = {"lock"}
  MaxCalls = 3
INVARIANT
  ClosedHoldsNoLock
