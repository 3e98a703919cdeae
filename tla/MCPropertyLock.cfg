SPECIFICATION Spec
CONSTANTS
  Streams = {s1, s2}
  Threads = {t1, t2, t3}
  Keys <- KeysOf
  Rank <- RankOf
  Callbacks = {"lock", "unlock"}
  MaxCalls = 4
SYMMETRY Symmetry
INVARIANTS
  LocksExclusive
  LocksAccounted
  WaitersAreBlocked
  NoCircularWait
