SPECIFICATION FairSpec
CONSTANTS
  s1 = s1
  s2 = s2
  Streams = {s1, s2}
  Policy <- PolicyOf
  BufferNum = 1
  MaxFrames = 4
  MaxBatch = 2
INVARIANTS
  NoOrphan
  ArrivedOnlyIfStarted
PROPERTIES
  ImplementsOwnership
  EveryFrameComesBack
