\* All four buffering policies; two buffers, five frames.
SPECIFICATION FMSpec
CONSTANTS
  BufferNum = 2
  SkipRates = {0, 1, 3}
  MaxFrames = 5
INVARIANTS
  SlotsConserved
  EveryFrameAccounted
  NoStrandedFrame
PROPERTIES
  EvictsOldest
