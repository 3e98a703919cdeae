SPECIFICATION FairSpec
CONSTANTS
  Threads = {t1, t2}
  Observers = {o1, o2}
  Care = {TRUE, FALSE}
  MaxCalls = 5
  MaxFrames = 2
INVARIANTS
  RegisteredRuns
  NoUseAfterDelete
  QuietWhenStopped
  NoCircularWait
PROPERTY
  StopReturns
