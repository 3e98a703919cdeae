SPECIFICATION Spec
CONSTANTS
  Threads = {t1, t2}
  Observers = {o1, o2}
  Care = {FALSE}
  MaxCalls = 4
  MaxFrames = 2
INVARIANT
  NeverCircularWait
