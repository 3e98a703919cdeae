\* Every external call may fail.
SPECIFICATION FairSpec
CONSTANTS
  Threads = {t1, t2, t3}
  FailingCalls = {"OpenComponent", "OpenPort", "OpenExtension", "StartPort", "StopPort", "CloseExtension", "ClosePort", "CloseComponent"}
  MaxCalls = 4
  MaxFrames = 1
INVARIANTS
  StateFunctionsExclusive
  ReleaseReachesComponent
  StateMatchesResources
  NoLostWakeup
PROPERTY
  StateFunctionsReturn
