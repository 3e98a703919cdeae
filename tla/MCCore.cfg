SPECIFICATION Spec
CONSTANTS
  Threads = {t1, t2, t3}
  Addresses = {a1, a2}
  Ports <- PortsOf
  Keys <- KeysOf
  Configs <- OneConfig
  Usages <- AnyUsage
  SharedClose = TRUE
  MaxCalls = 6
SYMMETRY Symmetry
INVARIANTS
  FunctionsExclusive
  WaitersAreBlocked
  NoUseAfterDelete
  CloseMeansClosed
