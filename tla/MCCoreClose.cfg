SPECIFICATION FairSpec
CONSTANTS
  Threads = {t1, t2, t3}
  Addresses = {a1, a2}
  Ports <- PortsOf
  Keys <- KeysOf
  Configs <- OnePort
  Usages <- OneUsage
  SharedClose = FALSE
  MaxCalls = 5
PROPERTY
  CallsReturn
