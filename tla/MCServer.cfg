SPECIFICATION Spec
CONSTANTS
  p1 = p1
  p2 = p2
  s1 = s1
  Primaries = {p1, p2}
  Secondaries = {s1}
  Worlds <- TwoWorlds
  Fails = {"Open", "Listen", "Start", "CloseStream", "Monitor"}
  MaxOpens = 1
  MaxStreams = 2
INVARIANTS
  NoUseAfterDelete
  CloseReleasesClients
  OpenStreamsOwned
  GoesOn
  StuckOnlyByLock
CHECK_DEADLOCK FALSE
