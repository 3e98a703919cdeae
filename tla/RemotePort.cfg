SPECIFICATION FairSpec
CONSTANTS
  Sharing = {TRUE, FALSE}
  Refused = {"Open", "Start", "Stop", "Close", "Monitor"}
  MaxFrames = 2
  MaxCalls = 4
  MaxFaults = 1
INVARIANTS
  MappedWhileHeld
  StatesAgree
  FramesAccounted
PROPERTIES
  FramesComeBack
  CallsReturn
