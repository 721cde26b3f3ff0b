CONSTANTS
  MAX_SEQ = 3
  MaxPkt = 7
  Supply0 = 3
  Supply1 = 1
  MayLose = TRUE
  MayGarble = TRUE
  MaxInFlight = 2
SPECIFICATION FairSpec
INVARIANTS
  WindowsAgree
  FramesUnambiguous
  TimersMatchWindow
  OneNak
PROPERTIES
  DeliversStream
  EverythingArrives
