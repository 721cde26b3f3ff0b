CONSTANTS
  MAX_SEQ = 2
  MaxPkt = 5
  MayLose = FALSE
  MayGarble = TRUE
  MaxInFlight = 2
SPECIFICATION FairSpec
INVARIANTS
  WindowsAgree
  FramesUnambiguous
  AcksAreTrue
  TimersMatchWindow
PROPERTIES
  DeliversStream
  Progress
