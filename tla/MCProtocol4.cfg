CONSTANTS
  MaxPkt = 2
  MayLose = TRUE
  MayGarble = TRUE
  MaxInFlight = 4
SPECIFICATION FairSpec
INVARIANTS
  TypeOK
  NoProtocolError
  AlternatingBitWorks
  TimerRuns
PROPERTIES
  DeliversStream
  Progress
