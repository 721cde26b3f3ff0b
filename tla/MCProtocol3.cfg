CONSTANTS
  MaxPkt = 2
  MayLose = TRUE
  MayGarble = TRUE
  MaxInFlight = 5
SPECIFICATION FairSpec
INVARIANTS
  TypeOK
  OneBitIsEnough
  TimerRuns
PROPERTIES
  DeliversStream
  Progress
