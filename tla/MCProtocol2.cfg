CONSTANTS
  Timeout = 2
  MaxPkt = 2
  MayLose = TRUE
SPECIFICATION FairSpec
CHECK_DEADLOCK FALSE
INVARIANTS
  TypeOK
  Handshake
  OneFrameOnTheLink
  StatisticsAtEnd
PROPERTIES
  DeliversStream
  DeadlockIsFound
  RunEnds
