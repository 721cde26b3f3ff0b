CONSTANTS
  Timeout = 1
  MaxPkt = 1
  MayLose = TRUE
SPECIFICATION Spec
CHECK_DEADLOCK FALSE
INVARIANT StatisticsInBothPipes
