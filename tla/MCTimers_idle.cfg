CONSTANTS
  NR_TIMERS = 3
  DELTA = 3
  AUX = 2
  UINT_MAX = 255
  timeout_interval = 6
  MaxStarts = 3
  LastTick = 12
SPECIFICATION Spec
CHECK_DEADLOCK FALSE
PROPERTY IdleMeansNothing
