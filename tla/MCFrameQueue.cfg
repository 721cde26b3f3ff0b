CONSTANTS
  MAX_QUEUE = 4
  PipeSize = 5
  Frames = 11
  UsesAckTimer = FALSE
SPECIFICATION QueueSpec
CHECK_DEADLOCK FALSE
INVARIANTS
  QueueTypeOK
  CountMatchesPointers
PROPERTY IsFifo
