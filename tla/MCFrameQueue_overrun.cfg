CONSTANTS
  MAX_QUEUE = 4
  PipeSize = 5
  Frames = 11
  UsesAckTimer = TRUE
SPECIFICATION QueueSpec
CHECK_DEADLOCK FALSE
PROPERTY ReadsIntoRoom
