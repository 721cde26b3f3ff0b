CONSTANTS
  MaxPkt = 2
  MayLose = FALSE
  MayGarble = TRUE
  MaxInFlight = 3
SPECIFICATION Spec
PROPERTY WaitsForAPacket
