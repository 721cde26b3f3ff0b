CONSTANTS
  Values <- MCValues
  Inputs <- MCInputs
  MaxDepth = 2
SPECIFICATION Spec
CHECK_DEADLOCK FALSE
INVARIANTS
  TypeOK
  RoundTrip
  SameBytes
