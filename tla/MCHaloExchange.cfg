CONSTANTS
  E = 3
  W = 2
  Cols <- MCCols
  Fields = {"x", "y"}
  Widths <- MCWidths
  Program <- MCProgram
  Workers = 1
  Buffers = {0, 1}
  Transports = {"tcp", "pipe"}
  MaxFaults = 1
SPECIFICATION Spec
CHECK_DEADLOCK FALSE
INVARIANTS
  CallsExact
  FailsOnlyAfterFault
  ComputeFailureStaysLocal
PROPERTIES
  RanksEnd
