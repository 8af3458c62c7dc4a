CONSTANTS
  a = a
  b = b
  Callers = {a, b}
  MaxRequests = 4
  MaxFaults = 3
SPECIFICATION WorkerSpec
CHECK_DEADLOCK FALSE
INVARIANTS
  WorkerOK
PROPERTIES
  OwnAnswer
  CompileEnds
