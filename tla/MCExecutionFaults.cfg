CONSTANTS
  t1 = t1
  t2 = t2
  t3 = t3
  b1 = b1
  b2 = b2
  b3 = b3
  NoBuffer = NoBuffer
  Tensors <- TwoTensors
  Buffers <- ThreeBuffers
  Size <- TwoSize
  Pages <- MCPages
  MaxSize = 2
  RamBudget = 2
  NvmeBudget = 3
  MaxLeaked = 3
  GcInReserve = TRUE
  IoMayFail = TRUE
  LaunchMayFail = TRUE
  AutoBackend = TRUE
SPECIFICATION FairSpec
INVARIANTS
  BudgetRespected
PROPERTIES
  OperationsEnd
