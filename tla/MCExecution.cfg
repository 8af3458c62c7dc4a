CONSTANTS
  t1 = t1
  t2 = t2
  t3 = t3
  b1 = b1
  b2 = b2
  b3 = b3
  NoBuffer = NoBuffer
  Tensors <- MCTensors
  Buffers <- ThreeBuffers
  Size <- MCSize
  Pages <- MCPages
  MaxSize = 2
  RamBudget = 3
  NvmeBudget = 2
  MaxLeaked = 1
  GcInReserve = FALSE
  IoMayFail = TRUE
  LaunchMayFail = FALSE
  AutoBackend = TRUE
SYMMETRY Symmetry
SPECIFICATION Spec
INVARIANTS
  AccountingExact
  NoValueLost
  InputsResident
  PinsBalanced
PROPERTIES
  PinnedStayResident
