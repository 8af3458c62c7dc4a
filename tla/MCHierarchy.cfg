CONSTANTS
  a = a
  b = b
  v = v
  ram = ram
  nvme = nvme
  device = device
  Clients = {a, b}
  Values = {v}
  Size <- MCSize
  Tiers <- AllTiers
  FileTiers = {nvme}
  DeviceTiers = {device}
  Budget <- MCBudget
  Workers = 2
  MayFail = TRUE
  SharedSource = FALSE
  MaxInstances = 3
  MaxTransfers = 2
  MaxWrites = 1
SPECIFICATION Spec
CHECK_DEADLOCK FALSE
INVARIANTS
  BytesOK
  TransfersUndisturbed
  NothingTorn
PROPERTIES
  Delivers
  CallsReturn
