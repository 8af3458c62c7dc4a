CONSTANTS
  PageCount = 4
  Depth = 2
  Bytes <- MCBytes
  Budgets <- MCBudgets
  Policies = {"error", "lru"}
  LoadMayFail = TRUE
SPECIFICATION PagedSpec
CHECK_DEADLOCK FALSE
INVARIANTS
  RunOK
  LostOnlyByEviction
PROPERTIES
  RunEnds
