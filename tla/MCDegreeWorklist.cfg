CONSTANTS
  N = 4
  Degrees <- MCDegrees
  Exact = {TRUE, FALSE}
  Tile = 8
  TailShare = 4
  Lanes = 16
  MaxBlock = 2
  Junk <- MCJunk
SPECIFICATION Spec
INVARIANTS
  WorklistSorted
  WithinWorklist
  RowsComplete
  PartitionsDisjoint
CHECK_DEADLOCK FALSE
