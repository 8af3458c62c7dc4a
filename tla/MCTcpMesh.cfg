CONSTANTS
  zero = zero
  one = one
  two = two
  twin = twin
  stranger = stranger
  Procs <- Everyone
  Host = one
  WorldSize = 3
  RankOf <- MCRankOf
  WorldOf <- MCWorldOf
  Patience = {TRUE, FALSE}
SPECIFICATION MeshSpec
CHECK_DEADLOCK FALSE
INVARIANTS
  MeshOK
PROPERTIES
  EveryoneReturns
  WorldComesUp
