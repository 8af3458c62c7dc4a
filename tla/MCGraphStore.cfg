CONSTANTS
  g1 = g1
  g2 = g2
  f1 = f1
  f2 = f2
  Processes = {p1, p2}
  Graphs = {g1, g2}
  Topology = {"csr"}
  None = None
  PidsReturn = FALSE
  Paths = {d1, d2}
  Pids = {i1, i2, i3}
  Fields = {f1, f2}
  Given <- TwoFields
  MaxOffloads = 1
  Active = {p1}
  MaxStarts = 1
  SaveStarts = 0
SYMMETRY Symmetry
VIEW Seen
SPECIFICATION Spec
CHECK_DEADLOCK FALSE
INVARIANTS
  StoresOK
  SavesExact
  OpenedStays
