CONSTANTS
  Ids = {i1, i2, i3}
  Blocks = {b1, b2}
  WeightViews = FALSE
  Graphs = {g1, g2}
  Addresses = {a1, a2}
  Slots = {s1, s2}
  None = None
  Kernels = {"weighted", "distance", "edge_nn", "vjp"}
  NeedsPositions = TRUE
  Sharing = {"distance", "edge_nn"}
  MaxEntries = 1
  MaxClock = 3
SYMMETRY Symmetry
SPECIFICATION Spec
CHECK_DEADLOCK FALSE
INVARIANTS
  CallsCurrent
  GradientsCurrent
  GradientsKept
