CONSTANTS
  N = 3
  Streams = {s1, s2}
  Plans <- MCPlans
  Providers = {"sync", "cuda"}
SPECIFICATION Spec
CHECK_DEADLOCK FALSE
INVARIANTS
  ReadyMeansDone
PROPERTIES
  ImplementsLaunchOrder
