CONSTANTS
  Launchers = {first, second}
  Nobody = nobody
  Elements = {0, 1, 4, 5, 11}
  T = 4
  V = 2
  Large = 4
  MaxLaunches = 4
SPECIFICATION PoolSpec
CHECK_DEADLOCK FALSE
INVARIANTS
  JobsStable
  ElementsOnce
PROPERTIES
  LaunchEnds
