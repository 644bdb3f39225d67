SPECIFICATION FairSpec
CONSTANTS
  Starter = {s1, s2}
  None = None
  Ttl = 0
  MaxTime = 1
  MaxFetches = 3
  MaxCrashes = 1
CHECK_DEADLOCK FALSE
INVARIANTS
  RefreshIsSafe
PROPERTIES
  DiskFollowsMemory
  RefreshEnds
