SPECIFICATION Spec
CONSTANTS
  Thread = {t1, t2}
  None = None
  Key = {k1, k2}
  Pinned = {k2}
  BadTitle = {}
  MaxCalls = 2
  MaxRenders = 2
  MaxTicks = 2
  MaxCrashes = 1
CHECK_DEADLOCK FALSE
SYMMETRY Threads
INVARIANTS
  StoreIsSafe
  LearnedIsKept
  CacheIsCurrent
PROPERTIES
  KnownPinnedIsKept
