SPECIFICATION Spec
CONSTANTS
  Thread = {t1}
  None = None
  Key = {k1, k2}
  Pinned = {k2}
  BadTitle = {k2}
  MaxCalls = 2
  MaxRenders = 0
  MaxTicks = 1
  MaxCrashes = 1
CHECK_DEADLOCK FALSE
PROPERTIES
  PinnedIsForever
