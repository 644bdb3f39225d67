SPECIFICATION FairSpec
CONSTANTS
  Caller = {c1, c2}
  None = None
  Shards = 2
  MaxDownloads = 3
  MaxDeletes = 1
  MaxCrashes = 1
CHECK_DEADLOCK FALSE
INVARIANTS
  DownloadsAreSafe
  DoneHasArrived
  CancelIsOwn
PROPERTIES
  CancelStops
