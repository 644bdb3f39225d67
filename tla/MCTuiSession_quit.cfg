SPECIFICATION FairSpec
CONSTANTS
  MaxPrompts = 1
  MaxCompactions = 0
  MaxToolHops = 2
  MaxCalls = 2
  MaxItems = 2
  MaxKeys = 2
CHECK_DEADLOCK FALSE
PROPERTIES
  QuitEnds
