SPECIFICATION FairSpec
CONSTANTS
  MaxPrompts = 3
  MaxCompactions = 1
  MaxToolHops = 2
  MaxCalls = 2
  MaxItems = 2
  MaxKeys = 2
CHECK_DEADLOCK FALSE
INVARIANTS
  ThreadsAgree
  InterruptIsOwn
  PromptsAreKept
PROPERTIES
  QueuedAreSent
