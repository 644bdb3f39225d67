SPECIFICATION Spec
CONSTANTS
  Entries = {"chat", "reset", "pop_last", "clear_kv", "clear"}
  MaxToolHops = 3
  MaxIncompleteRetries = 1
  MaxParallelCalls = 2
  ParallelToolCalls = FALSE
  RetryOnIncomplete = TRUE
  HasTools = TRUE
  HasSystem = TRUE
  NCtx = 12
  NBatch = 2
  StopPct = 100
  MaxNewTokens = 2
  AddBos = TRUE
  StripsOldThinking = TRUE
  BackendMayFail = FALSE
  ClientHistories <- FirstTurn
  MaxHistory = 4
CHECK_DEADLOCK FALSE
INVARIANTS
  TypeOK
PROPERTIES
  StepsLikeAgentTurn
