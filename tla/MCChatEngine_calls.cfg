SPECIFICATION FairSpec
CONSTANTS
  Entries = {"loop", "one"}
  MaxToolHops = 4
  MaxIncompleteRetries = 2
  MaxParallelCalls = 2
  ParallelToolCalls = TRUE
  RetryOnIncomplete = TRUE
  HasTools = TRUE
  HasSystem = TRUE
  NCtx = 12
  NBatch = 2
  StopPct = 95
  MaxNewTokens = 5
  AddBos = TRUE
  StripsOldThinking = TRUE
  BackendMayFail = TRUE
  ClientHistories <- Conversations
  MaxHistory = 0
CHECK_DEADLOCK FALSE
INVARIANTS
  WithinBudgets
  ToolMessagesAnswerCalls
  KvMirrorsPrompt
  NudgesAreCounted
  OutcomeMatchesTranscript
PROPERTIES
  ImplementsAgentTurn
