SPECIFICATION FairSpec
CONSTANTS
  MaxToolHops = 3
  MaxIncompleteRetries = 2
  HttpRetries = 1
  RetryOnIncomplete = TRUE
  StopAtCtx = TRUE
  SendPromptProgress = TRUE
  ReasoningCap = 1
  Entries = {"chat", "chat_continue", "cancel", "clear", "load"}
  SavedHistories <- OneExchange
  MaxEvents = 6
  MaxHistory = 3
CHECK_DEADLOCK FALSE
INVARIANTS
  WithinBudgets
  TurnIsOneResponse
  EarlierTurnsKept
  IncompleteLeavesNoTrace
  ToolMessagesAnswerCalls
  OneNudgePerCall
PROPERTIES
  StepsLikeAgentTurn
  EveryCallReturns
