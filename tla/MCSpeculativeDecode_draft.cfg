SPECIFICATION Spec
CONSTANTS
  PromptLengths = {1, 3}
  NCtx = 5
  NDraftMax = 2
  Budgets = {0, 3}
  BackendMayFail = TRUE
CHECK_DEADLOCK FALSE
INVARIANTS
  CachesAgree
PROPERTIES
  ShowsWhatPlainDecodingShows
