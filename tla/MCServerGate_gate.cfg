SPECIFICATION FairSpec
CONSTANTS
  r1 = r1
  r2 = r2
  r3 = r3
  m1 = m1
  m2 = m2
  Requests <- ThreeRequests
  Models <- TwoModels
  Presets <- TwoPresets
  Asks <- FourAsks
  Verbose = FALSE
CHECK_DEADLOCK FALSE
INVARIANTS
  EngineIsProtected
  ServedAsAsked
  StreamHearsItself
  CancelIsOwn
  AnswersNameTheirModel
PROPERTIES
  AdmittedAreAnswered
