SPECIFICATION FairEvaluationSpec
CONSTANTS
  Settings <- MCSettings
  NumCases = 3
  ShortestTimeout = 1
  DefaultTimeout = 2
  LongestScript = 1
INVARIANTS
  EvaluationTypeOK
  KillsOwnChild
  OutcomeIsTrue
  OwnResults
  OverrunBounded
PROPERTIES
  EveryCaseEvaluated
CHECK_DEADLOCK FALSE
