SPECIFICATION FairEvaluationSpec
CONSTANTS
  Settings <- MCSettings
  NumCases = 3
  ShortestTimeout = 1
  DefaultTimeout = 2
  LongestScript = 3
INVARIANTS
  MaxMinutesRespected
CHECK_DEADLOCK FALSE
