SPECIFICATION FairSpec
CONSTANTS
  NumVars = 1
  MaxQueueLen = 4
  MaxEvals = 3
  InitLevel = 1
  Expansion = 0
  HasBounds = FALSE
  TopLevel = 1
  Workers = 2
  Values <- MCValues
INVARIANTS
  MaxEvaluationsRespected
