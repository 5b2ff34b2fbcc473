SPECIFICATION FairSpec
CONSTANTS
  NumVars = 2
  MaxQueueLen = 4
  MaxEvals = 3
  InitLevel = 0
  Expansion = 0
  HasBounds = TRUE
  TopLevel = 1
  Workers = 2
  Values <- MCValues
INVARIANTS
  QueueBounded
PROPERTIES
  Termination
