SPECIFICATION FairSpec
CONSTANTS
  NumVars = 1
  MaxQueueLen = 4
  MaxEvals = 5
  InitLevel = 1
  Expansion = 0
  HasBounds = FALSE
  TopLevel = 1
  Workers = 2
  Values <- MCValues
INVARIANTS
  TypeOK
  ActiveMeansPending
  NeverEmptyHanded
  BestDominates
  ConvergedMeansPolled
  OvershootBounded
PROPERTIES
  BestImproves
  ContractSpec
  Termination
