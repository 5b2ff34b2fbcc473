SPECIFICATION FairEnsembleSpec
CONSTANTS
  NumWorkers = 2
  NumRealizations = 2
  Positions <- MCPositions
  Outcomes <- MCOutcomes
  Calls <- MCCalls
  Selects <- MCSelects
INVARIANTS
  EnsembleTypeOK
  RealizationsOut
  CompositeIsComplete
  BindingsBounded
  EnsembleNeverThrows
PROPERTIES
  EnsembleShutdown
