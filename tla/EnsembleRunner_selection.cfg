SPECIFICATION EnsembleSpec
CONSTANTS
  NumWorkers = 2
  NumRealizations = 3
  Positions <- MCPositions
  Outcomes <- MCOutcomes
  Calls <- MCCalls
  Selects <- MCSelects
INVARIANTS
  EveryRealizationSelectable
