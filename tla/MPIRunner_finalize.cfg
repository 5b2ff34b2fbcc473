SPECIFICATION FairMPISpec
CONSTANTS
  NumWorkers = 2
  Calls <- MCCalls
  Positions <- MCPositions
  Outcomes <- MCOutcomes
INVARIANTS
  NoWorkerDies
