SPECIFICATION FairMPISpec
CONSTANTS
  NumWorkers = 3
  Calls <- MCCalls
  Positions <- MCPositions
  Outcomes <- MCOutcomes
INVARIANTS
  MPITypeOK
  BusyMeansOneCaseOut
  SimulatedOnce
  NeverThrows
  CleanShutdown
PROPERTIES
  LifecycleSpec
  Shutdown
