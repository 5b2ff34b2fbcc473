SPECIFICATION FairSpec
CONSTANTS
  Maximize = TRUE
  MaxEvaluations = 3
  MaxIterations = 2
  PollDirections = 2
  InitialSteps = 1
  EvalsPerIteration = 2
  VfsaParallel = TRUE
  InitialGuesses = 2
  PopulationSize = 2
  ChromosomeCount = 2
  Nx = 3
  Ny = 2
  MaxHybridIterations = 3
  ComponentGenerations = 1
  Types <- MCTypes
  HybridTypes <- MCHybridTypes
  WorkerCounts <- MCWorkerCounts
  Values <- MCValues
  BaseValue = 1
  Sentinel = 1
  MaxCalls = 4
INVARIANTS
  RunTypeOK
  RunBestDominates
  NeverWithoutCase
  NothingLeftBehind
  OverspendKnown
PROPERTIES
  NeverLosesBest
  RunImplementsContract
  RunTerminates
CHECK_DEADLOCK FALSE
