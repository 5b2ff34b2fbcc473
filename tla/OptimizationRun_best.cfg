SPECIFICATION Spec
CONSTANTS
  Maximize = TRUE
  MaxEvaluations = 4
  MaxIterations = 1
  PollDirections = 2
  InitialSteps = 1
  EvalsPerIteration = 2
  VfsaParallel = TRUE
  InitialGuesses = 2
  PopulationSize = 2
  ChromosomeCount = 4
  Nx = 3
  Ny = 2
  MaxHybridIterations = 3
  ComponentGenerations = 1
  Types <- MCGeneticTypes
  HybridTypes <- MCHybridTypes
  WorkerCounts <- MCWorkerCounts
  Values <- MCValues
  BaseValue = 1
  Sentinel = 1
  MaxCalls = 4
INVARIANT BestOfAll
