--------------------------- MODULE MCOptimizationRun ---------------------------
(* Instances of OptimizationRun for TLC.                                   *)
EXTENDS OptimizationRun

MCTypes ==
  {"Compass", "VFSA", "SPSA", "EGO", "PSO", "CMA_ES", "RGARDD",
   "Exhaustive", "Hybrid"}

(* One optimizer, for the question about it alone.                         *)
MCGeneticTypes == {"RGARDD"}

MCHybridTypes ==
  {<<"Compass", "RGARDD">>, <<"RGARDD", "EGO">>}

MCWorkerCounts == {1, 2}

(* As good as the base case, or better.                                    *)
MCValues == {1, 2}
================================================================================
