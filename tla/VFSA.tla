--------------------------------- MODULE VFSA ----------------------------------
(***************************************************************************)
(* Optimizers::VFSA, very fast simulated annealing.  Perturbations and the *)
(* acceptance of worse cases are random.                                   *)
(***************************************************************************)
EXTENDS Optimizer

CONSTANTS
  EvalsPerIteration,  \* vfsa_evals_pr_iteration
  VfsaParallel        \* vfsa_parallel: enqueue an iteration at a time?

ASSUME VFSAAssumption ==
  /\ EvalsPerIteration \in Nat \ {0}
  /\ VfsaParallel \in BOOLEAN

NewVFSA(b) ==
  [type |-> "VFSA", best |-> b, iteration |-> 0, evaluated |-> 0, evals |-> 0]

VFSAFinished(o, s) ==
  /\ Pending(s.book) = {}
  /\ o.iteration > MaxIterations

VFSABatch == IF VfsaParallel THEN EvalsPerIteration ELSE 1

(* Had the counter of an iteration not been reset.                         *)
VFSAIterateWithoutReset(o, s) ==
  {Result(IF o.evals = EvalsPerIteration
            THEN [o EXCEPT !.iteration = @ + 1]
            ELSE o,
          Enqueue(s, VFSABatch))}

VFSAIterate(o, s) ==
  {Result(IF o.evals = EvalsPerIteration
            THEN [o EXCEPT !.iteration = @ + 1, !.evals = 0]
            ELSE o,
          Enqueue(s, VFSABatch))}

VFSAHandle(o, s, c) ==
  LET counted == [o EXCEPT !.evals = @ + 1]
  IN  {UpdateTentativeBestCase(counted, c)} \cup
      (IF IsImprovement(o, s, c) THEN {} ELSE {counted})
================================================================================
