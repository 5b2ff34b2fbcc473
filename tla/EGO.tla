---------------------------------- MODULE EGO ----------------------------------
(***************************************************************************)
(* BayesianOptimization::EGO, efficient global optimisation: initial       *)
(* guesses enqueued by the constructor, then one case per iteration.  The  *)
(* Gaussian process only decides where the next case lies.                 *)
(***************************************************************************)
EXTENDS Optimizer

CONSTANT InitialGuesses   \* n_initial_guesses_

ASSUME EGOAssumption == InitialGuesses \in Nat \ {0}

NewEGO(b, s) ==
  {Result([type |-> "EGO", best |-> b, iteration |-> 0, evaluated |-> 0],
          Enqueue(s, InitialGuesses))}

EGOFinished(o, s) ==
  /\ Idle(s)
  /\ o.evaluated > MaxEvaluations

EGOIterate(o, s) == {Result([o EXCEPT !.iteration = @ + 1], Enqueue(s, 1))}

EGOHandle(o, s, c) == {Improved(o, s, c)}
================================================================================
