------------------------- MODULE ExhaustiveSearch2DVert ------------------------
(***************************************************************************)
(* Optimizers::ExhaustiveSearch2DVert: every block of a layer, in one      *)
(* iteration.  iteration_ is never incremented, so that the search is      *)
(* never finished and starts again when the queue is empty; the empty      *)
(* handleEvaluatedCase leaves the base case the tentative best case.       *)
(***************************************************************************)
EXTENDS Optimizer

CONSTANTS Nx, Ny   \* grid dimensions; both loops stop short of the last block

ASSUME GridAssumption == Nx \in Nat /\ Ny \in Nat /\ Nx > 1 /\ Ny > 1

NewExhaustive(b) ==
  [type |-> "Exhaustive", best |-> b, iteration |-> 0, evaluated |-> 0]

ExhaustiveFinished(o, s) == o.iteration # 0 /\ s.book.queue = {}

ExhaustiveIterate(o, s) ==
  IF o.iteration > 0 THEN {Result(o, s)}
  ELSE {Result(o, Enqueue(s, (Nx - 1) * (Ny - 1)))}

ExhaustiveHandle(o, s, c) == {o}
================================================================================
