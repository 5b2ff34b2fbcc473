----------------------------- MODULE CompassSearch -----------------------------
(***************************************************************************)
(* Optimizers::CompassSearch, the synchronous sibling of APPS: it polls    *)
(* all directions around the best case and contracts all step lengths      *)
(* after an iteration without improvement.  Step lengths are equal in all  *)
(* directions; steps counts the contractions that are left before they     *)
(* fall below the tolerance.                                               *)
(***************************************************************************)
EXTENDS Optimizer

CONSTANTS
  PollDirections,   \* number of directions, twice that of variables
  InitialSteps      \* contractions from the first length to convergence

ASSUME CompassAssumption ==
  /\ PollDirections \in Nat \ {0}
  /\ InitialSteps \in Nat

NewCompassSearch(b) ==
  [type |-> "Compass", best |-> b, iteration |-> 0, evaluated |-> 0,
   steps |-> InitialSteps]

CompassFinished(o, s) ==
  /\ Idle(s)
  /\ o.evaluated >= MaxEvaluations \/ o.steps = 0

IsSuccessfulIteration(o, s) == o.best \in s.book.recent

CompassIterate(o, s) ==
  LET contracts == ~IsSuccessfulIteration(o, s) /\ o.iteration # 0
      polled    == Enqueue(s, PollDirections)
  IN  {Result([o EXCEPT !.steps = IF contracts THEN @ - 1 ELSE @,
                        !.iteration = @ + 1],
              [polled EXCEPT !.book = ClearRecentlyEvaluatedCases(@)])}

CompassHandle(o, s, c) == {Improved(o, s, c)}
================================================================================
