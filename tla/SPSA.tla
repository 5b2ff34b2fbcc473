--------------------------------- MODULE SPSA ----------------------------------
(***************************************************************************)
(* Optimizers::SPSA, simultaneous perturbation stochastic approximation: a *)
(* pair of perturbations of the estimate is evaluated in every iteration.  *)
(* Whether a pair can be made to satisfy the constraints depends on random *)
(* directions; an iteration without a valid pair is skipped.               *)
(*                                                                         *)
(* pair is {} when perturbations_ holds cases that were never enqueued;    *)
(* done are those of the pair whose state is E_DONE or E_BOOKKEEPED.       *)
(***************************************************************************)
EXTENDS Optimizer

NewSPSA(b) ==
  [type |-> "SPSA", best |-> b, iteration |-> 0, evaluated |-> 0,
   pair |-> {}, done |-> {}, ready |-> FALSE]

SPSAFinished(o, s) ==
  /\ Pending(s.book) = {}
  /\ o.iteration >= MaxIterations

(* Had a pair been needed in the first iteration too.                      *)
SPSABlockedAtFirst(o) == o.iteration >= MaxIterations \/ ~o.ready

(* iterate returns without doing anything.                                 *)
SPSABlocked(o) ==
  \/ o.iteration >= MaxIterations
  \/ ~o.ready /\ o.iteration # 0

(* The iterations in which a valid pair may be found: the skipped ones are *)
(* recursive calls, which are blocked when no pair was ever evaluated.     *)
SPSAReach(o) ==
  IF o.iteration = 0 THEN {1} ELSE (o.iteration + 1)..MaxIterations

SPSALast(o) == IF o.iteration = 0 THEN 1 ELSE MaxIterations

SPSAIterate(o, s) ==
  IF SPSABlocked(o) THEN {Result(o, s)}
  ELSE {Result([o EXCEPT !.iteration = k, !.ready = FALSE,
                         !.pair = {NewCase(s, 1), NewCase(s, 2)},
                         !.done = {}],
               Enqueue(s, 2)) : k \in SPSAReach(o)}
       \cup {Result([o EXCEPT !.iteration = SPSALast(o), !.pair = {},
                                !.done = {}], s)}

(* ok: the evaluation was successful.                                      *)
SPSAHandle(o, s, c, ok) ==
  LET done == IF ok THEN o.done \cup {c} ELSE o.done
  IN  {[Improved(o, s, c) EXCEPT !.done = done,
                                 !.ready = @ \/ done = o.pair]}
================================================================================
