----------------------------- MODULE CaseLifecycle -----------------------------
(***************************************************************************)
(* What the optimizers and the runners together promise about every trial  *)
(* case: it enters the book once, waits in the queue, is handed out in     *)
(* FIFO order, is evaluated exactly once, and leaves the queue unevaluated *)
(* only by being discarded.  A case that is handed out is never lost.      *)
(* A step may move several cases: submitting one result lets an optimizer  *)
(* discard queued cases and enqueue new ones.                              *)
(***************************************************************************)
EXTENDS CaseHandler

VARIABLE stage    \* the stage of every case created so far

(* How far along its life a case may get in one step.  A case found by the *)
(* bookkeeper is handed out and evaluated in the same step, and with it    *)
(* the rest of its batch may be discarded.                                 *)
Reachable(s) ==
  CASE s = "new"        -> {"queued", "evaluating", "evaluated", "discarded"}
    [] s = "queued"     -> {"queued", "evaluating", "evaluated", "discarded"}
    [] s = "evaluating" -> {"evaluating", "evaluated"}
    [] s = "evaluated"  -> {"evaluated"}
    [] s = "discarded"  -> {"discarded"}

Stage(st, c) == IF c \in DOMAIN st THEN st[c] ELSE "new"

HandedOut(c) ==
  /\ Stage(stage, c) \in {"new", "queued"}
  /\ stage'[c] \in {"evaluating", "evaluated"}

(* Some optimizers enqueue cases when they are constructed.                *)
Init ==
  /\ BaseCase \in DOMAIN stage
  /\ stage = [c \in DOMAIN stage |->
                IF c = BaseCase THEN "evaluated" ELSE "queued"]

Advance ==
  /\ DOMAIN stage \subseteq DOMAIN stage'
  /\ \A c \in DOMAIN stage' : stage'[c] \in Reachable(Stage(stage, c))
     (* First in, first out: what is handed out is older than what stays.  *)
  /\ \A c, d \in DOMAIN stage' :
        HandedOut(c) /\ stage'[d] = "queued" => Before(c, d)

Spec == Init /\ [][Advance]_stage
================================================================================
