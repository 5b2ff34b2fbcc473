--------------------------- MODULE OptimizerContract ---------------------------
(***************************************************************************)
(* What a runner may rely on, whichever Optimization::Optimizer it drives: *)
(* cases are handed out in FIFO order; asking for a case with an empty     *)
(* queue makes the optimizer iterate, which yields at least one case;      *)
(* submitting a result may discard queued cases and enqueue new ones; and  *)
(* the optimizer is never finished while a case is out.                    *)
(*                                                                         *)
(* The runner keeps its side: it submits only what it was handed, and lets *)
(* the optimizer iterate only when no case is out.                         *)
(*                                                                         *)
(* evaluated_recently_ is the optimizer's own business and left empty.     *)
(***************************************************************************)
EXTENDS CaseHandler

CONSTANTS
  Positions,  \* positions a batch of new cases may fill
  Calls       \* numbers calls of AddNewCases may have: all, or a finite set
              \* that bounds what the optimizer enqueues

ASSUME PositionsAssumption == Positions \subseteq Nat /\ Positions # {}
ASSUME CallsAssumption == Calls \subseteq Nat

VARIABLES
  book,     \* case_handler_
  stopped   \* does the optimizer's own termination condition hold?

(* Had an optimizer not waited for the cases that are out.                 *)
IsFinishedEarly == stopped

IsFinished == stopped /\ book.evaluating = {}

(* The books an optimizer may make of h by enqueueing at most one batch.   *)
Grown(h) ==
  {h} \cup (IF h.calls \in Calls
              THEN {AddNewCases(h, ps) : ps \in (SUBSET Positions) \ {{}}}
              ELSE {})

Iterated(h) == {g \in Grown(h) : g.queue # {}}

(* handleEvaluatedCase, after c left the list of cases being evaluated.    *)
Handled(h, c) ==
  LET done == ClearRecentlyEvaluatedCases(SetCaseEvaluated(h, c))
  IN  UNION {Grown(DequeueCases(done, ds)) : ds \in SUBSET done.queue}

(* An optimizer with nothing pending is finished or able to iterate.       *)
Verdicts(h) ==
  IF Pending(h) = {} /\ h.calls \notin Calls THEN {TRUE} ELSE BOOLEAN

(* The books GetCaseForEvaluation takes the next case from.                *)
Suppliers == IF book.queue = {} THEN Iterated(book) ELSE {book}

--------------------------------------------------------------------------------
(* Some optimizers enqueue their first cases when they are constructed.    *)
Init ==
  /\ book \in Grown(NewBook)
  /\ stopped \in Verdicts(book)

GetCaseForEvaluation ==
  /\ ~IsFinished
  /\ book.queue = {} => book.evaluating = {}
  /\ \E g \in Suppliers : \E c \in g.queue :
       /\ IsHead(g, c)
       /\ book' = GetNextCaseForEvaluation(g, c)
  /\ IF book.queue = {} THEN stopped' \in BOOLEAN ELSE UNCHANGED stopped

SubmitEvaluatedCase ==
  \E c \in book.evaluating :
    /\ book' \in Handled(book, c)
    /\ stopped' \in Verdicts(book')

Next == GetCaseForEvaluation \/ SubmitEvaluatedCase

Spec == Init /\ [][Next]_<<book, stopped>>
================================================================================
