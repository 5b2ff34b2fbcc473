------------------------------ MODULE CaseHandler ------------------------------
(***************************************************************************)
(* Optimization::CaseHandler, the book of cases of one optimisation run:   *)
(* which trial cases wait in the evaluation queue, which are being         *)
(* evaluated, which have been.  Its operations are written as functions of *)
(* the book, because a handler of an optimizer performs several of them in *)
(* one step (submit, discard, enqueue); the modules that use a book keep   *)
(* it in a variable of their own.                                          *)
(*                                                                         *)
(* A case is named by the call of AddNewCases that queued it and by its    *)
(* position in the list of that call (the code uses random UUIDs).  A case *)
(* is enqueued once, when it is created, so the order of the FIFO queue is *)
(* the lexicographic order of these names and the queue can be a set.      *)
(***************************************************************************)
EXTENDS Integers

Case == Nat \X Nat

(* The base case, evaluated before the optimizer is constructed.           *)
BaseCase == <<0, 0>>

(* c was enqueued before d.                                                *)
Before(c, d) ==
  \/ c[1] < d[1]
  \/ c[1] = d[1] /\ c[2] < d[2]

Book ==
  [queue      : SUBSET Case,   \* evaluation_queue_
   evaluating : SUBSET Case,   \* evaluating_
   evaluated  : SUBSET Case,   \* evaluated_
   discarded  : SUBSET Case,   \* state.queue = Q_DISCARDED
   recent     : SUBSET Case,   \* evaluated_recently_
   calls      : Nat \ {0}]     \* number of the next call of AddNewCases

Pending(h) == h.queue \cup h.evaluating
Known(h) == Pending(h) \cup h.evaluated \cup h.discarded

(* Every case is at one place of the book and came from an earlier call.   *)
Consistent(h) ==
  /\ h \in Book
  /\ BaseCase \in h.evaluated
  /\ h.queue \cap h.evaluating = {}
  /\ Pending(h) \cap h.evaluated = {}
  /\ (Pending(h) \cup h.evaluated) \cap h.discarded = {}
  /\ \A c \in Known(h) : c[1] < h.calls

(* The book an optimizer starts from.                                      *)
NewBook ==
  [queue |-> {}, evaluating |-> {}, evaluated |-> {BaseCase},
   discarded |-> {}, recent |-> {}, calls |-> 1]

Batch(h, positions) == {h.calls} \X positions

AddNewCases(h, positions) ==
  [h EXCEPT !.queue = @ \cup Batch(h, positions), !.calls = @ + 1]

(* Had the queue been a stack.                                             *)
IsLast(h, c) == c \in h.queue /\ \A d \in h.queue \ {c} : Before(d, c)

(* The head of the queue; the code throws when the queue is empty, so each *)
(* use of GetNextCaseForEvaluation has a head as its argument.             *)
IsHead(h, c) == c \in h.queue /\ \A d \in h.queue \ {c} : Before(c, d)

(* Had the head been read without being dequeued.                          *)
PeekNextCaseForEvaluation(h, c) == [h EXCEPT !.evaluating = @ \cup {c}]

GetNextCaseForEvaluation(h, c) ==
  [h EXCEPT !.queue = @ \ {c}, !.evaluating = @ \cup {c}]

(* The code throws unless c is being evaluated.                            *)
SetCaseEvaluated(h, c) ==
  [h EXCEPT !.evaluating = @ \ {c}, !.evaluated = @ \cup {c},
            !.recent = @ \cup {c}]

DequeueCases(h, cs) ==
  [h EXCEPT !.queue = @ \ cs, !.discarded = @ \cup cs]

ClearRecentlyEvaluatedCases(h) == [h EXCEPT !.recent = {}]

(* The stage of every case of a book (see CaseLifecycle).                  *)
StageOf(h) ==
  [c \in Known(h) |->
     IF c \in h.queue THEN "queued"
     ELSE IF c \in h.evaluating THEN "evaluating"
     ELSE IF c \in h.evaluated THEN "evaluated"
     ELSE "discarded"]
================================================================================
