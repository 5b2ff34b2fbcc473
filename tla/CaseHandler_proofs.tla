--------------------------- MODULE CaseHandler_proofs --------------------------
(***************************************************************************)
(* The operations of a book keep it consistent; each lemma also says which *)
(* parts of the book its operation changes, so that the proofs about the   *)
(* modules that use a book need not expand its operations.                 *)
(***************************************************************************)
EXTENDS CaseHandler, TLAPS

(* GetNextCaseForEvaluation moves the head from the queue to the cases     *)
(* being evaluated.                                                        *)
LEMMA GetNextBook ==
  ASSUME NEW h, Consistent(h), NEW c \in h.queue,
         NEW g, g = GetNextCaseForEvaluation(h, c)
  PROVE  /\ Consistent(g)
         /\ Known(g) = Known(h)
         /\ Pending(g) = Pending(h)
         /\ g.queue = h.queue \ {c}
         /\ g.evaluating = h.evaluating \cup {c}
         /\ g.evaluated = h.evaluated
         /\ g.calls = h.calls
<1>1. /\ g \in Book
      /\ g.queue = h.queue \ {c}
      /\ g.evaluating = h.evaluating \cup {c}
      /\ g.evaluated = h.evaluated
      /\ g.discarded = h.discarded
      /\ g.calls = h.calls
  BY DEF Consistent, Book, GetNextCaseForEvaluation
<1>2. Pending(g) = Pending(h) /\ Known(g) = Known(h)
  BY <1>1 DEF Pending, Known
<1>3. Consistent(g)
  BY <1>1, <1>2 DEF Consistent
<1> QED BY <1>1, <1>2, <1>3

(* SetCaseEvaluated moves a case to the evaluated ones.                    *)
LEMMA EvaluatedBook ==
  ASSUME NEW h, Consistent(h), NEW c \in h.evaluating,
         NEW g, g = SetCaseEvaluated(h, c)
  PROVE  /\ Consistent(g)
         /\ Known(g) = Known(h)
         /\ Pending(g) = Pending(h) \ {c}
         /\ g.queue = h.queue
         /\ g.evaluating = h.evaluating \ {c}
         /\ g.evaluated = h.evaluated \cup {c}
         /\ g.calls = h.calls
<1>1. /\ g \in Book
      /\ g.queue = h.queue
      /\ g.evaluating = h.evaluating \ {c}
      /\ g.evaluated = h.evaluated \cup {c}
      /\ g.discarded = h.discarded
      /\ g.calls = h.calls
  BY DEF Consistent, Book, SetCaseEvaluated
<1>2. Pending(g) = Pending(h) \ {c} /\ Known(g) = Known(h)
  BY <1>1 DEF Pending, Known, Consistent
<1>3. Consistent(g)
  BY <1>1, <1>2 DEF Consistent, Pending
<1> QED BY <1>1, <1>2, <1>3

(* DequeueCases discards queued cases.                                     *)
LEMMA DequeuedBook ==
  ASSUME NEW h, Consistent(h), NEW cs \in SUBSET h.queue,
         NEW g, g = DequeueCases(h, cs)
  PROVE  /\ Consistent(g)
         /\ Known(g) = Known(h)
         /\ Pending(g) = Pending(h) \ cs
         /\ g.queue = h.queue \ cs
         /\ g.evaluating = h.evaluating
         /\ g.evaluated = h.evaluated
         /\ g.calls = h.calls
<1>1. /\ g \in Book
      /\ g.queue = h.queue \ cs
      /\ g.evaluating = h.evaluating
      /\ g.evaluated = h.evaluated
      /\ g.discarded = h.discarded \cup cs
      /\ g.calls = h.calls
  BY DEF Consistent, Book, DequeueCases
<1>2. Pending(g) = Pending(h) \ cs /\ Known(g) = Known(h)
  BY <1>1 DEF Pending, Known, Consistent
<1>3. Consistent(g)
  BY <1>1, <1>2 DEF Consistent, Pending
<1> QED BY <1>1, <1>2, <1>3

(* AddNewCases queues cases the book did not know.                         *)
LEMMA GrownBook ==
  ASSUME NEW h, Consistent(h), NEW ps \in SUBSET Nat,
         NEW g, g = AddNewCases(h, ps)
  PROVE  /\ Consistent(g)
         /\ Known(g) = Known(h) \cup Batch(h, ps)
         /\ Pending(g) = Pending(h) \cup Batch(h, ps)
         /\ Known(h) \cap Batch(h, ps) = {}
         /\ g.queue = h.queue \cup Batch(h, ps)
         /\ g.evaluating = h.evaluating
         /\ g.evaluated = h.evaluated
<1>1. /\ h.calls \in Nat \ {0}
      /\ h.calls + 1 \in Nat \ {0}
  BY DEF Consistent, Book
<1>2. \A c \in Batch(h, ps) : c \in Case /\ c[1] = h.calls
  BY <1>1 DEF Batch, Case
<1>3. /\ g \in Book
      /\ g.queue = h.queue \cup Batch(h, ps)
      /\ g.evaluating = h.evaluating
      /\ g.evaluated = h.evaluated
      /\ g.discarded = h.discarded
      /\ g.calls = h.calls + 1
  BY <1>1, <1>2 DEF Consistent, Book, AddNewCases
<1>4. Pending(g) = Pending(h) \cup Batch(h, ps)
  BY <1>3 DEF Pending
<1>5. Known(g) = Known(h) \cup Batch(h, ps)
  BY <1>3, <1>4 DEF Known
<1>6. \A c \in Known(h) : c \in Case /\ c[1] < h.calls
  BY DEF Consistent, Book, Known, Pending
<1>7. Known(h) \cap Batch(h, ps) = {}
  BY <1>1, <1>2, <1>6
<1>8. \A c \in Known(g) : c[1] < g.calls
  BY <1>1, <1>2, <1>3, <1>5, <1>6 DEF Case
<1>9. Consistent(g)
  BY <1>3, <1>4, <1>7, <1>8 DEF Consistent, Known, Pending
<1> QED BY <1>3, <1>4, <1>5, <1>7, <1>9

(* The book an optimizer starts from holds the evaluated base case only.   *)
LEMMA NewBookConsistent ==
  /\ Consistent(NewBook)
  /\ Known(NewBook) = {BaseCase}
  /\ Pending(NewBook) = {}
  /\ NewBook.evaluated = {BaseCase}
BY DEF Consistent, NewBook, Book, Pending, Known, BaseCase, Case

--------------------------------------------------------------------------------
(* The list of recently evaluated cases is no part of OptimizerContract:   *)
(* every operation of the book does the same with and without it.          *)
LEMMA GetNextCleared ==
  ASSUME NEW h \in Book, NEW c
  PROVE  ClearRecentlyEvaluatedCases(GetNextCaseForEvaluation(h, c))
           = GetNextCaseForEvaluation(ClearRecentlyEvaluatedCases(h), c)
BY DEF ClearRecentlyEvaluatedCases, GetNextCaseForEvaluation, Book

LEMMA EvaluatedCleared ==
  ASSUME NEW h \in Book, NEW c
  PROVE  ClearRecentlyEvaluatedCases(SetCaseEvaluated(h, c))
           = ClearRecentlyEvaluatedCases(
               SetCaseEvaluated(ClearRecentlyEvaluatedCases(h), c))
BY DEF ClearRecentlyEvaluatedCases, SetCaseEvaluated, Book

LEMMA DequeuedCleared ==
  ASSUME NEW h \in Book, NEW cs
  PROVE  ClearRecentlyEvaluatedCases(DequeueCases(h, cs))
           = DequeueCases(ClearRecentlyEvaluatedCases(h), cs)
BY DEF ClearRecentlyEvaluatedCases, DequeueCases, Book

LEMMA GrownCleared ==
  ASSUME NEW h \in Book, NEW ps
  PROVE  ClearRecentlyEvaluatedCases(AddNewCases(h, ps))
           = AddNewCases(ClearRecentlyEvaluatedCases(h), ps)
BY DEF ClearRecentlyEvaluatedCases, AddNewCases, Batch, Book

LEMMA ClearedBook ==
  ASSUME NEW h \in Book
  PROVE  /\ ClearRecentlyEvaluatedCases(h) \in Book
         /\ ClearRecentlyEvaluatedCases(h).queue = h.queue
         /\ ClearRecentlyEvaluatedCases(h).evaluating = h.evaluating
         /\ ClearRecentlyEvaluatedCases(h).calls = h.calls
BY DEF ClearRecentlyEvaluatedCases, Book
================================================================================
