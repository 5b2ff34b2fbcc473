---------------------------- MODULE APPSQueue_proofs ---------------------------
(***************************************************************************)
(* What the runners rely on, for any parameters of the pattern search: it  *)
(* keeps the contract of an optimizer, its queue never outgrows its bound, *)
(* and few cases are evaluated beyond max_evaluations_.                    *)
(***************************************************************************)
EXTENDS APPS_proofs, FiniteSetTheorems

--------------------------------------------------------------------------------
(* The contract has the operations of the book from the same module.       *)
LEMMA SameBook ==
  /\ \A h, ps : Optimizer!AddNewCases(h, ps) = AddNewCases(h, ps)
  /\ \A h, c : Optimizer!SetCaseEvaluated(h, c) = SetCaseEvaluated(h, c)
  /\ \A h, c : Optimizer!GetNextCaseForEvaluation(h, c)
                  = GetNextCaseForEvaluation(h, c)
  /\ \A h, cs : Optimizer!DequeueCases(h, cs) = DequeueCases(h, cs)
  /\ \A h : Optimizer!ClearRecentlyEvaluatedCases(h) = ClearRecentlyEvaluatedCases(h)
  /\ \A h, c : Optimizer!IsHead(h, c) <=> IsHead(h, c)
  /\ \A h : Optimizer!Pending(h) = Pending(h)
  /\ Optimizer!NewBook = NewBook
BY DEF Optimizer!AddNewCases, AddNewCases, Optimizer!Batch, Batch,
   Optimizer!SetCaseEvaluated, SetCaseEvaluated,
   Optimizer!GetNextCaseForEvaluation, GetNextCaseForEvaluation,
   Optimizer!DequeueCases, DequeueCases,
   Optimizer!ClearRecentlyEvaluatedCases, ClearRecentlyEvaluatedCases,
   Optimizer!IsHead, IsHead, Optimizer!Before, Before,
   Optimizer!Pending, Pending, Optimizer!NewBook, NewBook,
   Optimizer!BaseCase, BaseCase

(* What iterate makes of a book is one the contract allows.                *)
LEMMA IteratedIsGrown ==
  ASSUME NEW h \in Book, NEW ps \in SUBSET Directions
  PROVE  ClearRecentlyEvaluatedCases(IteratedBook(h, ps))
           \in Optimizer!Grown(ClearRecentlyEvaluatedCases(h))
<1>1. CASE ps = {}
  BY <1>1 DEF IteratedBook, Optimizer!Grown
<1>2. CASE ps # {}
  <2>1. ClearRecentlyEvaluatedCases(IteratedBook(h, ps))
          = AddNewCases(ClearRecentlyEvaluatedCases(h), ps)
    BY <1>2, GrownCleared DEF IteratedBook
  <2>2. ClearRecentlyEvaluatedCases(h).calls \in Nat
    BY ClearedBook DEF Book
  <2>3. ps \in (SUBSET Directions) \ {{}}
    BY <1>2
  <2>4. AddNewCases(ClearRecentlyEvaluatedCases(h), ps)
          \in {Optimizer!AddNewCases(ClearRecentlyEvaluatedCases(h), qs) :
                qs \in (SUBSET Directions) \ {{}}}
    BY <2>3, SameBook
  <2> QED BY <2>1, <2>2, <2>4 DEF Optimizer!Grown
<1> QED BY <1>1, <1>2

(* A result is submitted, some queued cases are discarded, and iterate may *)
(* add new ones.                                                           *)
LEMMA SubmissionIsHandled ==
  ASSUME NEW h, Consistent(h), NEW c \in h.evaluating, NEW cs \in SUBSET h.queue,
         NEW ps \in SUBSET Directions
  PROVE  ClearRecentlyEvaluatedCases(
             IteratedBook(DequeueCases(SetCaseEvaluated(h, c), cs), ps))
           \in Optimizer!Handled(ClearRecentlyEvaluatedCases(h), c)
<1> DEFINE e == SetCaseEvaluated(h, c)
           done == ClearRecentlyEvaluatedCases(
                     SetCaseEvaluated(ClearRecentlyEvaluatedCases(h), c))
<1>1. h \in Book /\ e \in Book /\ e.queue = h.queue
  BY EvaluatedBook DEF Consistent
<1>2. done = ClearRecentlyEvaluatedCases(e)
  BY <1>1, EvaluatedCleared
<1>3. DequeueCases(e, cs) \in Book
  BY <1>1, EvaluatedBook, DequeuedBook DEF Consistent
<1>4. ClearRecentlyEvaluatedCases(DequeueCases(e, cs)) = DequeueCases(done, cs)
  BY <1>1, <1>2, DequeuedCleared
<1>5. ClearRecentlyEvaluatedCases(IteratedBook(DequeueCases(e, cs), ps))
        \in Optimizer!Grown(DequeueCases(done, cs))
  BY <1>3, <1>4, IteratedIsGrown
<1>6. cs \in SUBSET done.queue
  BY <1>1, <1>2, ClearedBook
<1> HIDE DEF e, done
<1>7. Optimizer!Grown(DequeueCases(done, cs))
        \in {Optimizer!Grown(DequeueCases(done, ds)) : ds \in SUBSET done.queue}
  BY <1>6, Zenon
<1>8. ClearRecentlyEvaluatedCases(IteratedBook(DequeueCases(e, cs), ps))
        \in UNION {Optimizer!Grown(DequeueCases(done, ds)) : ds \in SUBSET done.queue}
  BY <1>5, <1>7, Zenon
<1>9. Optimizer!Handled(ClearRecentlyEvaluatedCases(h), c)
        = UNION {Optimizer!Grown(DequeueCases(done, ds)) : ds \in SUBSET done.queue}
  BY SameBook DEF done, Optimizer!Handled
<1> QED BY <1>8, <1>9, Zenon DEF e

(* APPS never runs out of numbers for its batches, so the contract leaves  *)
(* its verdict open.                                                       *)
LEMMA VerdictIsAllowed ==
  ASSUME NEW h \in Book
  PROVE  Stopped \in Optimizer!Verdicts(ClearRecentlyEvaluatedCases(h))
<1>1. ClearRecentlyEvaluatedCases(h).calls \in Nat
  BY ClearedBook DEF Book
<1> QED BY <1>1 DEF Optimizer!Verdicts, Stopped

LEMMA InitIsContractInit == Init => Optimizer!Init
<1> SUFFICES ASSUME Init PROVE Optimizer!Init
  OBVIOUS
<1>1. book = NewBook /\ NewBook \in Book
  BY NewBookConsistent DEF Init, Consistent
<1>2. ClearRecentlyEvaluatedCases(book) = Optimizer!NewBook
  <2>1. [NewBook EXCEPT !.recent = {}] = NewBook
    BY DEF NewBook
  <2>2. ClearRecentlyEvaluatedCases(book) = NewBook
    BY <1>1, <2>1 DEF ClearRecentlyEvaluatedCases
  <2> QED BY <2>2, SameBook
<1>3. ClearRecentlyEvaluatedCases(book) \in Optimizer!Grown(Optimizer!NewBook)
  BY <1>2 DEF Optimizer!Grown
<1>4. Stopped \in Optimizer!Verdicts(ClearRecentlyEvaluatedCases(book))
  BY <1>1, VerdictIsAllowed
<1> QED BY <1>3, <1>4 DEF Optimizer!Init

(* A case is handed out from the queue, as it is or after an iteration.    *)
LEMMA GetIsContractGet ==
  ASSUME IInv, GetQueuedCase \/ StartIteration
  PROVE  Optimizer!GetCaseForEvaluation
<1> DEFINE Cleared(h) == ClearRecentlyEvaluatedCases(h)
           dirs == NewDirections(active, steps, evaluated_cases)
<1>1. book \in Book /\ Consistent(book) /\ dirs \in SUBSET Directions
  BY DEF IInv, SearchInv, SearchType, Consistent, NewDirections, Inactive
<1>2. /\ Cleared(book) \in Book /\ Cleared(book).queue = book.queue
      /\ Cleared(book).evaluating = book.evaluating
  BY <1>1, ClearedBook
<1>3. ~Optimizer!IsFinished
  BY <1>2 DEF GetQueuedCase, StartIteration, Optimizer!IsFinished, Finished
<1>4. CASE GetQueuedCase
  <2>1. PICK c \in book.queue :
          IsHead(book, c) /\ book' = GetNextCaseForEvaluation(book, c)
    BY <1>4 DEF GetQueuedCase, HeadOfQueue
  <2>2. Stopped' = Stopped
    BY <1>4 DEF GetQueuedCase, Stopped, IsConverged
  <2>3. IsHead(Cleared(book), c)
    BY <1>2, <2>1 DEF IsHead
  <2>4. Cleared(book') = GetNextCaseForEvaluation(Cleared(book), c)
    BY <1>1, <2>1, GetNextCleared
  <2>5. Cleared(book) \in Optimizer!Suppliers /\ Cleared(book).queue # {}
    BY <1>2, <2>1 DEF Optimizer!Suppliers
  <2> HIDE DEF Cleared
  <2>6. \E g \in Optimizer!Suppliers : \E e \in g.queue :
          Optimizer!IsHead(g, e) /\ Cleared(book') = Optimizer!GetNextCaseForEvaluation(g, e)
    BY <1>2, <2>1, <2>3, <2>4, <2>5, SameBook
  <2> QED BY <1>3, <2>2, <2>5, <2>6 DEF Cleared, Optimizer!GetCaseForEvaluation
<1>5. CASE StartIteration
  <2> DEFINE h == IteratedBook(book, dirs)
  <2>1. PICK c \in h.queue :
          IsHead(h, c) /\ book' = GetNextCaseForEvaluation(h, c)
    BY <1>5 DEF StartIteration, HeadOfQueue
  <2>2. book.queue = {} /\ book.evaluating = {}
    BY <1>5 DEF StartIteration, Pending
  <2>3. h \in Book
    BY <1>1, GrownBook, DirectionsNat DEF IteratedBook, Consistent
  <2>4. Cleared(h) \in Optimizer!Grown(Cleared(book))
    BY <1>1, IteratedIsGrown
  <2> HIDE DEF h, dirs
  <2>5. IsHead(Cleared(h), c) /\ Cleared(h).queue = h.queue
    BY <2>1, <2>3, ClearedBook DEF IsHead
  <2>6. Cleared(book') = GetNextCaseForEvaluation(Cleared(h), c)
    BY <2>1, <2>3, GetNextCleared
  <2> HIDE DEF Cleared
  <2>7. Cleared(h) \in Optimizer!Iterated(Cleared(book))
    BY <2>1, <2>4, <2>5 DEF Optimizer!Iterated
  <2>8. Cleared(h) \in Optimizer!Suppliers
    BY <1>2, <2>2, <2>7 DEF Optimizer!Suppliers, Cleared
  <2>9. \E g \in Optimizer!Suppliers : \E e \in g.queue :
          Optimizer!IsHead(g, e) /\ Cleared(book') = Optimizer!GetNextCaseForEvaluation(g, e)
    BY <2>1, <2>5, <2>6, <2>8, SameBook
  <2>10. Stopped' \in BOOLEAN
    BY DEF Stopped
  <2> QED BY <1>2, <1>3, <2>2, <2>9, <2>10 DEF Cleared, Optimizer!GetCaseForEvaluation
<1> QED BY <1>4, <1>5

(* A result is submitted, whether or not it improves on the best case.     *)
LEMMA SubmitIsContractSubmit ==
  ASSUME IInv, IInv', NEW c \in book.evaluating, NEW v \in Values,
         SubmitSuccess(c, v) \/ SubmitFailure(c, v)
  PROVE  Optimizer!SubmitEvaluatedCase
<1> DEFINE h == SetCaseEvaluated(book, c)
<1>1. Consistent(book) /\ book' \in Book /\ h.queue = book.queue
  BY EvaluatedBook DEF IInv, SearchInv, SearchType, Consistent
<1>2. \E cs \in SUBSET book.queue, ps \in SUBSET Directions :
        book' = IteratedBook(DequeueCases(h, cs), ps)
  <2>1. CASE SubmitSuccess(c, v)
    <3>1. PICK k, st :
            book' = IteratedBook(DequeueCases(h, h.queue \ k),
                                 NewDirections({}, Expand(st), evaluated_cases + 1))
      BY <2>1 DEF SubmitSuccess
    <3>2. NewDirections({}, Expand(st), evaluated_cases + 1) \in SUBSET Directions
      BY DEF NewDirections, Inactive
    <3>3. h.queue \ k \in SUBSET book.queue
      BY <1>1
    <3> QED BY <3>1, <3>2, <3>3
  <2>2. CASE SubmitFailure(c, v)
    <3>1. PICK ps \in SUBSET Directions : book' = IteratedBook(h, ps)
      <4>1. PICK act, st :
              \/ book' = h
              \/ book' = IteratedBook(h, NewDirections(act, st, evaluated_cases + 1))
        BY <2>2 DEF SubmitFailure
      <4>2. /\ h = IteratedBook(h, {})
            /\ NewDirections(act, st, evaluated_cases + 1) \in SUBSET Directions
        BY DEF IteratedBook, NewDirections, Inactive
      <4> QED BY <4>1, <4>2
    <3>2. DequeueCases(h, {}) = h
      <4>1. h \in Book
        BY <1>1, EvaluatedBook DEF Consistent
      <4> HIDE DEF h
      <4> QED BY <4>1 DEF DequeueCases, Book
    <3> QED BY <3>1, <3>2
  <2> QED BY <2>1, <2>2
<1>3. ClearRecentlyEvaluatedCases(book')
        \in Optimizer!Handled(ClearRecentlyEvaluatedCases(book), c)
  BY <1>1, <1>2, SubmissionIsHandled
<1>4. Stopped' \in Optimizer!Verdicts(ClearRecentlyEvaluatedCases(book'))
  <2>1. ClearRecentlyEvaluatedCases(book').calls \in Nat
    BY <1>1, ClearedBook DEF Book
  <2> QED BY <2>1 DEF Optimizer!Verdicts, Stopped
<1>5. c \in ClearRecentlyEvaluatedCases(book).evaluating
  BY <1>1, ClearedBook DEF Consistent
<1> QED BY <1>3, <1>4, <1>5 DEF Optimizer!SubmitEvaluatedCase

(* The search keeps what the runners rely on of every optimizer: it is     *)
(* never finished while a case is out, hands out in the order of its       *)
(* batches, discards only queued cases, and has a case when it is asked.   *)
THEOREM ContractCorrect == Spec => ContractSpec
<1>1. IInv /\ IInv' /\ [Next]_vars
        => [Optimizer!Next]_<<ClearRecentlyEvaluatedCases(book), Stopped>>
  <2> SUFFICES ASSUME IInv, IInv', [Next]_vars
               PROVE  \/ Optimizer!Next
                      \/ UNCHANGED <<ClearRecentlyEvaluatedCases(book), Stopped>>
    OBVIOUS
  <2>1. CASE GetQueuedCase \/ StartIteration
    BY <2>1, GetIsContractGet DEF Optimizer!Next
  <2>2. ASSUME NEW c \in book.evaluating, NEW v \in Values,
               SubmitSuccess(c, v) \/ SubmitFailure(c, v)
        PROVE  Optimizer!Next
    BY <2>2, SubmitIsContractSubmit DEF Optimizer!Next
  <2>3. CASE Terminate \/ UNCHANGED vars
    BY <2>3 DEF Terminate, vars, Stopped, IsConverged, ClearRecentlyEvaluatedCases
  <2> QED BY <2>1, <2>2, <2>3 DEF Next
<1> QED BY <1>1, InitIsContractInit, IInvariance, PTL
        DEF Spec, ContractSpec, Optimizer!Spec

--------------------------------------------------------------------------------
(* The queued cases that search from a case that is not the best any more, *)
(* and the room prune_queue leaves for them.                               *)
Superseded == {c \in book.queue : origin[c] # best}

Room == MaxQueueLen - NumDirections

(* No direction will be searched again.                                    *)
Closed ==
  IF is_hybrid_component THEN iteration >= MaxEvals
  ELSE evaluated_cases >= MaxEvals

(* In a hybrid the evaluations are the iterations; only when the search    *)
(* has converged are results counted without one.                          *)
Counted ==
  is_hybrid_component =>
    \/ evaluated_cases = iteration
    \/ IsConverged(steps) /\ evaluated_cases >= iteration

(* Superseded cases only become more by a success, which prunes them; when *)
(* it leaves one although there is no room for it, nothing is added later. *)
QueueInv ==
  /\ IsFiniteSet(book.queue) /\ IsFiniteSet(book.evaluating)
  /\ Cardinality(book.evaluating) <= Workers
  /\ Counted
  /\ \/ Cardinality(Superseded) <= Room
     \/ Closed /\ Cardinality(book.queue) <= 1

LEMMA RoomIsNumber ==
  Room \in Nat /\ NumDirections \in Nat /\ NumDirections >= 2
    /\ MaxQueueLen = Room + NumDirections
BY NumVarsAssumption, QueueAssumption DEF Room, NumDirections

(* Cases of different directions are no more than there are directions.    *)
LEMMA OnePerDirection ==
  ASSUME NEW S,
         \A c \in S : Direction(c) \in Directions,
         \A c, d \in S : Direction(c) = Direction(d) => c = d
  PROVE  IsFiniteSet(S) /\ Cardinality(S) \in Nat /\ Cardinality(S) <= NumDirections
<1> DEFINE f == [c \in S |-> Direction(c)]
<1>1. f \in Injection(S, Directions)
  BY DEF Injection, IsInjective
<1>2. /\ IsFiniteSet(Directions)
      /\ Cardinality(Directions) = NumDirections
  <2>1. 0 \in Int /\ 2 * NumVars - 1 \in Int /\ NumVars \in Nat /\ NumVars > 0
    BY NumVarsAssumption
  <2>2. IsFiniteSet(Directions)
    BY <2>1, FS_Interval DEF Directions
  <2>3. Cardinality(Directions)
          = IF 0 > 2 * NumVars - 1 THEN 0 ELSE 2 * NumVars - 1 - 0 + 1
    BY <2>1, FS_Interval DEF Directions
  <2> QED BY <2>1, <2>2, <2>3 DEF NumDirections
<1> HIDE DEF f
<1>3. IsFiniteSet(S) /\ Cardinality(S) <= Cardinality(Directions)
  BY <1>1, <1>2, FS_Injection
<1> QED BY <1>2, <1>3, FS_CardinalityType

(* The queued cases from the best case are at most one per direction.      *)
LEMMA QueueCounted ==
  ASSUME IInv, QueueInv
  PROVE  QueueBounded
<1> DEFINE current == {c \in book.queue : origin[c] = best}
<1>1. SearchActive(book, origin, length, best, steps, active) /\ active \subseteq Directions
  BY DEF IInv, SearchInv, SearchType
<1>2. current \subseteq From(book, origin, best)
  BY DEF From, Pending
<1>3. IsFiniteSet(current) /\ Cardinality(current) \in Nat
      /\ Cardinality(current) <= NumDirections
  <2>1. \A c \in current : Direction(c) \in Directions
    BY <1>1, <1>2 DEF SearchActive
  <2>2. \A c, d \in current : Direction(c) = Direction(d) => c = d
    BY <1>1, <1>2 DEF SearchActive
  <2> HIDE DEF current
  <2> QED BY <2>1, <2>2, OnePerDirection
<1>4. CASE Cardinality(Superseded) <= Room
  <2>1. book.queue = current \cup Superseded /\ current \cap Superseded = {}
    BY DEF Superseded
  <2>2. IsFiniteSet(Superseded)
    BY FS_Subset DEF QueueInv, Superseded
  <2>3. Cardinality(Superseded) \in Nat /\ Cardinality({}) = 0
    BY <2>2, FS_CardinalityType, FS_EmptySet
  <2>5. Cardinality(current \cap Superseded) = 0
    BY <2>1, <2>3
  <2> HIDE DEF current
  <2>4. Cardinality(book.queue) = Cardinality(current) + Cardinality(Superseded)
                                    - Cardinality(current \cap Superseded)
    BY <1>3, <2>1, <2>2, FS_Union
  <2> QED BY <1>3, <1>4, <2>3, <2>4, <2>5, RoomIsNumber DEF QueueBounded
<1>5. CASE Cardinality(book.queue) <= 1
  <2>1. Cardinality(book.queue) \in Nat
    BY FS_CardinalityType DEF QueueInv
  <2> QED BY <1>5, <2>1, RoomIsNumber DEF QueueBounded
<1> QED BY <1>4, <1>5 DEF QueueInv

(* When a search is closed iterate adds nothing, whatever is counted.      *)
LEMMA ClosedAddsNothing ==
  ASSUME IInv, Counted, Closed, NEW act, NEW st
  PROVE  evaluated_cases >= MaxEvals /\ NewDirections(act, st, evaluated_cases + 1) = {}
<1>1. evaluated_cases \in Nat /\ iteration \in Nat
  BY DEF IInv
<1>2. evaluated_cases >= MaxEvals
  BY <1>1, EvalsAssumption DEF Counted, Closed
<1> QED BY <1>1, <1>2, EvalsAssumption DEF NewDirections

(* iterate adds cases from the best case only, and finitely many.          *)
LEMMA IterateQueue ==
  ASSUME NEW h, NEW b, NEW st, NEW act, NEW n, NEW o,
         SearchInv(h, origin, length, o, b, st, act),
         Iterate(h, b, st, act, n, o),
         NEW g, g = IteratedBook(h, NewDirections(act, st, n))
  PROVE  /\ g.evaluating = h.evaluating
         /\ \A c \in g.queue : origin'[c] # b => c \in h.queue /\ origin[c] # b
         /\ IsFiniteSet(h.queue) => IsFiniteSet(g.queue)
         /\ NewDirections(act, st, n) = {} => g = h
         /\ h.queue = {} =>
              /\ \A c \in g.queue : Direction(c) \in Directions
              /\ \A c, d \in g.queue : Direction(c) = Direction(d) => c = d
<1> DEFINE dirs == NewDirections(act, st, n)
           fresh == Batch(h, dirs)
<1>1. /\ Consistent(h)
      /\ origin \in [Known(h) \ {BaseCase} -> h.evaluated]
  BY DEF SearchInv, SearchType
<1>2. dirs \subseteq Directions /\ dirs \subseteq Nat
  BY DirectionsNat DEF NewDirections, Inactive
<1>3. /\ g.queue = h.queue \cup fresh /\ g.evaluating = h.evaluating
      /\ Known(h) \cap fresh = {} /\ (dirs = {} => g = h)
  <2>1. CASE dirs = {}
    BY <2>1 DEF IteratedBook, Batch
  <2>2. CASE dirs # {}
    <3>1. g = AddNewCases(h, dirs)
      BY <2>2 DEF IteratedBook
    <3> HIDE DEF dirs
    <3>2. dirs \in SUBSET Nat
      BY <1>2
    <3>3. /\ Known(h) \cap Batch(h, dirs) = {}
          /\ g.queue = h.queue \cup Batch(h, dirs)
          /\ g.evaluating = h.evaluating
      BY <1>1, <3>1, <3>2, GrownBook
    <3> QED BY <2>2, <3>3
  <2> QED BY <2>1, <2>2
<1>4. origin' = [c \in Trials \cup fresh |-> IF c \in fresh THEN b ELSE origin[c]]
  BY DEF Iterate
<1>5. h.queue \subseteq Trials
  BY <1>1 DEF Trials, Consistent, Known, Pending
<1>6. \A c \in g.queue : origin'[c] # b => c \in h.queue /\ origin[c] # b
  <2> HIDE DEF fresh
  <2> QED BY <1>3, <1>4, <1>5
<1>7. /\ \A c \in fresh : Direction(c) \in dirs
      /\ \A c, d \in fresh : Direction(c) = Direction(d) => c = d
  BY DEF Batch, Direction
<1>8. IsFiniteSet(fresh)
  <2> HIDE DEF fresh, dirs
  <2> QED BY <1>2, <1>7, OnePerDirection
<1>9. IsFiniteSet(h.queue) => IsFiniteSet(g.queue)
  BY <1>3, <1>8, FS_Union
<1> HIDE DEF fresh, dirs
<1> QED BY <1>2, <1>3, <1>6, <1>7, <1>9 DEF dirs

(* What both kinds of steps with an iteration say of the counters.         *)
LEMMA IterateCounts ==
  ASSUME NEW h, NEW b, NEW st, NEW act, NEW n, NEW o,
         Iterate(h, b, st, act, n, o)
  PROVE  /\ best' = b /\ steps' = st /\ iteration' = iteration + 1
         /\ evaluated_cases' = IF is_hybrid_component THEN iteration + 1 ELSE n
         /\ is_hybrid_component' = is_hybrid_component
         /\ Counted'
<1>1. /\ best' = b /\ steps' = st /\ iteration' = iteration + 1
      /\ evaluated_cases' = IF is_hybrid_component THEN iteration + 1 ELSE n
      /\ is_hybrid_component' = is_hybrid_component
  BY DEF Iterate
<1> QED BY <1>1 DEF Counted

(* A case is handed out.                                                   *)
LEMMA GetKeepsQueue ==
  ASSUME IInv, QueueInv, GetQueuedCase
  PROVE  QueueInv'
<1>1. PICK c \in book.queue : book' = GetNextCaseForEvaluation(book, c)
  BY DEF GetQueuedCase, HeadOfQueue
<1>2. Consistent(book)
  BY DEF IInv, SearchInv, SearchType
<1>3. /\ book'.queue = book.queue \ {c} /\ book'.evaluating = book.evaluating \cup {c}
  BY <1>1, <1>2, GetNextBook
<1>4. UNCHANGED <<origin, best, steps, iteration, evaluated_cases, is_hybrid_component>>
  BY DEF GetQueuedCase
<1>5. /\ IsFiniteSet(book'.queue) /\ IsFiniteSet(book'.evaluating)
      /\ Cardinality(book'.evaluating) <= Workers
  <2>1. Cardinality(book.evaluating) < Workers /\ Cardinality(book.evaluating) \in Nat
    BY FS_CardinalityType DEF GetQueuedCase, QueueInv
  <2>2. IsFiniteSet(book.queue) /\ IsFiniteSet(book.evaluating)
    BY DEF QueueInv
  <2>3. /\ IsFiniteSet(book.evaluating \cup {c})
        /\ Cardinality(book.evaluating \cup {c})
             = IF c \in book.evaluating THEN Cardinality(book.evaluating)
               ELSE Cardinality(book.evaluating) + 1
    BY <2>2, FS_AddElement
  <2> QED BY <1>3, <2>1, <2>2, <2>3, FS_RemoveElement, WorkersAssumption
<1>6. Counted' /\ (Closed => Closed')
  BY <1>4 DEF QueueInv, Counted, Closed, IsConverged
<1>7. \/ Cardinality(Superseded') <= Room
      \/ Closed' /\ Cardinality(book'.queue) <= 1
  <2>1. Superseded' \subseteq Superseded /\ book'.queue \subseteq book.queue
    BY <1>3, <1>4 DEF Superseded
  <2>2. IsFiniteSet(book.queue) /\ IsFiniteSet(Superseded)
    BY FS_Subset DEF QueueInv, Superseded
  <2>3. /\ Cardinality(Superseded') <= Cardinality(Superseded)
        /\ Cardinality(book'.queue) <= Cardinality(book.queue)
    BY <2>1, <2>2, FS_Subset
  <2>4. /\ Cardinality(Superseded') \in Nat /\ Cardinality(Superseded) \in Nat
        /\ Cardinality(book'.queue) \in Nat /\ Cardinality(book.queue) \in Nat
    BY <2>1, <2>2, FS_Subset, FS_CardinalityType
  <2> QED BY <1>6, <2>3, <2>4, RoomIsNumber DEF QueueInv
<1> QED BY <1>5, <1>6, <1>7 DEF QueueInv

(* The search goes on although nothing was pending.                        *)
LEMMA StartKeepsQueue ==
  ASSUME IInv, QueueInv, StartIteration
  PROVE  QueueInv' /\ IsFiniteSet(Pending(book'))
         /\ Cardinality(Pending(book')) \in Nat
         /\ Cardinality(Pending(book')) <= NumDirections
<1> DEFINE g == IteratedBook(book, NewDirections(active, steps, evaluated_cases))
<1>1. Iterate(book, best, steps, active, evaluated_cases, ofv)
  BY DEF StartIteration
<1>2. book.queue = {} /\ book.evaluating = {}
  BY DEF StartIteration, Pending
<1>3. SearchInv(book, origin, length, ofv, best, steps, active)
  BY DEF IInv
<1>4. /\ g.evaluating = book.evaluating
      /\ \A c \in g.queue : origin'[c] # best => c \in book.queue
      /\ IsFiniteSet(book.queue) => IsFiniteSet(g.queue)
      /\ book.queue = {} =>
           /\ \A c \in g.queue : Direction(c) \in Directions
           /\ \A c, d \in g.queue : Direction(c) = Direction(d) => c = d
  BY <1>1, <1>3, IterateQueue
<1>5. SearchInv(g, origin', length', ofv', best', steps', active')
  BY <1>1, <1>3, IteratePreserves
<1>6. PICK c \in g.queue : book' = GetNextCaseForEvaluation(g, c)
  BY DEF StartIteration, HeadOfQueue
<1> HIDE DEF g
<1>7. /\ book'.queue = g.queue \ {c} /\ book'.evaluating = {c}
      /\ Pending(book') = g.queue
  <2>1. Consistent(g)
    BY <1>5 DEF SearchInv, SearchType
  <2>2. /\ book'.queue = g.queue \ {c} /\ book'.evaluating = g.evaluating \cup {c}
    BY <1>6, <2>1, GetNextBook
  <2> QED BY <1>2, <1>4, <1>6, <2>2 DEF Pending
<1>8. /\ IsFiniteSet(g.queue) /\ Cardinality(g.queue) \in Nat
      /\ Cardinality(g.queue) <= NumDirections
  BY <1>2, <1>4, OnePerDirection
<1>9. best' = best /\ Counted'
  BY <1>1, IterateCounts
<1>10. Superseded' = {}
  BY <1>2, <1>4, <1>7, <1>9 DEF Superseded
<1>11. /\ IsFiniteSet(book'.queue) /\ IsFiniteSet(book'.evaluating)
       /\ Cardinality(book'.evaluating) = 1 /\ Cardinality(Superseded') = 0
  <2>1. IsFiniteSet(book'.queue)
    BY <1>7, <1>8, FS_RemoveElement
  <2>2. IsFiniteSet(book'.evaluating) /\ Cardinality(book'.evaluating) = 1
    BY <1>7, FS_Singleton
  <2>3. Cardinality(Superseded') = 0
    BY <1>10, FS_EmptySet
  <2> QED BY <2>1, <2>2, <2>3
<1>12. QueueInv'
  BY <1>9, <1>11, RoomIsNumber, WorkersAssumption DEF QueueInv
<1> QED BY <1>7, <1>8, <1>12

(* A result that is no improvement: the queue only grows, by cases from    *)
(* the best case.                                                          *)
LEMMA FailureKeepsQueue ==
  ASSUME IInv, QueueInv, NEW c \in book.evaluating, NEW v \in Values,
         SubmitFailure(c, v)
  PROVE  /\ QueueInv'
         /\ book'.evaluating = book.evaluating \ {c}
         /\ evaluated_cases + 1 >= MaxEvals => book'.queue \subseteq book.queue
<1> DEFINE n   == evaluated_cases + 1
           h   == SetCaseEvaluated(book, c)
           o   == [ofv EXCEPT ![c] = v]
           st  == IF origin[c] = best THEN Contract(steps, Direction(c)) ELSE steps
           act == IF origin[c] = best THEN active \ {Direction(c)} ELSE active
<1>1. /\ Consistent(book) /\ ofv[best] \in Int
      /\ evaluated_cases \in Nat /\ iteration \in Nat
  BY DEF IInv, SearchInv, SearchType, Consistent, Known
<1>2. v \in Int /\ v <= ofv[best]
  BY <1>1, ValuesAssumption DEF SubmitFailure, IsImprovement
<1>3. SearchInv(h, origin, length, o, best, st, act)
  BY <1>2, FailurePreserves
<1>4. h.queue = book.queue /\ h.evaluating = book.evaluating \ {c}
  BY <1>1, EvaluatedBook
<1>5. /\ IsFiniteSet(book.queue) /\ IsFiniteSet(book.evaluating \ {c})
      /\ Cardinality(book.evaluating \ {c}) <= Workers
  <2>1. IsFiniteSet(book.evaluating) /\ Cardinality(book.evaluating) <= Workers
    BY DEF QueueInv
  <2>2. Cardinality(book.evaluating) \in Nat /\ Cardinality(book.evaluating \ {c}) \in Nat
    BY <2>1, FS_RemoveElement, FS_CardinalityType
  <2>3. Cardinality(book.evaluating \ {c}) <= Cardinality(book.evaluating)
    BY <2>1, FS_Subset
  <2> QED BY <2>1, <2>2, <2>3, FS_RemoveElement, WorkersAssumption DEF QueueInv
<1>6. CASE IsConverged(st)
  <2>1. /\ book' = h /\ steps' = st /\ evaluated_cases' = n
        /\ UNCHANGED <<origin, best, iteration, is_hybrid_component>>
    BY <1>6 DEF SubmitFailure
  <2> HIDE DEF h, st
  <2>2. Counted'
    BY <1>1, <1>6, <2>1 DEF Counted, QueueInv
  <2>3. Superseded' = Superseded /\ (Closed => Closed')
    BY <1>1, <1>4, <2>1, EvalsAssumption DEF Superseded, Closed
  <2> QED BY <1>4, <1>5, <2>1, <2>2, <2>3 DEF QueueInv
<1>7. CASE ~IsConverged(st)
  <2>1. /\ book' = IteratedBook(h, NewDirections(act, st, n))
        /\ Iterate(h, best, st, act, n, o)
    BY <1>7 DEF SubmitFailure
  <2>2. n >= MaxEvals => NewDirections(act, st, n) = {}
    BY <1>1, EvalsAssumption DEF NewDirections
  <2>3. Closed => n >= MaxEvals /\ Closed'
    <3>1. ASSUME Closed PROVE n >= MaxEvals
      BY <1>1, <3>1, ClosedAddsNothing, EvalsAssumption DEF QueueInv
    <3>2. /\ iteration' = iteration + 1 /\ is_hybrid_component' = is_hybrid_component
          /\ ~is_hybrid_component => evaluated_cases' = n
      BY <2>1, IterateCounts
    <3> QED BY <1>1, <3>1, <3>2, EvalsAssumption DEF Closed
  <2>4. best' = best /\ Counted'
    BY <2>1, IterateCounts
  <2> HIDE DEF h, st, act, n, o
  <2>5. /\ book'.evaluating = h.evaluating
        /\ \A e \in book'.queue : origin'[e] # best => e \in h.queue /\ origin[e] # best
        /\ IsFiniteSet(h.queue) => IsFiniteSet(book'.queue)
        /\ NewDirections(act, st, n) = {} => book' = h
    BY <1>3, <2>1, IterateQueue
  <2>6. Superseded' \subseteq Superseded
    BY <1>4, <2>4, <2>5 DEF Superseded
  <2>7. /\ Cardinality(Superseded') <= Cardinality(Superseded)
        /\ Cardinality(Superseded') \in Nat /\ Cardinality(Superseded) \in Nat
    <3>1. IsFiniteSet(Superseded)
      BY <1>5, FS_Subset DEF Superseded
    <3> QED BY <2>6, <3>1, FS_Subset, FS_CardinalityType
  <2>8. \/ Cardinality(Superseded') <= Room
        \/ Closed' /\ Cardinality(book'.queue) <= 1
    <3>1. CASE Cardinality(Superseded) <= Room
      BY <2>7, <3>1, RoomIsNumber
    <3>2. CASE Closed /\ Cardinality(book.queue) <= 1
      BY <1>4, <2>2, <2>3, <2>5, <3>2
    <3> QED BY <3>1, <3>2 DEF QueueInv
  <2>9. QueueInv'
    BY <1>4, <1>5, <2>4, <2>5, <2>8 DEF QueueInv
  <2> QED BY <1>4, <2>2, <2>5, <2>9 DEF n
<1> QED BY <1>6, <1>7

(* An improvement: the whole queue is superseded, and pruned.              *)
LEMMA SuccessKeepsQueue ==
  ASSUME IInv, QueueInv, NEW c \in book.evaluating, NEW v \in Values,
         SubmitSuccess(c, v)
  PROVE  /\ QueueInv'
         /\ book'.evaluating = book.evaluating \ {c}
         /\ evaluated_cases + 1 >= MaxEvals => book'.queue \subseteq book.queue
<1> DEFINE n == evaluated_cases + 1
           h == SetCaseEvaluated(book, c)
           o == [ofv EXCEPT ![c] = v]
<1>1. /\ Consistent(book)
      /\ evaluated_cases \in Nat /\ iteration \in Nat
      /\ c \in Known(book) \ {BaseCase}
      /\ Known(book) \ {BaseCase} \subseteq Nat \X Directions
      /\ length \in [Known(book) \ {BaseCase} -> Nat]
  BY DEF IInv, SearchInv, SearchType, Consistent, Known, Pending
<1>2. v \in Int /\ v > ofv[best]
  BY ValuesAssumption DEF SubmitSuccess, IsImprovement
<1>3. PICK st \in SetStepLengths(Direction(c), length[c]),
           k \in PrunedQueue(h.queue, n) :
         /\ book' = IteratedBook(DequeueCases(h, h.queue \ k),
                                 NewDirections({}, Expand(st), n))
         /\ Iterate(DequeueCases(h, h.queue \ k), c, Expand(st), {}, n, o)
  BY DEF SubmitSuccess
<1>4. Expand(st) \in [Directions -> Nat]
  BY <1>1, SuccessSteps DEF Direction
<1> DEFINE g == DequeueCases(h, h.queue \ k)
<1>5. h.queue = book.queue /\ h.evaluating = book.evaluating \ {c} /\ Consistent(h)
  BY <1>1, EvaluatedBook
<1>6. /\ IsFiniteSet(book.queue) /\ IsFiniteSet(book.evaluating \ {c})
      /\ Cardinality(book.evaluating \ {c}) <= Workers
      /\ Cardinality(book.queue) \in Nat
  <2>1. IsFiniteSet(book.evaluating) /\ Cardinality(book.evaluating) <= Workers
    BY DEF QueueInv
  <2>2. Cardinality(book.evaluating) \in Nat /\ Cardinality(book.evaluating \ {c}) \in Nat
    BY <2>1, FS_RemoveElement, FS_CardinalityType
  <2>3. Cardinality(book.evaluating \ {c}) <= Cardinality(book.evaluating)
    BY <2>1, FS_Subset
  <2> QED BY <2>1, <2>2, <2>3, FS_RemoveElement, FS_CardinalityType, WorkersAssumption
          DEF QueueInv
<1>7. /\ k \subseteq book.queue /\ Cardinality(k) \in Nat /\ IsFiniteSet(k)
      /\ \/ Cardinality(k) <= Room
         \/ n >= MaxEvals /\ Cardinality(k) <= 1 /\ Cardinality(book.queue) > Room
  <2>1. k \in PrunedQueue(book.queue, n)
    BY <1>5
  <2> HIDE DEF n, h
  <2>2. k \subseteq book.queue
    BY <2>1 DEF PrunedQueue
  <2>3. Cardinality(k) \in Nat /\ IsFiniteSet(k)
    BY <1>6, <2>2, FS_Subset, FS_CardinalityType
  <2>4. CASE Cardinality(book.queue) <= Room
    <3>1. k = book.queue
      BY <2>1, <2>4 DEF PrunedQueue, Room
    <3> QED BY <2>3, <2>4, <3>1
  <2>5. CASE ~(Cardinality(book.queue) <= Room)
    <3>1. Cardinality(book.queue) > Room
      BY <1>6, <2>5, RoomIsNumber
    <3>2. Cardinality(k) = IF Cardinality(book.queue) < (IF n >= MaxEvals THEN 1 ELSE Room)
                             THEN Cardinality(book.queue)
                             ELSE (IF n >= MaxEvals THEN 1 ELSE Room)
      BY <2>1, <2>5 DEF PrunedQueue, Room
    <3>3. n >= MaxEvals => Cardinality(k) <= 1
      BY <1>6, <3>2
    <3>4. ~(n >= MaxEvals) => Cardinality(k) <= Room
      BY <1>6, <3>1, <3>2, RoomIsNumber
    <3> QED BY <2>2, <2>3, <3>1, <3>3, <3>4
  <2> QED BY <2>4, <2>5
<1>8. SearchInv(g, origin, length, o, c, Expand(st), {})
  <2> HIDE DEF n, h, o
  <2>1. h = SetCaseEvaluated(book, c) /\ o = [ofv EXCEPT ![c] = v]
    BY DEF h, o
  <2>2. h.queue \ k \in SUBSET h.queue
    OBVIOUS
  <2> QED BY <1>2, <1>4, <2>1, <2>2, SuccessPreserves
<1>9. g.queue = k /\ g.evaluating = book.evaluating \ {c}
  <2>1. h.queue \ k \in SUBSET h.queue
    OBVIOUS
  <2>2. g.queue = h.queue \ (h.queue \ k) /\ g.evaluating = h.evaluating
    <3> HIDE DEF h
    <3> QED BY <1>5, <2>1, DequeuedBook
  <2> QED BY <1>5, <1>7, <2>2
<1>10. /\ best' = c /\ iteration' = iteration + 1 /\ Counted'
       /\ evaluated_cases' = (IF is_hybrid_component THEN iteration + 1 ELSE n)
       /\ is_hybrid_component' = is_hybrid_component
  BY <1>3, IterateCounts
<1>11. n >= MaxEvals => NewDirections({}, Expand(st), n) = {}
  BY <1>1, EvalsAssumption DEF NewDirections
<1> HIDE DEF g, h, o, n
<1>12. /\ book'.evaluating = g.evaluating
       /\ \A e \in book'.queue : origin'[e] # c => e \in g.queue
       /\ IsFiniteSet(g.queue) => IsFiniteSet(book'.queue)
       /\ NewDirections({}, Expand(st), n) = {} => book' = g
  <2>1. /\ book' = IteratedBook(g, NewDirections({}, Expand(st), n))
        /\ Iterate(g, c, Expand(st), {}, n, o)
    BY <1>3 DEF g
  <2> QED BY <1>8, <2>1, IterateQueue
<1>13. Cardinality(Superseded') <= Cardinality(k) /\ Cardinality(Superseded') \in Nat
  <2>1. Superseded' \subseteq k
    BY <1>9, <1>10, <1>12 DEF Superseded
  <2> QED BY <1>7, <2>1, FS_Subset, FS_CardinalityType
<1>14. ASSUME n >= MaxEvals, Cardinality(book.queue) > Room
       PROVE  Closed'
  <2>1. CASE ~is_hybrid_component
    BY <1>10, <1>14, <2>1 DEF Closed
  <2>2. CASE is_hybrid_component /\ evaluated_cases = iteration
    BY <1>1, <1>10, <1>14, <2>2, EvalsAssumption DEF Closed, n
  <2>3. CASE is_hybrid_component /\ IsConverged(steps)
    <3>1. book.queue = Superseded
      <4>1. /\ SearchActive(book, origin, length, best, steps, active)
            /\ active \subseteq Directions
        BY DEF IInv, SearchInv, SearchType
      <4>2. ASSUME NEW e \in book.queue, origin[e] = best PROVE FALSE
        <5>1. e \in From(book, origin, best)
          BY <4>2 DEF From, Pending
        <5>2. Direction(e) \in Directions /\ length[e] = steps[Direction(e)]
          BY <4>1, <5>1 DEF SearchActive
        <5>3. length[e] \in Nat
          BY <1>1 DEF Consistent, Known, Pending
        <5> QED BY <2>3, <5>2, <5>3 DEF IsConverged
      <4> QED BY <4>2 DEF Superseded
    <3>2. Closed
      BY <1>6, <1>14, <3>1, RoomIsNumber DEF QueueInv
    <3> QED BY <1>1, <1>10, <2>3, <3>2, EvalsAssumption DEF Closed
  <2> QED BY <2>1, <2>2, <2>3 DEF QueueInv, Counted
<1>15. \/ Cardinality(Superseded') <= Room
       \/ Closed' /\ Cardinality(book'.queue) <= 1
  <2>1. CASE Cardinality(k) <= Room
    BY <1>7, <1>13, <2>1, RoomIsNumber
  <2>2. CASE n >= MaxEvals /\ Cardinality(k) <= 1 /\ Cardinality(book.queue) > Room
    BY <1>9, <1>11, <1>12, <1>14, <2>2
  <2> QED BY <1>7, <2>1, <2>2
<1>16. QueueInv'
  BY <1>6, <1>7, <1>9, <1>10, <1>12, <1>15 DEF QueueInv
<1> QED BY <1>7, <1>9, <1>11, <1>12, <1>16 DEF n

LEMMA InitQueue == Init => QueueInv
<1> SUFFICES ASSUME Init PROVE QueueInv
  OBVIOUS
<1>1. /\ book.queue = {} /\ book.evaluating = {}
      /\ evaluated_cases = 0 /\ iteration = 0
  BY DEF Init, NewBook
<1>2. Superseded = {}
  BY <1>1 DEF Superseded
<1> QED BY <1>1, <1>2, FS_EmptySet, RoomIsNumber, WorkersAssumption DEF QueueInv, Counted

LEMMA StepKeepsQueue == IInv /\ QueueInv /\ [Next]_vars => QueueInv'
<1> SUFFICES ASSUME IInv, QueueInv, [Next]_vars PROVE QueueInv'
  OBVIOUS
<1>1. CASE Terminate \/ UNCHANGED vars
  BY <1>1 DEF Terminate, vars, QueueInv, Superseded, Counted, Closed, IsConverged
<1> QED BY <1>1, GetKeepsQueue, StartKeepsQueue, SuccessKeepsQueue,
           FailureKeepsQueue DEF Next

LEMMA QueueInvariance == Spec => [](IInv /\ QueueInv)
BY InitQueue, StepKeepsQueue, IInvariance, PTL DEF Spec

(* The queue never outgrows max_queue_length_, whatever order results come *)
(* in: pruning leaves room for one case of every direction, or else no     *)
(* direction is searched again.                                            *)
THEOREM QueueBoundedCorrect == Spec => []QueueBounded
BY QueueInvariance, QueueCounted, PTL

--------------------------------------------------------------------------------
(* No step counts more than one evaluation.                                *)
LEMMA CountGrowsByOne ==
  ASSUME IInv, QueueInv, NEW c \in book.evaluating, NEW v \in Values,
         SubmitSuccess(c, v) \/ SubmitFailure(c, v)
  PROVE  evaluated_cases' <= evaluated_cases + 1
<1> DEFINE n == evaluated_cases + 1
<1>1. evaluated_cases \in Nat /\ iteration \in Nat
  BY DEF IInv
<1>2. is_hybrid_component => iteration + 1 <= n
  BY <1>1 DEF QueueInv, Counted
<1>3. \/ evaluated_cases' = n
      \/ \E h, b, st, act, o : Iterate(h, b, st, act, n, o)
  BY DEF SubmitSuccess, SubmitFailure
<1>4. ASSUME NEW h, NEW b, NEW st, NEW act, NEW o, Iterate(h, b, st, act, n, o)
      PROVE  evaluated_cases' <= n
  <2>1. evaluated_cases' = IF is_hybrid_component THEN iteration + 1 ELSE n
    BY <1>4, IterateCounts
  <2> QED BY <1>1, <1>2, <2>1
<1> QED BY <1>1, <1>3, <1>4

(* A case comes in: it is pending no more, and with the evaluations used   *)
(* up nothing joins the queue in its place.                                *)
LEMMA SubmitKeepsOvershoot ==
  ASSUME IInv, IInv', QueueInv, QueueInv', OvershootBounded,
         NEW c \in book.evaluating, NEW v \in Values,
         SubmitSuccess(c, v) \/ SubmitFailure(c, v)
  PROVE  OvershootBounded'
<1>1. /\ book'.evaluating = book.evaluating \ {c}
      /\ evaluated_cases + 1 >= MaxEvals => book'.queue \subseteq book.queue
  BY SuccessKeepsQueue, FailureKeepsQueue
<1>2. evaluated_cases' <= evaluated_cases + 1
  BY CountGrowsByOne
<1>3. evaluated_cases \in Nat /\ evaluated_cases' \in Nat /\ MaxEvals \in Nat
  BY EvalsAssumption DEF IInv
<1>4. /\ IsFiniteSet(book.queue) /\ IsFiniteSet(book.evaluating)
      /\ Cardinality(book.evaluating) <= Workers
      /\ IsFiniteSet(book'.queue) /\ IsFiniteSet(book'.evaluating)
  BY DEF QueueInv
<1>5. c \notin book.queue
  BY DEF IInv, SearchInv, SearchType, Consistent, Pending
<1>6. SUFFICES ASSUME evaluated_cases' >= MaxEvals
               PROVE  evaluated_cases' + Cardinality(Pending(book'))
                        < MaxEvals + MaxQueueLen + Workers
  BY DEF OvershootBounded
<1>7. Pending(book') \subseteq Pending(book) \ {c} /\ c \in Pending(book)
  BY <1>1, <1>2, <1>3, <1>5, <1>6 DEF Pending
<1>8. IsFiniteSet(Pending(book)) /\ Cardinality(Pending(book)) \in Nat
  BY <1>4, FS_Union, FS_CardinalityType DEF Pending
<1>9. /\ Cardinality(Pending(book')) \in Nat
      /\ Cardinality(Pending(book')) <= Cardinality(Pending(book)) - 1
  <2>1. /\ IsFiniteSet(Pending(book) \ {c})
        /\ Cardinality(Pending(book) \ {c}) = Cardinality(Pending(book)) - 1
    BY <1>7, <1>8, FS_RemoveElement
  <2> QED BY <1>7, <2>1, FS_Subset, FS_CardinalityType
<1>10. CASE evaluated_cases >= MaxEvals
  <2>1. evaluated_cases + Cardinality(Pending(book)) < MaxEvals + MaxQueueLen + Workers
    BY <1>10 DEF OvershootBounded
  <2> QED BY <1>2, <1>3, <1>8, <1>9, <2>1, QueueAssumption, WorkersAssumption
<1>11. CASE ~(evaluated_cases >= MaxEvals)
  <2>1. evaluated_cases' = MaxEvals
    BY <1>2, <1>3, <1>6, <1>11
  <2>2. Cardinality(Pending(book)) <= Cardinality(book.queue) + Cardinality(book.evaluating)
    <3>1. Cardinality(book.queue \cup book.evaluating)
            = Cardinality(book.queue) + Cardinality(book.evaluating)
                - Cardinality(book.queue \cap book.evaluating)
      BY <1>4, FS_Union
    <3>2. Cardinality(book.queue \cap book.evaluating) \in Nat
      BY <1>4, FS_Intersection, FS_CardinalityType
    <3>3. Cardinality(book.queue) \in Nat /\ Cardinality(book.evaluating) \in Nat
      BY <1>4, FS_CardinalityType
    <3> QED BY <3>1, <3>2, <3>3 DEF Pending
  <2>3. Cardinality(book.queue) <= MaxQueueLen
    BY QueueCounted DEF QueueBounded
  <2>4. Cardinality(book.queue) \in Nat /\ Cardinality(book.evaluating) \in Nat
    BY <1>4, FS_CardinalityType
  <2> QED BY <1>3, <1>4, <1>8, <1>9, <2>1, <2>2, <2>3, <2>4,
             QueueAssumption, WorkersAssumption
<1> QED BY <1>10, <1>11

(* An iteration begins below max_evaluations_.                             *)
LEMMA StartKeepsOvershoot ==
  ASSUME IInv, IInv', QueueInv, StartIteration
  PROVE  OvershootBounded'
<1>1. /\ Cardinality(Pending(book')) \in Nat
      /\ Cardinality(Pending(book')) <= NumDirections
  BY StartKeepsQueue
<1>2. evaluated_cases < MaxEvals
  <2>1. book.evaluating = {}
    BY DEF StartIteration, Pending
  <2>2. ~(evaluated_cases >= MaxEvals)
    BY <2>1 DEF StartIteration, Finished, Stopped
  <2> QED BY <2>2, EvalsAssumption DEF IInv
<1>3. evaluated_cases' <= MaxEvals
  <2>1. Iterate(book, best, steps, active, evaluated_cases, ofv)
    BY DEF StartIteration
  <2>2. evaluated_cases' = IF is_hybrid_component THEN iteration + 1
                           ELSE evaluated_cases
    BY <2>1, IterateCounts
  <2>3. is_hybrid_component => iteration <= evaluated_cases
    BY DEF QueueInv, Counted, IInv
  <2> QED BY <1>2, <2>2, <2>3, EvalsAssumption DEF IInv
<1>4. evaluated_cases' \in Nat /\ MaxEvals \in Nat /\ Workers \in Nat \ {0}
  BY EvalsAssumption, WorkersAssumption DEF IInv
<1> QED BY <1>1, <1>3, <1>4, RoomIsNumber DEF OvershootBounded

LEMMA StepKeepsOvershoot ==
  IInv /\ IInv' /\ QueueInv /\ QueueInv' /\ OvershootBounded /\ [Next]_vars
    => OvershootBounded'
<1> SUFFICES ASSUME IInv, IInv', QueueInv, QueueInv', OvershootBounded, [Next]_vars
             PROVE  OvershootBounded'
  OBVIOUS
<1>1. CASE GetQueuedCase
  <2>1. PICK c \in book.queue : book' = GetNextCaseForEvaluation(book, c)
    BY <1>1 DEF GetQueuedCase, HeadOfQueue
  <2>2. Consistent(book)
    BY DEF IInv, SearchInv, SearchType
  <2>3. Pending(book') = Pending(book) /\ evaluated_cases' = evaluated_cases
    BY <1>1, <2>1, <2>2, GetNextBook DEF Pending, GetQueuedCase
  <2> QED BY <2>3 DEF OvershootBounded
<1>2. CASE Terminate \/ UNCHANGED vars
  BY <1>2 DEF Terminate, vars, OvershootBounded
<1> QED BY <1>1, <1>2, StartKeepsOvershoot, SubmitKeepsOvershoot DEF Next

LEMMA InitOvershoot == Init => OvershootBounded
<1> SUFFICES ASSUME Init PROVE OvershootBounded
  OBVIOUS
<1>1. Pending(book) = {} /\ evaluated_cases = 0
  BY DEF Init, NewBook, Pending
<1>2. Cardinality(Pending(book)) = 0
  BY <1>1, FS_EmptySet
<1> QED BY <1>1, <1>2, EvalsAssumption, QueueAssumption, WorkersAssumption
        DEF OvershootBounded

(* Once max_evaluations_ is reached no case is created: what is evaluated  *)
(* beyond it was queued or out by then.                                    *)
THEOREM OvershootCorrect == Spec => []OvershootBounded
BY InitOvershoot, StepKeepsOvershoot, IInvariance, QueueInvariance, PTL DEF Spec
================================================================================
