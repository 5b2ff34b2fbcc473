------------------------------ MODULE APPS_proofs ------------------------------
(***************************************************************************)
(* Proofs about the pattern search, for any number of variables, workers   *)
(* and evaluations, any bound on the queue and any set of objective        *)
(* function values.                                                        *)
(*                                                                         *)
(* A handler of APPS makes several calls in a row.  The invariant is       *)
(* stated over the state between two calls (SearchInv in APPS), each lemma *)
(* below says that one call preserves it, and the theorem chains them.     *)
(***************************************************************************)
EXTENDS APPS, CaseHandler_proofs

LEMMA DirectionsNat == Directions \subseteq Nat
BY NumVarsAssumption DEF Directions

--------------------------------------------------------------------------------
(* Taking a case from the queue for evaluation.                            *)
LEMMA GetNextPreserves ==
  ASSUME NEW h, NEW org, NEW len, NEW o, NEW b, NEW st, NEW act,
         SearchInv(h, org, len, o, b, st, act), NEW c \in h.queue,
         NEW g, g = GetNextCaseForEvaluation(h, c)
  PROVE  SearchInv(g, org, len, o, b, st, act)
<1>1. Consistent(h)
  BY DEF SearchInv, SearchType
<1>2. /\ Consistent(g)
      /\ Known(g) = Known(h)
      /\ Pending(g) = Pending(h)
      /\ g.evaluated = h.evaluated
  BY <1>1, GetNextBook
<1>3. SearchType(g, org, len, o, b, st, act)
  BY <1>2 DEF SearchInv, SearchType
<1>4. From(g, org, b) = From(h, org, b)
  BY <1>2 DEF From
<1>5. SearchActive(g, org, len, b, st, act)
  BY <1>4 DEF SearchInv, SearchActive
<1>6. SearchBest(g, org, len, o, b, st)
  BY <1>2 DEF SearchInv, SearchBest, Polled
<1> QED BY <1>3, <1>5, <1>6 DEF SearchInv

(* iterate: new trial cases from the best case, one for every inactive     *)
(* direction that has not converged.                                       *)
LEMMA IteratePreserves ==
  ASSUME NEW h, NEW b, NEW st, NEW act, NEW n, NEW o,
         SearchInv(h, origin, length, o, b, st, act),
         Iterate(h, b, st, act, n, o),
         NEW g, g = IteratedBook(h, NewDirections(act, st, n))
  PROVE  SearchInv(g, origin', length', ofv', best', steps', active')
<1> DEFINE dirs == NewDirections(act, st, n)
           fresh == Batch(h, dirs)
<1>1. /\ Consistent(h)
      /\ Known(h) \ {BaseCase} \subseteq Nat \X Directions
      /\ origin \in [Known(h) \ {BaseCase} -> h.evaluated]
      /\ length \in [Known(h) \ {BaseCase} -> Nat]
      /\ o \in [Known(h) -> Int]
      /\ b \in h.evaluated
      /\ st \in [Directions -> Int]
      /\ act \subseteq Directions
  BY DEF SearchInv, SearchType
<1>2. /\ dirs \subseteq Directions
      /\ dirs \cap act = {}
      /\ \A d \in dirs : st[d] \in Nat
  BY <1>1 DEF NewDirections, Inactive
<1>3. dirs \subseteq Nat
  BY <1>2, DirectionsNat
<1>4. /\ Consistent(g)
      /\ Known(g) = Known(h) \cup fresh
      /\ Pending(g) = Pending(h) \cup fresh
      /\ Known(h) \cap fresh = {}
      /\ g.evaluated = h.evaluated
  <2>1. CASE dirs = {}
    BY <1>1, <2>1 DEF IteratedBook, Batch
  <2>2. CASE dirs # {}
    <3>1. g = AddNewCases(h, dirs)
      BY <2>2 DEF IteratedBook
    <3> HIDE DEF dirs
    <3> QED BY <1>1, <1>3, <3>1, GrownBook
  <2> QED BY <2>1, <2>2
<1>5. /\ BaseCase \in Known(h)
      /\ h.calls \in Nat \ {0}
      /\ h.evaluated \subseteq Known(h)
      /\ Pending(h) \subseteq Known(h)
      /\ Pending(h) \cap h.evaluated = {}
  BY <1>1 DEF Consistent, Known, Book
<1>6. /\ fresh \subseteq Nat \X Directions
      /\ \A c \in fresh : Direction(c) \in dirs
      /\ \A d \in dirs : \E c \in fresh : Direction(c) = d
      /\ \A c, d \in fresh : Direction(c) = Direction(d) => c = d
      /\ BaseCase \notin fresh
  <2> HIDE DEF dirs
  <2>1. \A c \in fresh : \E p \in dirs : c = <<h.calls, p>>
    BY DEF Batch
  <2>2. \A p \in dirs : <<h.calls, p>> \in fresh
    BY DEF Batch
  <2> HIDE DEF fresh
  <2>3. fresh \subseteq Nat \X Directions
    BY <1>2, <1>5, <2>1
  <2>4. \A c \in fresh : Direction(c) \in dirs
    BY <2>1 DEF Direction
  <2>5. \A d \in dirs : \E c \in fresh : Direction(c) = d
    BY <2>2 DEF Direction
  <2>6. \A c, d \in fresh : Direction(c) = Direction(d) => c = d
    BY <2>1 DEF Direction
  <2>7. BaseCase \notin fresh
    BY <1>4, <1>5
  <2> QED BY <2>3, <2>4, <2>5, <2>6, <2>7
<1>7. Trials = Known(h) \ {BaseCase}
  BY <1>1 DEF Trials
<1>8. /\ Known(g) \ {BaseCase} = Trials \cup fresh
      /\ DOMAIN o = Known(h)
  BY <1>1, <1>4, <1>6, <1>7
<1>9. /\ origin' = [c \in Trials \cup fresh |->
                     IF c \in fresh THEN b ELSE origin[c]]
      /\ length' = [c \in Trials \cup fresh |->
                     IF c \in fresh THEN st[Direction(c)] ELSE length[c]]
      /\ ofv' = [c \in DOMAIN o \cup fresh |->
                   IF c \in fresh THEN o[b] ELSE o[c]]
      /\ best' = b
      /\ steps' = st
      /\ active' = act \cup dirs
  BY DEF Iterate
<1> HIDE DEF dirs, fresh
<1>10. SearchType(g, origin', length', ofv', best', steps', active')
  <2>1. Known(g) \ {BaseCase} \subseteq Nat \X Directions
    BY <1>1, <1>4, <1>6
  <2>2. origin' \in [Known(g) \ {BaseCase} -> g.evaluated]
    BY <1>1, <1>4, <1>7, <1>8, <1>9
  <2>3. length' \in [Known(g) \ {BaseCase} -> Nat]
    BY <1>1, <1>2, <1>6, <1>7, <1>8, <1>9
  <2>4. ofv' \in [Known(g) -> Int]
    BY <1>1, <1>4, <1>5, <1>8, <1>9
  <2> QED BY <1>1, <1>2, <1>4, <1>9, <2>1, <2>2, <2>3, <2>4 DEF SearchType
<1>11. From(g, origin', b) = From(h, origin, b) \cup fresh
  <2>1. ASSUME NEW c \in Pending(h)
        PROVE  c \in Trials \ fresh
    BY <1>1, <1>4, <1>5, <1>7 DEF Consistent
  <2> QED BY <1>4, <1>9, <2>1 DEF From
<1>12. SearchActive(g, origin', length', best', steps', active')
  <2>1. /\ act = {Direction(c) : c \in From(h, origin, b)}
        /\ \A c, d \in From(h, origin, b) : Direction(c) = Direction(d) => c = d
        /\ \A c \in From(h, origin, b) : length[c] = st[Direction(c)]
    BY DEF SearchInv, SearchActive
  <2>2. active' = {Direction(c) : c \in From(g, origin', b)}
    <3>1. \A d \in active' : \E c \in From(g, origin', b) : Direction(c) = d
      BY <1>6, <1>9, <1>11, <2>1
    <3>2. \A c \in From(g, origin', b) : Direction(c) \in active'
      BY <1>6, <1>9, <1>11, <2>1
    <3> QED BY <3>1, <3>2
  <2>3. \A c, d \in From(g, origin', b) : Direction(c) = Direction(d) => c = d
    BY <1>2, <1>6, <1>11, <2>1
  <2>4. \A c \in From(g, origin', b) : length'[c] = st[Direction(c)]
    <3>1. \A c \in From(h, origin, b) : c \in Trials \ fresh
      BY <1>1, <1>4, <1>5, <1>7 DEF Consistent, From
    <3> QED BY <1>9, <1>11, <2>1, <3>1
  <2> QED BY <1>9, <2>2, <2>3, <2>4 DEF SearchActive
<1>13. SearchBest(g, origin', length', ofv', best', steps')
  <2>1. \A c \in h.evaluated : ofv'[c] = o[c]
    BY <1>4, <1>5, <1>8, <1>9
  <2>2. \A c \in h.evaluated \ {BaseCase} :
           origin'[c] = origin[c] /\ length'[c] = length[c]
    BY <1>4, <1>5, <1>7, <1>9
  <2>3. SearchBest(h, origin, length, o, b, st)
    BY DEF SearchInv
  <2>4. \A c \in g.evaluated : ofv'[c] <= ofv'[best']
    BY <1>1, <1>4, <1>9, <2>1, <2>3 DEF SearchBest
  <2>5. ASSUME NEW d \in Directions, steps'[d] < 0
        PROVE  Polled(g, origin', length', ofv', best', steps', d)
    <3>1. PICK c \in h.evaluated \ {BaseCase} :
             /\ Direction(c) = d /\ origin[c] = b
             /\ length[c] = st[d] + 1
             /\ o[c] <= o[b]
      BY <1>9, <2>3, <2>5 DEF SearchBest, Polled
    <3> QED BY <1>1, <1>4, <1>9, <2>1, <2>2, <3>1 DEF Polled
  <2> QED BY <2>4, <2>5 DEF SearchBest
<1> QED BY <1>10, <1>12, <1>13 DEF SearchInv

(* iterate leaves the values of the cases the book knew as they were.      *)
LEMMA IterateValues ==
  ASSUME NEW h, NEW b, NEW st, NEW act, NEW n, NEW o,
         SearchInv(h, origin, length, o, b, st, act),
         Iterate(h, b, st, act, n, o)
  PROVE  best' = b /\ \A c \in Known(h) : ofv'[c] = o[c]
<1> DEFINE dirs == NewDirections(act, st, n)
<1>1. Consistent(h) /\ act \subseteq Directions /\ DOMAIN o = Known(h)
  BY DEF SearchInv, SearchType
<1>2. dirs \subseteq Nat
  BY DirectionsNat DEF NewDirections, Inactive
<1>3. best' = b /\ ofv' = [c \in DOMAIN o \cup Batch(h, dirs) |->
                           IF c \in Batch(h, dirs) THEN o[b] ELSE o[c]]
  BY DEF Iterate
<1> HIDE DEF dirs
<1>4. Known(h) \cap Batch(h, dirs) = {}
  BY <1>1, <1>2, GrownBook
<1> QED BY <1>1, <1>3, <1>4

(* A submitted case that does not improve on the best one: a case from the *)
(* best case deactivates and contracts its direction, any other case       *)
(* changes the book only.                                                  *)
LEMMA FailurePreserves ==
  ASSUME IInv, NEW c \in book.evaluating, NEW v \in Int,
         v <= ofv[best],
         NEW h, h = SetCaseEvaluated(book, c),
         NEW o, o = [ofv EXCEPT ![c] = v],
         NEW st, st = IF origin[c] = best
                        THEN Contract(steps, Direction(c)) ELSE steps,
         NEW act, act = IF origin[c] = best
                          THEN active \ {Direction(c)} ELSE active
  PROVE  SearchInv(h, origin, length, o, best, st, act)
<1>1. /\ Consistent(book)
      /\ Known(book) \ {BaseCase} \subseteq Nat \X Directions
      /\ origin \in [Known(book) \ {BaseCase} -> book.evaluated]
      /\ length \in [Known(book) \ {BaseCase} -> Nat]
      /\ ofv \in [Known(book) -> Int]
      /\ best \in book.evaluated
      /\ steps \in [Directions -> Int]
      /\ active \subseteq Directions
  BY DEF IInv, SearchInv, SearchType
<1>2. /\ Consistent(h)
      /\ Known(h) = Known(book)
      /\ Pending(h) = Pending(book) \ {c}
      /\ h.evaluated = book.evaluated \cup {c}
  BY <1>1, EvaluatedBook
<1>3. /\ c \in Pending(book)
      /\ c \notin book.evaluated
      /\ c \in Known(book) \ {BaseCase}
      /\ Direction(c) \in Directions
      /\ book.evaluated \subseteq Known(book)
  BY <1>1 DEF Consistent, Pending, Known, Direction
<1>4. /\ o \in [Known(book) -> Int]
      /\ o[c] = v
      /\ \A d \in Known(book) \ {c} : o[d] = ofv[d]
  BY <1>1, <1>3
<1>5. /\ st \in [Directions -> Int]
      /\ \A d \in Directions :
            st[d] = IF origin[c] = best /\ d = Direction(c)
                      THEN steps[d] - 1 ELSE steps[d]
  BY <1>1, <1>3 DEF Contract
<1>6. SearchActive(book, origin, length, best, steps, active)
  BY DEF IInv, SearchInv
<1>7. SearchType(h, origin, length, o, best, st, act)
  BY <1>1, <1>2, <1>4, <1>5 DEF SearchType
<1>8. SearchActive(h, origin, length, best, st, act)
  <2>1. From(h, origin, best) = From(book, origin, best) \ {c}
    BY <1>2 DEF From
  <2>2. /\ active = {Direction(d) : d \in From(book, origin, best)}
        /\ \A d, e \in From(book, origin, best) :
              Direction(d) = Direction(e) => d = e
        /\ \A d \in From(book, origin, best) : length[d] = steps[Direction(d)]
    BY <1>6 DEF SearchActive
  <2>3. CASE origin[c] = best
    <3>1. c \in From(book, origin, best)
      BY <1>3, <2>3 DEF From
    <3>2. \A d \in From(h, origin, best) : Direction(d) # Direction(c)
      BY <2>1, <2>2, <3>1
    <3>3. \A d \in From(h, origin, best) : Direction(d) \in Directions
      BY <1>1, <2>1, <2>2
    <3>4. act = {Direction(d) : d \in From(h, origin, best)}
      <4>1. \A d \in act : \E e \in From(h, origin, best) : Direction(e) = d
        BY <2>1, <2>2, <2>3
      <4>2. \A d \in From(h, origin, best) : Direction(d) \in act
        BY <2>1, <2>2, <2>3, <3>2
      <4> QED BY <4>1, <4>2
    <3> QED BY <1>5, <2>1, <2>2, <3>2, <3>3, <3>4 DEF SearchActive
  <2>4. CASE origin[c] # best
    <3>1. From(h, origin, best) = From(book, origin, best)
      BY <2>1, <2>4 DEF From
    <3> QED BY <1>6, <2>4, <3>1 DEF SearchActive
  <2> QED BY <2>3, <2>4
<1>9. SearchBest(book, origin, length, ofv, best, steps)
  BY DEF IInv, SearchInv
<1>10. SearchBest(h, origin, length, o, best, st)
  <2>1. \A d \in h.evaluated : o[d] <= o[best]
    BY <1>1, <1>2, <1>3, <1>4, <1>9 DEF SearchBest
  <2>2. ASSUME NEW d \in Directions, st[d] < 0
        PROVE  Polled(h, origin, length, o, best, st, d)
    <3>1. CASE origin[c] = best /\ d = Direction(c)
      <4>1. c \in From(book, origin, best)
        BY <1>3, <3>1 DEF From
      <4>2. length[c] = steps[d]
        BY <1>6, <3>1, <4>1 DEF SearchActive
      <4>3. length[c] = st[d] + 1
        BY <1>1, <1>5, <3>1, <4>2
      <4> QED BY <1>1, <1>2, <1>3, <1>4, <3>1, <4>3 DEF Polled
    <3>2. CASE ~(origin[c] = best /\ d = Direction(c))
      <4>1. st[d] = steps[d]
        BY <1>5, <3>2
      <4>2. PICK e \in book.evaluated \ {BaseCase} :
               /\ Direction(e) = d /\ origin[e] = best
               /\ length[e] = steps[d] + 1
               /\ ofv[e] <= ofv[best]
        BY <1>9, <2>2, <4>1 DEF SearchBest, Polled
      <4> QED BY <1>1, <1>2, <1>3, <1>4, <4>1, <4>2 DEF Polled
    <3> QED BY <3>1, <3>2
  <2> QED BY <2>1, <2>2 DEF SearchBest
<1> QED BY <1>7, <1>8, <1>10 DEF SearchInv

(* The step lengths after a success are all at least the tolerance.        *)
LEMMA SuccessSteps ==
  ASSUME NEW d \in Directions, NEW l \in Nat,
         NEW st \in SetStepLengths(d, l)
  PROVE  Expand(st) \in [Directions -> Nat]
<1>1. st \in [Directions -> Nat]
  BY LevelAssumption DEF SetStepLengths
<1> QED BY <1>1, LevelAssumption DEF Expand

(* A submitted case that improves on the best one becomes the best case;   *)
(* no pending case is from it, and every direction has to be searched.     *)
LEMMA SuccessPreserves ==
  ASSUME IInv, NEW c \in book.evaluating, NEW v \in Int,
         v > ofv[best],
         NEW h, h = SetCaseEvaluated(book, c),
         NEW cs \in SUBSET h.queue,
         NEW g, g = DequeueCases(h, cs),
         NEW o, o = [ofv EXCEPT ![c] = v],
         NEW st \in [Directions -> Nat]
  PROVE  SearchInv(g, origin, length, o, c, st, {})
<1>1. /\ Consistent(book)
      /\ Known(book) \ {BaseCase} \subseteq Nat \X Directions
      /\ origin \in [Known(book) \ {BaseCase} -> book.evaluated]
      /\ length \in [Known(book) \ {BaseCase} -> Nat]
      /\ ofv \in [Known(book) -> Int]
      /\ best \in book.evaluated
  BY DEF IInv, SearchInv, SearchType
<1>2. /\ Consistent(h)
      /\ Known(h) = Known(book)
      /\ Pending(h) = Pending(book) \ {c}
      /\ h.evaluated = book.evaluated \cup {c}
  BY <1>1, EvaluatedBook
<1>3. /\ Consistent(g)
      /\ Known(g) = Known(book)
      /\ Pending(g) \subseteq Pending(book) \ {c}
      /\ g.evaluated = book.evaluated \cup {c}
  BY <1>2, DequeuedBook
<1>4. /\ c \notin book.evaluated
      /\ c \in Known(book)
      /\ BaseCase \in book.evaluated
      /\ Pending(book) \cap book.evaluated = {}
      /\ Pending(book) \subseteq Known(book)
      /\ book.evaluated \subseteq Known(book)
  BY <1>1 DEF Consistent, Pending, Known
<1>5. /\ o \in [Known(book) -> Int]
      /\ o[c] = v
      /\ \A d \in Known(book) \ {c} : o[d] = ofv[d]
  BY <1>1, <1>4
<1>6. SearchType(g, origin, length, o, c, st, {})
  <2>1. origin \in [Known(g) \ {BaseCase} -> g.evaluated]
    BY <1>1, <1>3
  <2>2. st \in [Directions -> Int]
    OBVIOUS
  <2> QED BY <1>1, <1>3, <1>5, <2>1, <2>2 DEF SearchType
<1>7. From(g, origin, c) = {}
  BY <1>1, <1>3, <1>4 DEF From
<1>8. SearchActive(g, origin, length, c, st, {})
  BY <1>7 DEF SearchActive
<1>9. SearchBest(g, origin, length, o, c, st)
  <2>1. \A d \in book.evaluated : ofv[d] <= ofv[best]
    BY DEF IInv, SearchInv, SearchBest
  <2>2. \A d \in g.evaluated : o[d] <= o[c]
    BY <1>1, <1>3, <1>4, <1>5, <2>1
  <2>3. \A d \in Directions : ~(st[d] < 0)
    OBVIOUS
  <2> QED BY <2>2, <2>3 DEF SearchBest
<1> QED BY <1>6, <1>8, <1>9 DEF SearchInv

(* Before the first call the base case is the best one.                    *)
LEMMA InitIInv == Init => IInv
<1> SUFFICES ASSUME Init PROVE IInv
  OBVIOUS
<1>1. /\ Consistent(book)
      /\ Known(book) = {BaseCase}
      /\ Pending(book) = {}
      /\ book.evaluated = {BaseCase}
  BY NewBookConsistent DEF Init
<1>2. ofv \in [{BaseCase} -> Int]
  BY ValuesAssumption DEF Init
<1>3. steps \in [Directions -> Nat]
  BY LevelAssumption DEF Init
<1>4. best = BaseCase /\ active = {}
  BY DEF Init
<1>5. origin \in [{} -> book.evaluated] /\ length \in [{} -> Nat]
  BY DEF Init
<1>6. SearchType(book, origin, length, ofv, best, steps, active)
  BY <1>1, <1>2, <1>3, <1>4, <1>5 DEF SearchType
<1>7. SearchActive(book, origin, length, best, steps, active)
  BY <1>1, <1>4 DEF SearchActive, From
<1>8. SearchBest(book, origin, length, ofv, best, steps)
  BY <1>1, <1>2, <1>3, <1>4 DEF SearchBest
<1> QED BY <1>6, <1>7, <1>8 DEF IInv, SearchInv, Init

(* Every step of the search preserves the inductive invariant.             *)
LEMMA StepIInv == IInv /\ [Next]_vars => IInv'
<1> SUFFICES ASSUME IInv, [Next]_vars PROVE IInv'
  OBVIOUS
<1>1. /\ SearchInv(book, origin, length, ofv, best, steps, active)
      /\ iteration \in Nat /\ evaluated_cases \in Nat
      /\ is_hybrid_component \in BOOLEAN
  BY DEF IInv
<1>2. CASE GetQueuedCase
  <2>1. PICK c \in book.queue : book' = GetNextCaseForEvaluation(book, c)
    BY <1>2 DEF GetQueuedCase, HeadOfQueue
  <2>2. /\ SearchInv(book', origin, length, ofv, best, steps, active)
    BY <1>1, <2>1, GetNextPreserves
  <2> QED BY <1>1, <1>2, <2>2 DEF GetQueuedCase, IInv
<1>3. CASE StartIteration
  <2> DEFINE g == IteratedBook(book,
                               NewDirections(active, steps, evaluated_cases))
  <2>1. Iterate(book, best, steps, active, evaluated_cases, ofv)
    BY <1>3 DEF StartIteration
  <2>2. SearchInv(g, origin', length', ofv', best', steps', active')
    BY <1>1, <2>1, IteratePreserves
  <2>3. PICK c \in g.queue : book' = GetNextCaseForEvaluation(g, c)
    BY <1>3 DEF StartIteration, HeadOfQueue
  <2> HIDE DEF g
  <2>4. SearchInv(book', origin', length', ofv', best', steps', active')
    BY <2>2, <2>3, GetNextPreserves
  <2> QED BY <1>1, <2>1, <2>4 DEF Iterate, IInv
<1>4. ASSUME NEW c \in book.evaluating, NEW v \in Values, SubmitSuccess(c, v)
      PROVE  IInv'
  <2> DEFINE n == evaluated_cases + 1
             h == SetCaseEvaluated(book, c)
             o == [ofv EXCEPT ![c] = v]
  <2>1. v \in Int /\ v > ofv[best]
    BY <1>4, ValuesAssumption DEF SubmitSuccess, IsImprovement
  <2>2. Direction(c) \in Directions /\ length[c] \in Nat
    <3>1. c \in Known(book) \ {BaseCase}
      BY <1>1 DEF SearchInv, SearchType, Consistent, Pending, Known
    <3> QED BY <1>1, <3>1 DEF SearchInv, SearchType, Direction
  <2>3. PICK st \in SetStepLengths(Direction(c), length[c]),
             k \in PrunedQueue(h.queue, n) :
           /\ book' = IteratedBook(DequeueCases(h, h.queue \ k),
                                   NewDirections({}, Expand(st), n))
           /\ Iterate(DequeueCases(h, h.queue \ k), c, Expand(st), {}, n, o)
    BY <1>4 DEF SubmitSuccess
  <2>4. Expand(st) \in [Directions -> Nat]
    BY <2>2, SuccessSteps
  <2> DEFINE g == DequeueCases(h, h.queue \ k)
  <2>5. h.queue \ k \in SUBSET h.queue
    OBVIOUS
  <2>6. SearchInv(g, origin, length, o, c, Expand(st), {})
    <3> HIDE DEF n, h, o
    <3>1. h = SetCaseEvaluated(book, c) /\ o = [ofv EXCEPT ![c] = v]
      BY DEF h, o
    <3> QED BY <2>1, <2>4, <2>5, <3>1, SuccessPreserves
  <2>7. SearchInv(book', origin', length', ofv', best', steps', active')
    BY <2>3, <2>6, IteratePreserves
  <2>8. n \in Nat /\ iteration + 1 \in Nat
    BY <1>1
  <2> QED BY <1>1, <2>3, <2>7, <2>8 DEF Iterate, IInv
<1>5. ASSUME NEW c \in book.evaluating, NEW v \in Values, SubmitFailure(c, v)
      PROVE  IInv'
  <2> DEFINE n   == evaluated_cases + 1
             h   == SetCaseEvaluated(book, c)
             o   == [ofv EXCEPT ![c] = v]
             st  == IF origin[c] = best
                      THEN Contract(steps, Direction(c)) ELSE steps
             act == IF origin[c] = best
                      THEN active \ {Direction(c)} ELSE active
  <2>1. v \in Int /\ v <= ofv[best]
    <3>1. ofv[best] \in Int
      BY <1>1 DEF SearchInv, SearchType, Consistent, Known
    <3> QED BY <1>5, <3>1, ValuesAssumption DEF SubmitFailure, IsImprovement
  <2>2. SearchInv(h, origin, length, o, best, st, act)
    BY <2>1, FailurePreserves
  <2>3. n \in Nat /\ iteration + 1 \in Nat
    BY <1>1
  <2>4. CASE IsConverged(st)
    <3>1. /\ book' = h /\ ofv' = o /\ steps' = st /\ active' = act
          /\ evaluated_cases' = n
          /\ UNCHANGED <<origin, length, best, iteration, is_hybrid_component>>
      BY <1>5, <2>4 DEF SubmitFailure
    <3> HIDE DEF n, h, o, st, act
    <3> QED BY <1>1, <2>2, <2>3, <3>1 DEF IInv
  <2>5. CASE ~IsConverged(st)
    <3>1. /\ book' = IteratedBook(h, NewDirections(act, st, n))
          /\ Iterate(h, best, st, act, n, o)
      BY <1>5, <2>5 DEF SubmitFailure
    <3> HIDE DEF n, h, o, st, act
    <3>2. SearchInv(book', origin', length', ofv', best', steps', active')
      BY <2>2, <3>1, IteratePreserves
    <3> QED BY <1>1, <2>3, <3>1, <3>2 DEF Iterate, IInv
  <2> QED BY <2>4, <2>5
<1>6. CASE UNCHANGED vars
  BY <1>1, <1>6 DEF vars, IInv
<1>7. CASE Terminate
  BY <1>6, <1>7 DEF Terminate
<1> QED BY <1>2, <1>3, <1>4, <1>5, <1>6, <1>7 DEF Next

LEMMA IInvariance == Spec => []IInv
BY InitIInv, StepIInv, PTL DEF Spec

--------------------------------------------------------------------------------
(* Type correctness.                                                       *)
THEOREM TypeCorrect == Spec => []TypeOK
<1>1. IInv => TypeOK
  <2> SUFFICES ASSUME IInv PROVE TypeOK
    OBVIOUS
  <2>1. /\ SearchType(book, origin, length, ofv, best, steps, active)
        /\ iteration \in Nat /\ evaluated_cases \in Nat
        /\ is_hybrid_component \in BOOLEAN
    BY DEF IInv, SearchInv
  <2>2. Trials = Known(book) \ {BaseCase}
    BY <2>1 DEF SearchType, Trials
  <2> QED BY <2>1, <2>2 DEF SearchType, TypeOK, Consistent, Value
<1> QED BY <1>1, IInvariance, PTL

(* A direction is active exactly while one case of it is pending.          *)
THEOREM ActiveCorrect == Spec => []ActiveMeansPending
<1>1. IInv => ActiveMeansPending
  BY DEF IInv, SearchInv, SearchActive, ActiveMeansPending, Current, From
<1> QED BY <1>1, IInvariance, PTL

(* A running search always has a case to hand out.                         *)
THEOREM NeverEmptyHandedCorrect == Spec => []NeverEmptyHanded
<1>1. IInv => NeverEmptyHanded
  <2> SUFFICES ASSUME IInv, ~Finished, Pending(book) = {}
               PROVE  NewDirections(active, steps, evaluated_cases) # {}
    BY DEF NeverEmptyHanded
  <2>1. /\ active = {}
        /\ steps \in [Directions -> Int] /\ evaluated_cases \in Nat
    BY DEF IInv, SearchInv, SearchType, SearchActive, From
  <2>2. evaluated_cases < MaxEvals /\ ~IsConverged(steps)
    BY <2>1, EvalsAssumption DEF Finished, Stopped, Pending
  <2>3. PICK d \in Directions : steps[d] >= 0
    BY <2>1, <2>2 DEF IsConverged
  <2> QED BY <2>1, <2>2, <2>3 DEF NewDirections, Inactive
<1> QED BY <1>1, IInvariance, PTL

(* The tentative best case is the best evaluated case.                     *)
THEOREM BestCorrect == Spec => []BestDominates
<1>1. IInv => BestDominates
  BY DEF IInv, SearchInv, SearchBest, BestDominates
<1> QED BY <1>1, IInvariance, PTL

(* At convergence every direction has been polled from the best case.      *)
THEOREM ConvergenceCorrect == Spec => []ConvergedMeansPolled
<1>1. IInv => ConvergedMeansPolled
  <2> SUFFICES ASSUME IInv, IsConverged(steps), NEW d \in Directions
               PROVE  \E c \in Trials \cap book.evaluated :
                        /\ Direction(c) = d /\ origin[c] = best
                        /\ length[c] = steps[d] + 1
                        /\ ofv[c] <= ofv[best]
    BY DEF ConvergedMeansPolled
  <2>1. /\ Trials = Known(book) \ {BaseCase}
        /\ book.evaluated \subseteq Known(book)
    BY DEF IInv, SearchInv, SearchType, Trials, Known
  <2>2. Polled(book, origin, length, ofv, best, steps, d)
    BY DEF IInv, SearchInv, SearchBest, IsConverged
  <2> QED BY <2>1, <2>2 DEF Polled
<1> QED BY <1>1, IInvariance, PTL

(* The best case only ever gives way to a strictly better one, and the     *)
(* value of an evaluated case is final.                                    *)
THEOREM BestImprovesCorrect == Spec => BestImproves
<1>1. IInv /\ [Next]_vars => [BestImprovesStep]_vars
  <2> SUFFICES ASSUME IInv, Next PROVE BestImprovesStep \/ UNCHANGED vars
    OBVIOUS
  <2>1. /\ SearchInv(book, origin, length, ofv, best, steps, active)
        /\ ofv \in [Known(book) -> Int]
        /\ book.evaluated \subseteq Known(book)
        /\ \A c \in book.evaluating : c \in Known(book) \ book.evaluated
    BY DEF IInv, SearchInv, SearchType, Consistent, Known, Pending
  <2>2. CASE GetQueuedCase
    BY <2>2 DEF GetQueuedCase, BestImprovesStep
  <2>3. CASE StartIteration
    <3>1. best' = best /\ \A c \in Known(book) : ofv'[c] = ofv[c]
      BY <2>1, <2>3, IterateValues DEF StartIteration
    <3> QED BY <2>1, <3>1 DEF BestImprovesStep
  <2>4. ASSUME NEW c \in book.evaluating, NEW v \in Values, SubmitSuccess(c, v)
        PROVE  BestImprovesStep
    <3> DEFINE n == evaluated_cases + 1
               h == SetCaseEvaluated(book, c)
               o == [ofv EXCEPT ![c] = v]
    <3>1. v \in Int /\ v > ofv[best]
      BY <2>4, ValuesAssumption DEF SubmitSuccess, IsImprovement
    <3>2. PICK st \in SetStepLengths(Direction(c), length[c]),
               k \in PrunedQueue(h.queue, n) :
            Iterate(DequeueCases(h, h.queue \ k), c, Expand(st), {}, n, o)
      BY <2>4 DEF SubmitSuccess
    <3>3. Direction(c) \in Directions /\ length[c] \in Nat
      BY <2>1 DEF SearchInv, SearchType, Direction, Consistent
    <3>4. Expand(st) \in [Directions -> Nat]
      BY <3>3, SuccessSteps
    <3> DEFINE g == DequeueCases(h, h.queue \ k)
    <3>5. SearchInv(g, origin, length, o, c, Expand(st), {})
      <4> HIDE DEF n, h, o
      <4>1. h = SetCaseEvaluated(book, c) /\ o = [ofv EXCEPT ![c] = v]
        BY DEF h, o
      <4>2. h.queue \ k \in SUBSET h.queue
        OBVIOUS
      <4> QED BY <3>1, <3>4, <4>1, <4>2, SuccessPreserves
    <3>6. best' = c /\ \A d \in Known(g) : ofv'[d] = o[d]
      BY <3>2, <3>5, IterateValues
    <3>7. Known(g) = Known(book)
      <4>1. DOMAIN o = Known(g)
        <5> HIDE DEF o, g
        <5> QED BY <3>5 DEF SearchInv, SearchType
      <4> QED BY <2>1, <4>1
    <3> HIDE DEF g
    <3> QED BY <2>1, <3>1, <3>6, <3>7 DEF BestImprovesStep
  <2>5. ASSUME NEW c \in book.evaluating, NEW v \in Values, SubmitFailure(c, v)
        PROVE  BestImprovesStep
    <3> DEFINE n   == evaluated_cases + 1
               h   == SetCaseEvaluated(book, c)
               o   == [ofv EXCEPT ![c] = v]
               st  == IF origin[c] = best
                        THEN Contract(steps, Direction(c)) ELSE steps
               act == IF origin[c] = best
                        THEN active \ {Direction(c)} ELSE active
    <3>1. v \in Int /\ v <= ofv[best]
      <4>1. ofv[best] \in Int
        BY <2>1 DEF SearchInv, SearchType
      <4> QED BY <2>5, <4>1, ValuesAssumption DEF SubmitFailure, IsImprovement
    <3>2. SearchInv(h, origin, length, o, best, st, act)
      BY <3>1, FailurePreserves
    <3>3. DOMAIN o = Known(h) /\ DOMAIN o = Known(book)
      <4>1. DOMAIN o = Known(book)
        BY <2>1
      <4> HIDE DEF o, h, st, act
      <4> QED BY <3>2, <4>1 DEF SearchInv, SearchType
    <3>4. CASE IsConverged(st)
      <4>1. ofv' = o /\ best' = best
        BY <2>5, <3>4 DEF SubmitFailure
      <4> QED BY <2>1, <4>1 DEF BestImprovesStep
    <3>5. CASE ~IsConverged(st)
      <4>1. Iterate(h, best, st, act, n, o)
        BY <2>5, <3>5 DEF SubmitFailure
      <4>2. best' = best /\ \A d \in Known(h) : ofv'[d] = o[d]
        <5> HIDE DEF n, h, o, st, act
        <5> QED BY <3>2, <4>1, IterateValues
      <4> QED BY <2>1, <3>3, <4>2 DEF BestImprovesStep
    <3> QED BY <3>4, <3>5
  <2>6. CASE Terminate
    BY <2>6 DEF Terminate
  <2> QED BY <2>2, <2>3, <2>4, <2>5, <2>6 DEF Next
<1> QED BY <1>1, IInvariance, PTL DEF Spec, BestImproves
================================================================================
