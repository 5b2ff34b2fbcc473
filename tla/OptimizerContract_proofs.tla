------------------------ MODULE OptimizerContract_proofs -----------------------
(***************************************************************************)
(* What the steps of an optimizer that keeps its contract do to its book,  *)
(* for batches of every size and any number of them, and that such an      *)
(* optimizer implements CaseLifecycle.                                     *)
(***************************************************************************)
EXTENDS OptimizerContract, CaseHandler_proofs

(* The cases of g that h does not know are queued behind all cases of h.   *)
NewOnesBehind(h, g) ==
  \A d \in g.queue \ h.queue : \A c \in Known(h) : Before(c, d)

(* At most one batch is enqueued.                                          *)
LEMMA GrownBooks ==
  ASSUME NEW h, Consistent(h), NEW g \in Grown(h)
  PROVE  /\ Consistent(g)
         /\ Known(h) \subseteq Known(g) /\ Known(g) = Known(h) \cup g.queue
         /\ h.queue \subseteq g.queue /\ NewOnesBehind(h, g)
         /\ g.queue \cap Known(h) = h.queue
         /\ g.evaluating = h.evaluating /\ g.evaluated = h.evaluated
<1>1. CASE g = h
  BY <1>1 DEF NewOnesBehind, Known, Pending, Consistent
<1>2. ASSUME NEW ps \in SUBSET Positions, g = AddNewCases(h, ps)
      PROVE  /\ Consistent(g)
             /\ Known(h) \subseteq Known(g) /\ Known(g) = Known(h) \cup g.queue
             /\ h.queue \subseteq g.queue /\ NewOnesBehind(h, g)
             /\ g.queue \cap Known(h) = h.queue
             /\ g.evaluating = h.evaluating /\ g.evaluated = h.evaluated
  <2>1. ps \in SUBSET Nat
    BY PositionsAssumption
  <2>2. /\ Consistent(g)
        /\ Known(g) = Known(h) \cup Batch(h, ps)
        /\ Known(h) \cap Batch(h, ps) = {}
        /\ g.queue = h.queue \cup Batch(h, ps)
        /\ g.evaluating = h.evaluating
        /\ g.evaluated = h.evaluated
    BY <1>2, <2>1, GrownBook
  <2>3. h.queue \subseteq Known(h)
    BY DEF Known, Pending
  <2>4. NewOnesBehind(h, g)
    <3>1. \A d \in Batch(h, ps) : d[1] = h.calls
      BY DEF Batch
    <3>2. \A c \in Known(h) : c[1] < h.calls
      BY DEF Consistent
    <3> QED BY <2>2, <3>1, <3>2 DEF NewOnesBehind, Before
  <2> QED BY <2>2, <2>3, <2>4
<1> QED BY <1>1, <1>2 DEF Grown

(* The book the next case is taken from.                                   *)
LEMMA SuppliedBooks ==
  ASSUME Consistent(book), NEW g \in Suppliers
  PROVE  /\ Consistent(g) /\ g.queue # {}
         /\ Known(book) \subseteq Known(g) /\ Known(g) = Known(book) \cup g.queue
         /\ book.queue \subseteq g.queue /\ NewOnesBehind(book, g)
         /\ g.queue \cap Known(book) = book.queue
         /\ g.evaluating = book.evaluating /\ g.evaluated = book.evaluated
<1>1. g \in Grown(book) /\ g.queue # {}
  BY DEF Suppliers, Iterated, Grown
<1> QED BY <1>1, GrownBooks

(* Handling the result of c moves it to the evaluated cases; queued cases  *)
(* may be discarded, and new ones enqueued.                                *)
LEMMA HandledBooks ==
  ASSUME NEW h, Consistent(h), NEW c \in h.evaluating, NEW g \in Handled(h, c)
  PROVE  /\ Consistent(g)
         /\ Known(h) \subseteq Known(g) /\ Known(g) = Known(h) \cup g.queue
         /\ g.queue \cap Known(h) \subseteq h.queue /\ NewOnesBehind(h, g)
         /\ g.evaluating = h.evaluating \ {c}
         /\ g.evaluated = h.evaluated \cup {c}
<1> DEFINE e == SetCaseEvaluated(h, c)
           done == ClearRecentlyEvaluatedCases(e)
<1>1. /\ Consistent(e) /\ Known(e) = Known(h) /\ e.queue = h.queue
      /\ e.evaluating = h.evaluating \ {c} /\ e.evaluated = h.evaluated \cup {c}
  BY EvaluatedBook
<1> HIDE DEF e
<1>2. /\ Consistent(done) /\ Known(done) = Known(e) /\ done.queue = e.queue
      /\ done.evaluating = e.evaluating /\ done.evaluated = e.evaluated
  BY <1>1 DEF ClearRecentlyEvaluatedCases, Consistent, Book, Known, Pending
<1> HIDE DEF done
<1>3. PICK ds \in SUBSET done.queue : g \in Grown(DequeueCases(done, ds))
  BY DEF Handled, done, e
<1> DEFINE k == DequeueCases(done, ds)
<1>4. /\ Consistent(k) /\ Known(k) = Known(done) /\ k.queue = done.queue \ ds
      /\ k.evaluating = done.evaluating /\ k.evaluated = done.evaluated
  BY <1>2, DequeuedBook
<1> HIDE DEF k
<1>5. /\ Consistent(g)
      /\ Known(k) \subseteq Known(g) /\ Known(g) = Known(k) \cup g.queue
      /\ NewOnesBehind(k, g) /\ g.queue \cap Known(k) = k.queue
      /\ g.evaluating = k.evaluating /\ g.evaluated = k.evaluated
  BY <1>3, <1>4, GrownBooks DEF k
<1>6. NewOnesBehind(h, g)
  <2>1. Known(k) = Known(h) /\ k.queue \subseteq h.queue
    BY <1>1, <1>2, <1>4
  <2> QED BY <1>5, <2>1 DEF NewOnesBehind
<1> QED BY <1>1, <1>2, <1>4, <1>5, <1>6
--------------------------------------------------------------------------------
(* What a step from the book h to the book g may do to the cases, stage by *)
(* stage (CaseLifecycle!Advance, for the stages StageOf gives).            *)
Handed(h, g) ==
  {c \in g.evaluating \cup g.evaluated : c \notin h.evaluating \cup h.evaluated}

LifeStep(h, g) ==
  /\ Known(h) \subseteq Known(g)
  /\ g.queue \cap Known(h) \subseteq h.queue
  /\ h.evaluating \subseteq g.evaluating \cup g.evaluated
  /\ h.evaluated \subseteq g.evaluated
  /\ Handed(h, g) \cap Known(h) \subseteq h.queue
  /\ \A c \in Handed(h, g) : \A d \in g.queue : Before(c, d)

(* The optimizer hands out the head of its queue.                          *)
LEMMA GetStep ==
  ASSUME Consistent(book), NEW g \in Suppliers, NEW c \in g.queue, IsHead(g, c),
         NEW h, h = GetNextCaseForEvaluation(g, c)
  PROVE  /\ Consistent(h) /\ LifeStep(book, h)
         /\ h.evaluating = book.evaluating \cup {c}
         /\ h.evaluated = book.evaluated
         /\ c \notin book.evaluating /\ c \notin book.evaluated
         /\ h.queue = g.queue \ {c} /\ Known(h) = Known(g)
<1>1. /\ Consistent(g)
      /\ Known(book) \subseteq Known(g)
      /\ g.queue \cap Known(book) = book.queue
      /\ g.evaluating = book.evaluating /\ g.evaluated = book.evaluated
  BY SuppliedBooks
<1>2. /\ Consistent(h)
      /\ Known(h) = Known(g) /\ h.queue = g.queue \ {c}
      /\ h.evaluating = g.evaluating \cup {c} /\ h.evaluated = g.evaluated
  BY <1>1, GetNextBook
<1>3. c \notin g.evaluating /\ c \notin g.evaluated
  BY <1>1 DEF Consistent, Pending
<1>4. \A d \in h.queue : Before(c, d)
  BY <1>2 DEF IsHead
<1>5. Handed(book, h) \subseteq {c}
  BY <1>1, <1>2 DEF Handed
<1>6. LifeStep(book, h)
  BY <1>1, <1>2, <1>4, <1>5 DEF LifeStep
<1> QED BY <1>1, <1>2, <1>3, <1>6

(* A result is handled.                                                    *)
LEMMA SubmitStep ==
  ASSUME NEW h, Consistent(h), NEW c \in h.evaluating, NEW g \in Handled(h, c)
  PROVE  LifeStep(h, g) /\ Handed(h, g) = {}
<1>1. /\ Known(h) \subseteq Known(g)
      /\ g.queue \cap Known(h) \subseteq h.queue
      /\ g.evaluating = h.evaluating \ {c}
      /\ g.evaluated = h.evaluated \cup {c}
  BY HandledBooks
<1> QED BY <1>1 DEF LifeStep, Handed

(* The runner hands in the result of a case it was just handed out.        *)
LEMMA GetAndSubmitStep ==
  ASSUME Consistent(book), NEW g \in Suppliers, NEW c \in g.queue, IsHead(g, c),
         NEW h, h = GetNextCaseForEvaluation(g, c), NEW k \in Handled(h, c)
  PROVE  /\ Consistent(k) /\ LifeStep(book, k)
         /\ k.evaluating = book.evaluating
         /\ k.evaluated = book.evaluated \cup {c}
         /\ Known(k) = Known(h) \cup k.queue
         /\ k.queue \cap Known(h) \subseteq h.queue
<1>1. /\ Consistent(h) /\ LifeStep(book, h)
      /\ h.evaluating = book.evaluating \cup {c}
      /\ h.evaluated = book.evaluated
      /\ c \notin book.evaluating /\ c \notin book.evaluated
      /\ h.queue = g.queue \ {c} /\ Known(h) = Known(g)
  BY GetStep
<1>2. /\ Consistent(k)
      /\ Known(h) \subseteq Known(k) /\ Known(k) = Known(h) \cup k.queue
      /\ k.queue \cap Known(h) \subseteq h.queue /\ NewOnesBehind(h, k)
      /\ k.evaluating = h.evaluating \ {c} /\ k.evaluated = h.evaluated \cup {c}
  BY <1>1, HandledBooks
<1>3. Handed(book, k) \subseteq {c} /\ c \in Handed(book, h)
  BY <1>1, <1>2 DEF Handed
<1>4. c \in Known(h)
  BY <1>1 DEF Known, Pending
<1>5. \A d \in k.queue : Before(c, d)
  <2>1. \A d \in h.queue : Before(c, d)
    BY <1>1, <1>3 DEF LifeStep
  <2> QED BY <1>2, <1>4, <2>1 DEF NewOnesBehind
<1>6. LifeStep(book, k)
  BY <1>1, <1>2, <1>3, <1>5 DEF LifeStep
<1> QED BY <1>1, <1>2, <1>6

--------------------------------------------------------------------------------
(* The lifecycle of the cases of an optimizer's book.                      *)
Stages == INSTANCE CaseLifecycle WITH stage <- StageOf(book)

LEMMA ContractInit == Init => Consistent(book) /\ Stages!Init
<1> SUFFICES ASSUME Init PROVE Consistent(book) /\ Stages!Init
  OBVIOUS
<1>1. /\ Consistent(book) /\ Known(book) = {BaseCase} \cup book.queue
      /\ book.evaluated = {BaseCase} /\ BaseCase \in Known(book)
  BY NewBookConsistent, GrownBooks DEF Init
<1>2. /\ BaseCase \notin book.queue /\ BaseCase \notin book.evaluating
      /\ \A c \in Known(book) : c = BaseCase \/ c \in book.queue
  BY <1>1 DEF Consistent, Pending
<1>3. \A c \in Known(book) :
        StageOf(book)[c] = IF c = BaseCase THEN "evaluated" ELSE "queued"
  BY <1>1, <1>2 DEF StageOf
<1>4. Stages!Init
  BY <1>1, <1>3 DEF Stages!Init, StageOf, BaseCase, Stages!BaseCase
<1> QED BY <1>1, <1>4

(* The stages before and after a step.                                     *)
LEMMA StepStages ==
  ASSUME Consistent(book), Consistent(book'), LifeStep(book, book')
  PROVE  Stages!Advance
<1> DEFINE st == StageOf(book)
           stp == StageOf(book')
<1>1. /\ DOMAIN st = Known(book) /\ DOMAIN stp = Known(book')
      /\ \A c \in Known(book) :
           /\ st[c] = "queued" <=> c \in book.queue
           /\ st[c] = "evaluating" <=> c \in book.evaluating
           /\ st[c] = "evaluated" <=> c \in book.evaluated
           /\ st[c] \in {"queued", "evaluating", "evaluated", "discarded"}
      /\ \A c \in Known(book') :
           /\ stp[c] = "queued" <=> c \in book'.queue
           /\ stp[c] = "evaluating" <=> c \in book'.evaluating
           /\ stp[c] = "evaluated" <=> c \in book'.evaluated
           /\ stp[c] \in {"queued", "evaluating", "evaluated", "discarded"}
  BY DEF StageOf, Consistent, Pending
<1>2. StageOf(book)' = stp
  OBVIOUS
<1> HIDE DEF st, stp
<1>3. \A c \in Known(book') : stp[c] \in Stages!Reachable(Stages!Stage(st, c))
  <2> SUFFICES ASSUME NEW c \in Known(book')
               PROVE  stp[c] \in Stages!Reachable(Stages!Stage(st, c))
    OBVIOUS
  <2>1. CASE c \notin Known(book)
    BY <1>1, <2>1 DEF Stages!Stage, Stages!Reachable
  <2>2. CASE c \in Known(book) /\ st[c] = "queued"
    BY <1>1, <2>2 DEF Stages!Stage, Stages!Reachable
  <2>3. CASE c \in Known(book) /\ st[c] = "evaluating"
    <3>1. stp[c] \in {"evaluating", "evaluated"}
      BY <1>1, <2>3 DEF LifeStep
    <3> QED BY <1>1, <2>3, <3>1 DEF Stages!Stage, Stages!Reachable
  <2>4. CASE c \in Known(book) /\ st[c] = "evaluated"
    <3>1. stp[c] = "evaluated"
      BY <1>1, <2>4 DEF LifeStep
    <3> QED BY <1>1, <2>4, <3>1 DEF Stages!Stage, Stages!Reachable
  <2>5. CASE c \in Known(book) /\ st[c] = "discarded"
    <3>1. c \notin Pending(book) /\ c \notin book.evaluated
      BY <1>1, <2>5 DEF Pending
    <3>2. /\ c \notin book'.queue
          /\ c \notin book'.evaluating /\ c \notin book'.evaluated
      BY <2>5, <3>1 DEF LifeStep, Handed, Pending
    <3> QED BY <1>1, <2>5, <3>2 DEF Stages!Stage, Stages!Reachable
  <2> QED BY <1>1, <2>1, <2>2, <2>3, <2>4, <2>5
<1>4. ASSUME NEW c \in Known(book'), NEW d \in Known(book'),
             Stages!Stage(st, c) \in {"new", "queued"},
             stp[c] \in {"evaluating", "evaluated"}, stp[d] = "queued"
      PROVE  Before(c, d)
  <2>1. c \notin book.evaluating /\ c \notin book.evaluated
    BY <1>1, <1>4 DEF Stages!Stage, Known, Pending
  <2>2. c \in Handed(book, book') /\ d \in book'.queue
    BY <1>1, <1>4, <2>1 DEF Handed
  <2> QED BY <2>2 DEF LifeStep
<1>5. DOMAIN st \subseteq DOMAIN stp
  BY <1>1 DEF LifeStep
<1> QED BY <1>1, <1>3, <1>4, <1>5
        DEF Stages!Advance, Stages!HandedOut, Stages!Before, Before, st, stp

LEMMA ContractStep ==
  ASSUME Consistent(book), [Next]_<<book, stopped>>
  PROVE  Consistent(book') /\ (Stages!Advance \/ UNCHANGED StageOf(book))
<1>1. CASE GetCaseForEvaluation
  <2>1. PICK g \in Suppliers : \E c \in g.queue :
          IsHead(g, c) /\ book' = GetNextCaseForEvaluation(g, c)
    BY <1>1 DEF GetCaseForEvaluation
  <2>2. PICK c \in g.queue :
          IsHead(g, c) /\ book' = GetNextCaseForEvaluation(g, c)
    BY <2>1
  <2>3. Consistent(book') /\ LifeStep(book, book')
    BY <2>2, GetStep
  <2> QED BY <2>3, StepStages
<1>2. CASE SubmitEvaluatedCase
  <2>1. PICK c \in book.evaluating : book' \in Handled(book, c)
    BY <1>2 DEF SubmitEvaluatedCase
  <2>2. Consistent(book') /\ LifeStep(book, book')
    BY <2>1, HandledBooks, SubmitStep
  <2> QED BY <2>2, StepStages
<1>3. CASE UNCHANGED <<book, stopped>>
  BY <1>3 DEF StageOf, Known, Pending
<1> QED BY <1>1, <1>2, <1>3 DEF Next

(* Every optimizer that keeps the contract takes each case through the     *)
(* lifecycle of a case, first in, first out: none is lost, evaluated       *)
(* twice, or handed out before an older one that stays.                    *)
THEOREM ContractImplementsLifecycle == Spec => Stages!Spec
<1>1. Init => Consistent(book) /\ Stages!Init
  BY ContractInit
<1>2. Consistent(book) /\ [Next]_<<book, stopped>>
        => Consistent(book)' /\ [Stages!Advance]_(StageOf(book))
  BY ContractStep DEF Consistent, Book, Known, Pending
<1> QED BY <1>1, <1>2, PTL DEF Spec, Stages!Spec
================================================================================
