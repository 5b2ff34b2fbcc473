------------------------- MODULE OptimizationRun_proofs ------------------------
(***************************************************************************)
(* Runs of the optimizers, for any settings, numbers of workers and        *)
(* values: the records of the optimizers keep their form and the book      *)
(* stays consistent (RunInv, proved operation by operation); the best case *)
(* dominates and gets no worse; a run keeps the contract of the base       *)
(* class, dies for want of a case only in SPSA, leaves nothing behind and  *)
(* exceeds what its settings allow by no more than a fixed amount.         *)
(***************************************************************************)
EXTENDS OptimizationRun, CaseHandler_proofs, FiniteSetTheorems

--------------------------------------------------------------------------------
(* The optimizers as records, e being the evaluated cases.                 *)
CompassOpt(e) ==
  [type : {"Compass"}, best : e, iteration : Nat, evaluated : Nat, steps : Int]

EGOOpt(e) == [type : {"EGO"}, best : e, iteration : Nat, evaluated : Nat]

RGARDDOpt(e) ==
  [type : {"RGARDD"}, best : e, iteration : Nat, evaluated : Nat,
   generations : Nat, population : [Positions -> Case],
   pool : [Positions -> Case]]

ComponentOpt(e) == CompassOpt(e) \cup EGOOpt(e) \cup RGARDDOpt(e)

VFSAOpt(e) ==
  [type : {"VFSA"}, best : e, iteration : Nat, evaluated : Nat, evals : Nat]

SPSAOpt(e) ==
  [type : {"SPSA"}, best : e, iteration : Nat, evaluated : Nat,
   pair : SUBSET Case, done : SUBSET Case, ready : BOOLEAN]

PSOOpt(e) ==
  [type : {"PSO"}, best : e, iteration : Nat, evaluated : Nat,
   stagnant : BOOLEAN]

CMA_ESOpt(e) ==
  [type : {"CMA_ES"}, best : e, iteration : Nat, evaluated : Nat,
   outside : SUBSET Case, later : SUBSET Case]

ExhaustiveOpt(e) ==
  [type : {"Exhaustive"}, best : e, iteration : {0}, evaluated : Nat]

Components == {"Compass", "EGO", "RGARDD"}

HybridOpt(e) ==
  [type : {"Hybrid"}, best : e, iteration : Nat, evaluated : Nat,
   types : Components \X Components, active : {1, 2},
   component : ComponentOpt(e), improvement : BOOLEAN, found : [{1, 2} -> e]]

RunOpt(e) ==
  ComponentOpt(e) \cup VFSAOpt(e) \cup SPSAOpt(e) \cup PSOOpt(e)
    \cup CMA_ESOpt(e) \cup ExhaustiveOpt(e) \cup HybridOpt(e)

(* The cases: a consistent book, and a value of every evaluated case.      *)
CasesOK(s) ==
  /\ s \in [book : Book, value : [s.book.evaluated -> Int]]
  /\ Consistent(s.book)

(* t is s with n new cases, or with none.                                  *)
SameOut(s, t) ==
  /\ t.book.evaluating = s.book.evaluating
  /\ t.book.evaluated = s.book.evaluated
  /\ t.book.discarded = s.book.discarded

Fed(s, t, n) ==
  /\ CasesOK(t)
  /\ SameOut(s, t)
  /\ t.book.queue = s.book.queue \cup Batch(s.book, 1..n)
  /\ t.book.calls = s.book.calls + 1

RunInv ==
  /\ CasesOK(cases)
  /\ opt \in RunOpt(cases.book.evaluated)
  /\ workers \in Nat \ {0}
  /\ repeats \in BOOLEAN
  /\ found \subseteq cases.book.evaluating
  /\ IsFiniteSet(cases.book.evaluating)
  /\ Cardinality(cases.book.evaluating) <= workers

--------------------------------------------------------------------------------
LEMMA EnqueueFeeds ==
  ASSUME NEW s, CasesOK(s), NEW n \in Nat, NEW t, t = Enqueue(s, n)
  PROVE  Fed(s, t, n) /\ t.value = s.value
<1> DEFINE g == AddNewCases(s.book, 1..n)
<1>1. 1..n \in SUBSET Nat /\ Consistent(s.book)
  BY DEF CasesOK
<1>2. /\ Consistent(g)
      /\ g.queue = s.book.queue \cup Batch(s.book, 1..n)
      /\ g.evaluating = s.book.evaluating /\ g.evaluated = s.book.evaluated
  BY <1>1, GrownBook
<1>3. g.calls = s.book.calls + 1 /\ g.discarded = s.book.discarded
  BY DEF AddNewCases, CasesOK, Book
<1>4. s \in [book : Book, value : [s.book.evaluated -> Int]]
  BY DEF CasesOK
<1>5. t.book = g /\ t.value = s.value /\ t = [book |-> g, value |-> s.value]
  BY <1>4 DEF Enqueue
<1> HIDE DEF g
<1>6. CasesOK(t)
  BY <1>2, <1>4, <1>5 DEF CasesOK, Consistent
<1> QED BY <1>2, <1>3, <1>5, <1>6 DEF Fed, SameOut

(* Every record of an optimizer keeps its form when the best case changes  *)
(* or an evaluation is counted.                                            *)
LEMMA CountedOpt ==
  ASSUME NEW e, NEW o \in RunOpt(e)
  PROVE  /\ Counted(o) \in RunOpt(e)
         /\ Counted(o).best = o.best /\ Counted(o).type = o.type
BY DEF Counted, RunOpt, ComponentOpt, CompassOpt, EGOOpt, RGARDDOpt, VFSAOpt,
       SPSAOpt, PSOOpt, CMA_ESOpt, ExhaustiveOpt, HybridOpt

LEMMA BestOpt ==
  ASSUME NEW e, NEW o \in RunOpt(e), NEW c \in e
  PROVE  /\ UpdateTentativeBestCase(o, c) \in RunOpt(e)
         /\ UpdateTentativeBestCase(o, c).best = c
         /\ UpdateTentativeBestCase(o, c).type = o.type
BY DEF UpdateTentativeBestCase, RunOpt, ComponentOpt, CompassOpt, EGOOpt, RGARDDOpt,
       VFSAOpt, SPSAOpt, PSOOpt, CMA_ESOpt, ExhaustiveOpt, HybridOpt

LEMMA MoreEvaluated ==
  ASSUME NEW e, NEW f, e \subseteq f, NEW o \in RunOpt(e)
  PROVE  o \in RunOpt(f)
BY DEF RunOpt, ComponentOpt, CompassOpt, EGOOpt, RGARDDOpt, VFSAOpt, SPSAOpt,
       PSOOpt, CMA_ESOpt, ExhaustiveOpt, HybridOpt

--------------------------------------------------------------------------------
(* Optimizer::SubmitEvaluatedCase moves the case and notes its value.      *)
LEMMA RecordedCases ==
  ASSUME NEW s, CasesOK(s), NEW c \in s.book.evaluating, NEW x \in Int,
         NEW t, t = Recorded(s, c, x)
  PROVE  /\ CasesOK(t)
         /\ t.book = SetCaseEvaluated(s.book, c)
         /\ t.book.queue = s.book.queue
         /\ t.book.evaluating = s.book.evaluating \ {c}
         /\ t.book.evaluated = s.book.evaluated \cup {c}
         /\ Known(t.book) = Known(s.book)
         /\ t.value[c] = x
         /\ \A d \in s.book.evaluated : t.value[d] = s.value[d]
<1> DEFINE g == SetCaseEvaluated(s.book, c)
<1>1. /\ Consistent(g)
      /\ Known(g) = Known(s.book)
      /\ g.queue = s.book.queue
      /\ g.evaluating = s.book.evaluating \ {c}
      /\ g.evaluated = s.book.evaluated \cup {c}
  BY EvaluatedBook DEF CasesOK
<1>2. s.value \in [s.book.evaluated -> Int]
  BY DEF CasesOK
<1>3. t.book = g /\ t = [book |-> g, value |-> t.value]
      /\ t.value = [d \in s.book.evaluated \cup {c} |-> IF d = c THEN x ELSE s.value[d]]
  BY <1>2 DEF Recorded
<1>4. c \notin s.book.evaluated
  BY DEF CasesOK, Consistent, Pending
<1> HIDE DEF g
<1>5. t.value \in [s.book.evaluated \cup {c} -> Int]
  BY <1>2, <1>3
<1>6. CasesOK(t)
  BY <1>1, <1>3, <1>5 DEF CasesOK, Consistent
<1> QED BY <1>1, <1>2, <1>3, <1>4, <1>6 DEF g

LEMMA ImprovedOpt ==
  ASSUME NEW e, NEW o \in RunOpt(e), NEW s, NEW c \in e
  PROVE  /\ Improved(o, s, c) \in RunOpt(e)
         /\ Improved(o, s, c).type = o.type
         /\ Improved(o, s, c).best = IF IsBetter(s, c, o.best) THEN c ELSE o.best
BY BestOpt DEF Improved, IsImprovement

(* Which case an optimizer takes for the best, given the one it had, and   *)
(* which optimizers never miss an improvement.                             *)
Comparing == {"Compass", "SPSA", "EGO", "PSO", "Hybrid"}

Chooses(o, s, c, p) ==
  /\ p.type = o.type
  /\ p.best \in {o.best, c}
  /\ o.type # "VFSA" => p.best = o.best \/ IsBetter(s, c, o.best)
  /\ o.type \in Comparing /\ IsBetter(s, c, o.best) => p.best = c

LEMMA ComponentHandles ==
  ASSUME NEW e, NEW o \in ComponentOpt(e), NEW s, NEW c \in e, c \in Case,
         NEW p \in ComponentHandle(o, s, c)
  PROVE  p \in ComponentOpt(e) /\ Chooses(o, s, c, p)
<1>1. /\ o \in RunOpt(e)
      /\ Improved(o, s, c) \in RunOpt(e)
      /\ Improved(o, s, c).type = o.type
      /\ Improved(o, s, c).best = IF IsBetter(s, c, o.best) THEN c ELSE o.best
  BY ImprovedOpt DEF RunOpt
<1>2. Improved(o, s, c) \in ComponentOpt(e)
  BY <1>1 DEF RunOpt, ComponentOpt, CompassOpt, EGOOpt, RGARDDOpt, VFSAOpt,
         SPSAOpt, PSOOpt, CMA_ESOpt, ExhaustiveOpt, HybridOpt
<1>3. CASE o \in CompassOpt(e) \cup EGOOpt(e)
  <2>1. p = Improved(o, s, c)
    BY <1>3 DEF ComponentHandle, CompassHandle, EGOHandle, CompassOpt, EGOOpt
  <2> QED BY <1>1, <1>2, <2>1 DEF Chooses
<1>4. CASE o \in RGARDDOpt(e)
  <2>1. p \in RGARDDHandle(o, s, c) /\ o.type = "RGARDD"
    BY <1>4 DEF ComponentHandle, RGARDDOpt
  <2>2. CASE p = o
    BY <2>1, <2>2 DEF Chooses, Comparing
  <2>3. CASE p # o
    <3> DEFINE q == Improved(o, s, c)
    <3>1. p = [q EXCEPT !.population =
                 [i \in Positions |-> IF o.pool[i] = c THEN c ELSE @[i]]]
      BY <2>1, <2>3 DEF RGARDDHandle
    <3>2. q \in RGARDDOpt(e)
      BY <1>1, <1>2, <2>1 DEF ComponentOpt, CompassOpt, EGOOpt, RGARDDOpt
    <3> HIDE DEF q
    <3>3. p \in RGARDDOpt(e) /\ p.best = q.best /\ p.type = q.type
      BY <3>1, <3>2 DEF RGARDDOpt
    <3>4. Chooses(o, s, c, p)
      BY <1>1, <3>3 DEF Chooses, q
    <3> QED BY <3>3, <3>4 DEF ComponentOpt
  <2> QED BY <1>4, <2>2, <2>3 DEF ComponentOpt
<1> QED BY <1>3, <1>4 DEF ComponentOpt

LEMMA HandleOpt ==
  ASSUME NEW e, NEW o \in RunOpt(e), NEW s, NEW c \in e, c \in Case, NEW ok,
         NEW p \in HandleEvaluatedCase(o, s, c, ok)
  PROVE  p \in RunOpt(e) /\ Chooses(o, s, c, p)
<1> DEFINE q == Improved(o, s, c)
<1>1. /\ q \in RunOpt(e) /\ q.type = o.type
      /\ q.best = IF IsBetter(s, c, o.best) THEN c ELSE o.best
  BY ImprovedOpt
<1>2. CASE o \in ComponentOpt(e)
  <2>1. p \in ComponentHandle(o, s, c)
    BY <1>2 DEF HandleEvaluatedCase, ComponentOpt, CompassOpt, EGOOpt, RGARDDOpt
  <2> QED BY <1>2, <2>1, ComponentHandles DEF RunOpt
<1>3. CASE o \in VFSAOpt(e)
  <2>1. p \in VFSAHandle(o, s, c) /\ o.type = "VFSA"
    BY <1>3 DEF HandleEvaluatedCase, VFSAOpt
  <2>2. p \in VFSAOpt(e) /\ p.best \in {o.best, c}
    <3> DEFINE k == [o EXCEPT !.evals = @ + 1]
    <3>1. k \in VFSAOpt(e) /\ k.best = o.best
      BY <1>3 DEF VFSAOpt
    <3>2. p \in {k, UpdateTentativeBestCase(k, c)}
      BY <2>1 DEF VFSAHandle
    <3> HIDE DEF k
    <3>3. /\ UpdateTentativeBestCase(k, c) \in VFSAOpt(e)
          /\ UpdateTentativeBestCase(k, c).best = c
      BY <3>1 DEF VFSAOpt, UpdateTentativeBestCase
    <3> QED BY <3>1, <3>2, <3>3
  <2>3. p.type = "VFSA"
    BY <2>2 DEF VFSAOpt
  <2> QED BY <2>1, <2>2, <2>3 DEF Chooses, Comparing, RunOpt
<1>4. CASE o \in SPSAOpt(e)
  <2>1. p \in SPSAHandle(o, s, c, ok) /\ o.type = "SPSA"
    BY <1>4 DEF HandleEvaluatedCase, SPSAOpt
  <2>2. q \in SPSAOpt(e)
    BY <1>1, <2>1 DEF RunOpt, ComponentOpt, CompassOpt, EGOOpt, RGARDDOpt, VFSAOpt,
           SPSAOpt, PSOOpt, CMA_ESOpt, ExhaustiveOpt, HybridOpt
  <2>3. PICK d \in {o.done \cup {c}, o.done} :
          p = [q EXCEPT !.done = d, !.ready = @ \/ d = o.pair]
    BY <2>1 DEF SPSAHandle
  <2> HIDE DEF q
  <2>4. d \in SUBSET Case
    BY <1>4 DEF SPSAOpt
  <2>5. p \in SPSAOpt(e) /\ p.type = q.type /\ p.best = q.best
    BY <2>2, <2>3, <2>4 DEF SPSAOpt
  <2> QED BY <1>1, <2>5 DEF Chooses, RunOpt
<1>5. CASE o \in PSOOpt(e) \cup CMA_ESOpt(e)
  <2>1. p = q
    BY <1>5 DEF HandleEvaluatedCase, PSOHandle, CMA_ESHandle, PSOOpt, CMA_ESOpt
  <2> QED BY <1>1, <2>1 DEF Chooses
<1>6. CASE o \in ExhaustiveOpt(e)
  <2>1. p = o /\ o.type = "Exhaustive"
    BY <1>6 DEF HandleEvaluatedCase, ExhaustiveHandle, ExhaustiveOpt
  <2> QED BY <2>1 DEF Chooses, Comparing
<1>7. CASE o \in HybridOpt(e)
  <2>1. p \in HybridHandle(o, s, c) /\ o.type = "Hybrid"
    BY <1>7 DEF HandleEvaluatedCase, HybridOpt
  <2>2. q \in HybridOpt(e) /\ q.component = o.component
    BY <1>7 DEF Improved, UpdateTentativeBestCase, HybridOpt
  <2>3. PICK k \in ComponentHandle(o.component, s, c) : p = [q EXCEPT !.component = k]
    BY <2>1 DEF HybridHandle
  <2>4. k \in ComponentOpt(e)
    BY <1>7, <2>3, ComponentHandles DEF HybridOpt
  <2> HIDE DEF q
  <2>5. p \in HybridOpt(e) /\ p.best = q.best /\ p.type = q.type
    BY <2>2, <2>3, <2>4 DEF HybridOpt
  <2> QED BY <1>1, <2>5 DEF Chooses, RunOpt
<1> QED BY <1>2, <1>3, <1>4, <1>5, <1>6, <1>7 DEF RunOpt

--------------------------------------------------------------------------------
(* What iterate and the constructors make of the cases.  A batch has n     *)
(* cases; every n of them fills positions that BatchPositions names.       *)
BatchSizes ==
  {PollDirections, VFSABatch, 2, InitialGuesses, 1, PopulationSize,
   ChromosomeCount, ChromosomeCount - 1, (Nx - 1) * (Ny - 1)}

LEMMA BlocksCounted == (Nx - 1) * (Ny - 1) \in Nat \ {0}
<1>1. Nx - 1 \in Nat \ {0} /\ Ny - 1 \in Nat \ {0}
  BY GridAssumption
<1>2. ASSUME NEW a \in Nat \ {0}, NEW b \in Nat \ {0} PROVE a * b \in Nat \ {0}
  BY <1>2
<1> QED BY <1>1, <1>2

LEMMA EvenChromosomes == ChromosomeCount \in Nat /\ ChromosomeCount >= 2
BY RGARDDAssumption

LEMMA BatchSizesFit ==
  ASSUME NEW n \in BatchSizes
  PROVE  n \in Nat \ {0} /\ 1..n \in SUBSET BatchPositions /\ 1..n # {}
<1> DEFINE whole == {PollDirections, VFSABatch, 2, InitialGuesses, PopulationSize,
                     ChromosomeCount, (Nx - 1) * (Ny - 1)}
<1>1. VFSABatch \in Nat \ {0}
  BY VFSAAssumption DEF VFSABatch
<1>2. n \in Nat \ {0}
  BY <1>1, EvenChromosomes, BlocksCounted, CompassAssumption, EGOAssumption,
     SwarmAssumption DEF BatchSizes
<1>3. PICK m \in whole : m \in Int /\ n <= m
  BY <1>1, EvenChromosomes, BlocksCounted, CompassAssumption, EGOAssumption,
     SwarmAssumption DEF BatchSizes
<1>4. 1..m \subseteq BatchPositions
  BY <1>3 DEF BatchPositions
<1>5. 1..n \subseteq 1..m /\ 1 \in 1..n
  BY <1>2, <1>3
<1> QED BY <1>2, <1>4, <1>5

(* A batch that has a case at all is not empty.                            *)
LEMMA FedIsQueued ==
  ASSUME NEW s, CasesOK(s), NEW t, NEW n \in Nat \ {0}, Fed(s, t, n)
  PROVE  t.book.queue # {}
<1>1. NewCase(s, 1) \in Batch(s.book, 1..n)
  BY DEF Batch, NewCase
<1> QED BY <1>1 DEF Fed

(* How an iteration of an optimizer that is not finished ends: in the form *)
(* it had, with the same best case and one batch more, unless it is SPSA.  *)
Iterates(o, s, r, n) ==
  /\ r.opt.type = o.type
  /\ r.opt.best = o.best
  /\ n \in BatchSizes
  /\ Fed(s, r.cases, n)
  /\ o.type # "CMA_ES" => r.cases.value = s.value

NextPoll(o, k) == [o EXCEPT !.steps = k, !.iteration = @ + 1]

LEMMA NextPollOpt ==
  ASSUME NEW e, NEW o \in CompassOpt(e), NEW k \in Int,
         NEW p, p = NextPoll(o, k)
  PROVE  /\ p \in CompassOpt(e) /\ p.best = o.best /\ p.type = o.type
         /\ p.evaluated = o.evaluated
<1>1. p = [type |-> o.type, best |-> o.best, iteration |-> o.iteration + 1,
           evaluated |-> o.evaluated, steps |-> k]
  BY DEF CompassOpt, NextPoll
<1>2. /\ o.type = "Compass" /\ o.best \in e /\ o.iteration + 1 \in Nat
      /\ o.evaluated \in Nat
  BY DEF CompassOpt
<1> QED BY <1>1, <1>2 DEF CompassOpt

LEMMA CompassIterates ==
  ASSUME NEW s, CasesOK(s), NEW o \in CompassOpt(s.book.evaluated),
         NEW r \in CompassIterate(o, s)
  PROVE  /\ r.opt \in CompassOpt(s.book.evaluated)
         /\ Iterates(o, s, r, PollDirections)
         /\ r.opt.evaluated = o.evaluated
<1> DEFINE t == Enqueue(s, PollDirections)
           contracts == ~IsSuccessfulIteration(o, s) /\ o.iteration # 0
<1>1. /\ r.opt = [o EXCEPT !.steps = IF contracts THEN @ - 1 ELSE @,
                           !.iteration = @ + 1]
      /\ r.cases = [t EXCEPT !.book = ClearRecentlyEvaluatedCases(@)]
  BY DEF CompassIterate, Result
<1>2. Fed(s, t, PollDirections) /\ t.value = s.value
  BY EnqueueFeeds, CompassAssumption
<1>3. /\ r.opt \in CompassOpt(s.book.evaluated)
      /\ r.opt.best = o.best /\ r.opt.type = o.type
      /\ r.opt.evaluated = o.evaluated
  <2>1. PICK k \in Int : r.opt = [o EXCEPT !.steps = k, !.iteration = @ + 1]
    <3>1. o.steps \in Int /\ o.steps - 1 \in Int
      BY DEF CompassOpt
    <3>2. (IF contracts THEN o.steps - 1 ELSE o.steps) \in Int
      BY <3>1
    <3> HIDE DEF contracts
    <3> QED BY <1>1, <3>2
  <2>2. r.opt = NextPoll(o, k)
    BY <2>1 DEF NextPoll
  <2> QED BY <2>2, NextPollOpt
<1> HIDE DEF t, contracts
<1>4. Fed(s, r.cases, PollDirections) /\ r.cases.value = t.value
  <2>1. /\ t = [book |-> t.book, value |-> t.value]
        /\ t.book \in Book /\ t.value \in [t.book.evaluated -> Int]
    BY <1>2 DEF Fed, CasesOK
  <2>2. r.cases = [book |-> ClearRecentlyEvaluatedCases(t.book), value |-> t.value]
    BY <1>1, <2>1
  <2>3. /\ ClearRecentlyEvaluatedCases(t.book) \in Book
        /\ ClearRecentlyEvaluatedCases(t.book).queue = t.book.queue
        /\ ClearRecentlyEvaluatedCases(t.book).evaluating = t.book.evaluating
        /\ ClearRecentlyEvaluatedCases(t.book).evaluated = t.book.evaluated
        /\ ClearRecentlyEvaluatedCases(t.book).discarded = t.book.discarded
        /\ ClearRecentlyEvaluatedCases(t.book).calls = t.book.calls
    BY <2>1 DEF ClearRecentlyEvaluatedCases, Book
  <2>4. Consistent(ClearRecentlyEvaluatedCases(t.book))
    BY <1>2, <2>3 DEF Fed, CasesOK, Consistent, Known, Pending
  <2>5. CasesOK(r.cases)
    BY <2>1, <2>2, <2>3, <2>4 DEF CasesOK
  <2> QED BY <1>2, <2>2, <2>3, <2>5 DEF Fed, SameOut
<1> QED BY <1>2, <1>3, <1>4 DEF Iterates, BatchSizes

LEMMA EGOIterates ==
  ASSUME NEW s, CasesOK(s), NEW o \in EGOOpt(s.book.evaluated),
         NEW r \in EGOIterate(o, s)
  PROVE  r.opt \in EGOOpt(s.book.evaluated) /\ Iterates(o, s, r, 1)
<1>1. r.opt = [o EXCEPT !.iteration = @ + 1] /\ r.cases = Enqueue(s, 1)
  BY DEF EGOIterate, Result
<1>2. r.opt \in EGOOpt(s.book.evaluated) /\ r.opt.best = o.best /\ r.opt.type = o.type
  BY <1>1 DEF EGOOpt
<1> QED BY <1>1, <1>2, EnqueueFeeds DEF Iterates, BatchSizes

(* Sorting keeps the population one of cases.                              *)
LEMMA SortedPopulation ==
  ASSUME NEW e, NEW o \in RGARDDOpt(e), NEW s, NEW p \in SortPopulation(o, s)
  PROVE  p \in [Positions -> Case]
<1>1. PICK f \in Bijection(Positions, Positions) :
        p = [i \in Positions |-> o.population[f[i]]]
  BY DEF SortPopulation
<1>2. f \in [Positions -> Positions]
  BY DEF Bijection, Injection
<1> QED BY <1>1, <1>2 DEF RGARDDOpt

NextGeneration(o, p, q) ==
  [o EXCEPT !.iteration = @ + 1, !.population = p, !.pool = q]

LEMMA NextGenerationOpt ==
  ASSUME NEW e, NEW o \in RGARDDOpt(e),
         NEW p \in [Positions -> Case], NEW q \in [Positions -> Case],
         NEW k, k = NextGeneration(o, p, q)
  PROVE  /\ k \in RGARDDOpt(e) /\ k.best = o.best /\ k.type = o.type
         /\ k.iteration = o.iteration + 1 /\ k.generations = o.generations
<1>1. k = [type |-> o.type, best |-> o.best, iteration |-> o.iteration + 1,
           evaluated |-> o.evaluated, generations |-> o.generations,
           population |-> p, pool |-> q]
  BY DEF RGARDDOpt, NextGeneration
<1>2. /\ o.type = "RGARDD" /\ o.best \in e /\ o.iteration + 1 \in Nat
      /\ o.evaluated \in Nat /\ o.generations \in Nat
  BY DEF RGARDDOpt
<1> QED BY <1>1, <1>2 DEF RGARDDOpt

LEMMA RGARDDIterates ==
  ASSUME NEW s, CasesOK(s), Pending(s.book) = {},
         NEW o \in RGARDDOpt(s.book.evaluated), NEW r \in RGARDDIterate(o, s)
  PROVE  /\ r.opt \in RGARDDOpt(s.book.evaluated)
         /\ Iterates(o, s, r, ChromosomeCount) \/ Iterates(o, s, r, ChromosomeCount - 1)
<1>1. PICK p \in SortPopulation(o, s) : r \in {Breed(o, s, p), Repopulate(o, s, p)}
  BY DEF RGARDDIterate
<1>2. p \in [Positions -> Case]
  BY SortedPopulation
<1>3. \A i \in Nat : NewCase(s, i) \in Case
  BY DEF NewCase, Case, CasesOK, Book
<1>4. ChromosomeCount \in Nat /\ ChromosomeCount - 1 \in Nat /\ Positions \subseteq Nat
      /\ 1 \in Positions
  BY EvenChromosomes DEF Positions
<1>5. CASE r = Breed(o, s, p)
  <2> DEFINE pool == [i \in Positions |-> Offspring(s, i)]
  <2>1. /\ r.opt = NextGeneration(o, p, pool)
        /\ r.cases = Enqueue(s, ChromosomeCount)
    BY <1>5 DEF Breed, Result, NextGeneration
  <2>2. pool \in [Positions -> Case]
    <3>1. ASSUME NEW i \in Positions PROVE Offspring(s, i) \in Case
      <4>1. i \in Nat /\ i > 0 /\ Half \in Nat
        BY EvenChromosomes DEF Positions, Half
      <4>2. CASE i <= Half
        BY <1>3, <4>1, <4>2 DEF Offspring
      <4>3. CASE ~(i <= Half)
        BY <1>3, <4>1, <4>3 DEF Offspring
      <4> QED BY <4>2, <4>3
    <3> QED BY <3>1
  <2> HIDE DEF pool
  <2>3. r.opt \in RGARDDOpt(s.book.evaluated) /\ r.opt.best = o.best /\ r.opt.type = o.type
    BY <1>2, <2>1, <2>2, NextGenerationOpt
  <2>4. Fed(s, r.cases, ChromosomeCount) /\ r.cases.value = s.value
    BY <1>4, <2>1, EnqueueFeeds
  <2> QED BY <2>3, <2>4 DEF Iterates, BatchSizes
<1>6. CASE r = Repopulate(o, s, p)
  <2> DEFINE next == [i \in Positions |-> IF i = 1 THEN p[1] ELSE NewCase(s, i - 1)]
  <2>1. /\ r.opt = NextGeneration(o, next, next)
        /\ r.cases = Enqueue(s, ChromosomeCount - 1)
    BY <1>6 DEF Repopulate, Result, NextGeneration
  <2>2. next \in [Positions -> Case]
    <3>1. ASSUME NEW i \in Positions, i # 1 PROVE NewCase(s, i - 1) \in Case
      <4>1. i - 1 \in Nat
        BY <3>1, EvenChromosomes DEF Positions
      <4> QED BY <1>3, <4>1
    <3>2. p[1] \in Case
      BY <1>2, <1>4
    <3> QED BY <3>1, <3>2
  <2> HIDE DEF next
  <2>3. r.opt \in RGARDDOpt(s.book.evaluated) /\ r.opt.best = o.best /\ r.opt.type = o.type
    BY <2>1, <2>2, NextGenerationOpt
  <2>4. Fed(s, r.cases, ChromosomeCount - 1) /\ r.cases.value = s.value
    BY <1>4, <2>1, EnqueueFeeds
  <2> QED BY <2>3, <2>4 DEF Iterates, BatchSizes
<1> QED BY <1>1, <1>5, <1>6

LEMMA VFSAIterates ==
  ASSUME NEW s, CasesOK(s), NEW o \in VFSAOpt(s.book.evaluated),
         NEW r \in VFSAIterate(o, s)
  PROVE  /\ r.opt \in VFSAOpt(s.book.evaluated) /\ Iterates(o, s, r, VFSABatch)
         /\ o.evals = EvalsPerIteration =>
              r.opt.iteration = o.iteration + 1 /\ r.opt.evals = 0
<1>1. /\ r.cases = Enqueue(s, VFSABatch)
      /\ r.opt = IF o.evals = EvalsPerIteration
                   THEN [o EXCEPT !.iteration = @ + 1, !.evals = 0] ELSE o
  BY DEF VFSAIterate, Result
<1>2. Fed(s, r.cases, VFSABatch) /\ r.cases.value = s.value
  BY <1>1, EnqueueFeeds, VFSAAssumption DEF VFSABatch
<1>3. CASE o.evals # EvalsPerIteration
  <2>1. r.opt = o
    BY <1>1, <1>3
  <2> QED BY <1>2, <1>3, <2>1 DEF Iterates, BatchSizes
<1>4. CASE o.evals = EvalsPerIteration
  <2>1. r.opt = [o EXCEPT !.iteration = @ + 1, !.evals = 0]
    BY <1>1, <1>4
  <2>2. r.opt = [type |-> o.type, best |-> o.best, iteration |-> o.iteration + 1,
                 evaluated |-> o.evaluated, evals |-> 0]
    BY <2>1 DEF VFSAOpt
  <2>3. /\ o.type = "VFSA" /\ o.best \in s.book.evaluated
        /\ o.iteration + 1 \in Nat /\ o.evaluated \in Nat
    BY DEF VFSAOpt
  <2>4. /\ r.opt \in VFSAOpt(s.book.evaluated)
        /\ r.opt.best = o.best /\ r.opt.type = o.type
        /\ r.opt.iteration = o.iteration + 1 /\ r.opt.evals = 0
    BY <2>2, <2>3 DEF VFSAOpt
  <2>5. Iterates(o, s, r, VFSABatch)
    BY <1>2, <2>4 DEF Iterates, BatchSizes
  <2> QED BY <2>4, <2>5
<1> QED BY <1>1, <1>3, <1>4

LEMMA PSOIterates ==
  ASSUME NEW s, CasesOK(s), NEW o \in PSOOpt(s.book.evaluated),
         NEW r \in PSOIterate(o, s)
  PROVE  /\ r.opt \in PSOOpt(s.book.evaluated) /\ r.opt.iteration = o.iteration + 1
         /\ Iterates(o, s, r, PopulationSize)
<1>1. PICK st \in BOOLEAN :
        r = Result([o EXCEPT !.iteration = @ + 1, !.stagnant = st],
                   Enqueue(s, PopulationSize))
  BY DEF PSOIterate
<1>2. /\ r.opt = [type |-> o.type, best |-> o.best, iteration |-> o.iteration + 1,
                  evaluated |-> o.evaluated, stagnant |-> st]
      /\ r.cases = Enqueue(s, PopulationSize)
  BY <1>1 DEF PSOOpt, Result
<1>3. /\ o.type = "PSO" /\ o.best \in s.book.evaluated
      /\ o.iteration + 1 \in Nat /\ o.evaluated \in Nat
  BY DEF PSOOpt
<1>4. /\ r.opt \in PSOOpt(s.book.evaluated) /\ r.opt.iteration = o.iteration + 1
      /\ r.opt.best = o.best /\ r.opt.type = o.type
  BY <1>2, <1>3 DEF PSOOpt
<1>5. Fed(s, r.cases, PopulationSize) /\ r.cases.value = s.value
  BY <1>2, EnqueueFeeds, SwarmAssumption
<1> QED BY <1>4, <1>5 DEF Iterates, BatchSizes

(* CMA_ES changes values, and keeps the cases otherwise.                   *)
LEMMA PenalizedCases ==
  ASSUME NEW o, NEW s, CasesOK(s), NEW t, t = Penalized(o, s)
  PROVE  CasesOK(t) /\ t.book = s.book
<1>1. s \in [book : Book, value : [s.book.evaluated -> Int]]
  BY DEF CasesOK
<1>2. PICK v : v = [c \in DOMAIN s.value |-> IF c \in o.outside THEN s.value[c] + Penalty
                                             ELSE s.value[c]]
  OBVIOUS
<1>3. v \in [s.book.evaluated -> Int]
  <2>1. Penalty \in Int
    BY DEF Penalty
  <2> QED BY <1>1, <1>2, <2>1
<1>4. t = [book |-> s.book, value |-> v]
  BY <1>1, <1>2 DEF Penalized
<1> QED BY <1>3, <1>4 DEF CasesOK

LEMMA GenerationOfCases == ASSUME NEW s, CasesOK(s) PROVE Generation(s) \subseteq Case
BY SwarmAssumption DEF Generation, NewCase, Case, CasesOK, Book

LEMMA CMA_ESIterates ==
  ASSUME NEW s, CasesOK(s), NEW o \in CMA_ESOpt(s.book.evaluated),
         NEW r \in CMA_ESIterate(o, s)
  PROVE  /\ r.opt \in CMA_ESOpt(s.book.evaluated) /\ r.opt.iteration = o.iteration + 1
         /\ Iterates(o, s, r, PopulationSize)
<1>1. PICK out \in SUBSET Generation(s) :
        r = Result([o EXCEPT !.iteration = @ + 1, !.outside = o.later \cup out,
                             !.later = o.later \cup out],
                   Enqueue(Penalized(o, s), PopulationSize))
  BY DEF CMA_ESIterate
<1>2. PICK l : l = o.later \cup out
  OBVIOUS
<1>3. /\ r.opt = [type |-> o.type, best |-> o.best, iteration |-> o.iteration + 1,
                  evaluated |-> o.evaluated, outside |-> l, later |-> l]
      /\ r.cases = Enqueue(Penalized(o, s), PopulationSize)
  BY <1>1, <1>2 DEF CMA_ESOpt, Result
<1>4. /\ o.type = "CMA_ES" /\ o.best \in s.book.evaluated
      /\ o.iteration + 1 \in Nat /\ o.evaluated \in Nat /\ l \in SUBSET Case
  BY <1>1, <1>2, GenerationOfCases DEF CMA_ESOpt
<1>5. /\ r.opt \in CMA_ESOpt(s.book.evaluated) /\ r.opt.iteration = o.iteration + 1
      /\ r.opt.best = o.best /\ r.opt.type = o.type /\ o.type = "CMA_ES"
  BY <1>3, <1>4 DEF CMA_ESOpt
<1>6. Fed(s, r.cases, PopulationSize)
  <2>1. PICK t : t = Penalized(o, s)
    OBVIOUS
  <2>2. CasesOK(t) /\ t.book = s.book
    BY <2>1, PenalizedCases
  <2>3. Fed(t, r.cases, PopulationSize)
    BY <1>3, <2>1, <2>2, EnqueueFeeds, SwarmAssumption
  <2> QED BY <2>2, <2>3 DEF Fed, SameOut
<1> QED BY <1>5, <1>6 DEF Iterates, BatchSizes

LEMMA ExhaustiveIterates ==
  ASSUME NEW s, CasesOK(s), NEW o \in ExhaustiveOpt(s.book.evaluated),
         NEW r \in ExhaustiveIterate(o, s)
  PROVE  /\ r.opt \in ExhaustiveOpt(s.book.evaluated)
         /\ Iterates(o, s, r, (Nx - 1) * (Ny - 1))
<1>1. o.iteration = 0
  BY DEF ExhaustiveOpt
<1>2. r.opt = o /\ r.cases = Enqueue(s, (Nx - 1) * (Ny - 1))
  BY <1>1 DEF ExhaustiveIterate, Result
<1>3. (Nx - 1) * (Ny - 1) \in Nat
  BY BlocksCounted
<1>4. Fed(s, r.cases, (Nx - 1) * (Ny - 1)) /\ r.cases.value = s.value
  BY <1>2, <1>3, EnqueueFeeds
<1> QED BY <1>2, <1>4 DEF Iterates, BatchSizes

(* SPSA is the one that may come back without a batch.                     *)
Skips(o, s, r) ==
  /\ r.opt.type = o.type
  /\ r.opt.best = o.best
  /\ r.cases = s

NextPair(o, k, rd, p) ==
  [o EXCEPT !.iteration = k, !.ready = rd, !.pair = p, !.done = {}]

LEMMA NextPairOpt ==
  ASSUME NEW e, NEW o \in SPSAOpt(e), NEW k \in Nat, NEW rd \in BOOLEAN,
         NEW p \in SUBSET Case, NEW q, q = NextPair(o, k, rd, p)
  PROVE  /\ q \in SPSAOpt(e) /\ q.best = o.best /\ q.type = o.type
         /\ q.iteration = k /\ q.pair = p /\ q.done = {} /\ q.ready = rd
<1>1. q = [type |-> o.type, best |-> o.best, iteration |-> k,
           evaluated |-> o.evaluated, pair |-> p, done |-> {}, ready |-> rd]
  BY DEF SPSAOpt, NextPair
<1>2. o.type = "SPSA" /\ o.best \in e /\ o.evaluated \in Nat
  BY DEF SPSAOpt
<1>3. q \in SPSAOpt(e)
  BY <1>1, <1>2 DEF SPSAOpt
<1> QED BY <1>1, <1>3

LEMMA SPSAIterates ==
  ASSUME NEW s, CasesOK(s), NEW o \in SPSAOpt(s.book.evaluated),
         NEW r \in SPSAIterate(o, s)
  PROVE  /\ r.opt \in SPSAOpt(s.book.evaluated)
         /\ Iterates(o, s, r, 2) \/ Skips(o, s, r)
<1>1. o.iteration \in Nat /\ o.type = "SPSA" /\ o.ready \in BOOLEAN
  BY DEF SPSAOpt
<1>2. CASE SPSABlocked(o)
  <2>1. r.opt = o /\ r.cases = s
    BY <1>2 DEF SPSAIterate, Result
  <2> QED BY <2>1 DEF Skips, SPSAOpt
<1>3. CASE /\ ~SPSABlocked(o)
           /\ r \notin {Result([o EXCEPT !.iteration = SPSALast(o), !.pair = {},
                                         !.done = {}], s)}
  <2>1. PICK k \in SPSAReach(o) :
          r = Result([o EXCEPT !.iteration = k, !.ready = FALSE,
                               !.pair = {NewCase(s, 1), NewCase(s, 2)},
                               !.done = {}],
                     Enqueue(s, 2))
    BY <1>3 DEF SPSAIterate
  <2> DEFINE p == {NewCase(s, 1), NewCase(s, 2)}
  <2>2. PICK rd \in BOOLEAN : r.opt = NextPair(o, k, rd, p) /\ ~rd
    BY <2>1 DEF NextPair, Result
  <2>7. r.cases = Enqueue(s, 2)
    BY <2>1 DEF Result
  <2>3. k \in Nat
    BY <1>1, OptimizerAssumption DEF SPSAReach
  <2>4. p \in SUBSET Case 
    BY DEF NewCase, Case, CasesOK, Book
  <2> HIDE DEF p
  <2>5. r.opt \in SPSAOpt(s.book.evaluated) /\ r.opt.best = o.best /\ r.opt.type = o.type
    BY <2>2, <2>3, <2>4, NextPairOpt
  <2>6. Fed(s, r.cases, 2) /\ r.cases.value = s.value
    BY <2>7, EnqueueFeeds
  <2> QED BY <2>5, <2>6 DEF Iterates, BatchSizes
<1>4. CASE r = Result([o EXCEPT !.iteration = SPSALast(o), !.pair = {}, !.done = {}], s)
  <2>1. r.opt = [o EXCEPT !.iteration = SPSALast(o), !.pair = {}, !.done = {}]
        /\ r.cases = s
    BY <1>4 DEF Result
  <2>2. r.opt = NextPair(o, SPSALast(o), o.ready, {})
    BY <2>1 DEF NextPair, SPSAOpt
  <2>3. SPSALast(o) \in Nat
    BY OptimizerAssumption DEF SPSALast
  <2>4. r.opt \in SPSAOpt(s.book.evaluated) /\ r.opt.best = o.best /\ r.opt.type = o.type
    BY <1>1, <2>2, <2>3, NextPairOpt
  <2> QED BY <2>1, <2>4 DEF Skips
<1> QED BY <1>2, <1>3, <1>4

--------------------------------------------------------------------------------
(* What the constructors make of the cases: one batch, or nothing.         *)
Starts(t, b, s, r) ==
  /\ r.opt.type = t
  /\ r.opt.best = b
  /\ \/ r.cases = s
     \/ \E n \in BatchSizes : Fed(s, r.cases, n) /\ r.cases.value = s.value

LEMMA ComponentIterates ==
  ASSUME NEW s, CasesOK(s), Pending(s.book) = {},
         NEW o \in ComponentOpt(s.book.evaluated), NEW r \in ComponentIterate(o, s)
  PROVE  /\ r.opt \in ComponentOpt(s.book.evaluated)
         /\ \E n \in BatchSizes : Iterates(o, s, r, n)
<1>1. CASE o \in CompassOpt(s.book.evaluated)
  <2>1. r \in CompassIterate(o, s)
    BY <1>1 DEF ComponentIterate, CompassOpt
  <2> QED BY <1>1, <2>1, CompassIterates DEF ComponentOpt, BatchSizes
<1>2. CASE o \in EGOOpt(s.book.evaluated)
  <2>1. r \in EGOIterate(o, s)
    BY <1>2 DEF ComponentIterate, EGOOpt
  <2> QED BY <1>2, <2>1, EGOIterates DEF ComponentOpt, BatchSizes
<1>3. CASE o \in RGARDDOpt(s.book.evaluated)
  <2>1. r \in RGARDDIterate(o, s)
    BY <1>3 DEF ComponentIterate, RGARDDOpt
  <2> QED BY <1>3, <2>1, RGARDDIterates DEF ComponentOpt, BatchSizes
<1> QED BY <1>1, <1>2, <1>3 DEF ComponentOpt

LEMMA NewEGOOpt ==
  ASSUME NEW s, CasesOK(s), NEW b \in s.book.evaluated, NEW r \in NewEGO(b, s)
  PROVE  /\ r.opt \in EGOOpt(s.book.evaluated) /\ Starts("EGO", b, s, r)
         /\ Fed(s, r.cases, InitialGuesses) /\ r.opt.evaluated = 0 /\ r.opt.iteration = 0
<1>1. /\ r.opt = [type |-> "EGO", best |-> b, iteration |-> 0, evaluated |-> 0]
      /\ r.cases = Enqueue(s, InitialGuesses)
  BY DEF NewEGO, Result
<1>2. Fed(s, r.cases, InitialGuesses) /\ r.cases.value = s.value
  BY <1>1, EnqueueFeeds, EGOAssumption
<1>3. r.opt \in EGOOpt(s.book.evaluated)
  BY <1>1 DEF EGOOpt
<1> QED BY <1>1, <1>2, <1>3 DEF Starts, BatchSizes

LEMMA NewRGARDDOpt ==
  ASSUME NEW s, CasesOK(s), NEW b \in s.book.evaluated, NEW k \in Nat,
         NEW r \in NewRGARDD(b, s, k)
  PROVE  /\ r.opt \in RGARDDOpt(s.book.evaluated) /\ Starts("RGARDD", b, s, r)
         /\ Fed(s, r.cases, ChromosomeCount)
         /\ r.opt.iteration = 0 /\ r.opt.generations = k
<1> DEFINE first == [i \in Positions |-> NewCase(s, i)]
<1>1. /\ r.opt = [type |-> "RGARDD", best |-> b, iteration |-> 0, evaluated |-> 0,
                  generations |-> k, population |-> first, pool |-> first]
      /\ r.cases = Enqueue(s, ChromosomeCount)
  BY DEF NewRGARDD, Result
<1>2. Fed(s, r.cases, ChromosomeCount) /\ r.cases.value = s.value
  BY <1>1, EnqueueFeeds, EvenChromosomes
<1>3. first \in [Positions -> Case]
  BY EvenChromosomes DEF Positions, NewCase, Case, CasesOK, Book
<1> HIDE DEF first
<1>4. r.opt \in RGARDDOpt(s.book.evaluated)
  BY <1>1, <1>3 DEF RGARDDOpt
<1> QED BY <1>1, <1>2, <1>4 DEF Starts, BatchSizes

LEMMA NewComponentOpt ==
  ASSUME NEW s, CasesOK(s), NEW b \in s.book.evaluated, NEW t \in Components,
         NEW r \in NewComponent(t, b, s)
  PROVE  r.opt \in ComponentOpt(s.book.evaluated) /\ Starts(t, b, s, r)
<1>1. CASE t = "Compass"
  <2>1. r = Result(NewCompassSearch(b), s)
    BY <1>1 DEF NewComponent
  <2>2. r.cases = s /\ r.opt = [type |-> "Compass", best |-> b, iteration |-> 0,
                                evaluated |-> 0, steps |-> InitialSteps]
    BY <2>1 DEF Result, NewCompassSearch
  <2>3. r.opt \in CompassOpt(s.book.evaluated)
    BY <2>2, CompassAssumption DEF CompassOpt
  <2> QED BY <1>1, <2>2, <2>3 DEF ComponentOpt, Starts
<1>2. CASE t = "EGO"
  <2>1. r \in NewEGO(b, s)
    BY <1>2 DEF NewComponent
  <2> QED BY <1>2, <2>1, NewEGOOpt DEF ComponentOpt
<1>3. CASE t = "RGARDD"
  <2>1. r \in NewRGARDD(b, s, ComponentGenerations)
    BY <1>3 DEF NewComponent
  <2> QED BY <1>3, <2>1, NewRGARDDOpt, HybridAssumption DEF ComponentOpt
<1> QED BY <1>1, <1>2, <1>3 DEF Components

NextTurn(o, f, n, k, i) ==
  [o EXCEPT !.iteration = @ + 1, !.found = f, !.active = n, !.component = k,
            !.improvement = i]

LEMMA NextTurnOpt ==
  ASSUME NEW e, NEW o \in HybridOpt(e), NEW f \in [{1, 2} -> e], NEW n \in {1, 2},
         NEW k \in ComponentOpt(e), NEW i \in BOOLEAN,
         NEW q, q = NextTurn(o, f, n, k, i)
  PROVE  q \in HybridOpt(e) /\ q.best = o.best /\ q.type = o.type
<1>1. q = [type |-> o.type, best |-> o.best, iteration |-> o.iteration + 1,
           evaluated |-> o.evaluated, types |-> o.types, active |-> n,
           component |-> k, improvement |-> i, found |-> f]
  BY DEF HybridOpt, NextTurn
<1>2. /\ o.type = "Hybrid" /\ o.best \in e /\ o.iteration + 1 \in Nat
      /\ o.evaluated \in Nat /\ o.types \in Components \X Components
  BY DEF HybridOpt
<1>3. q \in HybridOpt(e)
  BY <1>1, <1>2 DEF HybridOpt
<1> QED BY <1>1, <1>3

(* A component whose turn begins brings a batch of its own, or iterates.   *)
LEMMA WithCasesFeeds ==
  ASSUME NEW s, CasesOK(s), Pending(s.book) = {}, NEW b \in s.book.evaluated,
         NEW t \in Components, NEW r \in NewComponent(t, b, s),
         NEW q \in WithCases(r)
  PROVE  /\ q.opt \in ComponentOpt(s.book.evaluated)
         /\ \E n \in BatchSizes : Fed(s, q.cases, n) /\ q.cases.value = s.value
<1>1. r.opt \in ComponentOpt(s.book.evaluated) /\ Starts(t, b, s, r)
  BY NewComponentOpt
<1>2. CASE \E n \in BatchSizes : Fed(s, r.cases, n) /\ r.cases.value = s.value
  <2>1. q = r
    BY <1>2, BatchSizesFit, FedIsQueued DEF WithCases
  <2> QED BY <1>1, <1>2, <2>1
<1>3. CASE r.cases = s
  <2>1. q \in ComponentIterate(r.opt, s)
    BY <1>3 DEF WithCases, Pending
  <2>2. /\ q.opt \in ComponentOpt(s.book.evaluated)
        /\ \E n \in BatchSizes : Iterates(r.opt, s, q, n)
    BY <1>1, <2>1, ComponentIterates
  <2>3. r.opt.type # "CMA_ES"
    BY <1>1 DEF Starts, Components
  <2> QED BY <2>2, <2>3 DEF Iterates
<1> QED BY <1>1, <1>2, <1>3 DEF Starts

LEMMA HybridIterates ==
  ASSUME NEW s, CasesOK(s), Pending(s.book) = {},
         NEW o \in HybridOpt(s.book.evaluated), NEW r \in HybridIterate(o, s)
  PROVE  /\ r.opt \in HybridOpt(s.book.evaluated)
         /\ \E n \in BatchSizes : Iterates(o, s, r, n)
<1>1. /\ o.type = "Hybrid" /\ o.best \in s.book.evaluated
      /\ o.component \in ComponentOpt(s.book.evaluated)
      /\ o.active \in {1, 2} /\ o.types \in Components \X Components
      /\ o.found \in [{1, 2} -> s.book.evaluated] /\ o.improvement \in BOOLEAN
  BY DEF HybridOpt
<1>2. CASE ComponentFinished(o.component, s)
  <2> DEFINE f == [o.found EXCEPT ![o.active] = o.best]
             next == 3 - o.active
  <2>0. PICK m \in NewComponent(o.types[next], o.best, s) : \E q \in WithCases(m) :
          r = Result([o EXCEPT !.iteration = @ + 1, !.found = f, !.active = next,
                               !.component = q.opt,
                               !.improvement = @ /\ TurnImproved(o, s, f)],
                     q.cases)
    BY <1>2 DEF HybridIterate, SwitchComponent
  <2>1. PICK q \in WithCases(m) :
          r = Result([o EXCEPT !.iteration = @ + 1, !.found = f, !.active = next,
                               !.component = q.opt,
                               !.improvement = @ /\ TurnImproved(o, s, f)],
                     q.cases)
    BY <2>0
  <2>2. next \in {1, 2} /\ o.types[next] \in Components
    BY <1>1
  <2>3. f \in [{1, 2} -> s.book.evaluated]
    BY <1>1
  <2>4. /\ q.opt \in ComponentOpt(s.book.evaluated)
        /\ \E n \in BatchSizes : Fed(s, q.cases, n) /\ q.cases.value = s.value
    BY <1>1, <2>2, WithCasesFeeds
  <2> HIDE DEF f, next
  <2>5. PICK i \in BOOLEAN : i = (o.improvement /\ TurnImproved(o, s, f))
    OBVIOUS
  <2>6. r.opt = NextTurn(o, f, next, q.opt, i) /\ r.cases = q.cases
    BY <2>1, <2>5 DEF NextTurn, Result
  <2>7. r.opt \in HybridOpt(s.book.evaluated) /\ r.opt.best = o.best /\ r.opt.type = o.type
    BY <2>2, <2>3, <2>4, <2>6, NextTurnOpt
  <2> QED BY <2>4, <2>6, <2>7 DEF Iterates
<1>3. CASE ~ComponentFinished(o.component, s)
  <2>1. PICK q \in ComponentIterate(o.component, s) :
          r = Result([o EXCEPT !.component = q.opt], q.cases)
    BY <1>3 DEF HybridIterate
  <2>2. /\ q.opt \in ComponentOpt(s.book.evaluated)
        /\ \E n \in BatchSizes : Iterates(o.component, s, q, n)
    BY <1>1, <2>1, ComponentIterates
  <2>3. o.component.type # "CMA_ES"
    BY <1>1 DEF ComponentOpt, CompassOpt, EGOOpt, RGARDDOpt
  <2>4. r.opt = [o EXCEPT !.component = q.opt] /\ r.cases = q.cases
    BY <2>1 DEF Result
  <2>5. r.opt \in HybridOpt(s.book.evaluated) /\ r.opt.best = o.best /\ r.opt.type = o.type
    BY <2>2, <2>4 DEF HybridOpt
  <2> QED BY <2>2, <2>3, <2>4, <2>5 DEF Iterates
<1> QED BY <1>2, <1>3

(* Every optimizer that iterates queues a batch, but for SPSA.             *)
LEMMA IterateOpt ==
  ASSUME NEW s, CasesOK(s), Pending(s.book) = {},
         NEW o \in RunOpt(s.book.evaluated), NEW r \in Iterate(o, s)
  PROVE  /\ r.opt \in RunOpt(s.book.evaluated)
         /\ \/ \E n \in BatchSizes : Iterates(o, s, r, n)
            \/ o \in SPSAOpt(s.book.evaluated) /\ Skips(o, s, r)
<1>1. CASE o \in ComponentOpt(s.book.evaluated)
  <2>1. r \in ComponentIterate(o, s)
    BY <1>1 DEF Iterate, ComponentOpt, CompassOpt, EGOOpt, RGARDDOpt
  <2> QED BY <1>1, <2>1, ComponentIterates DEF RunOpt
<1>2. CASE o \in VFSAOpt(s.book.evaluated)
  <2>1. r \in VFSAIterate(o, s)
    BY <1>2 DEF Iterate, VFSAOpt
  <2> QED BY <1>2, <2>1, VFSAIterates DEF RunOpt, BatchSizes
<1>3. CASE o \in SPSAOpt(s.book.evaluated)
  <2>1. r \in SPSAIterate(o, s)
    BY <1>3 DEF Iterate, SPSAOpt
  <2> QED BY <1>3, <2>1, SPSAIterates DEF RunOpt, BatchSizes
<1>4. CASE o \in PSOOpt(s.book.evaluated)
  <2>1. r \in PSOIterate(o, s)
    BY <1>4 DEF Iterate, PSOOpt
  <2> QED BY <1>4, <2>1, PSOIterates DEF RunOpt, BatchSizes
<1>5. CASE o \in CMA_ESOpt(s.book.evaluated)
  <2>1. r \in CMA_ESIterate(o, s)
    BY <1>5 DEF Iterate, CMA_ESOpt
  <2> QED BY <1>5, <2>1, CMA_ESIterates DEF RunOpt, BatchSizes
<1>6. CASE o \in ExhaustiveOpt(s.book.evaluated)
  <2>1. r \in ExhaustiveIterate(o, s)
    BY <1>6 DEF Iterate, ExhaustiveOpt
  <2> QED BY <1>6, <2>1, ExhaustiveIterates DEF RunOpt, BatchSizes
<1>7. CASE o \in HybridOpt(s.book.evaluated)
  <2>1. r \in HybridIterate(o, s)
    BY <1>7 DEF Iterate, HybridOpt
  <2> QED BY <1>7, <2>1, HybridIterates DEF RunOpt
<1> QED BY <1>1, <1>2, <1>3, <1>4, <1>5, <1>6, <1>7 DEF RunOpt

--------------------------------------------------------------------------------
(* Every constructor makes an optimizer whose best case is the base case.  *)
LEMMA InitializedOpt ==
  ASSUME NEW t \in Types, NEW s, CasesOK(s), NEW r \in InitializeOptimizer(t, s)
  PROVE  r.opt \in RunOpt(s.book.evaluated) /\ Starts(t, BaseCase, s, r)
<1> DEFINE e == s.book.evaluated
<1>1. BaseCase \in e
  BY DEF CasesOK, Consistent
<1>2. CASE t \in Components
  <2>1. PICK k \in Nat : t = "RGARDD" => r \in NewRGARDD(BaseCase, s, k)
    BY OptimizerAssumption DEF InitializeOptimizer
  <2>2. CASE t = "Compass" \/ t = "EGO"
    <3>1. r \in NewComponent(t, BaseCase, s)
      BY <2>2 DEF InitializeOptimizer, NewComponent
    <3> QED BY <1>1, <2>2, <3>1, NewComponentOpt DEF RunOpt, Components
  <2>3. CASE t = "RGARDD"
    BY <1>1, <2>1, <2>3, NewRGARDDOpt DEF RunOpt, ComponentOpt
  <2> QED BY <1>2, <2>2, <2>3 DEF Components
<1>3. CASE t = "VFSA"
  <2>1. r = Result(NewVFSA(BaseCase), s)
    BY <1>3 DEF InitializeOptimizer
  <2>2. r.opt = NewVFSA(BaseCase) /\ r.cases = s
    BY <2>1 DEF Result
  <2>3. r.opt \in VFSAOpt(e) /\ r.opt.best = BaseCase /\ r.opt.type = t
    BY <1>1, <1>3, <2>2 DEF NewVFSA, VFSAOpt
  <2> QED BY <2>2, <2>3 DEF Starts, RunOpt
<1>4. CASE t = "SPSA"
  <2>1. r = Result(NewSPSA(BaseCase), s)
    BY <1>4 DEF InitializeOptimizer
  <2>2. r.opt = NewSPSA(BaseCase) /\ r.cases = s
    BY <2>1 DEF Result
  <2>3. PICK rd \in BOOLEAN : rd = FALSE
    OBVIOUS
  <2>4. r.opt = [type |-> "SPSA", best |-> BaseCase, iteration |-> 0, evaluated |-> 0,
                 pair |-> {}, done |-> {}, ready |-> rd]
    BY <2>2, <2>3 DEF NewSPSA
  <2>5. r.opt \in SPSAOpt(e) /\ r.opt.best = BaseCase /\ r.opt.type = t
    BY <1>1, <1>4, <2>4 DEF SPSAOpt
  <2> QED BY <2>2, <2>5 DEF Starts, RunOpt
<1>5. CASE t = "PSO"
  <2>1. PICK st \in BOOLEAN :
          r = Result([type |-> "PSO", best |-> BaseCase, iteration |-> 0,
                      evaluated |-> 0, stagnant |-> st], Enqueue(s, PopulationSize))
    BY <1>5 DEF InitializeOptimizer, NewPSO
  <2>2. r.opt = [type |-> "PSO", best |-> BaseCase, iteration |-> 0,
                 evaluated |-> 0, stagnant |-> st]
        /\ r.cases = Enqueue(s, PopulationSize)
    BY <2>1 DEF Result
  <2>3. r.opt \in PSOOpt(e) /\ r.opt.best = BaseCase /\ r.opt.type = t
    BY <1>1, <1>5, <2>2 DEF PSOOpt
  <2>4. Fed(s, r.cases, PopulationSize) /\ r.cases.value = s.value
    BY <2>2, EnqueueFeeds, SwarmAssumption
  <2> QED BY <2>3, <2>4 DEF Starts, RunOpt, BatchSizes
<1>6. CASE t = "CMA_ES"
  <2>1. PICK out \in SUBSET Generation(s) :
          r = Result([type |-> "CMA_ES", best |-> BaseCase, iteration |-> 0,
                      evaluated |-> 0, outside |-> out, later |-> {}],
                     Enqueue(s, PopulationSize))
    BY <1>6 DEF InitializeOptimizer, NewCMA_ES
  <2>2. r.opt = [type |-> "CMA_ES", best |-> BaseCase, iteration |-> 0,
                 evaluated |-> 0, outside |-> out, later |-> {}]
        /\ r.cases = Enqueue(s, PopulationSize)
    BY <2>1 DEF Result
  <2>3. out \in SUBSET Case
    BY GenerationOfCases
  <2>4. r.opt \in CMA_ESOpt(e) /\ r.opt.best = BaseCase /\ r.opt.type = t
    BY <1>1, <1>6, <2>2, <2>3 DEF CMA_ESOpt
  <2>5. Fed(s, r.cases, PopulationSize) /\ r.cases.value = s.value
    BY <2>2, EnqueueFeeds, SwarmAssumption
  <2> QED BY <2>4, <2>5 DEF Starts, RunOpt, BatchSizes
<1>7. CASE t = "Exhaustive"
  <2>1. r = Result(NewExhaustive(BaseCase), s)
    BY <1>7 DEF InitializeOptimizer
  <2>2. r.opt = NewExhaustive(BaseCase) /\ r.cases = s
    BY <2>1 DEF Result
  <2>3. r.opt \in ExhaustiveOpt(e) /\ r.opt.best = BaseCase /\ r.opt.type = t
    BY <1>1, <1>7, <2>2 DEF NewExhaustive, ExhaustiveOpt
  <2> QED BY <2>2, <2>3 DEF Starts, RunOpt
<1>8. CASE t = "Hybrid"
  <2>1. PICK p \in HybridTypes : r \in NewHybrid(p, BaseCase, s)
    BY <1>8 DEF InitializeOptimizer
  <2>2. p \in Components \X Components
    BY RunAssumption DEF Components
  <2>3. PICK q \in NewComponent(p[1], BaseCase, s) :
          r = Result([type |-> "Hybrid", best |-> BaseCase, iteration |-> 0,
                      evaluated |-> 0, types |-> p, active |-> 1,
                      component |-> q.opt, improvement |-> TRUE,
                      found |-> <<BaseCase, BaseCase>>], q.cases)
    BY <2>1 DEF NewHybrid
  <2>4. q.opt \in ComponentOpt(e) /\ Starts(p[1], BaseCase, s, q)
    BY <1>1, <2>2, <2>3, NewComponentOpt
  <2>5. PICK f \in [{1, 2} -> e] : f = <<BaseCase, BaseCase>>
    <3>1. <<BaseCase, BaseCase>> = [i \in 1..2 |-> BaseCase]
      BY Z3
    <3>2. 1..2 = {1, 2}
      OBVIOUS
    <3> QED BY <1>1, <3>1, <3>2
  <2>6. PICK i \in BOOLEAN : i = TRUE
    OBVIOUS
  <2>7. r.opt = [type |-> "Hybrid", best |-> BaseCase, iteration |-> 0,
                 evaluated |-> 0, types |-> p, active |-> 1,
                 component |-> q.opt, improvement |-> i, found |-> f]
        /\ r.cases = q.cases
    BY <2>3, <2>5, <2>6 DEF Result
  <2>8. r.opt \in HybridOpt(e) /\ r.opt.best = BaseCase /\ r.opt.type = t
    BY <1>1, <1>8, <2>2, <2>4, <2>7 DEF HybridOpt
  <2> QED BY <2>4, <2>7, <2>8 DEF Starts, RunOpt
<1> QED BY <1>2, <1>3, <1>4, <1>5, <1>6, <1>7, <1>8, RunAssumption DEF Components

(* A run begins with the base case as the only evaluated one.              *)
LEMMA NewCasesOK ==
  ASSUME NEW x \in Int, NEW s, s = NewCases(x)
  PROVE  CasesOK(s) /\ s.book = NewBook /\ s.value = [c \in {BaseCase} |-> x]
BY NewBookConsistent DEF NewCases, CasesOK, Consistent

LEMMA InitRun == Init => RunInv
<1> SUFFICES ASSUME Init PROVE RunInv
  OBVIOUS
<1>1. PICK s : s = NewCases(BaseValue)
  OBVIOUS
<1>2. CasesOK(s) /\ s.book = NewBook
  BY <1>1, NewCasesOK, RunAssumption
<1>3. PICK t \in Types :
        \E r \in InitializeOptimizer(t, s) : opt = r.opt /\ cases = r.cases
  BY <1>1 DEF Init
<1>4. PICK r \in InitializeOptimizer(t, s) : opt = r.opt /\ cases = r.cases
  BY <1>3
<1>5. r.opt \in RunOpt(s.book.evaluated) /\ Starts(t, BaseCase, s, r)
  BY <1>2, <1>4, InitializedOpt
<1>6. /\ CasesOK(cases) /\ cases.book.evaluated = s.book.evaluated
      /\ cases.book.evaluating = {}
  BY <1>2, <1>4, <1>5 DEF Starts, Fed, SameOut, NewBook
<1>7. IsFiniteSet({}) /\ Cardinality({}) = 0
  BY FS_EmptySet
<1>8. workers \in Nat \ {0} /\ repeats \in BOOLEAN /\ found = {}
  BY RunAssumption DEF Init
<1> QED BY <1>4, <1>5, <1>6, <1>7, <1>8 DEF RunInv

LEMMA HandOutKeeps ==
  ASSUME RunInv, NEW r, HandOut(r), CasesOK(r.cases),
         r.opt \in RunOpt(r.cases.book.evaluated),
         r.cases.book.evaluating = cases.book.evaluating,
         Cardinality(cases.book.evaluating) < workers
  PROVE  RunInv' /\ \E c \in r.cases.book.queue :
                      /\ IsHead(r.cases.book, c)
                      /\ cases'.book = GetNextCaseForEvaluation(r.cases.book, c)
                      /\ cases'.value = r.cases.value
                      /\ cases'.book.queue = r.cases.book.queue \ {c}
                      /\ cases'.book.evaluating = r.cases.book.evaluating \cup {c}
                      /\ cases'.book.evaluated = r.cases.book.evaluated
                      /\ Known(cases'.book) = Known(r.cases.book)
<1>1. PICK c \in r.cases.book.queue :
        /\ IsHead(r.cases.book, c)
        /\ opt' = r.opt
        /\ cases' = [r.cases EXCEPT !.book = GetNextCaseForEvaluation(@, c)]
        /\ found' \in {{}} \cup (IF repeats THEN {{c}} ELSE {})
        /\ UNCHANGED <<workers, repeats, phase>>
  BY DEF HandOut
<1>2. r.cases \in [book : Book, value : [r.cases.book.evaluated -> Int]]
      /\ Consistent(r.cases.book)
  BY DEF CasesOK
<1> DEFINE g == GetNextCaseForEvaluation(r.cases.book, c)
<1>3. /\ Consistent(g) /\ g.queue = r.cases.book.queue \ {c}
      /\ g.evaluating = r.cases.book.evaluating \cup {c}
      /\ g.evaluated = r.cases.book.evaluated
      /\ Known(g) = Known(r.cases.book)
  BY <1>2, GetNextBook
<1>4. cases'.book = g /\ cases'.value = r.cases.value
      /\ cases' = [book |-> g, value |-> r.cases.value]
  BY <1>1, <1>2
<1> HIDE DEF g
<1>5. CasesOK(cases')
  BY <1>2, <1>3, <1>4 DEF CasesOK, Consistent
<1>6. opt' \in RunOpt(cases'.book.evaluated)
  BY <1>1, <1>3, <1>4
<1>7. workers' \in Nat \ {0} /\ repeats' \in BOOLEAN
  BY <1>1 DEF RunInv
<1>8. found' \subseteq cases'.book.evaluating
  BY <1>1, <1>3, <1>4
<1>9. IsFiniteSet(cases'.book.evaluating) /\ Cardinality(cases'.book.evaluating) <= workers'
  <2>1. IsFiniteSet(cases.book.evaluating) /\ workers' = workers /\ workers \in Nat
    BY <1>1 DEF RunInv
  <2>2. /\ IsFiniteSet(cases.book.evaluating \cup {c})
        /\ Cardinality(cases.book.evaluating \cup {c})
             = IF c \in cases.book.evaluating THEN Cardinality(cases.book.evaluating)
               ELSE Cardinality(cases.book.evaluating) + 1
    BY <2>1, FS_AddElement
  <2>3. Cardinality(cases.book.evaluating) \in Nat
    BY <2>1, FS_CardinalityType
  <2>4. Cardinality(cases.book.evaluating \cup {c}) <= workers
    BY <2>1, <2>2, <2>3
  <2>5. cases'.book.evaluating = cases.book.evaluating \cup {c}
    BY <1>3, <1>4
  <2> QED BY <2>1, <2>2, <2>4, <2>5
<1>10. RunInv'
  BY <1>5, <1>6, <1>7, <1>8, <1>9 DEF RunInv
<1> QED BY <1>1, <1>3, <1>4, <1>10 DEF g

LEMMA SubmitKeeps ==
  ASSUME RunInv, NEW c \in cases.book.evaluating, NEW x \in Int, NEW ok,
         Submit(c, x, ok), found' \subseteq found \ {c},
         workers' = workers, repeats' = repeats
  PROVE  /\ RunInv'
         /\ cases' = Recorded(cases, c, x)
         /\ Chooses(opt, cases', c, opt')
<1>1. cases' = Recorded(cases, c, x)
      /\ opt' \in HandleEvaluatedCase(Counted(opt), cases', c, ok)
  BY DEF Submit
<1>2. PICK s : s = cases'
  OBVIOUS
<1>3. CasesOK(cases)
  BY DEF RunInv
<1>4. /\ CasesOK(s)
      /\ s.book.evaluating = cases.book.evaluating \ {c}
      /\ s.book.evaluated = cases.book.evaluated \cup {c}
  BY <1>1, <1>2, <1>3, RecordedCases
<1>5. c \in Case /\ c \in s.book.evaluated
  BY <1>3, <1>4 DEF CasesOK, Book
<1>6. opt \in RunOpt(s.book.evaluated)
  BY <1>4, MoreEvaluated DEF RunInv
<1>7. PICK o : o = Counted(opt)
  OBVIOUS
<1>8. o \in RunOpt(s.book.evaluated) /\ o.best = opt.best /\ o.type = opt.type
  BY <1>6, <1>7, CountedOpt
<1>9. opt' \in RunOpt(s.book.evaluated) /\ Chooses(o, s, c, opt')
  BY <1>1, <1>2, <1>5, <1>7, <1>8, HandleOpt
<1>10. Chooses(opt, s, c, opt')
  BY <1>8, <1>9 DEF Chooses
<1>11. /\ IsFiniteSet(s.book.evaluating)
       /\ Cardinality(s.book.evaluating) <= workers
  <2>1. /\ IsFiniteSet(cases.book.evaluating) /\ workers \in Nat
        /\ Cardinality(cases.book.evaluating) <= workers
    BY DEF RunInv
  <2>2. /\ IsFiniteSet(s.book.evaluating)
        /\ Cardinality(s.book.evaluating) <= Cardinality(cases.book.evaluating)
    BY <1>4, <2>1, FS_Subset
  <2>3. Cardinality(s.book.evaluating) \in Nat /\ Cardinality(cases.book.evaluating) \in Nat
    BY <2>1, <2>2, FS_CardinalityType
  <2> QED BY <2>1, <2>2, <2>3
<1>12. found' \subseteq s.book.evaluating
  BY <1>4 DEF RunInv
<1>13. RunInv'
  BY <1>2, <1>4, <1>9, <1>11, <1>12 DEF RunInv
<1> QED BY <1>1, <1>2, <1>10, <1>13

--------------------------------------------------------------------------------
(* What each kind of step does, in terms the properties are stated in.     *)
HandsHead(h) ==
  \E c \in h.queue :
    /\ IsHead(h, c)
    /\ cases'.book = GetNextCaseForEvaluation(h, c)
    /\ cases'.book.queue = h.queue \ {c}
    /\ cases'.book.evaluating = h.evaluating \cup {c}
    /\ cases'.book.evaluated = h.evaluated
    /\ Known(cases'.book) = Known(h)

LEMMA QueuedStep ==
  ASSUME RunInv, GetQueuedCase
  PROVE  /\ RunInv' /\ HandsHead(cases.book)
         /\ opt' = opt /\ cases'.value = cases.value
<1>1. PICK r : r = Result(opt, cases)
  OBVIOUS
<1>2. r.opt = opt /\ r.cases = cases /\ HandOut(r)
  BY <1>1 DEF GetQueuedCase, Result
<1>3. Cardinality(cases.book.evaluating) < workers
  BY DEF GetQueuedCase, HandsOut
<1>4. CasesOK(cases) /\ opt \in RunOpt(cases.book.evaluated)
  BY DEF RunInv
<1>5. opt' = opt
  BY <1>2 DEF HandOut
<1> QED BY <1>2, <1>3, <1>4, <1>5, HandOutKeeps DEF HandsHead

LEMMA NothingPending ==
  ASSUME RunInv, HandsOut, ~Queued
  PROVE  /\ CasesOK(cases) /\ opt \in RunOpt(cases.book.evaluated)
         /\ cases.book.queue = {} /\ cases.book.evaluating = {}
         /\ Pending(cases.book) = {}
BY DEF RunInv, HandsOut, Queued, Idle, Pending

LEMMA IteratedStep ==
  ASSUME RunInv, GetIteratedCase
  PROVE  \E r \in Iterate(opt, cases) : \E n \in BatchSizes :
           /\ Iterates(opt, cases, r, n) /\ r.opt \in RunOpt(cases.book.evaluated)
           /\ RunInv' /\ HandsHead(r.cases.book)
           /\ opt' = r.opt /\ cases'.value = r.cases.value
<1>1. PICK r \in Iterate(opt, cases) : HandOut(r)
  BY DEF GetIteratedCase
<1>2. /\ CasesOK(cases) /\ opt \in RunOpt(cases.book.evaluated)
      /\ cases.book.queue = {} /\ cases.book.evaluating = {}
      /\ Pending(cases.book) = {}
  BY NothingPending DEF GetIteratedCase
<1>3. r.opt \in RunOpt(cases.book.evaluated)
  BY <1>2, IterateOpt
<1>4. PICK n \in BatchSizes : Iterates(opt, cases, r, n)
  <2>1. r.cases.book.queue # {}
    BY <1>1 DEF HandOut
  <2>2. ~Skips(opt, cases, r)
    BY <1>2, <2>1 DEF Skips
  <2> QED BY <1>2, <2>2, IterateOpt
<1>5. /\ CasesOK(r.cases) /\ r.cases.book.evaluated = cases.book.evaluated
      /\ r.cases.book.evaluating = cases.book.evaluating
  BY <1>4 DEF Iterates, Fed, SameOut
<1>6. Cardinality(cases.book.evaluating) < workers
  BY <1>2, FS_EmptySet DEF RunInv
<1>7. opt' = r.opt
  BY <1>1 DEF HandOut
<1>8. RunInv' /\ HandsHead(r.cases.book) /\ cases'.value = r.cases.value
  BY <1>1, <1>3, <1>5, <1>6, HandOutKeeps DEF HandsHead
<1> QED BY <1>3, <1>4, <1>7, <1>8

LEMMA NoCaseStep ==
  ASSUME RunInv, GetNoCase
  PROVE  /\ RunInv' /\ cases' = cases
         /\ opt'.type = opt.type /\ opt'.best = opt.best
         /\ opt \in SPSAOpt(cases.book.evaluated)
<1>1. PICK r \in Iterate(opt, cases) :
        r.cases.book.queue = {} /\ opt' = r.opt /\ cases' = r.cases
  BY DEF GetNoCase
<1>2. /\ CasesOK(cases) /\ opt \in RunOpt(cases.book.evaluated)
      /\ Pending(cases.book) = {}
  BY NothingPending DEF GetNoCase
<1>3. ~ \E n \in BatchSizes : Iterates(opt, cases, r, n)
  BY <1>1, <1>2, BatchSizesFit, FedIsQueued DEF Iterates
<1>4. /\ r.opt \in RunOpt(cases.book.evaluated)
      /\ opt \in SPSAOpt(cases.book.evaluated) /\ Skips(opt, cases, r)
  BY <1>2, <1>3, IterateOpt
<1>5. UNCHANGED <<workers, repeats, found>>
  BY DEF GetNoCase
<1> QED BY <1>1, <1>4, <1>5 DEF Skips, RunInv

(* The two ways a result reaches the optimizer.                            *)
LEMMA SubmitStep ==
  ASSUME RunInv, SubmitBookkeepedCase \/ SubmitEvaluatedCase
  PROVE  \E c \in cases.book.evaluating, x \in Int, ok \in BOOLEAN :
           /\ RunInv' /\ Submit(c, x, ok)
           /\ cases' = Recorded(cases, c, x)
           /\ Chooses(opt, cases', c, opt')
<1>1. PICK c \in cases.book.evaluating, x \in Int, ok \in BOOLEAN :
        Submit(c, x, ok) /\ found' \subseteq found \ {c}
  <2>1. CASE SubmitBookkeepedCase
    <3>1. PICK c \in found, d \in cases.book.evaluated : Submit(c, cases.value[d], TRUE)
      BY <2>1 DEF SubmitBookkeepedCase
    <3>2. cases.value[d] \in Int /\ c \in cases.book.evaluating
      BY DEF RunInv, CasesOK
    <3>3. found' = {} /\ TRUE \in BOOLEAN
      BY <2>1 DEF SubmitBookkeepedCase
    <3> QED BY <3>1, <3>2, <3>3
  <2>2. CASE SubmitEvaluatedCase
    <3>1. PICK c \in cases.book.evaluating :
            \/ \E x \in Values : Submit(c, x, TRUE)
            \/ workers = 1 /\ Submit(c, Sentinel, FALSE)
      BY <2>2 DEF SubmitEvaluatedCase
    <3>2. found = {} /\ found' = {}
      BY <2>2 DEF SubmitEvaluatedCase, InLoop
    <3>3. Values \subseteq Int /\ Sentinel \in Int
      BY RunAssumption
    <3>4. TRUE \in BOOLEAN /\ FALSE \in BOOLEAN
      OBVIOUS
    <3> QED BY <3>1, <3>2, <3>3, <3>4
  <2> QED BY <2>1, <2>2
<1>2. workers' = workers /\ repeats' = repeats
  BY DEF SubmitBookkeepedCase, SubmitEvaluatedCase
<1>3. /\ RunInv' /\ cases' = Recorded(cases, c, x)
      /\ Chooses(opt, cases', c, opt')
  BY <1>1, <1>2, SubmitKeeps
<1> QED BY <1>1, <1>3

LEMMA StepRun == RunInv /\ [Next]_vars => RunInv'
<1> SUFFICES ASSUME RunInv, [Next]_vars PROVE RunInv'
  OBVIOUS
<1>1. CASE Finish \/ UNCHANGED vars
  BY <1>1 DEF Finish, vars, RunInv
<1> QED BY <1>1, QueuedStep, IteratedStep, NoCaseStep, SubmitStep DEF Next

LEMMA RunInvariance == Spec => []RunInv
BY InitRun, StepRun, PTL DEF Spec

(* The book is consistent, exactly the evaluated cases have a value, and   *)
(* the tentative best case is one of them, whichever optimizer runs.       *)
THEOREM RunTypeCorrect == Spec => []RunTypeOK
<1>1. RunInv => RunTypeOK
  <2> SUFFICES ASSUME RunInv PROVE RunTypeOK
    OBVIOUS
  <2>1. Consistent(cases.book) /\ DOMAIN cases.value = cases.book.evaluated
    BY DEF RunInv, CasesOK
  <2>2. /\ opt.best \in cases.book.evaluated
        /\ opt.iteration \in Nat /\ opt.evaluated \in Nat
    BY DEF RunInv, RunOpt, ComponentOpt, CompassOpt, EGOOpt, RGARDDOpt, VFSAOpt,
           SPSAOpt, PSOOpt, CMA_ESOpt, ExhaustiveOpt, HybridOpt
  <2> QED BY <2>1, <2>2 DEF RunInv, RunTypeOK
<1> QED BY <1>1, RunInvariance, PTL

--------------------------------------------------------------------------------
(* Being better is a strict order of the evaluated cases.                  *)
LEMMA BetterIsStrict ==
  ASSUME NEW s, CasesOK(s), NEW a \in s.book.evaluated, NEW b \in s.book.evaluated,
         NEW c \in s.book.evaluated
  PROVE  /\ ~IsBetter(s, a, a)
         /\ IsBetter(s, a, b) => ~IsBetter(s, b, a)
         /\ ~IsBetter(s, a, b) /\ ~IsBetter(s, b, c) => ~IsBetter(s, a, c)
<1>1. s.value[a] \in Int /\ s.value[b] \in Int /\ s.value[c] \in Int
  BY DEF CasesOK
<1> QED BY <1>1 DEF IsBetter

LEMMA BestIsEvaluated ==
  ASSUME RunInv
  PROVE  opt.best \in cases.book.evaluated
BY DEF RunInv, RunOpt, ComponentOpt, CompassOpt, EGOOpt, RGARDDOpt, VFSAOpt,
       SPSAOpt, PSOOpt, CMA_ESOpt, ExhaustiveOpt, HybridOpt

LEMMA InitBest == Init => RunBestDominates
<1> SUFFICES ASSUME Init PROVE BestOfAll
  BY DEF RunBestDominates
<1>1. PICK s : s = NewCases(BaseValue)
  OBVIOUS
<1>2. CasesOK(s) /\ s.book = NewBook
  BY <1>1, NewCasesOK, RunAssumption
<1>3. PICK t \in Types :
        \E r \in InitializeOptimizer(t, s) : opt = r.opt /\ cases = r.cases
  BY <1>1 DEF Init
<1>4. PICK r \in InitializeOptimizer(t, s) : opt = r.opt /\ cases = r.cases
  BY <1>3
<1>5. Starts(t, BaseCase, s, r)
  BY <1>2, <1>4, InitializedOpt
<1>6. opt.best = BaseCase /\ cases.book.evaluated = {BaseCase} /\ CasesOK(cases)
  BY <1>2, <1>4, <1>5 DEF Starts, Fed, SameOut, NewBook
<1>7. ~IsBetter(cases, BaseCase, BaseCase)
  BY <1>6, BetterIsStrict
<1> QED BY <1>6, <1>7 DEF BestOfAll

(* A step that changes neither the best case nor a value.                  *)
LEMMA SameBest ==
  ASSUME RunBestDominates, cases'.value = cases.value,
         cases'.book.evaluated = cases.book.evaluated,
         opt'.best = opt.best, opt'.type = opt.type
  PROVE  RunBestDominates'
BY DEF RunBestDominates, BestOfAll, IsBetter

LEMMA SubmitKeepsBest ==
  ASSUME RunInv, RunInv', RunBestDominates,
         NEW c \in cases.book.evaluating, NEW x \in Int,
         cases' = Recorded(cases, c, x), Chooses(opt, cases', c, opt')
  PROVE  RunBestDominates'
<1>1. SUFFICES ASSUME opt'.type \in Comparing PROVE BestOfAll'
  BY DEF RunBestDominates, Comparing
<1>2. PICK s : s = cases'
  OBVIOUS
<1>3. CasesOK(cases) /\ CasesOK(s)
  BY <1>2 DEF RunInv
<1>4. /\ s.book.evaluated = cases.book.evaluated \cup {c}
      /\ \A d \in cases.book.evaluated : s.value[d] = cases.value[d]
  BY <1>2, <1>3, RecordedCases
<1>5. PICK b : b = opt.best
  OBVIOUS
<1>6. b \in cases.book.evaluated /\ b \in s.book.evaluated /\ c \in s.book.evaluated
  BY <1>4, <1>5, BestIsEvaluated
<1>7. opt.type \in Comparing
  BY <1>1 DEF Chooses
<1>8. \A d \in cases.book.evaluated : ~IsBetter(cases, d, b)
  BY <1>5, <1>7 DEF RunBestDominates, BestOfAll, Comparing
<1>9. \A d \in cases.book.evaluated : ~IsBetter(s, d, b)
  BY <1>4, <1>6, <1>8 DEF IsBetter
<1>10. CASE IsBetter(s, c, b)
  <2>1. opt'.best = c
    BY <1>2, <1>5, <1>7, <1>10 DEF Chooses
  <2>2. ASSUME NEW d \in s.book.evaluated PROVE ~IsBetter(s, d, c)
    <3>1. CASE d = c
      BY <1>3, <1>6, <3>1, BetterIsStrict
    <3>2. CASE d \in cases.book.evaluated
      <4>1. ~IsBetter(s, d, b) /\ ~IsBetter(s, b, c)
        BY <1>3, <1>6, <1>9, <1>10, <3>2, BetterIsStrict
      <4> QED BY <1>3, <1>6, <4>1, BetterIsStrict
    <3> QED BY <1>4, <3>1, <3>2
  <2> QED BY <1>2, <2>1, <2>2 DEF BestOfAll
<1>11. CASE ~IsBetter(s, c, b)
  <2>1. opt'.best = b
    BY <1>2, <1>5, <1>7, <1>11 DEF Chooses, Comparing
  <2> QED BY <1>2, <1>4, <1>9, <1>11, <2>1 DEF BestOfAll
<1> QED BY <1>10, <1>11

LEMMA StepKeepsBest ==
  RunInv /\ RunInv' /\ RunBestDominates /\ [Next]_vars => RunBestDominates'
<1> SUFFICES ASSUME RunInv, RunInv', RunBestDominates, [Next]_vars
             PROVE  RunBestDominates'
  OBVIOUS
<1>1. CASE GetQueuedCase
  BY <1>1, QueuedStep, SameBest DEF HandsHead
<1>2. CASE GetIteratedCase
  <2>1. PICK r \in Iterate(opt, cases), n \in BatchSizes :
          /\ Iterates(opt, cases, r, n) /\ HandsHead(r.cases.book)
          /\ opt' = r.opt /\ cases'.value = r.cases.value
    BY <1>2, IteratedStep
  <2>2. /\ opt'.type = opt.type /\ opt'.best = opt.best
        /\ cases'.book.evaluated = cases.book.evaluated
        /\ opt.type # "CMA_ES" => cases'.value = cases.value
    BY <2>1 DEF Iterates, Fed, SameOut, HandsHead
  <2>3. CASE opt.type = "CMA_ES"
    BY <2>2, <2>3 DEF RunBestDominates
  <2> QED BY <2>2, <2>3, SameBest
<1>3. CASE GetNoCase
  BY <1>3, NoCaseStep, SameBest
<1>4. CASE SubmitBookkeepedCase \/ SubmitEvaluatedCase
  <2>1. PICK c \in cases.book.evaluating, x \in Int :
          cases' = Recorded(cases, c, x) /\ Chooses(opt, cases', c, opt')
    BY <1>4, SubmitStep
  <2> QED BY <2>1, SubmitKeepsBest
<1>5. CASE Finish \/ UNCHANGED vars
  BY <1>5 DEF Finish, vars, RunBestDominates, BestOfAll
<1> QED BY <1>1, <1>2, <1>3, <1>4, <1>5 DEF Next

(* The result of a run is the best case evaluated, of the optimizers that  *)
(* compare every result with it.                                           *)
THEOREM RunBestCorrect == Spec => []RunBestDominates
BY InitBest, StepKeepsBest, RunInvariance, PTL DEF Spec

(* The tentative best case gets no worse, but for VFSA and CMA_ES.         *)
THEOREM NeverLosesBestCorrect == Spec => NeverLosesBest
<1>1. RunInv /\ RunInv' /\ [Next]_vars
        => [opt.type \notin {"VFSA", "CMA_ES"}
              => ~IsBetter(cases', opt.best, opt'.best)]_vars
  <2> SUFFICES ASSUME RunInv, RunInv', [Next]_vars,
                      opt.type \notin {"VFSA", "CMA_ES"}
               PROVE  ~IsBetter(cases', opt.best, opt'.best) \/ UNCHANGED vars
    OBVIOUS
  <2>1. PICK s : s = cases'
    OBVIOUS
  <2>2. PICK b : b = opt'.best
    OBVIOUS
  <2>3. CasesOK(s) /\ b \in s.book.evaluated
    <3>1. opt'.best \in cases'.book.evaluated
      BY DEF RunInv, RunOpt, ComponentOpt, CompassOpt, EGOOpt, RGARDDOpt, VFSAOpt,
             SPSAOpt, PSOOpt, CMA_ESOpt, ExhaustiveOpt, HybridOpt
    <3> QED BY <2>1, <2>2, <3>1 DEF RunInv
  <2>4. CASE opt'.best = opt.best
    BY <2>1, <2>2, <2>3, <2>4, BetterIsStrict
  <2>5. CASE SubmitBookkeepedCase \/ SubmitEvaluatedCase
    <3>1. PICK c \in cases.book.evaluating, x \in Int :
            cases' = Recorded(cases, c, x) /\ Chooses(opt, cases', c, opt')
      BY <2>5, SubmitStep
    <3>2. CASE IsBetter(s, c, opt.best) /\ opt'.best = c
      <4>1. opt.best \in s.book.evaluated
        <5>1. s.book.evaluated = cases.book.evaluated \cup {c}
          BY <2>1, <3>1, RecordedCases DEF RunInv
        <5> QED BY <5>1, BestIsEvaluated
      <4> QED BY <2>1, <2>2, <2>3, <3>2, <4>1, BetterIsStrict
    <3> QED BY <2>1, <2>4, <3>1, <3>2 DEF Chooses
  <2>6. CASE GetQueuedCase \/ GetIteratedCase \/ GetNoCase
    BY <2>4, <2>6, QueuedStep, IteratedStep, NoCaseStep DEF Iterates
  <2>7. CASE Finish
    BY <2>4, <2>7 DEF Finish
  <2> QED BY <2>5, <2>6, <2>7 DEF Next
<1> QED BY <1>1, RunInvariance, PTL DEF Spec, NeverLosesBest

--------------------------------------------------------------------------------
(* The contract has the operations of the book from the same module.       *)
LEMMA SameBook ==
  /\ \A h, ps : Contract!AddNewCases(h, ps) = AddNewCases(h, ps)
  /\ \A h, c : Contract!SetCaseEvaluated(h, c) = SetCaseEvaluated(h, c)
  /\ \A h, c : Contract!GetNextCaseForEvaluation(h, c)
                  = GetNextCaseForEvaluation(h, c)
  /\ \A h, cs : Contract!DequeueCases(h, cs) = DequeueCases(h, cs)
  /\ \A h : Contract!ClearRecentlyEvaluatedCases(h) = ClearRecentlyEvaluatedCases(h)
  /\ \A h, c : Contract!IsHead(h, c) <=> IsHead(h, c)
  /\ \A h : Contract!Pending(h) = Pending(h)
  /\ Contract!NewBook = NewBook
BY DEF Contract!AddNewCases, AddNewCases, Contract!Batch, Batch,
   Contract!SetCaseEvaluated, SetCaseEvaluated,
   Contract!GetNextCaseForEvaluation, GetNextCaseForEvaluation,
   Contract!DequeueCases, DequeueCases,
   Contract!ClearRecentlyEvaluatedCases, ClearRecentlyEvaluatedCases,
   Contract!IsHead, IsHead, Contract!Before, Before,
   Contract!Pending, Pending, Contract!NewBook, NewBook,
   Contract!BaseCase, BaseCase

(* What the contract sees of a run.                                        *)
Seen(s) == ClearRecentlyEvaluatedCases(s.book)
Over == phase # "threw" /\ IsFinished(opt, cases)

LEMMA BatchIsGrown ==
  ASSUME NEW s, CasesOK(s), NEW t, NEW n \in BatchSizes, Fed(s, t, n)
  PROVE  Seen(t) \in Contract!Grown(Seen(s))
<1>1. n \in Nat \ {0} /\ 1..n \in (SUBSET BatchPositions) \ {{}}
  BY BatchSizesFit
<1>2. s.book \in Book /\ t.book \in Book
  BY DEF Fed, CasesOK
<1>3. Seen(t) = AddNewCases(Seen(s), 1..n)
  BY <1>2 DEF Seen, Fed, SameOut, AddNewCases, Batch, Book, ClearRecentlyEvaluatedCases
<1>4. Seen(s).calls \in Nat
  BY <1>2, ClearedBook DEF Seen, Book
<1>5. AddNewCases(Seen(s), 1..n)
        \in {Contract!AddNewCases(Seen(s), ps) : ps \in (SUBSET BatchPositions) \ {{}}}
  BY <1>1, SameBook
<1> QED BY <1>3, <1>4, <1>5 DEF Contract!Grown

LEMMA OverIsAllowed ==
  ASSUME NEW h, h.calls \in Nat
  PROVE  Over \in Contract!Verdicts(h)
BY DEF Contract!Verdicts, Over

LEMMA InitIsContractInit == Init => Contract!Init
<1> SUFFICES ASSUME Init PROVE Contract!Init
  OBVIOUS
<1>1. PICK s : s = NewCases(BaseValue)
  OBVIOUS
<1>2. CasesOK(s) /\ s.book = NewBook
  BY <1>1, NewCasesOK, RunAssumption
<1>3. PICK t \in Types :
        \E r \in InitializeOptimizer(t, s) : opt = r.opt /\ cases = r.cases
  BY <1>1 DEF Init
<1>4. PICK r \in InitializeOptimizer(t, s) : opt = r.opt /\ cases = r.cases
  BY <1>3
<1>5. Starts(t, BaseCase, s, r)
  BY <1>2, <1>4, InitializedOpt
<1>6. Seen(s) = Contract!NewBook
  <2>1. [NewBook EXCEPT !.recent = {}] = NewBook
    BY DEF NewBook
  <2>2. Seen(s) = NewBook
    BY <1>2, <2>1 DEF Seen, ClearRecentlyEvaluatedCases
  <2> QED BY <2>2, SameBook
<1>7. Seen(cases) \in Contract!Grown(Contract!NewBook)
  <2>1. CASE cases = s
    BY <1>6, <2>1 DEF Contract!Grown
  <2>2. CASE \E n \in BatchSizes : Fed(s, cases, n)
    BY <1>2, <1>6, <2>2, BatchIsGrown
  <2> QED BY <1>4, <1>5, <2>1, <2>2 DEF Starts
<1>8. Over \in Contract!Verdicts(Seen(cases))
  <2>1. cases.book \in Book
    BY InitRun DEF RunInv, CasesOK
  <2>2. Seen(cases).calls \in Nat
    BY <2>1, ClearedBook DEF Seen, Book
  <2> QED BY <2>2, OverIsAllowed
<1> QED BY <1>7, <1>8 DEF Contract!Init, Seen, Over, ClearRecentlyEvaluatedCases

(* No optimizer is finished while a case is out.                           *)
LEMMA BusyIsNotOver ==
  ASSUME RunInv, cases.book.evaluating # {}
  PROVE  ~Over
<1>1. CASE opt \in ComponentOpt(cases.book.evaluated)
  <2>1. ~ComponentFinished(opt, cases)
    BY <1>1 DEF ComponentFinished, CompassFinished, EGOFinished, RGARDDFinished, Idle,
           ComponentOpt, CompassOpt, EGOOpt, RGARDDOpt
  <2> QED BY <1>1, <2>1 DEF Over, IsFinished, ComponentOpt, CompassOpt, EGOOpt, RGARDDOpt
<1>2. CASE opt \in VFSAOpt(cases.book.evaluated)
  BY <1>2 DEF Over, IsFinished, VFSAFinished, Pending, VFSAOpt
<1>3. CASE opt \in SPSAOpt(cases.book.evaluated)
  BY <1>3 DEF Over, IsFinished, SPSAFinished, Pending, SPSAOpt
<1>4. CASE opt \in PSOOpt(cases.book.evaluated)
  BY <1>4 DEF Over, IsFinished, PSOFinished, Idle, PSOOpt
<1>5. CASE opt \in CMA_ESOpt(cases.book.evaluated)
  BY <1>5 DEF Over, IsFinished, CMA_ESFinished, Idle, CMA_ESOpt
<1>6. CASE opt \in ExhaustiveOpt(cases.book.evaluated)
  BY <1>6 DEF Over, IsFinished, ExhaustiveFinished, ExhaustiveOpt
<1>7. CASE opt \in HybridOpt(cases.book.evaluated)
  BY <1>7 DEF Over, IsFinished, HybridFinished, Idle, HybridOpt
<1> QED BY <1>1, <1>2, <1>3, <1>4, <1>5, <1>6, <1>7 DEF RunInv, RunOpt

(* A case is handed out, whatever book it comes from.                      *)
LEMMA HandedIsContractGet ==
  ASSUME RunInv, RunInv', InLoop, NEW h \in Book, HandsHead(h),
         ClearRecentlyEvaluatedCases(h) \in Contract!Suppliers,
         cases.book.queue = {} => cases.book.evaluating = {}
  PROVE  Contract!GetCaseForEvaluation
<1> DEFINE Cleared(g) == ClearRecentlyEvaluatedCases(g)
<1>1. PICK c \in h.queue : /\ IsHead(h, c)
                           /\ cases'.book = GetNextCaseForEvaluation(h, c)
                           /\ cases'.book.evaluating = h.evaluating \cup {c}
  BY DEF HandsHead
<1>2. ~Over /\ ~Over'
  <2>1. RunInv' /\ cases'.book.evaluating # {}
    BY <1>1
  <2>2. RunInv /\ cases.book.evaluating # {} => ~Over
    BY BusyIsNotOver
  <2>3. (RunInv /\ cases.book.evaluating # {} => ~Over)'
    BY BusyIsNotOver, PTL
  <2> QED BY <2>1, <2>3 DEF InLoop, Over
<1>3. cases.book \in Book
  BY DEF RunInv, CasesOK
<1>4. /\ Cleared(cases.book).queue = cases.book.queue
      /\ Cleared(cases.book).evaluating = cases.book.evaluating
      /\ Cleared(h).queue = h.queue
  BY <1>3, ClearedBook
<1>5. IsHead(Cleared(h), c)
  BY <1>1, <1>4 DEF IsHead
<1>6. Cleared(cases'.book) = GetNextCaseForEvaluation(Cleared(h), c)
  BY <1>1, GetNextCleared
<1> HIDE DEF Cleared
<1>7. \E g \in Contract!Suppliers : \E e \in g.queue :
        Contract!IsHead(g, e)
          /\ Cleared(cases'.book) = Contract!GetNextCaseForEvaluation(g, e)
  <2>1. Cleared(h) \in Contract!Suppliers
    BY DEF Cleared
  <2> QED BY <1>1, <1>4, <1>5, <1>6, <2>1, SameBook
<1>8. Over \in BOOLEAN /\ Over' \in BOOLEAN
  BY DEF Over
<1>9. Over' = Over
  BY <1>2, <1>8
<1> QED BY <1>2, <1>4, <1>7, <1>8, <1>9
     DEF Contract!GetCaseForEvaluation, Contract!IsFinished, Cleared, Over,
         ClearRecentlyEvaluatedCases

(* A result is submitted; the optimizer discards nothing and enqueues      *)
(* nothing in return.                                                      *)
LEMMA SubmitIsContractSubmit ==
  ASSUME RunInv, RunInv', SubmitBookkeepedCase \/ SubmitEvaluatedCase
  PROVE  Contract!SubmitEvaluatedCase
<1>1. PICK c \in cases.book.evaluating, x \in Int : cases' = Recorded(cases, c, x)
  BY SubmitStep
<1>2. CasesOK(cases) /\ cases.book \in Book /\ cases'.book \in Book
  BY DEF RunInv, CasesOK
<1>3. cases'.book = SetCaseEvaluated(cases.book, c)
  BY <1>1, <1>2, RecordedCases
<1> DEFINE done == ClearRecentlyEvaluatedCases(SetCaseEvaluated(Seen(cases), c))
<1>4. Seen(cases') = done
  BY <1>2, <1>3, EvaluatedCleared DEF Seen
<1>5. DequeueCases(done, {}) = done
  <2>1. done \in Book
    BY <1>2, <1>4, ClearedBook DEF Seen
  <2> HIDE DEF done
  <2> QED BY <2>1 DEF DequeueCases, Book
<1>6. done \in Contract!Handled(Seen(cases), c)
  <2>1. Contract!Handled(Seen(cases), c)
          = UNION {Contract!Grown(DequeueCases(done, ds)) : ds \in SUBSET done.queue}
    BY SameBook DEF Contract!Handled
  <2> HIDE DEF done
  <2>2. done \in Contract!Grown(DequeueCases(done, {}))
    BY <1>5 DEF Contract!Grown
  <2>3. {} \in SUBSET done.queue
    OBVIOUS
  <2>4. Contract!Grown(DequeueCases(done, {}))
          \in {Contract!Grown(DequeueCases(done, ds)) : ds \in SUBSET done.queue}
    BY <2>3, Zenon
  <2> QED BY <2>1, <2>2, <2>4, Zenon
<1>7. c \in Seen(cases).evaluating
  BY <1>2, ClearedBook DEF Seen
<1>8. Over' \in Contract!Verdicts(Seen(cases'))
  <2>1. Seen(cases').calls \in Nat
    BY <1>2, ClearedBook DEF Seen, Book
  <2> QED BY <2>1 DEF Contract!Verdicts, Over
<1> HIDE DEF done
<1>9. Seen(cases') \in Contract!Handled(Seen(cases), c)
  BY <1>4, <1>6
<1> QED BY <1>7, <1>8, <1>9
     DEF Contract!SubmitEvaluatedCase, Seen, Over, ClearRecentlyEvaluatedCases

(* Every optimizer keeps what the runners rely on, the exhaustive search   *)
(* and hybrids included.                                                   *)
THEOREM RunContractCorrect == Spec => RunImplementsContract
<1>1. RunInv /\ RunInv' /\ [Next]_vars
        => [Contract!Next]_<<[cases.book EXCEPT !.recent = {}],
                             phase # "threw" /\ IsFinished(opt, cases)>>
  <2> SUFFICES ASSUME RunInv, RunInv', [Next]_vars
               PROVE  \/ Contract!Next
                      \/ UNCHANGED <<Seen(cases), Over>>
    BY DEF Seen, Over, ClearRecentlyEvaluatedCases
  <2>1. CASE GetQueuedCase
    <3>1. Seen(cases) \in Contract!Suppliers
      <4>1. Seen(cases).queue # {}
        BY <2>1, ClearedBook DEF GetQueuedCase, Queued, Seen, RunInv, CasesOK
      <4> QED BY <4>1 DEF Contract!Suppliers, Seen, ClearRecentlyEvaluatedCases
    <3>2. cases.book \in Book /\ HandsHead(cases.book) /\ InLoop /\ cases.book.queue # {}
      BY <2>1, QueuedStep DEF RunInv, CasesOK, GetQueuedCase, Queued
    <3>3. Contract!GetCaseForEvaluation
      BY <3>1, <3>2, HandedIsContractGet DEF Seen
    <3> QED BY <3>3 DEF Contract!Next
  <2>2. CASE GetIteratedCase
    <3>1. PICK r \in Iterate(opt, cases), n \in BatchSizes :
            Iterates(opt, cases, r, n) /\ HandsHead(r.cases.book)
      BY <2>2, IteratedStep
    <3>2. /\ CasesOK(cases) /\ CasesOK(r.cases) /\ Fed(cases, r.cases, n)
          /\ cases.book.queue = {} /\ cases.book.evaluating = {} /\ InLoop
      BY <2>2, <3>1, NothingPending DEF Iterates, Fed, GetIteratedCase
    <3>3. Seen(r.cases) \in Contract!Grown(Seen(cases))
      BY <3>2, BatchIsGrown
    <3>4. Seen(r.cases).queue # {} /\ Seen(cases).queue = {}
      BY <3>2, BatchSizesFit, FedIsQueued, ClearedBook DEF Seen, CasesOK
    <3>5. Seen(r.cases) \in Contract!Suppliers
      BY <3>3, <3>4 DEF Contract!Suppliers, Contract!Iterated, Seen,
                        ClearRecentlyEvaluatedCases
    <3>6. Contract!GetCaseForEvaluation
      BY <3>1, <3>2, <3>5, HandedIsContractGet DEF Seen, CasesOK
    <3> QED BY <3>6 DEF Contract!Next
  <2>3. CASE GetNoCase
    <3>1. cases' = cases
      BY <2>3, NoCaseStep
    <3>2. ~Over /\ ~Over'
      BY <2>3 DEF GetNoCase, InLoop, Over
    <3>3. Over \in BOOLEAN /\ Over' \in BOOLEAN
      BY DEF Over
    <3>4. Over' = Over
      BY <3>2, <3>3
    <3> QED BY <3>1, <3>4 DEF Seen
  <2>4. CASE SubmitBookkeepedCase \/ SubmitEvaluatedCase
    BY <2>4, SubmitIsContractSubmit DEF Contract!Next
  <2>5. CASE Finish
    <3>1. cases' = cases /\ opt' = opt /\ phase # "threw" /\ phase' # "threw"
      BY <2>5 DEF Finish
    <3> QED BY <3>1 DEF Seen, Over
  <2>6. CASE UNCHANGED vars
    BY <2>6 DEF vars, Seen, Over
  <2> QED BY <2>1, <2>2, <2>3, <2>4, <2>5, <2>6 DEF Next
<1> QED BY <1>1, InitIsContractInit, RunInvariance, PTL
        DEF Spec, RunImplementsContract, Contract!Spec

--------------------------------------------------------------------------------
(* SPSA has heard of a whole pair only if it is ready for the next one.    *)
PairInv ==
  opt.type = "SPSA" /\ opt.pair # {} /\ opt.done = opt.pair => opt.ready

(* How SPSA's iterate ends when it is not finished.                        *)
LEMMA SPSAPairs ==
  ASSUME RunInv, PairInv, opt \in SPSAOpt(cases.book.evaluated),
         Pending(cases.book) = {}, InLoop, NEW r \in SPSAIterate(opt, cases)
  PROVE  /\ r.opt.pair # {} => r.opt.done # r.opt.pair \/ r.opt.ready
         /\ r.cases.book.queue = {} =>
              /\ r.opt.iteration > 0
              /\ r.opt.pair = {} \/ r.opt.done # r.opt.pair
<1>1. /\ opt.iteration \in Nat /\ opt.type = "SPSA" /\ opt.ready \in BOOLEAN
      /\ CasesOK(cases) /\ MaxIterations \in Nat
  BY OptimizerAssumption DEF SPSAOpt, RunInv
<1>2. opt.iteration < MaxIterations
  BY <1>1 DEF InLoop, IsFinished, SPSAFinished
<1>3. CASE SPSABlocked(opt)
  <2>1. r.opt = opt
    BY <1>3 DEF SPSAIterate, Result
  <2>2. ~opt.ready /\ opt.iteration # 0
    BY <1>1, <1>2, <1>3 DEF SPSABlocked
  <2> QED BY <1>1, <2>1, <2>2 DEF PairInv
<1>4. CASE r = Result([opt EXCEPT !.iteration = SPSALast(opt), !.pair = {}, !.done = {}],
                      cases)
  <2>1. r.opt = NextPair(opt, SPSALast(opt), opt.ready, {})
    BY <1>4 DEF NextPair, SPSAOpt, Result
  <2>2. SPSALast(opt) \in Nat /\ SPSALast(opt) > 0
    BY <1>1, <1>2 DEF SPSALast
  <2>3. r.opt.iteration = SPSALast(opt) /\ r.opt.pair = {}
    BY <1>1, <2>1, <2>2, NextPairOpt
  <2> QED BY <2>2, <2>3
<1>5. CASE \E k \in SPSAReach(opt) :
             r = Result([opt EXCEPT !.iteration = k, !.ready = FALSE,
                                    !.pair = {NewCase(cases, 1), NewCase(cases, 2)},
                                    !.done = {}],
                        Enqueue(cases, 2))
  <2>1. PICK k \in SPSAReach(opt) :
          r = Result([opt EXCEPT !.iteration = k, !.ready = FALSE,
                                 !.pair = {NewCase(cases, 1), NewCase(cases, 2)},
                                 !.done = {}],
                     Enqueue(cases, 2))
    BY <1>5
  <2> DEFINE p == {NewCase(cases, 1), NewCase(cases, 2)}
  <2>2. PICK rd \in BOOLEAN : rd = FALSE
    OBVIOUS
  <2>3. r.opt = NextPair(opt, k, rd, p) /\ r.cases = Enqueue(cases, 2)
    BY <2>1, <2>2 DEF NextPair, Result
  <2>4. k \in Nat
    BY <1>1 DEF SPSAReach
  <2>5. p \in SUBSET Case /\ p # {}
    BY <1>1 DEF NewCase, Case, CasesOK, Book
  <2> HIDE DEF p
  <2>6. r.opt.done = {} /\ r.opt.pair = p
    BY <1>1, <2>3, <2>4, <2>5, NextPairOpt
  <2>7. r.cases.book.queue # {}
    BY <1>1, <2>3, EnqueueFeeds, FedIsQueued
  <2> QED BY <2>5, <2>6, <2>7
<1> QED BY <1>3, <1>4, <1>5 DEF SPSAIterate

LEMMA InitPair == Init => PairInv /\ NeverWithoutCase
<1> SUFFICES ASSUME Init PROVE PairInv /\ NeverWithoutCase
  OBVIOUS
<1>1. phase = "loop"
  BY DEF Init
<1>2. PICK s : s = NewCases(BaseValue)
  OBVIOUS
<1>3. PICK t \in Types :
        \E r \in InitializeOptimizer(t, s) : opt = r.opt
  BY <1>2 DEF Init
<1>4. PICK r \in InitializeOptimizer(t, s) : opt = r.opt
  BY <1>3
<1>5. opt.type = t
  <2>1. CasesOK(s)
    BY <1>2, NewCasesOK, RunAssumption
  <2> QED BY <1>4, <2>1, InitializedOpt DEF Starts
<1>6. ASSUME t = "SPSA" PROVE opt.pair = {}
  <2>1. r = Result(NewSPSA(BaseCase), s)
    BY <1>4, <1>6 DEF InitializeOptimizer
  <2> QED BY <1>4, <2>1 DEF Result, NewSPSA
<1> QED BY <1>1, <1>5, <1>6 DEF PairInv, NeverWithoutCase

LEMMA StepPair ==
  RunInv /\ PairInv /\ NeverWithoutCase /\ [Next]_vars => PairInv' /\ NeverWithoutCase'
<1> SUFFICES ASSUME RunInv, PairInv, NeverWithoutCase, [Next]_vars
             PROVE  PairInv' /\ NeverWithoutCase'
  OBVIOUS
<1>1. CASE GetQueuedCase
  <2>1. opt' = opt /\ phase' = "loop"
    BY <1>1, QueuedStep DEF GetQueuedCase, InLoop, HandOut
  <2> QED BY <2>1 DEF PairInv, NeverWithoutCase
<1>2. CASE GetIteratedCase
  <2>1. phase' = "loop"
    BY <1>2 DEF GetIteratedCase, InLoop, HandOut
  <2>2. PICK r \in Iterate(opt, cases), n \in BatchSizes :
          Iterates(opt, cases, r, n) /\ opt' = r.opt
    BY <1>2, IteratedStep
  <2>3. opt'.type = opt.type
    BY <2>2 DEF Iterates
  <2>4. CASE opt.type = "SPSA"
    <3>1. opt \in SPSAOpt(cases.book.evaluated)
      BY <2>4 DEF RunInv, RunOpt, ComponentOpt, CompassOpt, EGOOpt, RGARDDOpt, VFSAOpt,
             SPSAOpt, PSOOpt, CMA_ESOpt, ExhaustiveOpt, HybridOpt
    <3>2. r \in SPSAIterate(opt, cases)
      BY <2>2, <2>4 DEF Iterate
    <3>3. Pending(cases.book) = {} /\ InLoop
      BY <1>2, NothingPending DEF GetIteratedCase
    <3>4. opt'.pair # {} => opt'.done # opt'.pair \/ opt'.ready
      BY <2>2, <3>1, <3>2, <3>3, SPSAPairs
    <3> QED BY <2>1, <3>4 DEF PairInv, NeverWithoutCase
  <2> QED BY <2>1, <2>3, <2>4 DEF PairInv, NeverWithoutCase
<1>3. CASE GetNoCase
  <2>1. PICK r \in Iterate(opt, cases) : r.cases.book.queue = {} /\ opt' = r.opt
    BY <1>3 DEF GetNoCase
  <2>2. opt \in SPSAOpt(cases.book.evaluated) /\ opt'.type = opt.type
    BY <1>3, NoCaseStep
  <2>3. opt.type = "SPSA" /\ r \in SPSAIterate(opt, cases)
    BY <2>1, <2>2 DEF SPSAOpt, Iterate
  <2>4. Pending(cases.book) = {} /\ InLoop
    BY <1>3, NothingPending DEF GetNoCase
  <2>5. /\ opt'.iteration > 0
        /\ opt'.pair = {} \/ opt'.done # opt'.pair
    BY <2>1, <2>2, <2>3, <2>4, SPSAPairs
  <2> QED BY <2>2, <2>3, <2>5 DEF PairInv, NeverWithoutCase
<1>4. CASE SubmitBookkeepedCase \/ SubmitEvaluatedCase
  <2>1. phase' = "loop"
    BY <1>4 DEF SubmitBookkeepedCase, SubmitEvaluatedCase, InLoop
  <2>2. PICK c \in cases.book.evaluating, x \in Int, ok \in BOOLEAN :
          RunInv' /\ Submit(c, x, ok) /\ Chooses(opt, cases', c, opt')
          /\ cases' = Recorded(cases, c, x)
    BY <1>4, SubmitStep
  <2>3. opt'.type = opt.type
    BY <2>2 DEF Chooses
  <2>4. CASE opt.type = "SPSA"
    <3>1. PICK o : o = Counted(opt)
      OBVIOUS
    <3>2. o \in RunOpt(cases.book.evaluated) /\ o.type = "SPSA"
      BY <2>4, <3>1, CountedOpt DEF RunInv
    <3>3. opt' \in SPSAHandle(o, cases', c, ok)
      BY <2>2, <3>1, <3>2 DEF Submit, HandleEvaluatedCase
    <3>4. PICK q : q = Improved(o, cases', c)
      OBVIOUS
    <3>5. q \in SPSAOpt(cases.book.evaluated \cup {c}) /\ q.pair = o.pair
      <4>1. o \in SPSAOpt(cases.book.evaluated)
        BY <3>2 DEF RunOpt, ComponentOpt, CompassOpt, EGOOpt, RGARDDOpt, VFSAOpt,
               SPSAOpt, PSOOpt, CMA_ESOpt, ExhaustiveOpt, HybridOpt
      <4> QED BY <3>4, <4>1 DEF Improved, UpdateTentativeBestCase, SPSAOpt
    <3>6. PICK d : opt' = [q EXCEPT !.done = d, !.ready = @ \/ d = o.pair]
      BY <3>3, <3>4 DEF SPSAHandle
    <3>7. /\ opt'.done = d /\ opt'.pair = o.pair
          /\ d = o.pair => opt'.ready
      BY <3>5, <3>6 DEF SPSAOpt
    <3> QED BY <2>1, <3>7 DEF PairInv, NeverWithoutCase
  <2> QED BY <2>1, <2>3, <2>4 DEF PairInv, NeverWithoutCase
<1>5. CASE Finish
  BY <1>5 DEF Finish, PairInv, NeverWithoutCase
<1>6. CASE UNCHANGED vars
  BY <1>6 DEF vars, PairInv, NeverWithoutCase
<1> QED BY <1>1, <1>2, <1>3, <1>4, <1>5, <1>6 DEF Next

(* Only SPSA, after a pair of which one failed or in want of a valid pair, *)
(* ever makes the case handler throw.                                      *)
THEOREM NeverWithoutCaseCorrect == Spec => []NeverWithoutCase
BY InitPair, StepPair, RunInvariance, PTL DEF Spec

--------------------------------------------------------------------------------
(* The queue is never full with nothing out when IsFinished holds: at the  *)
(* start because no optimizer with an iteration to go is finished when it  *)
(* has just been constructed, but for a swarm that stagnates at once;      *)
(* later because two workers are never idle together while cases wait.     *)
LeftInv ==
  workers > 1 /\ ~repeats =>
    /\ found = {}
    /\ Queued /\ Idle(cases) => ~IsFinished(opt, cases) \/ EndedAtOnce

LEMMA FreshIsNotFinished ==
  ASSUME NEW t \in Types, NEW s, CasesOK(s), s.book.queue = {},
         NEW r \in InitializeOptimizer(t, s), r.cases.book.queue # {},
         MaxIterations # 0, r.opt.type = "PSO" => ~r.opt.stagnant
  PROVE  ~IsFinished(r.opt, r.cases)
<1>1. ASSUME NEW o, r = Result(o, s) PROVE FALSE
  BY <1>1 DEF Result
<1>2. t \notin {"Compass", "VFSA", "SPSA", "Exhaustive"}
  BY <1>1 DEF InitializeOptimizer
<1>3. BaseCase \in s.book.evaluated
  BY DEF CasesOK, Consistent
<1>4. MaxIterations \in Nat /\ MaxEvaluations \in Nat
  BY OptimizerAssumption
<1>5. CASE t = "EGO"
  <2>1. r \in NewEGO(BaseCase, s)
    BY <1>5 DEF InitializeOptimizer
  <2>2. r.opt.evaluated = 0 /\ r.opt.type = "EGO"
    BY <1>3, <2>1, NewEGOOpt DEF Starts
  <2> QED BY <1>4, <2>2 DEF IsFinished, ComponentFinished, EGOFinished
<1>6. CASE t = "RGARDD"
  <2>1. r \in NewRGARDD(BaseCase, s, MaxIterations)
    BY <1>6 DEF InitializeOptimizer
  <2>2. r.opt.iteration = 0 /\ r.opt.generations = MaxIterations /\ r.opt.type = "RGARDD"
    BY <1>3, <1>4, <2>1, NewRGARDDOpt DEF Starts
  <2> QED BY <1>4, <2>2 DEF IsFinished, ComponentFinished, RGARDDFinished
<1>7. CASE t = "PSO"
  <2>1. r.opt.type = "PSO" /\ r.opt.iteration = 0
    BY <1>7 DEF InitializeOptimizer, NewPSO, Result
  <2> QED BY <1>4, <2>1 DEF IsFinished, PSOFinished
<1>8. CASE t = "CMA_ES"
  <2>1. r.opt.type = "CMA_ES" /\ r.opt.iteration = 0
    BY <1>8 DEF InitializeOptimizer, NewCMA_ES, Result
  <2> QED BY <1>4, <2>1 DEF IsFinished, CMA_ESFinished
<1>9. CASE t = "Hybrid"
  <2>1. PICK p \in HybridTypes : r \in NewHybrid(p, BaseCase, s)
    BY <1>9 DEF InitializeOptimizer
  <2>2. r.opt.type = "Hybrid" /\ r.opt.active = 1 /\ r.opt.improvement
    BY <2>1 DEF NewHybrid, Result
  <2> QED BY <2>2 DEF IsFinished, HybridFinished
<1> QED BY <1>2, <1>5, <1>6, <1>7, <1>8, <1>9, RunAssumption

LEMMA InitLeft == Init => LeftInv /\ NothingLeftBehind
<1> SUFFICES ASSUME Init PROVE LeftInv /\ NothingLeftBehind
  OBVIOUS
<1>1. phase = "loop" /\ found = {}
  BY DEF Init
<1>2. PICK s : s = NewCases(BaseValue)
  OBVIOUS
<1>3. CasesOK(s) /\ s.book.queue = {} /\ s.book.evaluated = {BaseCase}
  BY <1>2, NewCasesOK, RunAssumption DEF NewBook
<1>4. PICK t \in Types :
        \E r \in InitializeOptimizer(t, s) : opt = r.opt /\ cases = r.cases
  BY <1>2 DEF Init
<1>5. PICK r \in InitializeOptimizer(t, s) : opt = r.opt /\ cases = r.cases
  BY <1>4
<1>6. Queued => ~IsFinished(opt, cases) \/ EndedAtOnce
  <2>1. cases.book.evaluated = {BaseCase}
    BY <1>3, <1>5, InitializedOpt DEF Starts, Fed, SameOut
  <2> QED BY <1>3, <1>5, <2>1, FreshIsNotFinished DEF Queued, EndedAtOnce
<1> QED BY <1>1, <1>6 DEF LeftInv, NothingLeftBehind

LEMMA FinishedIsIdle ==
  ASSUME RunInv, phase = "loop", IsFinished(opt, cases)
  PROVE  Idle(cases)
BY BusyIsNotOver DEF Over, Idle

(* Of two workers that are both busy one stays so when a result comes.     *)
LEMMA OneIsLeftOut ==
  ASSUME RunInv, workers > 1, Queued, ~HandsOut, NEW c
  PROVE  cases.book.evaluating \ {c} # {}
<1> DEFINE out == cases.book.evaluating
<1>1. IsFiniteSet(out) /\ workers \in Nat
  BY DEF RunInv
<1>2. Cardinality(out) \in Nat
  BY <1>1, FS_CardinalityType
<1>3. Cardinality(out) > 1
  BY <1>1, <1>2 DEF HandsOut
<1>4. Cardinality(out \ {c}) # 0
  <2> HIDE DEF out
  <2>1. Cardinality(out \ {c}) \in {Cardinality(out) - 1, Cardinality(out)}
    BY <1>1, FS_RemoveElement
  <2> QED BY <1>2, <1>3, <2>1
<1> QED BY <1>4, FS_EmptySet

LEMMA StepLeft ==
  RunInv /\ LeftInv /\ NothingLeftBehind /\ [Next]_vars => LeftInv' /\ NothingLeftBehind'
<1> SUFFICES ASSUME RunInv, LeftInv, NothingLeftBehind, [Next]_vars
             PROVE  LeftInv' /\ NothingLeftBehind'
  OBVIOUS
<1>1. CASE GetQueuedCase \/ GetIteratedCase
  <2>1. PICK h : HandsHead(h)
    BY <1>1, QueuedStep, IteratedStep
  <2>2. ~Idle(cases)'
    BY <2>1 DEF HandsHead, Idle
  <2>3. /\ phase' = "loop" /\ workers' = workers /\ repeats' = repeats
        /\ ~repeats => found' = {}
    BY <1>1 DEF GetQueuedCase, GetIteratedCase, InLoop, HandOut
  <2> QED BY <2>2, <2>3 DEF LeftInv, NothingLeftBehind
<1>2. CASE GetNoCase
  <2>1. ~Queued' /\ phase' = "threw" /\ UNCHANGED <<workers, repeats, found>>
    BY <1>2 DEF GetNoCase, Queued
  <2> QED BY <2>1 DEF LeftInv, NothingLeftBehind
<1>3. CASE SubmitBookkeepedCase
  <2>1. found # {} /\ phase' = "loop" /\ UNCHANGED <<workers, repeats>>
    BY <1>3 DEF SubmitBookkeepedCase
  <2> QED BY <2>1 DEF LeftInv, NothingLeftBehind
<1>4. CASE SubmitEvaluatedCase
  <2>1. phase' = "loop" /\ ~HandsOut /\ UNCHANGED <<workers, repeats, found>>
    BY <1>4 DEF SubmitEvaluatedCase, InLoop
  <2>2. PICK c \in cases.book.evaluating, x \in Int : cases' = Recorded(cases, c, x)
    BY <1>4, SubmitStep
  <2>3. /\ cases'.book.queue = cases.book.queue
        /\ cases'.book.evaluating = cases.book.evaluating \ {c}
    BY <2>2, RecordedCases DEF RunInv
  <2>4. workers > 1 /\ Queued' => ~Idle(cases)'
    BY <2>1, <2>3, OneIsLeftOut DEF Queued, Idle
  <2> QED BY <2>1, <2>4 DEF LeftInv, NothingLeftBehind
<1>5. CASE Finish
  BY <1>5, FinishedIsIdle
     DEF Finish, LeftInv, NothingLeftBehind, Queued, Idle, EndedAtOnce
<1>6. CASE UNCHANGED vars
  BY <1>6 DEF vars, LeftInv, NothingLeftBehind, Queued, Idle, EndedAtOnce
<1> QED BY <1>1, <1>2, <1>3, <1>4, <1>5, <1>6 DEF Next

(* A run that is over has nothing out; and two workers without a           *)
(* bookkeeper leave nothing in the queue but the generation of the         *)
(* constructor, if that is all the run has made.                           *)
THEOREM NothingLeftBehindCorrect == Spec => []NothingLeftBehind
BY InitLeft, StepLeft, RunInvariance, PTL DEF Spec

--------------------------------------------------------------------------------
EGOBound == Allowance([type |-> "EGO"]) + Overspend([type |-> "EGO"])

(* What an optimizer o has spent: k cases created, p of them pending.      *)
Spent(o, k, p) ==
  /\ o.type = "Compass" =>
       k = o.evaluated + p /\ k <= MaxEvaluations + PollDirections - 1
  /\ o.type = "EGO" =>
       k = o.evaluated + p /\ k <= EGOBound
  /\ o.type \in {"PSO", "CMA_ES"} =>
       o.iteration <= MaxIterations /\ k = PopulationSize * (o.iteration + 1)
  /\ o.type = "RGARDD" =>
       /\ o.generations = MaxIterations /\ o.iteration <= MaxIterations
       /\ k <= ChromosomeCount * (o.iteration + 1)
  /\ o.type = "SPSA" =>
       o.iteration <= MaxIterations /\ k <= 2 * o.iteration
  /\ o.type = "VFSA" =>
       /\ o.iteration <= MaxIterations + 1
       /\ k = EvalsPerIteration * o.iteration + o.evals + p
       /\ k = o.evaluated + p
       /\ IF VfsaParallel THEN o.evals + p \in {0, EvalsPerIteration}
          ELSE /\ o.evals + p <= EvalsPerIteration
               /\ o.iteration > MaxIterations => o.evals + p <= 1

SpentInv ==
  /\ IsFiniteSet(Known(cases.book))
  /\ Spent(opt, Cardinality(Created), Cardinality(Pending(cases.book)))

LEMMA MoreIterationsCostMore ==
  ASSUME NEW a \in Nat, NEW i \in Nat, NEW j \in Nat, i <= j
  PROVE  a * i <= a * j /\ a * (i + 1) = a * i + a
<1>1. a * (j - i) \in Nat
  BY j - i \in Nat
<1>2. a * j = a * i + a * (j - i)
  OBVIOUS
<1>3. a * i \in Nat /\ a * j \in Nat
  OBVIOUS
<1>4. a * (i + 1) = a * i + a
  OBVIOUS
<1> QED BY <1>1, <1>2, <1>3, <1>4

(* What is spent is allowed, or overspent as expected.                     *)
LEMMA SpentIsBounded ==
  ASSUME NEW e, NEW o \in RunOpt(e), NEW k \in Nat, NEW p \in Nat, Spent(o, k, p)
  PROVE  o.type \in {"Exhaustive", "Hybrid"} \/ k <= Allowance(o) + Overspend(o)
<1>1. MaxIterations \in Nat /\ MaxEvaluations \in Nat
  BY OptimizerAssumption
<1>2. CASE o \in CompassOpt(e) \cup EGOOpt(e)
  BY <1>1, <1>2, CompassAssumption
     DEF Spent, Allowance, Overspend, EGOBound, CompassOpt, EGOOpt
<1>3. CASE o \in PSOOpt(e) \cup CMA_ESOpt(e)
  <2>1. /\ o.type \in {"PSO", "CMA_ES"} /\ o.iteration \in Nat
        /\ PopulationSize \in Nat
    BY <1>3, SwarmAssumption DEF PSOOpt, CMA_ESOpt
  <2>2. o.iteration <= MaxIterations /\ k = PopulationSize * (o.iteration + 1)
    BY <2>1 DEF Spent
  <2>3. k <= PopulationSize * (MaxIterations + 1)
    BY <1>1, <2>1, <2>2, MoreIterationsCostMore
  <2>4. PopulationSize * (MaxIterations + 1) = MaxIterations * PopulationSize + PopulationSize
    BY <1>1, <2>1
  <2> QED BY <2>1, <2>3, <2>4 DEF Allowance, Overspend
<1>4. CASE o \in RGARDDOpt(e)
  <2>1. o.type = "RGARDD" /\ o.iteration \in Nat /\ ChromosomeCount \in Nat
    BY <1>4, EvenChromosomes DEF RGARDDOpt
  <2>2. o.iteration <= MaxIterations /\ k <= ChromosomeCount * (o.iteration + 1)
    BY <2>1 DEF Spent
  <2>3. /\ ChromosomeCount * (o.iteration + 1) <= ChromosomeCount * (MaxIterations + 1)
        /\ ChromosomeCount * (o.iteration + 1) \in Nat
        /\ ChromosomeCount * (MaxIterations + 1) \in Nat
    BY <1>1, <2>1, <2>2, MoreIterationsCostMore
  <2>4. k <= ChromosomeCount * (MaxIterations + 1)
    BY <2>2, <2>3
  <2>5. ChromosomeCount * (MaxIterations + 1) = MaxIterations * ChromosomeCount + ChromosomeCount
    BY <1>1, <2>1
  <2> QED BY <2>1, <2>4, <2>5 DEF Allowance, Overspend
<1>5. CASE o \in SPSAOpt(e)
  BY <1>1, <1>5 DEF Spent, Allowance, Overspend, SPSAOpt
<1>6. CASE o \in VFSAOpt(e)
  <2> DEFINE E == EvalsPerIteration
  <2>1. o.type = "VFSA" /\ o.iteration \in Nat /\ o.evals \in Nat /\ E \in Nat \ {0}
    BY <1>6, VFSAAssumption DEF VFSAOpt
  <2>2. o.iteration <= MaxIterations + 1 /\ k = E * o.iteration + o.evals + p
    BY <2>1 DEF Spent
  <2> DEFINE M == E * MaxIterations
  <2>3. M \in Nat /\ E * o.iteration \in Nat
    BY <1>1, <2>1
  <2>4. E * (MaxIterations + 1) = M + E /\ MaxIterations * E = M
    BY <1>1, <2>1
  <2>5. E * o.iteration <= M + E
    BY <1>1, <2>1, <2>2, <2>4, MoreIterationsCostMore
  <2>6. o.iteration <= MaxIterations => E * o.iteration <= M
    BY <1>1, <2>1, MoreIterationsCostMore
  <2>7. CASE VfsaParallel
    <3>1. o.evals + p <= E
      BY <2>1, <2>7 DEF Spent
    <3> HIDE DEF M
    <3>2. k <= M + E + E
      BY <2>1, <2>2, <2>3, <2>5, <3>1
    <3> QED BY <2>1, <2>3, <2>4, <2>7, <3>2 DEF Allowance, Overspend, VFSABatch
  <2>8. CASE ~VfsaParallel
    <3>1. o.evals + p <= E /\ (o.iteration > MaxIterations => o.evals + p <= 1)
      BY <2>1, <2>8 DEF Spent
    <3> HIDE DEF M
    <3>2. k <= M + E + 1
      <4>1. CASE o.iteration <= MaxIterations
        BY <2>1, <2>2, <2>3, <2>6, <3>1, <4>1
      <4>2. CASE o.iteration > MaxIterations
        BY <2>1, <2>2, <2>3, <2>5, <3>1, <4>2
      <4> QED BY <1>1, <2>1, <4>1, <4>2
    <3> QED BY <2>1, <2>3, <2>4, <2>8, <3>2 DEF Allowance, Overspend, VFSABatch
  <2> QED BY <2>7, <2>8
<1>7. CASE o \in ExhaustiveOpt(e) \cup HybridOpt(e)
  BY <1>7 DEF ExhaustiveOpt, HybridOpt
<1> QED BY <1>2, <1>3, <1>4, <1>5, <1>6, <1>7 DEF RunOpt, ComponentOpt

--------------------------------------------------------------------------------
(* A batch of n is n cases more, all of them pending.                      *)
LEMMA BatchCount ==
  ASSUME NEW s, CasesOK(s), IsFiniteSet(Known(s.book)), Pending(s.book) = {},
         NEW n \in Nat, NEW t, Fed(s, t, n)
  PROVE  /\ IsFiniteSet(Known(t.book))
         /\ Cardinality(Known(t.book) \ {BaseCase})
              = Cardinality(Known(s.book) \ {BaseCase}) + n
         /\ Cardinality(Pending(t.book)) = n
<1> DEFINE b == Batch(s.book, 1..n)
           k == Known(s.book) \ {BaseCase}
<1>1. IsFiniteSet(b) /\ Cardinality(b) = n
  <2>1. IsFiniteSet(1..n) /\ Cardinality(1..n) = n
    BY FS_Interval
  <2>2. IsFiniteSet({s.book.calls}) /\ Cardinality({s.book.calls}) = 1
    BY FS_Singleton
  <2>3. /\ IsFiniteSet({s.book.calls} \X (1..n))
        /\ Cardinality({s.book.calls} \X (1..n))
             = Cardinality({s.book.calls}) * Cardinality(1..n)
    BY <2>1, <2>2, FS_Product, Zenon
  <2>4. Cardinality({s.book.calls} \X (1..n)) = n
    BY <2>1, <2>2, <2>3
  <2> QED BY <2>3, <2>4 DEF Batch
<1>2. Consistent(s.book) /\ 1..n \in SUBSET Nat
  BY DEF CasesOK
<1>3. Known(s.book) \cap b = {}
  BY <1>2, GrownBook
<1>4. BaseCase \in Known(s.book)
  BY <1>2 DEF Consistent, Known
<1>5. Pending(t.book) = b /\ Known(t.book) = Known(s.book) \cup b
  BY DEF Fed, SameOut, Known, Pending
<1> HIDE DEF b
<1>6. IsFiniteSet(Known(t.book))
  BY <1>1, <1>5, FS_Union
<1>7. Known(t.book) \ {BaseCase} = k \cup b /\ k \cap b = {}
  BY <1>3, <1>4, <1>5
<1>8. IsFiniteSet(k)
  BY FS_RemoveElement
<1> HIDE DEF k
<1>9. Cardinality(k \cup b) = Cardinality(k) + n
  <2>1. Cardinality(k \cup b) = Cardinality(k) + Cardinality(b) - Cardinality(k \cap b)
    BY <1>1, <1>8, FS_Union
  <2>2. Cardinality(k \cap b) = 0 /\ Cardinality(k) \in Nat
    BY <1>7, <1>8, FS_EmptySet, FS_CardinalityType
  <2> QED BY <1>1, <2>1, <2>2
<1> QED BY <1>1, <1>5, <1>6, <1>7, <1>9 DEF k

(* A result counts as an evaluation, and in VFSA as one of its iteration.  *)
LEMMA HandledCounts ==
  ASSUME NEW e, NEW o \in RunOpt(e), NEW s, NEW c \in e, c \in Case, NEW ok,
         NEW h \in HandleEvaluatedCase(Counted(o), s, c, ok),
         o.type \notin {"Exhaustive", "Hybrid"}
  PROVE  /\ h.type = o.type /\ h.iteration = o.iteration
         /\ h.evaluated = o.evaluated + 1
         /\ o.type = "RGARDD" => h.generations = o.generations
         /\ o.type = "VFSA" => h.evals = o.evals + 1
<1>1. PICK q : q = Counted(o)
  OBVIOUS
<1>2. PICK i : i = Improved(q, s, c)
  OBVIOUS
<1>3. CASE o \in CompassOpt(e) \cup EGOOpt(e) \cup PSOOpt(e) \cup CMA_ESOpt(e)
  <2>1. h = i
    BY <1>1, <1>2, <1>3 DEF HandleEvaluatedCase, ComponentHandle, CompassHandle, EGOHandle,
           PSOHandle, CMA_ESHandle, Counted, CompassOpt, EGOOpt, PSOOpt, CMA_ESOpt
  <2>2. /\ i.type = o.type /\ i.iteration = o.iteration /\ i.evaluated = o.evaluated + 1
        /\ o.type \notin {"RGARDD", "VFSA"}
    BY <1>1, <1>2, <1>3 DEF Improved, UpdateTentativeBestCase, Counted,
           CompassOpt, EGOOpt, PSOOpt, CMA_ESOpt
  <2> QED BY <2>1, <2>2
<1>4. CASE o \in RGARDDOpt(e)
  <2>1. q \in RGARDDOpt(e) /\ q.iteration = o.iteration /\ q.evaluated = o.evaluated + 1
        /\ q.generations = o.generations /\ o.type = "RGARDD" /\ q.type = "RGARDD"
    BY <1>1, <1>4 DEF Counted, RGARDDOpt
  <2>2. h \in RGARDDHandle(q, s, c)
    BY <1>1, <2>1 DEF HandleEvaluatedCase, ComponentHandle
  <2>3. /\ i.type = "RGARDD" /\ i.iteration = q.iteration /\ i.evaluated = q.evaluated
        /\ i.generations = q.generations
    BY <1>2, <2>1 DEF Improved, UpdateTentativeBestCase, RGARDDOpt
  <2>4. i \in RGARDDOpt(e)
    BY <1>2, <2>1 DEF Improved, UpdateTentativeBestCase, RGARDDOpt
  <2>5. CASE h = q
    BY <2>1, <2>5
  <2>6. CASE h # q
    <3>1. PICK f : f = [j \in Positions |-> IF q.pool[j] = c THEN c ELSE i.population[j]]
      OBVIOUS
    <3>2. h = [i EXCEPT !.population = f]
      BY <1>2, <2>2, <2>6, <3>1 DEF RGARDDHandle
    <3>3. /\ h.type = i.type /\ h.iteration = i.iteration /\ h.evaluated = i.evaluated
          /\ h.generations = i.generations
      BY <2>4, <3>2 DEF RGARDDOpt
    <3> QED BY <2>1, <2>3, <3>3
  <2> QED BY <2>5, <2>6
<1>5. CASE o \in SPSAOpt(e)
  <2>1. q \in SPSAOpt(e) /\ q.iteration = o.iteration /\ q.evaluated = o.evaluated + 1
        /\ o.type = "SPSA" /\ q.type = "SPSA"
    BY <1>1, <1>5 DEF Counted, SPSAOpt
  <2>2. h \in SPSAHandle(q, s, c, ok)
    BY <1>1, <2>1 DEF HandleEvaluatedCase
  <2>3. i \in SPSAOpt(e) /\ i.iteration = q.iteration /\ i.evaluated = q.evaluated
        /\ i.type = "SPSA"
    BY <1>2, <2>1 DEF Improved, UpdateTentativeBestCase, SPSAOpt
  <2>4. PICK d : h = [i EXCEPT !.done = d, !.ready = @ \/ d = q.pair]
    BY <1>2, <2>2 DEF SPSAHandle
  <2>5. h.type = i.type /\ h.iteration = i.iteration /\ h.evaluated = i.evaluated
    BY <2>3, <2>4 DEF SPSAOpt
  <2> QED BY <2>1, <2>3, <2>5
<1>6. CASE o \in VFSAOpt(e)
  <2>1. q \in VFSAOpt(e) /\ q.iteration = o.iteration /\ q.evaluated = o.evaluated + 1
        /\ q.evals = o.evals /\ o.type = "VFSA" /\ q.type = "VFSA"
    BY <1>1, <1>6 DEF Counted, VFSAOpt
  <2>2. PICK g : g = [q EXCEPT !.evals = @ + 1]
    OBVIOUS
  <2>3. g \in VFSAOpt(e) /\ g.evals = q.evals + 1 /\ g.iteration = q.iteration
        /\ g.evaluated = q.evaluated /\ g.type = "VFSA"
    BY <2>1, <2>2 DEF VFSAOpt
  <2>4. h \in {g, UpdateTentativeBestCase(g, c)}
    <3>1. h \in VFSAHandle(q, s, c)
      BY <1>1, <2>1 DEF HandleEvaluatedCase
    <3> QED BY <2>2, <3>1 DEF VFSAHandle
  <2>5. h.type = g.type /\ h.iteration = g.iteration /\ h.evaluated = g.evaluated
        /\ h.evals = g.evals
    BY <2>3, <2>4 DEF UpdateTentativeBestCase, VFSAOpt
  <2> QED BY <2>1, <2>3, <2>5
<1>7. CASE o \in ExhaustiveOpt(e) \cup HybridOpt(e)
  BY <1>7 DEF ExhaustiveOpt, HybridOpt
<1> QED BY <1>3, <1>4, <1>5, <1>6, <1>7 DEF RunOpt, ComponentOpt

LEMMA HandledSpent ==
  ASSUME NEW e, NEW o \in RunOpt(e), NEW s, NEW c \in e, c \in Case, NEW ok,
         NEW h \in HandleEvaluatedCase(Counted(o), s, c, ok),
         h.type = o.type, NEW k \in Nat, NEW p \in Nat \ {0}, Spent(o, k, p)
  PROVE  Spent(h, k, p - 1)
<1>1. o.iteration \in Nat /\ o.evaluated \in Nat
  BY DEF RunOpt, ComponentOpt, CompassOpt, EGOOpt, RGARDDOpt, VFSAOpt, SPSAOpt,
         PSOOpt, CMA_ESOpt, ExhaustiveOpt, HybridOpt
<1>2. CASE o.type \in {"Exhaustive", "Hybrid"}
  BY <1>2 DEF Spent
<1>3. CASE o.type \in {"PSO", "CMA_ES", "RGARDD", "SPSA"}
  BY <1>3, HandledCounts DEF Spent
<1>4. CASE o.type \in {"Compass", "EGO"}
  <2>1. h.evaluated + (p - 1) = o.evaluated + p
    BY <1>1, <1>4, HandledCounts
  <2> QED BY <1>4, <2>1 DEF Spent
<1>5. CASE o.type = "VFSA"
  <2>1. o.evals \in Nat
    BY <1>5 DEF RunOpt, ComponentOpt, CompassOpt, EGOOpt, RGARDDOpt, VFSAOpt, SPSAOpt,
           PSOOpt, CMA_ESOpt, ExhaustiveOpt, HybridOpt
  <2>2. h.iteration = o.iteration /\ h.evals = o.evals + 1
    BY <1>5, HandledCounts
  <2>3. PICK m : m = EvalsPerIteration * o.iteration
    OBVIOUS
  <2>4. m \in Nat
    BY <1>1, <2>3, VFSAAssumption
  <2>5. h.evals + (p - 1) = o.evals + p /\ m + h.evals + (p - 1) = m + o.evals + p
    BY <2>1, <2>2, <2>4
  <2>6. h.evaluated + (p - 1) = o.evaluated + p
    BY <1>1, <1>5, HandledCounts
  <2> QED BY <1>5, <2>2, <2>3, <2>5, <2>6 DEF Spent
<1> QED BY <1>2, <1>3, <1>4, <1>5
     DEF RunOpt, ComponentOpt, CompassOpt, EGOOpt, RGARDDOpt, VFSAOpt, SPSAOpt,
         PSOOpt, CMA_ESOpt, ExhaustiveOpt, HybridOpt

(* An optimizer that is not finished and has nothing pending spends one    *)
(* batch more, unless it is SPSA without a pair.                           *)
Spends(s, r, k) ==
  \/ \E n \in Nat : Fed(s, r.cases, n) /\ Spent(r.opt, k + n, n)
  \/ r.cases = s /\ Spent(r.opt, k, 0)

LEMMA SwarmSpends ==
  ASSUME NEW s, CasesOK(s), NEW e, NEW o \in PSOOpt(e) \cup CMA_ESOpt(e),
         NEW r, r.opt.type = o.type, r.opt.iteration = o.iteration + 1,
         Fed(s, r.cases, PopulationSize),
         o.iteration < MaxIterations, NEW k \in Nat, Spent(o, k, 0)
  PROVE  Spends(s, r, k)
<1>1. /\ o.type \in {"PSO", "CMA_ES"} /\ o.iteration \in Nat
      /\ PopulationSize \in Nat /\ MaxIterations \in Nat
  BY SwarmAssumption, OptimizerAssumption DEF PSOOpt, CMA_ESOpt
<1>2. k = PopulationSize * (o.iteration + 1)
  BY <1>1 DEF Spent
<1>3. k + PopulationSize = PopulationSize * (r.opt.iteration + 1)
  <2>1. PopulationSize * ((o.iteration + 1) + 1)
          = PopulationSize * (o.iteration + 1) + PopulationSize
    BY <1>1, MoreIterationsCostMore
  <2> QED BY <1>2, <2>1
<1>4. Spent(r.opt, k + PopulationSize, PopulationSize)
  BY <1>1, <1>3 DEF Spent
<1> QED BY <1>1, <1>4 DEF Spends

LEMMA RGARDDSpends ==
  ASSUME NEW s, CasesOK(s), Pending(s.book) = {},
         NEW o \in RGARDDOpt(s.book.evaluated), NEW r \in RGARDDIterate(o, s),
         o.iteration < o.generations, NEW k \in Nat, Spent(o, k, 0)
  PROVE  Spends(s, r, k)
<1>1. PICK p \in SortPopulation(o, s) : r \in {Breed(o, s, p), Repopulate(o, s, p)}
  BY DEF RGARDDIterate
<1>2. PICK q, n : /\ r.opt = NextGeneration(o, q[1], q[2])
                  /\ r.cases = Enqueue(s, n)
                  /\ n \in {ChromosomeCount, ChromosomeCount - 1}
  <2>1. CASE r = Breed(o, s, p)
    <3>1. PICK pool : pool = [i \in Positions |-> Offspring(s, i)]
      OBVIOUS
    <3>2. /\ r.opt = NextGeneration(o, p, pool)
          /\ r.cases = Enqueue(s, ChromosomeCount)
      BY <2>1, <3>1 DEF Breed, Result, NextGeneration
    <3>3. <<p, pool>>[1] = p /\ <<p, pool>>[2] = pool
      OBVIOUS
    <3> QED BY <3>2, <3>3
  <2>2. CASE r = Repopulate(o, s, p)
    <3>1. PICK next : next = [i \in Positions |-> IF i = 1 THEN p[1] ELSE NewCase(s, i - 1)]
      OBVIOUS
    <3>2. /\ r.opt = NextGeneration(o, next, next)
          /\ r.cases = Enqueue(s, ChromosomeCount - 1)
      BY <2>2, <3>1 DEF Repopulate, Result, NextGeneration
    <3>3. <<next, next>>[1] = next /\ <<next, next>>[2] = next
      OBVIOUS
    <3> QED BY <3>2, <3>3
  <2> QED BY <1>1, <2>1, <2>2
<1>3. /\ o.type = "RGARDD" /\ o.iteration \in Nat
      /\ ChromosomeCount \in Nat /\ MaxIterations \in Nat
      /\ n \in Nat /\ n <= ChromosomeCount
  BY <1>2, EvenChromosomes, OptimizerAssumption DEF RGARDDOpt
<1>4. /\ r.opt.type = "RGARDD" /\ r.opt.iteration = o.iteration + 1
      /\ r.opt.generations = o.generations
  BY <1>2 DEF NextGeneration, RGARDDOpt
<1>5. /\ o.generations = MaxIterations
      /\ k <= ChromosomeCount * (o.iteration + 1)
  BY <1>3 DEF Spent
<1>6. k + n <= ChromosomeCount * (r.opt.iteration + 1)
  <2>1. /\ ChromosomeCount * ((o.iteration + 1) + 1)
             = ChromosomeCount * (o.iteration + 1) + ChromosomeCount
        /\ ChromosomeCount * (o.iteration + 1) \in Nat
    BY <1>3, MoreIterationsCostMore
  <2> QED BY <1>3, <1>4, <1>5, <2>1
<1>7. Spent(r.opt, k + n, n)
  BY <1>3, <1>4, <1>5, <1>6 DEF Spent
<1>8. Fed(s, r.cases, n)
  BY <1>2, <1>3, EnqueueFeeds
<1> QED BY <1>3, <1>7, <1>8 DEF Spends

LEMMA SPSASpends ==
  ASSUME NEW s, CasesOK(s), NEW o \in SPSAOpt(s.book.evaluated),
         NEW r \in SPSAIterate(o, s), o.iteration < MaxIterations,
         NEW k \in Nat, Spent(o, k, 0)
  PROVE  Spends(s, r, k)
<1>1. /\ o.iteration \in Nat /\ o.type = "SPSA" /\ MaxIterations \in Nat
      /\ k <= 2 * o.iteration
  BY OptimizerAssumption DEF SPSAOpt, Spent
<1>2. CASE r = Result(o, s)
  BY <1>2 DEF Result, Spends
<1>3. CASE r = Result([o EXCEPT !.iteration = SPSALast(o), !.pair = {}, !.done = {}], s)
  <2>1. r.opt.type = "SPSA" /\ r.opt.iteration = SPSALast(o) /\ r.cases = s
    BY <1>3 DEF Result, SPSAOpt
  <2>2. SPSALast(o) \in Nat /\ SPSALast(o) >= o.iteration /\ SPSALast(o) <= MaxIterations
    BY <1>1 DEF SPSALast
  <2>3. Spent(r.opt, k, 0)
    BY <1>1, <2>1, <2>2 DEF Spent
  <2> QED BY <2>1, <2>3 DEF Spends
<1>4. CASE \E j \in SPSAReach(o) :
             r = Result([o EXCEPT !.iteration = j, !.ready = FALSE,
                                  !.pair = {NewCase(s, 1), NewCase(s, 2)},
                                  !.done = {}],
                        Enqueue(s, 2))
  <2>1. PICK j \in SPSAReach(o) :
             r = Result([o EXCEPT !.iteration = j, !.ready = FALSE,
                                  !.pair = {NewCase(s, 1), NewCase(s, 2)},
                                  !.done = {}],
                        Enqueue(s, 2))
    BY <1>4
  <2>2. r.opt.type = "SPSA" /\ r.opt.iteration = j /\ r.cases = Enqueue(s, 2)
    BY <2>1 DEF Result, SPSAOpt
  <2>3. j \in Nat /\ j >= o.iteration + 1 /\ j <= MaxIterations
    BY <1>1 DEF SPSAReach
  <2>4. Spent(r.opt, k + 2, 2)
    BY <1>1, <2>2, <2>3 DEF Spent
  <2>5. Fed(s, r.cases, 2)
    BY <2>2, EnqueueFeeds
  <2> QED BY <2>4, <2>5 DEF Spends
<1> QED BY <1>2, <1>3, <1>4 DEF SPSAIterate

LEMMA VFSASpends ==
  ASSUME NEW s, CasesOK(s), NEW o \in VFSAOpt(s.book.evaluated),
         NEW r \in VFSAIterate(o, s), o.iteration <= MaxIterations,
         NEW k \in Nat, Spent(o, k, 0)
  PROVE  Spends(s, r, k)
<1> DEFINE E == EvalsPerIteration
           M == E * o.iteration
           n == VFSABatch
<1>1. /\ o.iteration \in Nat /\ o.evals \in Nat /\ o.type = "VFSA"
      /\ MaxIterations \in Nat /\ E \in Nat \ {0} /\ M \in Nat /\ n \in Nat
  BY VFSAAssumption, OptimizerAssumption DEF VFSAOpt, VFSABatch
<1>2. /\ k = M + o.evals + 0
      /\ IF VfsaParallel THEN o.evals + 0 \in {0, E} ELSE o.evals + 0 <= E
  BY <1>1 DEF Spent
<1>3. k = M + o.evals /\ (IF VfsaParallel THEN o.evals \in {0, E} ELSE o.evals <= E)
  BY <1>1, <1>2
<1>4. n = IF VfsaParallel THEN E ELSE 1
  BY DEF VFSABatch
<1>5. Fed(s, r.cases, n)
  BY <1>1, EnqueueFeeds DEF VFSAIterate, Result
<1>6. r.opt.evaluated = o.evaluated /\ k + n = o.evaluated + n
  <2>1. o.evaluated \in Nat /\ k = o.evaluated + 0
    BY <1>1 DEF Spent, VFSAOpt
  <2>2. CASE o.evals = E
    <3>1. r.opt = [o EXCEPT !.iteration = @ + 1, !.evals = 0]
      BY <2>2 DEF VFSAIterate, Result
    <3>2. r.opt.evaluated = o.evaluated
      BY <3>1 DEF VFSAOpt
    <3> QED BY <1>1, <2>1, <3>2
  <2>3. CASE o.evals # E
    <3>1. r.opt = o
      BY <2>3 DEF VFSAIterate, Result
    <3> QED BY <1>1, <2>1, <3>1
  <2> QED BY <2>2, <2>3
<1>7. Spent(r.opt, k + n, n)
  <2>1. CASE o.evals # E
    <3>1. r.opt = o
      BY <2>1 DEF VFSAIterate, Result
    <3>2. k + n = M + o.evals + n
      BY <1>1, <1>3
    <3>3. IF VfsaParallel THEN o.evals + n \in {0, E} ELSE o.evals + n <= E
      BY <1>1, <1>3, <1>4, <2>1
    <3> QED BY <1>1, <1>6, <3>1, <3>2, <3>3 DEF Spent
  <2>2. CASE o.evals = E
    <3>1. r.opt.iteration = o.iteration + 1 /\ r.opt.evals = 0 /\ r.opt.type = "VFSA"
      BY <1>1, <2>2, VFSAIterates DEF Iterates
    <3>2. E * (o.iteration + 1) = M + E
      BY <1>1
    <3>3. k + n = E * r.opt.iteration + r.opt.evals + n
      BY <1>1, <1>3, <2>2, <3>1, <3>2
    <3>4. IF VfsaParallel THEN r.opt.evals + n \in {0, E}
          ELSE r.opt.evals + n <= E /\ r.opt.evals + n <= 1
      BY <1>1, <1>4, <3>1
    <3> QED BY <1>1, <1>6, <3>1, <3>3, <3>4 DEF Spent
  <2> QED BY <2>1, <2>2
<1> QED BY <1>1, <1>5, <1>7 DEF Spends

LEMMA IteratedSpends ==
  ASSUME NEW s, CasesOK(s), Pending(s.book) = {},
         NEW o \in RunOpt(s.book.evaluated), ~IsFinished(o, s),
         NEW r \in Iterate(o, s), r.opt.type = o.type, NEW k \in Nat, Spent(o, k, 0)
  PROVE  o.type \in {"Exhaustive", "Hybrid"} \/ Spends(s, r, k)
<1>1. Idle(s) /\ MaxIterations \in Nat /\ MaxEvaluations \in Nat
  BY OptimizerAssumption DEF Idle, Pending
<1>2. CASE o \in CompassOpt(s.book.evaluated)
  <2>1. o.type = "Compass" /\ o.evaluated \in Nat
    BY <1>2 DEF CompassOpt
  <2>2. r \in CompassIterate(o, s) /\ o.evaluated < MaxEvaluations
    BY <1>1, <2>1 DEF Iterate, ComponentIterate, IsFinished, ComponentFinished,
           CompassFinished
  <2>3. Fed(s, r.cases, PollDirections) /\ PollDirections \in Nat
    BY <1>2, <2>2, CompassIterates, CompassAssumption DEF Iterates
  <2>4. r.opt.evaluated = o.evaluated
    BY <1>2, <2>2, CompassIterates
  <2>5. Spent(r.opt, k + PollDirections, PollDirections)
    BY <1>1, <2>1, <2>2, <2>3, <2>4 DEF Spent
  <2> QED BY <2>3, <2>5 DEF Spends
<1>3. CASE o \in EGOOpt(s.book.evaluated)
  <2>1. o.type = "EGO" /\ o.evaluated \in Nat
    BY <1>3 DEF EGOOpt
  <2>2. r \in EGOIterate(o, s) /\ o.evaluated <= MaxEvaluations
    BY <1>1, <2>1 DEF Iterate, ComponentIterate, IsFinished, ComponentFinished,
           EGOFinished
  <2>3. Fed(s, r.cases, 1)
    BY <1>3, <2>2, EGOIterates DEF Iterates
  <2>4. r.opt.evaluated = o.evaluated
    BY <1>3, <2>2 DEF EGOIterate, Result, EGOOpt
  <2>5. k + 1 = o.evaluated + 1 /\ k + 1 <= EGOBound
    BY <1>1, <2>1, <2>2, EGOAssumption DEF Spent, EGOBound, Allowance, Overspend
  <2>6. Spent(r.opt, k + 1, 1)
    BY <2>1, <2>4, <2>5 DEF Spent
  <2> QED BY <2>3, <2>6 DEF Spends
<1>4. CASE o \in RGARDDOpt(s.book.evaluated)
  <2>1. o.type = "RGARDD" /\ o.iteration \in Nat /\ o.generations \in Nat
    BY <1>4 DEF RGARDDOpt
  <2>2. r \in RGARDDIterate(o, s) /\ o.iteration < o.generations
    BY <1>1, <2>1 DEF Iterate, ComponentIterate, IsFinished, ComponentFinished,
           RGARDDFinished
  <2> QED BY <1>4, <2>2, RGARDDSpends
<1>5. CASE o \in SPSAOpt(s.book.evaluated)
  <2>1. o.type = "SPSA" /\ o.iteration \in Nat
    BY <1>5 DEF SPSAOpt
  <2>2. r \in SPSAIterate(o, s) /\ o.iteration < MaxIterations
    BY <1>1, <2>1 DEF Iterate, IsFinished, SPSAFinished
  <2> QED BY <1>5, <2>2, SPSASpends
<1>6. CASE o \in VFSAOpt(s.book.evaluated)
  <2>1. o.type = "VFSA" /\ o.iteration \in Nat
    BY <1>6 DEF VFSAOpt
  <2>2. r \in VFSAIterate(o, s) /\ o.iteration <= MaxIterations
    BY <1>1, <2>1 DEF Iterate, IsFinished, VFSAFinished
  <2> QED BY <1>6, <2>2, VFSASpends
<1>7. CASE o \in PSOOpt(s.book.evaluated)
  <2>1. o.type = "PSO" /\ o.iteration \in Nat
    BY <1>7 DEF PSOOpt
  <2>2. r \in PSOIterate(o, s) /\ o.iteration < MaxIterations
    BY <1>1, <2>1 DEF Iterate, IsFinished, PSOFinished
  <2>3. Fed(s, r.cases, PopulationSize)
    BY <1>7, <2>2, PSOIterates DEF Iterates
  <2>4. r.opt.iteration = o.iteration + 1
    BY <1>7, <2>2, PSOIterates
  <2> QED BY <1>7, <2>2, <2>3, <2>4, SwarmSpends
<1>8. CASE o \in CMA_ESOpt(s.book.evaluated)
  <2>1. o.type = "CMA_ES" /\ o.iteration \in Nat
    BY <1>8 DEF CMA_ESOpt
  <2>2. r \in CMA_ESIterate(o, s) /\ o.iteration < MaxIterations
    BY <1>1, <2>1 DEF Iterate, IsFinished, CMA_ESFinished
  <2>3. Fed(s, r.cases, PopulationSize)
    BY <1>8, <2>2, CMA_ESIterates DEF Iterates
  <2>4. r.opt.iteration = o.iteration + 1
    BY <1>8, <2>2, CMA_ESIterates
  <2> QED BY <1>8, <2>2, <2>3, <2>4, SwarmSpends
<1>9. CASE o \in ExhaustiveOpt(s.book.evaluated) \cup HybridOpt(s.book.evaluated)
  BY <1>9 DEF ExhaustiveOpt, HybridOpt
<1> QED BY <1>2, <1>3, <1>4, <1>5, <1>6, <1>7, <1>8, <1>9 DEF RunOpt, ComponentOpt

(* What the constructors spend.                                            *)
LEMMA InitializedSpends ==
  ASSUME NEW t \in Types, NEW s, CasesOK(s), NEW r \in InitializeOptimizer(t, s)
  PROVE  r.opt.type \in {"Exhaustive", "Hybrid"} \/ Spends(s, r, 0)
<1>1. BaseCase \in s.book.evaluated
  BY DEF CasesOK, Consistent
<1>2. MaxIterations \in Nat /\ MaxEvaluations \in Nat
  BY OptimizerAssumption
<1>3. r.opt.type = t
  BY InitializedOpt DEF Starts
<1>4. CASE t = "Compass"
  <2>1. r.cases = s /\ r.opt.evaluated = 0
    BY <1>4 DEF InitializeOptimizer, Result, NewCompassSearch
  <2> QED BY <1>2, <1>3, <1>4, <2>1, CompassAssumption DEF Spends, Spent
<1>5. CASE t = "EGO"
  <2>1. r \in NewEGO(BaseCase, s)
    BY <1>5 DEF InitializeOptimizer
  <2>2. Fed(s, r.cases, InitialGuesses) /\ r.opt.evaluated = 0
    BY <1>1, <2>1, NewEGOOpt
  <2>3. Spent(r.opt, 0 + InitialGuesses, InitialGuesses)
    BY <1>2, <1>3, <1>5, <2>2, EGOAssumption DEF Spent, EGOBound, Allowance, Overspend
  <2> QED BY <2>2, <2>3, EGOAssumption DEF Spends
<1>6. CASE t = "RGARDD"
  <2>1. r \in NewRGARDD(BaseCase, s, MaxIterations)
    BY <1>6 DEF InitializeOptimizer
  <2>2. /\ Fed(s, r.cases, ChromosomeCount)
        /\ r.opt.iteration = 0 /\ r.opt.generations = MaxIterations
    BY <1>1, <1>2, <2>1, NewRGARDDOpt
  <2>3. Spent(r.opt, 0 + ChromosomeCount, ChromosomeCount)
    BY <1>2, <1>3, <1>6, <2>2, EvenChromosomes DEF Spent
  <2> QED BY <2>2, <2>3, EvenChromosomes DEF Spends
<1>7. CASE t = "SPSA"
  <2>1. r.cases = s /\ r.opt.iteration = 0
    BY <1>7 DEF InitializeOptimizer, Result, NewSPSA
  <2> QED BY <1>2, <1>3, <1>7, <2>1 DEF Spends, Spent
<1>8. CASE t = "VFSA"
  <2>1. r.cases = s /\ r.opt.iteration = 0 /\ r.opt.evals = 0 /\ r.opt.evaluated = 0
    BY <1>8 DEF InitializeOptimizer, Result, NewVFSA
  <2> QED BY <1>2, <1>3, <1>8, <2>1, VFSAAssumption DEF Spends, Spent
<1>9. CASE t = "PSO" \/ t = "CMA_ES"
  <2>1. r.opt.iteration = 0 /\ r.cases = Enqueue(s, PopulationSize)
    BY <1>9 DEF InitializeOptimizer, NewPSO, NewCMA_ES, Result
  <2>2. Fed(s, r.cases, PopulationSize)
    BY <2>1, EnqueueFeeds, SwarmAssumption
  <2>3. Spent(r.opt, 0 + PopulationSize, PopulationSize)
    BY <1>2, <1>3, <1>9, <2>1, SwarmAssumption DEF Spent
  <2> QED BY <2>2, <2>3, SwarmAssumption DEF Spends
<1>10. CASE t = "Exhaustive" \/ t = "Hybrid"
  BY <1>3, <1>10
<1> QED BY <1>4, <1>5, <1>6, <1>7, <1>8, <1>9, <1>10, RunAssumption

(* Spending in terms of the book.                                          *)
LEMMA SpendsCount ==
  ASSUME NEW s, CasesOK(s), IsFiniteSet(Known(s.book)), Pending(s.book) = {},
         NEW r, Spends(s, r, Cardinality(Known(s.book) \ {BaseCase}))
  PROVE  /\ IsFiniteSet(Known(r.cases.book))
         /\ Spent(r.opt, Cardinality(Known(r.cases.book) \ {BaseCase}),
                  Cardinality(Pending(r.cases.book)))
<1> DEFINE k == Cardinality(Known(s.book) \ {BaseCase})
<1>1. CASE r.cases = s /\ Spent(r.opt, k, 0)
  BY <1>1, FS_EmptySet
<1>2. CASE \E n \in Nat : Fed(s, r.cases, n) /\ Spent(r.opt, k + n, n)
  BY <1>2, BatchCount
<1> QED BY <1>1, <1>2 DEF Spends

SpentUnlessUnbounded ==
  opt.type \in {"Exhaustive", "Hybrid"} \/ SpentInv

LEMMA InitSpent == Init => SpentUnlessUnbounded
<1> SUFFICES ASSUME Init PROVE SpentUnlessUnbounded
  OBVIOUS
<1>1. PICK s : s = NewCases(BaseValue)
  OBVIOUS
<1>2. CasesOK(s) /\ s.book = NewBook
  BY <1>1, NewCasesOK, RunAssumption
<1>3. PICK t \in Types :
        \E r \in InitializeOptimizer(t, s) : opt = r.opt /\ cases = r.cases
  BY <1>1 DEF Init
<1>4. PICK r \in InitializeOptimizer(t, s) : opt = r.opt /\ cases = r.cases
  BY <1>3
<1>5. Known(s.book) = {BaseCase} /\ Pending(s.book) = {}
  BY <1>2 DEF NewBook, Known, Pending
<1>6. /\ IsFiniteSet(Known(s.book))
      /\ Cardinality(Known(s.book) \ {BaseCase}) = 0
  <2>1. Known(s.book) \ {BaseCase} = {}
    BY <1>5
  <2>2. IsFiniteSet(Known(s.book))
    BY <1>5, FS_Singleton
  <2> QED BY <2>1, <2>2, FS_EmptySet
<1>7. opt.type \in {"Exhaustive", "Hybrid"} \/ Spends(s, r, 0)
  BY <1>2, <1>4, InitializedSpends
<1> QED BY <1>2, <1>4, <1>5, <1>6, <1>7, SpendsCount
     DEF SpentUnlessUnbounded, SpentInv, Created

LEMMA StepSpent ==
  RunInv /\ SpentUnlessUnbounded /\ [Next]_vars => SpentUnlessUnbounded'
<1> SUFFICES ASSUME RunInv, SpentUnlessUnbounded, [Next]_vars
             PROVE  SpentUnlessUnbounded'
  OBVIOUS
<1>1. CASE opt.type \in {"Exhaustive", "Hybrid"}
  <2>1. opt'.type = opt.type
    <3>1. CASE SubmitBookkeepedCase \/ SubmitEvaluatedCase
      BY <3>1, SubmitStep DEF Chooses
    <3>2. CASE ~(SubmitBookkeepedCase \/ SubmitEvaluatedCase)
      BY <3>2, QueuedStep, IteratedStep, NoCaseStep DEF Next, Iterates, Finish, vars
    <3> QED BY <3>1, <3>2
  <2> QED BY <1>1, <2>1 DEF SpentUnlessUnbounded
<1>2. CASE opt.type \notin {"Exhaustive", "Hybrid"}
  <2>1. SpentInv /\ CasesOK(cases) /\ opt \in RunOpt(cases.book.evaluated)
    BY <1>2 DEF SpentUnlessUnbounded, RunInv
  <2>2. CASE GetQueuedCase
    <3>1. /\ opt' = opt /\ Known(cases'.book) = Known(cases.book)
          /\ Pending(cases'.book) = Pending(cases.book)
      BY <2>2, QueuedStep DEF HandsHead, Pending
    <3> QED BY <2>1, <3>1 DEF SpentUnlessUnbounded, SpentInv, Created
  <2>3. ASSUME ~Queued, HandsOut, InLoop, NEW r \in Iterate(opt, cases),
               r.opt.type = opt.type
        PROVE  /\ IsFiniteSet(Known(r.cases.book))
               /\ Spent(r.opt, Cardinality(Known(r.cases.book) \ {BaseCase}),
                        Cardinality(Pending(r.cases.book)))
    <3>1. Pending(cases.book) = {} /\ ~IsFinished(opt, cases)
      BY <2>3, NothingPending DEF InLoop
    <3> DEFINE k == Cardinality(Known(cases.book) \ {BaseCase})
    <3>2. IsFiniteSet(Known(cases.book)) /\ Spent(opt, k, 0) /\ k \in Nat
      <4>1. IsFiniteSet(Known(cases.book) \ {BaseCase})
        BY <2>1, FS_RemoveElement DEF SpentInv
      <4> QED BY <2>1, <3>1, <4>1, FS_EmptySet, FS_CardinalityType
           DEF SpentInv, Created
    <3> HIDE DEF k
    <3>3. Spends(cases, r, k)
      BY <1>2, <2>1, <2>3, <3>1, <3>2, IteratedSpends
    <3> QED BY <2>1, <3>1, <3>2, <3>3, SpendsCount DEF k
  <2>4. CASE GetIteratedCase
    <3>1. PICK r \in Iterate(opt, cases), n \in BatchSizes :
            /\ Iterates(opt, cases, r, n) /\ HandsHead(r.cases.book) /\ opt' = r.opt
      BY <2>4, IteratedStep
    <3>2. /\ Known(cases'.book) = Known(r.cases.book)
          /\ Pending(cases'.book) = Pending(r.cases.book)
      BY <3>1 DEF HandsHead, Pending
    <3>3. r.opt.type = opt.type /\ ~Queued /\ HandsOut /\ InLoop
      BY <2>4, <3>1 DEF GetIteratedCase, Iterates
    <3> QED BY <2>3, <3>1, <3>2, <3>3 DEF SpentUnlessUnbounded, SpentInv, Created
  <2>5. CASE GetNoCase
    <3>1. PICK r \in Iterate(opt, cases) : opt' = r.opt /\ cases' = r.cases
      BY <2>5 DEF GetNoCase
    <3>2. r.opt.type = opt.type /\ ~Queued /\ HandsOut /\ InLoop
      BY <2>5, <3>1, NoCaseStep DEF GetNoCase
    <3> QED BY <2>3, <3>1, <3>2 DEF SpentUnlessUnbounded, SpentInv, Created
  <2>6. CASE SubmitBookkeepedCase \/ SubmitEvaluatedCase
    <3>1. PICK c \in cases.book.evaluating, x \in Int, ok \in BOOLEAN :
            /\ Submit(c, x, ok) /\ cases' = Recorded(cases, c, x)
            /\ Chooses(opt, cases', c, opt')
      BY <2>6, SubmitStep
    <3>2. PICK s : s = cases'
      OBVIOUS
    <3>3. /\ s.book = SetCaseEvaluated(cases.book, c)
          /\ s.book.evaluated = cases.book.evaluated \cup {c}
          /\ Known(s.book) = Known(cases.book)
      BY <2>1, <3>1, <3>2, RecordedCases
    <3>4. Pending(s.book) = Pending(cases.book) \ {c} /\ c \in Pending(cases.book)
      BY <2>1, <3>3, EvaluatedBook DEF CasesOK, Pending
    <3> DEFINE k == Cardinality(Known(cases.book) \ {BaseCase})
               p == Cardinality(Pending(cases.book))
    <3>5. k \in Nat /\ p \in Nat \ {0} /\ Cardinality(Pending(s.book)) = p - 1
      <4>1. IsFiniteSet(Known(cases.book)) /\ Pending(cases.book) \subseteq Known(cases.book)
        BY <2>1 DEF SpentInv, Known
      <4>2. IsFiniteSet(Known(cases.book) \ {BaseCase}) /\ IsFiniteSet(Pending(cases.book))
        BY <4>1, FS_RemoveElement, FS_Subset
      <4>3. k \in Nat /\ p \in Nat
        BY <4>2, FS_CardinalityType
      <4>4. p # 0
        BY <3>4, <4>2, FS_EmptySet
      <4>5. Cardinality(Pending(s.book)) = p - 1
        BY <3>4, <4>2, FS_RemoveElement
      <4> QED BY <4>3, <4>4, <4>5
    <3>6. Spent(opt, k, p)
      BY <2>1 DEF SpentInv, Created
    <3> HIDE DEF k, p
    <3>7. opt \in RunOpt(s.book.evaluated) /\ c \in s.book.evaluated /\ c \in Case
      BY <2>1, <3>3, MoreEvaluated DEF CasesOK, Consistent, Book
    <3>8. opt' \in HandleEvaluatedCase(Counted(opt), s, c, ok) /\ opt'.type = opt.type
      BY <3>1, <3>2 DEF Submit, Chooses
    <3>9. Spent(opt', k, p - 1)
      BY <3>5, <3>6, <3>7, <3>8, HandledSpent
    <3> QED BY <2>1, <3>2, <3>3, <3>5, <3>9 DEF SpentUnlessUnbounded, SpentInv, Created, k
  <2>7. CASE Finish
    BY <2>7 DEF Finish, SpentUnlessUnbounded, SpentInv, Created
  <2>8. CASE UNCHANGED vars
    BY <2>8 DEF vars, SpentUnlessUnbounded, SpentInv, Created
  <2> QED BY <2>2, <2>4, <2>5, <2>6, <2>7, <2>8 DEF Next
<1> QED BY <1>1, <1>2

(* A run of EGO or VFSA that ends has evaluated too many cases.            *)
LEMMA FinishOverspends ==
  ASSUME RunInv, SpentUnlessUnbounded, Finish, opt.type \in {"EGO", "VFSA"}
  PROVE  opt.evaluated > Allowance(opt)
<1>1. /\ MaxIterations \in Nat /\ opt \in RunOpt(cases.book.evaluated)
      /\ IsFinished(opt, cases)
      /\ Spent(opt, Cardinality(Created), Cardinality(Pending(cases.book)))
  BY OptimizerAssumption
     DEF Finish, RunInv, SpentUnlessUnbounded, SpentInv
<1>2. CASE opt.type = "EGO"
  BY <1>1, <1>2 DEF IsFinished, ComponentFinished, EGOFinished, Allowance
<1>3. CASE opt.type = "VFSA"
  <2> DEFINE E == EvalsPerIteration
             i == opt.iteration
  <2>1. /\ i \in Nat /\ opt.evals \in Nat /\ opt.evaluated \in Nat /\ E \in Nat \ {0}
    BY <1>1, <1>3, VFSAAssumption
       DEF RunOpt, ComponentOpt, CompassOpt, EGOOpt, RGARDDOpt, VFSAOpt, SPSAOpt,
           PSOOpt, CMA_ESOpt, ExhaustiveOpt, HybridOpt
  <2>2. Pending(cases.book) = {} /\ i > MaxIterations
    BY <1>1, <1>3 DEF IsFinished, VFSAFinished
  <2>3. Cardinality(Pending(cases.book)) = 0
    BY <2>2, FS_EmptySet
  <2>4. opt.evaluated + 0 = E * i + opt.evals + 0
    BY <1>1, <1>3, <2>3 DEF Spent
  <2>5. MaxIterations + 1 \in Nat /\ MaxIterations + 1 <= i
    BY <1>1, <2>1, <2>2
  <2>6. E * (MaxIterations + 1) <= E * i
    BY <2>1, <2>5, MoreIterationsCostMore
  <2>7. E * (MaxIterations + 1) = MaxIterations * E + E
    BY <1>1, <2>1
  <2>8. MaxIterations * E \in Nat /\ E * i \in Nat
    BY <1>1, <2>1
  <2>9. opt.evaluated > MaxIterations * E
    <3> PICK a, b : a = MaxIterations * E /\ b = E * i
      OBVIOUS
    <3> QED BY <2>1, <2>4, <2>6, <2>7, <2>8
  <2> QED BY <1>3, <2>9 DEF Allowance
<1> QED BY <1>2, <1>3

LEMMA StepOverspends ==
  RunInv /\ SpentUnlessUnbounded /\ OverspendsAlways /\ [Next]_vars => OverspendsAlways'
<1> SUFFICES ASSUME RunInv, SpentUnlessUnbounded, OverspendsAlways, [Next]_vars
             PROVE  OverspendsAlways'
  OBVIOUS
<1>1. CASE Finish
  <2>1. opt' = opt
    BY <1>1 DEF Finish
  <2>2. Allowance(opt') = Allowance(opt)
    BY <2>1
  <2> QED BY <1>1, <2>1, <2>2, FinishOverspends DEF OverspendsAlways
<1>2. CASE UNCHANGED vars
  BY <1>2 DEF vars, OverspendsAlways
<1>3. CASE ~Finish /\ Next
  <2>1. phase' # "finished"
    BY <1>3 DEF Next, GetQueuedCase, GetIteratedCase, GetNoCase, HandOut, InLoop,
                SubmitBookkeepedCase, SubmitEvaluatedCase
  <2> QED BY <2>1 DEF OverspendsAlways
<1> QED BY <1>1, <1>2, <1>3

(* No run creates more cases than its settings allow and what the code is  *)
(* known to add, whatever the results, their order and the number of       *)
(* workers; and EGO and VFSA evaluate more than allowed whenever they end. *)
THEOREM OverspendCorrect == Spec => []OverspendKnown
<1>1. RunInv /\ SpentUnlessUnbounded => OverspendBounded
  <2> SUFFICES ASSUME RunInv, SpentInv, opt.type \notin {"Exhaustive", "Hybrid"}
               PROVE  Cardinality(Created) <= Allowance(opt) + Overspend(opt)
    BY DEF SpentUnlessUnbounded, OverspendBounded
  <2>1. /\ Cardinality(Created) \in Nat /\ Cardinality(Pending(cases.book)) \in Nat
        /\ Spent(opt, Cardinality(Created), Cardinality(Pending(cases.book)))
    <3>1. IsFiniteSet(Known(cases.book)) /\ Pending(cases.book) \subseteq Known(cases.book)
      BY DEF SpentInv, Known
    <3>2. IsFiniteSet(Created) /\ IsFiniteSet(Pending(cases.book))
      BY <3>1, FS_RemoveElement, FS_Subset DEF Created
    <3> QED BY <3>2, FS_CardinalityType DEF SpentInv
  <2> QED BY <2>1, SpentIsBounded DEF RunInv
<1>2. Init => OverspendsAlways
  BY DEF Init, OverspendsAlways
<1>3. OverspendBounded /\ OverspendsAlways => OverspendKnown
  BY DEF OverspendKnown
<1> QED BY <1>1, <1>2, <1>3, InitSpent, StepSpent, StepOverspends, RunInvariance, PTL
        DEF Spec
================================================================================
