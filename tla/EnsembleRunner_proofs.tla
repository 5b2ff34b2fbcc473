------------------------- MODULE EnsembleRunner_proofs -------------------------
(***************************************************************************)
(* For every number of workers and realizations and every number of        *)
(* selected ones: the helper's list of busy realizations is exact, the     *)
(* composite value of a case is made of as many simulations of its own as  *)
(* there are realizations to select, and nothing throws.                   *)
(*                                                                         *)
(* The network is the one of MPIRunner_proofs; what is said here is what   *)
(* the overseer's helper, its book and the values hold together.           *)
(***************************************************************************)
EXTENDS EnsembleRunner, MPIRunner_proofs

(* The realizations of the active case that are still to come.             *)
Left(h) == h.queue \cup h.busy

(* The active case of the helper h is the one case of the book k that is   *)
(* being evaluated.                                                        *)
Coherent(h, k) ==
  /\ h \in Helpers
  /\ h.queue \cap h.busy = {}
  /\ k.evaluating = IF Left(h) = {} THEN {} ELSE {h.case}

(* Every case of the set K has its map of values.                          *)
IsMap(V, K) ==
  /\ V \subseteq Realizations \X K
  /\ \A v, w \in V : v[1] = w[1] => v = w

AreValues(K, values) ==
  /\ DOMAIN values = K
  /\ \A c \in K : IsMap(values[c], K)

(* In a map of the case c, V: what its simulations have brought, and what  *)
(* is left of those of the helper h, make up the selection.                *)
Completing(h, V, c) ==
  /\ \A v \in Own(V, c) : v[1] \notin Left(h)
  /\ Cardinality(Own(V, c)) + Cardinality(Left(h)) = h.select
  /\ h.select = NumRealizations => \A v \in V : v[2] = c \/ v[1] \in Left(h)

Composed(h, k, values) ==
  /\ \A c \in k.queue : Own(values[c], c) = {}
  /\ \A c \in k.evaluating : Completing(h, values[c], c)
  /\ \A c \in k.evaluated \ {BaseCase} :
       /\ Cardinality(Own(values[c], c)) = h.select
       /\ h.select = NumRealizations => values[c] = Own(values[c], c)

FewBindings(h) ==
  \A z \in Realizations : Cardinality(h.workers[z]) <= h.select

OverseerTypes ==
  /\ Consistent(book) /\ stopped \in BOOLEAN
  /\ phase \in (Phases \ {"threw"}) \cup {"crashed"}
  /\ eval \in [Known(book) -> EvalStates]
  /\ current \in [Ranks -> (Case \X Realizations) \cup {NoCase}]

EnsembleInv ==
  /\ OverseerTypes
  /\ Network
  /\ Jobs = {helper.case} \X helper.busy
  /\ helper.case = NoActiveCase => phase = "distribute"
  /\ Coherent(helper, book)
  /\ AreValues(Known(book), ofvs)
  /\ Composed(helper, book, ofvs)
  /\ FewBindings(helper)

--------------------------------------------------------------------------------
(* Sets of realizations and selections of them.                            *)
LEMMA RealizationSets ==
  ASSUME NEW S \in SUBSET Realizations
  PROVE  /\ IsFiniteSet(S) /\ Cardinality(S) \in Nat
         /\ Cardinality(S) <= NumRealizations
         /\ Cardinality(S) = NumRealizations => S = Realizations
         /\ S # {} => Cardinality(S) > 0
         /\ \A z \in S : Cardinality(S \ {z}) = Cardinality(S) - 1
<1>1. IsFiniteSet(Realizations) /\ Cardinality(Realizations) = NumRealizations
  BY NumRealizationsAssumption, FS_Interval DEF Realizations
<1>2. /\ IsFiniteSet(S) /\ Cardinality(S) <= NumRealizations
      /\ Cardinality(S) = NumRealizations => S = Realizations
  BY <1>1, FS_Subset
<1> QED BY <1>2, FS_CardinalityType, FS_EmptySet, FS_RemoveElement

LEMMA SelectedRealizations ==
  ASSUME NEW n \in Selects, NEW s \in Selections(n)
  PROVE  /\ s \subseteq Realizations /\ s # {} /\ Cardinality(s) = n
         /\ n = NumRealizations => s = Realizations
<1>1. n \in Nat \ {0}
  BY SelectsAssumption DEF Realizations
<1>2. s \subseteq Realizations /\ Cardinality(s) = n
  BY NumRealizationsAssumption, FS_Interval
  DEF Selections, SubsetsOfSize, Realizations
<1> QED BY <1>1, <1>2, FS_EmptySet, RealizationSets

(* The values a case has of its own.                                       *)
LEMMA OwnValues ==
  ASSUME NEW K, NEW V, V \subseteq Realizations \X K, NEW c
  PROVE  IsFiniteSet(Own(V, c)) /\ Cardinality(Own(V, c)) \in Nat
<1>1. IsFiniteSet(Realizations \X {c})
  BY RealizationSets, FS_Singleton, FS_Product
<1>2. Own(V, c) \subseteq Realizations \X {c}
  BY DEF Own
<1> QED BY <1>1, <1>2, FS_Subset, FS_CardinalityType

(* A new value of its own replaces what the case had for the realization.  *)
LEMMA SetValue ==
  ASSUME NEW K, NEW V, IsMap(V, K), NEW z \in Realizations, NEW c \in K,
         NEW W, W = SetRealizationOfv(V, z, c)
  PROVE  /\ IsMap(W, K)
         /\ (\A v \in Own(V, c) : v[1] # z) =>
              /\ Own(W, c) = Own(V, c) \cup {<<z, c>>}
              /\ Cardinality(Own(W, c)) = Cardinality(Own(V, c)) + 1
<1>1. IsMap(W, K)
  BY DEF SetRealizationOfv, IsMap
<1>2. ASSUME \A v \in Own(V, c) : v[1] # z
      PROVE  /\ Own(W, c) = Own(V, c) \cup {<<z, c>>}
             /\ <<z, c>> \notin Own(V, c)
  BY <1>2 DEF SetRealizationOfv, Own
<1>3. IsFiniteSet(Own(V, c))
  BY OwnValues DEF IsMap
<1> QED BY <1>1, <1>2, <1>3, FS_AddElement

(* New cases inherit values none of which is their own.                    *)
LEMMA InheritedValues ==
  ASSUME NEW K, NEW values, AreValues(K, values),
         NEW h, K \subseteq Known(h), NEW new \in Inherited(h, values)
  PROVE  /\ AreValues(Known(h), new)
         /\ \A c \in K : new[c] = values[c]
         /\ \A c \in Known(h) \ K : Own(new[c], c) = {}
<1> DEFINE origins == {values[o] : o \in h.evaluated \cap DOMAIN values} \cup {{}}
<1>1. PICK origin \in [Known(h) \ DOMAIN values -> origins] :
        new = [c \in Known(h) |-> IF c \in Known(h) \ DOMAIN values
                                   THEN origin[c] ELSE values[c]]
  BY DEF Inherited
<1>2. DOMAIN values = K
  BY DEF AreValues
<1>3. \A c \in Known(h) \ K : IsMap(origin[c], K)
  <2>1. \A x \in origins : IsMap(x, K)
    BY <1>2 DEF AreValues, IsMap
  <2> QED BY <1>1, <1>2, <2>1
<1>4. \A c \in Known(h) : new[c] = IF c \in K THEN values[c] ELSE origin[c]
  BY <1>1, <1>2
<1>5. ASSUME NEW c \in Known(h) PROVE IsMap(new[c], Known(h))
  <2>1. IsMap(new[c], K)
    BY <1>3, <1>4 DEF AreValues
  <2> QED BY <2>1 DEF IsMap
<1>6. AreValues(Known(h), new)
  BY <1>1, <1>5 DEF AreValues
<1>7. \A c \in Known(h) \ K : Own(new[c], c) = {}
  BY <1>3, <1>4 DEF Own, IsMap
<1> QED BY <1>4, <1>6, <1>7

--------------------------------------------------------------------------------
(* The helper.                                                             *)
LEMMA HelperFields ==
  ASSUME NEW h \in Helpers
  PROVE  /\ h.select \in Selects /\ h.select \in Nat \ {0}
         /\ h.case \in Case \cup {NoActiveCase}
         /\ h.queue \in SUBSET Realizations /\ h.busy \in SUBSET Realizations
         /\ h.workers \in [Realizations -> SUBSET Ranks]
         /\ Left(h) \in SUBSET Realizations
<1>1. Selects \subseteq Nat \ {0}
  BY SelectsAssumption DEF Realizations
<1> QED BY <1>1 DEF Helpers, Left

(* A realization is handed out: it is still to come.                       *)
LEMMA HandedOutRealization ==
  ASSUME NEW h, NEW k, Coherent(h, k), NEW z \in h.queue,
         NEW g, g = GetCaseForEval(h, z)
  PROVE  /\ Coherent(g, k) /\ Left(g) = Left(h) /\ z \notin h.busy
         /\ g.case = h.case /\ g.select = h.select /\ g.workers = h.workers
         /\ g.queue = h.queue \ {z} /\ g.busy = h.busy \cup {z}
<1>1. /\ h \in Helpers /\ h.queue \cap h.busy = {}
      /\ k.evaluating = IF Left(h) = {} THEN {} ELSE {h.case}
  BY DEF Coherent
<1>2. /\ g \in Helpers /\ g.case = h.case /\ g.select = h.select
      /\ g.workers = h.workers
      /\ g.queue = h.queue \ {z} /\ g.busy = h.busy \cup {z}
  BY <1>1 DEF GetCaseForEval, Helpers
<1>3. Left(g) = Left(h)
  BY <1>2 DEF Left
<1> QED BY <1>1, <1>2, <1>3 DEF Coherent

(* It is bound to a worker that has loaded it, if one is free.             *)
LEMMA BoundRealization ==
  ASSUME NEW h, NEW k, Coherent(h, k), NEW z \in Realizations, NEW r \in Ranks,
         NEW g, g = Bound(h, z, r)
  PROVE  /\ Coherent(g, k) /\ Left(g) = Left(h)
         /\ g.case = h.case /\ g.select = h.select
         /\ g.queue = h.queue /\ g.busy = h.busy
         /\ g.workers = [h.workers EXCEPT ![z] = @ \cup {r}]
<1>1. h \in Helpers
  BY DEF Coherent
<1>2. /\ g \in Helpers /\ g.case = h.case /\ g.select = h.select
      /\ g.queue = h.queue /\ g.busy = h.busy
      /\ g.workers = [h.workers EXCEPT ![z] = @ \cup {r}]
  BY <1>1 DEF Bound, Helpers
<1> QED BY <1>2 DEF Coherent, Left

(* As many realizations are busy as workers.                               *)
LEMMA AsManyBusy ==
  ASSUME Network, NEW c, NEW B \in SUBSET Realizations, Jobs = {c} \X B
  PROVE  Cardinality(B) = Cardinality(BusyWorkers)
<1>1. /\ IsFiniteSet(B) /\ Cardinality(B) \in Nat
      /\ IsFiniteSet({c}) /\ Cardinality({c}) = 1
  BY RealizationSets, FS_Singleton
<1>2. Cardinality({c} \X B) = Cardinality(B)
  <2>1. Cardinality({c} \X B) = Cardinality({c}) * Cardinality(B)
    BY <1>1, FS_Product
  <2>2. \A n \in Nat : 1 * n = n
    OBVIOUS
  <2> QED BY <1>1, <2>1, <2>2
<1> QED BY <1>2, NetworkOut

(* A realization gets another worker only while its workers are busy with  *)
(* others of the realizations that are still to come.                      *)
LEMMA BindingsStayFew ==
  ASSUME Network, NEW h, NEW k, Coherent(h, k), FewBindings(h),
         Jobs = {h.case} \X h.busy, Cardinality(Left(h)) <= h.select,
         NEW z \in h.queue, NEW r \in Ranks,
         GetAssignedWorker(h, z, FreeWorkers, r),
         NEW g, g.select = h.select,
         g.workers = [h.workers EXCEPT ![z] = @ \cup {r}]
  PROVE  FewBindings(g)
<1>1. /\ h.busy \in SUBSET Realizations /\ h.queue \in SUBSET Realizations
      /\ h.workers \in [Realizations -> SUBSET Ranks]
      /\ h.select \in Nat /\ z \in Realizations /\ z \notin h.busy
  BY HelperFields DEF Coherent
<1>2. CASE r \in h.workers[z]
  <2>1. \A y \in Realizations : g.workers[y] = h.workers[y]
    BY <1>1, <1>2
  <2> QED BY <2>1 DEF FewBindings
<1>3. CASE r \notin h.workers[z]
  <2>1. h.workers[z] \subseteq BusyWorkers
    <3>1. FreeWorkers \cap h.workers[z] = {}
      BY <1>3 DEF GetAssignedWorker
    <3> QED BY <1>1, <3>1 DEF BusyWorkers
  <2>2. /\ IsFiniteSet(h.workers[z])
        /\ Cardinality(h.workers[z]) <= Cardinality(BusyWorkers)
        /\ Cardinality(h.workers[z]) \in Nat
    BY <2>1, RanksFinite, FS_Subset, FS_CardinalityType
  <2>3. Cardinality(BusyWorkers) = Cardinality(h.busy)
    BY <1>1, AsManyBusy
  <2>4. Cardinality(h.busy) <= Cardinality(Left(h)) - 1
    <3>1. Left(h) \in SUBSET Realizations /\ z \in Left(h)
      BY <1>1 DEF Left
    <3>2. /\ IsFiniteSet(Left(h) \ {z})
          /\ Cardinality(Left(h) \ {z}) = Cardinality(Left(h)) - 1
      BY <3>1, RealizationSets
    <3>3. h.busy \subseteq Left(h) \ {z}
      BY <1>1 DEF Left
    <3> QED BY <3>2, <3>3, FS_Subset
  <2>5. Cardinality(Left(h)) \in Nat /\ Cardinality(h.busy) \in Nat
    BY <1>1, RealizationSets DEF Left
  <2>6. Cardinality(h.workers[z]) + 1 <= h.select
    BY <1>1, <2>2, <2>3, <2>4, <2>5
  <2>7. Cardinality(h.workers[z] \cup {r}) <= h.select
    BY <1>3, <2>2, <2>6, FS_AddElement
  <2>8. /\ g.workers[z] = h.workers[z] \cup {r}
        /\ \A y \in Realizations \ {z} : g.workers[y] = h.workers[y]
    BY <1>1
  <2> QED BY <2>7, <2>8 DEF FewBindings
<1> QED BY <1>2, <1>3

(* While realizations are to come, they are no more than were selected.    *)
LEMMA LeftOfSelection ==
  ASSUME NEW h, NEW k, NEW K, NEW values,
         Coherent(h, k), k.evaluating \subseteq K, AreValues(K, values),
         Composed(h, k, values)
  PROVE  Cardinality(Left(h)) <= h.select
<1>1. /\ Left(h) \in SUBSET Realizations /\ h.select \in Nat
  BY HelperFields DEF Coherent
<1>2. CASE Left(h) = {}
  <2>1. Cardinality(Left(h)) = 0
    BY <1>2, FS_EmptySet
  <2> QED BY <1>1, <2>1
<1>3. CASE Left(h) # {}
  <2> DEFINE n == Cardinality(Own(values[h.case], h.case))
  <2>1. h.case \in k.evaluating
    BY <1>3 DEF Coherent
  <2>2. n + Cardinality(Left(h)) = h.select
    BY <2>1 DEF Composed, Completing
  <2>3. n \in Nat
    BY <2>1, OwnValues DEF AreValues, IsMap
  <2>4. Cardinality(Left(h)) \in Nat
    BY <1>1, RealizationSets
  <2> HIDE DEF n
  <2> QED BY <1>1, <2>2, <2>3, <2>4
<1> QED BY <1>2, <1>3

(* Only what is still to come matters for the values.                      *)
LEMMA SameComposed ==
  ASSUME NEW h, NEW g, NEW k, NEW values, Composed(h, k, values),
         Left(g) = Left(h), g.select = h.select
  PROVE  Composed(g, k, values)
BY DEF Composed, Completing

--------------------------------------------------------------------------------
(* The steps of the overseer.                                              *)

(* A free worker gets a realization of the active case of h.               *)
LEMMA RealizationNetwork ==
  ASSUME Network, phase \in {"distribute", "loop"}, phase' = phase,
         UNCHANGED <<peer, toOverseer, workerVars>>,
         NEW h, NEW z, z \notin h.busy, Jobs = {h.case} \X h.busy,
         NEW r \in FreeWorkers, AssignRealization(h, z, r)
  PROVE  Network' /\ Jobs' = {h.case} \X (h.busy \cup {z})
<1> DEFINE c == <<h.case, z>>
<1>1. c \notin Jobs /\ c # NoCase
  BY DEF NoCase
<1>2. /\ toWorker' = Put(toWorker, r, Unevaluated(c))
      /\ working' = [working EXCEPT ![r] = TRUE]
      /\ UNCHANGED <<peer, toOverseer, pc, current, applied>>
  BY DEF AssignRealization, Unevaluated, workerVars
<1>3. Network' /\ Jobs' = Jobs \cup {c}
  BY <1>1, <1>2, AssignNetwork
<1> QED BY <1>3

LEMMA AssignNextKeeps ==
  ASSUME Network, phase \in {"distribute", "loop"}, phase' = phase,
         UNCHANGED <<peer, toOverseer, workerVars>>,
         NEW h, NEW k, NEW values, Coherent(h, k), Consistent(k),
         AreValues(Known(k), values), Composed(h, k, values), FewBindings(h),
         Jobs = {h.case} \X h.busy, AssignNext(h)
  PROVE  /\ Network' /\ Jobs' = {helper'.case} \X helper'.busy
         /\ helper'.case = h.case /\ Coherent(helper', k)
         /\ Composed(helper', k, values) /\ FewBindings(helper')
<1>1. PICK z \in h.queue : \E r \in FreeWorkers :
        /\ GetAssignedWorker(h, z, FreeWorkers, r)
        /\ AssignRealization(h, z, r)
        /\ helper' = Bound(GetCaseForEval(h, z), z, r)
  BY DEF AssignNext
<1>2. PICK r \in FreeWorkers :
        /\ GetAssignedWorker(h, z, FreeWorkers, r)
        /\ AssignRealization(h, z, r)
        /\ helper' = Bound(GetCaseForEval(h, z), z, r)
  BY <1>1
<1>3. r \in Ranks /\ z \in Realizations
  BY DEF FreeWorkers, Coherent, Helpers
<1> DEFINE m == GetCaseForEval(h, z)
<1>4. /\ Coherent(m, k) /\ Left(m) = Left(h) /\ z \notin h.busy
      /\ m.case = h.case /\ m.select = h.select /\ m.workers = h.workers
      /\ m.queue = h.queue \ {z} /\ m.busy = h.busy \cup {z}
  BY HandedOutRealization
<1> HIDE DEF m
<1> DEFINE g == Bound(m, z, r)
<1>5. /\ Coherent(g, k) /\ Left(g) = Left(h)
      /\ g.case = h.case /\ g.select = h.select
      /\ g.busy = h.busy \cup {z}
      /\ g.workers = [h.workers EXCEPT ![z] = @ \cup {r}]
  BY <1>3, <1>4, BoundRealization
<1> HIDE DEF g
<1>6. helper' = g
  BY <1>2 DEF g, m
<1>7. Network' /\ Jobs' = {h.case} \X (h.busy \cup {z})
  BY <1>2, <1>4, RealizationNetwork
<1>8. FewBindings(g)
  <2>1. k.evaluating \subseteq Known(k)
    BY DEF Known, Pending
  <2>2. Cardinality(Left(h)) <= h.select
    BY <2>1, LeftOfSelection
  <2> QED BY <1>2, <1>3, <1>5, <2>2, BindingsStayFew
<1>9. Composed(g, k, values)
  BY <1>5, SameComposed
<1> QED BY <1>5, <1>6, <1>7, <1>8, <1>9

(* The first case becomes active, or the next one when the last is done.   *)
LEMMA ActivatedCase ==
  ASSUME EnsembleInv, IsCaseDone(helper),
         NEW g \in Suppliers, NEW c \in g.queue, TakeCase(g, c),
         NEW s \in Selections(helper.select),
         NEW h, h = SetActiveCase(helper, c, s)
  PROVE  /\ Consistent(book') /\ stopped' \in BOOLEAN
         /\ eval' \in [Known(book') -> EvalStates] /\ LifeStep(book, book')
         /\ Coherent(h, book') /\ AreValues(Known(book'), ofvs')
         /\ Composed(h, book', ofvs') /\ FewBindings(h)
         /\ h.case # NoActiveCase /\ h.busy = {} /\ Jobs = {}
<1>1. /\ Consistent(book) /\ stopped \in BOOLEAN
      /\ eval \in [Known(book) -> EvalStates]
      /\ Jobs = {helper.case} \X helper.busy
      /\ Coherent(helper, book) /\ AreValues(Known(book), ofvs)
      /\ Composed(helper, book, ofvs) /\ FewBindings(helper)
  BY DEF EnsembleInv, OverseerTypes
<1>2. helper.queue = {} /\ helper.busy = {} /\ book.evaluating = {}
  BY <1>1 DEF IsCaseDone, Coherent, Left
<1>3. /\ IsHead(g, c) /\ book' = GetNextCaseForEvaluation(g, c)
      /\ stopped' \in BOOLEAN /\ eval' = Evals(book', eval)
      /\ ofvs' \in Inherited(book', ofvs)
  BY <1>1 DEF TakeCase
<1>4. PICK k : k = book'
  OBVIOUS
<1>5. PICK values : values = ofvs'
  OBVIOUS
<1>6. /\ Consistent(k) /\ LifeStep(book, k)
      /\ k.evaluating = {c} /\ k.evaluated = book.evaluated
      /\ c \notin book.evaluated /\ k.queue = g.queue \ {c} /\ Known(k) = Known(g)
  BY <1>1, <1>2, <1>3, <1>4, GetStep
<1>7. /\ Known(book) \subseteq Known(k) /\ g.queue \cap Known(book) = book.queue
      /\ c \in Known(k) /\ k.queue \subseteq Known(k)
  BY <1>1, <1>6, SuppliedBooks DEF Known, Pending
<1>8. c \in Case /\ c # NoActiveCase
  BY <1>6, <1>7, CasesAreCases DEF NoCase, NoActiveCase
<1>9. Evals(k, eval) \in [Known(k) -> EvalStates]
  BY <1>1, <1>7, EvalsType
<1>10. /\ AreValues(Known(k), values)
       /\ \A d \in Known(book) : values[d] = ofvs[d]
       /\ \A d \in Known(k) \ Known(book) : Own(values[d], d) = {}
  <2>1. values \in Inherited(k, ofvs)
    BY <1>3, <1>4, <1>5
  <2> QED BY <1>1, <1>7, <2>1, InheritedValues
<1>11. \A d \in g.queue : Own(values[d], d) = {}
  <2>1. \A d \in g.queue : d \in Known(k)
    BY <1>6, <1>7
  <2>2. \A d \in book.queue : Own(ofvs[d], d) = {}
    BY <1>1 DEF Composed
  <2> QED BY <1>7, <1>10, <2>1, <2>2
<1>12. /\ s \in SUBSET Realizations /\ s # {} /\ Cardinality(s) = helper.select
       /\ helper.select = NumRealizations => s = Realizations
       /\ helper.select \in Nat
  BY <1>1, HelperFields, SelectedRealizations DEF Coherent
<1>13. /\ h \in Helpers /\ h.case = c /\ h.select = helper.select
       /\ h.queue = s /\ h.busy = {} /\ h.workers = helper.workers
  BY <1>1, <1>2, <1>8, <1>12 DEF SetActiveCase, Coherent, Helpers
<1>14. Left(h) = s
  BY <1>13 DEF Left
<1>15. Coherent(h, k)
  BY <1>6, <1>12, <1>13, <1>14 DEF Coherent
<1>16. Completing(h, values[c], c)
  <2>1. Own(values[c], c) = {}
    BY <1>11
  <2>2. Cardinality(Own(values[c], c)) = 0
    BY <2>1, FS_EmptySet
  <2>3. values[c] \subseteq Realizations \X Known(k)
    BY <1>7, <1>10 DEF AreValues, IsMap
  <2>4. \A v \in values[c] : v[1] \in Realizations
    BY <2>3
  <2> QED BY <1>12, <1>13, <1>14, <2>1, <2>2, <2>4 DEF Completing
<1>17. Composed(h, k, values)
  <2>1. \A d \in book.evaluated : values[d] = ofvs[d]
    BY <1>10 DEF Known
  <2> QED BY <1>1, <1>6, <1>11, <1>13, <1>16, <2>1 DEF Composed
<1>18. FewBindings(h)
  BY <1>1, <1>13 DEF FewBindings
<1>19. Jobs = {}
  BY <1>1, <1>2
<1> QED BY <1>3, <1>4, <1>5, <1>6, <1>8, <1>9, <1>10, <1>13, <1>15, <1>17,
           <1>18, <1>19

(* initialDistribution.                                                    *)
LEMMA ActivateKeeps ==
  ASSUME EnsembleInv, ActivateFirstCase
  PROVE  EnsembleInv' /\ LifeStep(book, book')
<1>1. PICK g \in Suppliers : \E c \in g.queue :
        /\ TakeCase(g, c)
        /\ \E s \in Selections(helper.select) : helper' = SetActiveCase(helper, c, s)
  BY DEF ActivateFirstCase
<1>2. PICK c \in g.queue :
        /\ TakeCase(g, c)
        /\ \E s \in Selections(helper.select) : helper' = SetActiveCase(helper, c, s)
  BY <1>1
<1>3. PICK s \in Selections(helper.select) : helper' = SetActiveCase(helper, c, s)
  BY <1>2
<1>4. helper.case = NoActiveCase /\ phase = "distribute"
  BY DEF ActivateFirstCase
<1>5. IsCaseDone(helper)
  <2>1. Coherent(helper, book) /\ Consistent(book)
    BY DEF EnsembleInv, OverseerTypes
  <2>2. book.evaluating \subseteq Case /\ NoActiveCase \notin Case
    BY <2>1, CasesAreCases DEF Known, Pending, NoCase, NoActiveCase
  <2>3. Left(helper) = {}
    BY <1>4, <2>1, <2>2 DEF Coherent
  <2> QED BY <2>3 DEF Left, IsCaseDone
<1>6. /\ Consistent(book') /\ stopped' \in BOOLEAN
      /\ eval' \in [Known(book') -> EvalStates] /\ LifeStep(book, book')
      /\ Coherent(helper', book') /\ AreValues(Known(book'), ofvs')
      /\ Composed(helper', book', ofvs') /\ FewBindings(helper')
      /\ helper'.case # NoActiveCase /\ helper'.busy = {} /\ Jobs = {}
  BY <1>2, <1>3, <1>5, ActivatedCase
<1>7. UNCHANGED <<phase, peer, working, toWorker, toOverseer, pc, current, applied>>
  BY DEF ActivateFirstCase, workerVars
<1>8. Network' /\ Jobs' = {}
  BY <1>6, <1>7, SameNetwork DEF EnsembleInv
<1>9. OverseerTypes'
  BY <1>6, <1>7 DEF EnsembleInv, OverseerTypes
<1> QED BY <1>6, <1>8, <1>9 DEF EnsembleInv

LEMMA DistributeKeeps ==
  ASSUME EnsembleInv, DistributeRealization
  PROVE  EnsembleInv' /\ UNCHANGED book
<1>1. PICK z \in helper.queue, r \in Ranks :
        /\ r \in FreeWorkers
        /\ AssignRealization(helper, z, r)
        /\ helper' = GetCaseForEval(helper, z)
  BY DEF DistributeRealization, getFreeWorker
<1>2. /\ phase = "distribute" /\ helper.case # NoActiveCase
      /\ UNCHANGED <<book, stopped, phase, peer, eval, toOverseer, workerVars, ofvs>>
  BY DEF DistributeRealization
<1>3. UNCHANGED <<pc, current, applied>>
  BY <1>2 DEF workerVars
<1>4. PICK g : g = helper'
  OBVIOUS
<1>5. /\ Coherent(g, book) /\ Left(g) = Left(helper) /\ z \notin helper.busy
      /\ g.case = helper.case /\ g.select = helper.select
      /\ g.workers = helper.workers /\ g.busy = helper.busy \cup {z}
  BY <1>1, <1>4, HandedOutRealization DEF EnsembleInv
<1>6. Network' /\ Jobs' = {g.case} \X g.busy
  BY <1>1, <1>2, <1>5, RealizationNetwork DEF EnsembleInv
<1>7. Composed(g, book, ofvs) /\ FewBindings(g)
  BY <1>5, SameComposed DEF EnsembleInv, FewBindings
<1>8. OverseerTypes'
  BY <1>2, <1>3 DEF EnsembleInv, OverseerTypes
<1> QED BY <1>2, <1>4, <1>5, <1>6, <1>7, <1>8 DEF EnsembleInv

(* handle_new_case, with a realization of the active case.                 *)
LEMMA HandleRealizationKeeps ==
  ASSUME EnsembleInv, HandleRealization
  PROVE  EnsembleInv' /\ UNCHANGED book
<1>1. /\ phase = "loop" /\ AssignNext(helper)
      /\ UNCHANGED <<book, stopped, phase, peer, eval, toOverseer, workerVars, ofvs>>
  BY DEF HandleRealization, InLoop
<1>2. UNCHANGED <<pc, current, applied>>
  BY <1>1 DEF workerVars
<1>3. /\ Network' /\ Jobs' = {helper'.case} \X helper'.busy
      /\ helper'.case = helper.case /\ Coherent(helper', book)
      /\ Composed(helper', book, ofvs) /\ FewBindings(helper')
  BY <1>1, AssignNextKeeps DEF EnsembleInv, OverseerTypes
<1>4. OverseerTypes'
  BY <1>1, <1>2 DEF EnsembleInv, OverseerTypes
<1> QED BY <1>1, <1>3, <1>4 DEF EnsembleInv

(* handle_new_case, with the next case of the optimizer.                   *)
LEMMA HandleCaseKeeps ==
  ASSUME EnsembleInv, HandleCase
  PROVE  EnsembleInv' /\ LifeStep(book, book')
<1>1. IsCaseDone(helper)
  BY DEF HandleCase, HandlesRealization
<1>2. PICK g \in Suppliers : \E c \in g.queue :
        /\ TakeCase(g, c)
        /\ \E s \in Selections(helper.select) : AssignNext(SetActiveCase(helper, c, s))
        /\ UNCHANGED phase
  BY <1>1 DEF HandleCase
<1>3. PICK c \in g.queue :
        /\ TakeCase(g, c)
        /\ \E s \in Selections(helper.select) : AssignNext(SetActiveCase(helper, c, s))
        /\ UNCHANGED phase
  BY <1>2
<1>4. PICK s \in Selections(helper.select) : AssignNext(SetActiveCase(helper, c, s))
  BY <1>3
<1>5. PICK h : h = SetActiveCase(helper, c, s)
  OBVIOUS
<1>6. /\ Consistent(book') /\ stopped' \in BOOLEAN
      /\ eval' \in [Known(book') -> EvalStates] /\ LifeStep(book, book')
      /\ Coherent(h, book') /\ AreValues(Known(book'), ofvs')
      /\ Composed(h, book', ofvs') /\ FewBindings(h)
      /\ h.case # NoActiveCase /\ h.busy = {} /\ Jobs = {}
  BY <1>1, <1>3, <1>5, ActivatedCase
<1>7. /\ phase = "loop" /\ phase' = phase
      /\ UNCHANGED <<peer, toOverseer, workerVars>>
  BY <1>3 DEF HandleCase, InLoop
<1>8. PICK k : k = book'
  OBVIOUS
<1>9. PICK values : values = ofvs'
  OBVIOUS
<1>10. /\ Network' /\ Jobs' = {helper'.case} \X helper'.busy
       /\ helper'.case = h.case /\ Coherent(helper', k)
       /\ Composed(helper', k, values) /\ FewBindings(helper')
  <2>1. Network /\ Jobs = {h.case} \X h.busy /\ AssignNext(h)
    BY <1>4, <1>5, <1>6 DEF EnsembleInv
  <2>2. /\ Coherent(h, k) /\ Consistent(k) /\ AreValues(Known(k), values)
        /\ Composed(h, k, values) /\ FewBindings(h)
    BY <1>6, <1>8, <1>9
  <2> QED BY <1>7, <2>1, <2>2, AssignNextKeeps
<1>11. OverseerTypes'
  BY <1>6, <1>7 DEF EnsembleInv, OverseerTypes, workerVars
<1> QED BY <1>6, <1>8, <1>9, <1>10, <1>11 DEF EnsembleInv

(* What the overseer receives in its loop is the value of a realization    *)
(* that its helper has for busy.                                           *)
LEMMA ReceivedRealization ==
  ASSUME EnsembleInv, NEW r \in Ranks, Received(r),
         phase' \notin {"terminate", "ensure", "done"}
  PROVE  /\ phase = "loop" /\ UNCHANGED current
         /\ Network' /\ helper.case \in book.evaluating
         /\ \E z \in helper.busy :
              /\ Head(toOverseer[r]).case = <<helper.case, z>>
              /\ Head(toOverseer[r]).tag = "CASE_EVAL_SUCCESS"
              /\ Jobs' = {helper.case} \X (helper.busy \ {z})
<1>1. /\ phase = "loop" /\ toOverseer[r] # <<>>
      /\ toOverseer' = Take(toOverseer, r)
      /\ working' = [working EXCEPT ![r] = FALSE]
      /\ UNCHANGED <<peer, toWorker, pc, current, applied>>
  BY DEF Received, InLoop, workerVars
<1>2. Network /\ Jobs = {helper.case} \X helper.busy /\ Coherent(helper, book)
  BY DEF EnsembleInv
<1>3. PICK c : c = Job(r)
  OBVIOUS
<1>4. /\ r \in BusyWorkers
      /\ \E e \in Simulated : Head(toOverseer[r]) = Evaluated(c, e)
      /\ Network' /\ Jobs' = Jobs \ {c}
  BY <1>1, <1>2, <1>3, ReceiveNetwork
<1>5. c \in {helper.case} \X helper.busy
  BY <1>2, <1>3, <1>4 DEF Jobs
<1>6. PICK z \in helper.busy : c = <<helper.case, z>>
  BY <1>5
<1>7. Jobs' = {helper.case} \X (helper.busy \ {z})
  BY <1>2, <1>4, <1>6
<1>8. /\ Head(toOverseer[r]).case = c
      /\ Head(toOverseer[r]).tag = "CASE_EVAL_SUCCESS"
  BY <1>4 DEF Evaluated, CaseMessage
<1>9. helper.case \in book.evaluating
  BY <1>2, <1>6 DEF Coherent, Left
<1> QED BY <1>1, <1>4, <1>6, <1>7, <1>8, <1>9

(* The values when that of a busy realization z has entered the map of the *)
(* active case.                                                            *)
Brought(z) ==
  [ofvs EXCEPT ![helper.case] = SetRealizationOfv(@, z, helper.case)]

LEMMA BroughtValue ==
  ASSUME EnsembleInv, helper.case \in book.evaluating, NEW z \in helper.busy,
         NEW values, values = Brought(z),
         NEW g, g = SubmitEvaluatedRealization(helper, z)
  PROVE  /\ g \in Helpers /\ g.case = helper.case /\ g.select = helper.select
         /\ g.queue = helper.queue /\ g.busy = helper.busy \ {z}
         /\ g.queue \cap g.busy = {} /\ FewBindings(g)
         /\ AreValues(Known(book), values)
         /\ \A d \in Known(book) \ {g.case} : values[d] = ofvs[d]
         /\ Completing(g, values[g.case], g.case)
<1> DEFINE c == helper.case
           V == ofvs[c]
           W == SetRealizationOfv(V, z, c)
<1>1. /\ Coherent(helper, book) /\ AreValues(Known(book), ofvs)
      /\ Composed(helper, book, ofvs) /\ FewBindings(helper)
  BY DEF EnsembleInv
<1>2. /\ helper \in Helpers /\ helper.queue \cap helper.busy = {}
      /\ z \in Realizations /\ c \in Known(book)
  BY <1>1, HelperFields DEF Coherent, Known, Pending
<1>3. /\ g \in Helpers /\ g.case = c /\ g.select = helper.select
      /\ g.queue = helper.queue /\ g.busy = helper.busy \ {z}
      /\ g.workers = helper.workers
  BY <1>2 DEF SubmitEvaluatedRealization, Helpers
<1>4. Left(g) = Left(helper) \ {z} /\ z \in Left(helper)
  BY <1>2, <1>3 DEF Left
<1>5. IsMap(V, Known(book))
  BY <1>1, <1>2 DEF AreValues
<1>6. /\ \A v \in Own(V, c) : v[1] \notin Left(helper)
      /\ Cardinality(Own(V, c)) + Cardinality(Left(helper)) = helper.select
      /\ helper.select = NumRealizations =>
           \A v \in V : v[2] = c \/ v[1] \in Left(helper)
  BY <1>1 DEF Composed, Completing
<1>7. /\ IsMap(W, Known(book))
      /\ Own(W, c) = Own(V, c) \cup {<<z, c>>}
      /\ Cardinality(Own(W, c)) = Cardinality(Own(V, c)) + 1
  <2> HIDE DEF c, V
  <2>1. \A v \in Own(V, c) : v[1] # z
    BY <1>4, <1>6
  <2>2. W = SetRealizationOfv(V, z, c)
    OBVIOUS
  <2> HIDE DEF W
  <2> QED BY <1>2, <1>5, <2>1, <2>2, SetValue
<1>8. /\ DOMAIN values = Known(book) /\ values[c] = W
      /\ \A d \in Known(book) \ {c} : values[d] = ofvs[d]
  BY <1>1, <1>2 DEF AreValues, Brought
<1>9. AreValues(Known(book), values)
  BY <1>1, <1>7, <1>8 DEF AreValues
<1>10. Completing(g, W, c)
  <2>1. Cardinality(Left(g)) = Cardinality(Left(helper)) - 1
    <3>1. Left(helper) \in SUBSET Realizations
      BY <1>2, HelperFields
    <3> QED BY <1>4, <3>1, RealizationSets
  <2>2. /\ Cardinality(Own(V, c)) \in Nat /\ Cardinality(Left(helper)) \in Nat
        /\ helper.select \in Nat
    BY <1>2, <1>5, OwnValues, HelperFields, RealizationSets DEF IsMap
  <2>3. Cardinality(Own(W, c)) + Cardinality(Left(g)) = helper.select
    BY <1>6, <1>7, <2>1, <2>2
  <2>4. \A v \in Own(W, c) : v[1] \notin Left(g)
    BY <1>4, <1>6, <1>7
  <2>5. \A v \in W : v = <<z, c>> \/ (v \in V /\ v[1] # z)
    BY DEF SetRealizationOfv
  <2>6. helper.select = NumRealizations =>
          \A v \in W : v[2] = c \/ v[1] \in Left(g)
    BY <1>4, <1>6, <2>5
  <2> QED BY <1>3, <2>3, <2>4, <2>6 DEF Completing
<1>11. FewBindings(g)
  BY <1>1, <1>3 DEF FewBindings
<1> QED BY <1>2, <1>3, <1>8, <1>9, <1>10, <1>11

(* wait_for_evaluated_case, with other realizations still to come.         *)
LEMMA RecvKeepsActive ==
  ASSUME EnsembleInv, NEW r \in Ranks, RecvRealization(r)
  PROVE  EnsembleInv' /\ UNCHANGED book
<1> DEFINE m == Head(toOverseer[r])
           h == SubmitEvaluatedRealization(helper, m.case[2])
<1>1. /\ Received(r) /\ UNCHANGED <<book, stopped, eval>>
      /\ IF m.case[2] \in helper.busy
           THEN /\ ~IsCaseDone(h) /\ helper' = h
                /\ ofvs' = Values(m) /\ UNCHANGED phase
           ELSE phase' = "threw"
  BY DEF RecvRealization
<1>2. phase' \notin {"terminate", "ensure", "done"}
  BY <1>1 DEF Received, InLoop
<1>3. /\ phase = "loop" /\ UNCHANGED current
      /\ Network' /\ helper.case \in book.evaluating
  BY <1>1, <1>2, ReceivedRealization
<1>4. PICK z \in helper.busy :
        /\ m.case = <<helper.case, z>> /\ m.tag = "CASE_EVAL_SUCCESS"
        /\ Jobs' = {helper.case} \X (helper.busy \ {z})
  BY <1>1, <1>2, ReceivedRealization
<1> HIDE DEF m
<1>5. m.case[1] = helper.case /\ m.case[2] = z
  BY <1>4
<1>6. PICK g : g = SubmitEvaluatedRealization(helper, z)
  OBVIOUS
<1>7. PICK values : values = Brought(z)
  OBVIOUS
<1>8. helper' = g /\ ofvs' = values /\ ~IsCaseDone(g) /\ phase' = phase
  BY <1>1, <1>4, <1>5, <1>6, <1>7 DEF Values, Brought
<1>9. /\ g \in Helpers /\ g.case = helper.case /\ g.select = helper.select
      /\ g.busy = helper.busy \ {z}
      /\ g.queue \cap g.busy = {} /\ FewBindings(g)
      /\ AreValues(Known(book), values)
      /\ \A d \in Known(book) \ {g.case} : values[d] = ofvs[d]
      /\ Completing(g, values[g.case], g.case)
  BY <1>3, <1>6, <1>7, BroughtValue
<1>10. /\ Coherent(helper, book) /\ Composed(helper, book, ofvs)
       /\ Consistent(book)
  BY DEF EnsembleInv, OverseerTypes
<1>11. book.evaluating = {g.case}
  BY <1>3, <1>9, <1>10 DEF Coherent
<1>12. Coherent(g, book)
  BY <1>8, <1>9, <1>11 DEF Coherent, Left, IsCaseDone
<1>13. Composed(g, book, values)
  <2>1. /\ book.queue \subseteq Known(book) \ {g.case}
        /\ book.evaluated \subseteq Known(book) \ {g.case}
    BY <1>10, <1>11 DEF Consistent, Known, Pending
  <2> QED BY <1>9, <1>10, <1>11, <2>1 DEF Composed
<1>14. OverseerTypes'
  BY <1>1, <1>3, <1>8 DEF EnsembleInv, OverseerTypes
<1> QED BY <1>1, <1>3, <1>4, <1>8, <1>9, <1>12, <1>13, <1>14 DEF EnsembleInv

(* wait_for_evaluated_case, with the last realization.                     *)
LEMMA RecvLastKeeps ==
  ASSUME EnsembleInv, NEW r \in Ranks, RecvLastRealization(r)
  PROVE  EnsembleInv' /\ LifeStep(book, book')
<1> DEFINE m == Head(toOverseer[r])
           h == SubmitEvaluatedRealization(helper, m.case[2])
<1>1. /\ Received(r) /\ IsCaseDone(h) /\ helper' = h
      /\ \E p \in ApplyCasePhases(h.case) : Submit(book, h.case, "E_DONE", p)
      /\ ofvs' \in Inherited(book', Values(m))
  BY DEF RecvLastRealization
<1>2. phase' \in {"threw", "crashed", "loop"}
  BY <1>1 DEF Received, InLoop, Submit, ApplyCasePhases
<1>3. /\ phase = "loop" /\ UNCHANGED current
      /\ Network' /\ helper.case \in book.evaluating
  BY <1>1, <1>2, ReceivedRealization
<1>4. PICK z \in helper.busy :
        /\ m.case = <<helper.case, z>> /\ m.tag = "CASE_EVAL_SUCCESS"
        /\ Jobs' = {helper.case} \X (helper.busy \ {z})
  BY <1>1, <1>2, ReceivedRealization
<1> HIDE DEF m
<1>5. m.case[1] = helper.case /\ m.case[2] = z
  BY <1>4
<1>6. PICK g : g = SubmitEvaluatedRealization(helper, z)
  OBVIOUS
<1>7. PICK brought : brought = Brought(z)
  OBVIOUS
<1>8. PICK c : c = helper.case
  OBVIOUS
<1>9. /\ g \in Helpers /\ g.case = c /\ g.select = helper.select
      /\ g.busy = helper.busy \ {z}
      /\ g.queue \cap g.busy = {} /\ FewBindings(g)
      /\ AreValues(Known(book), brought)
      /\ \A d \in Known(book) \ {c} : brought[d] = ofvs[d]
      /\ Completing(g, brought[c], c)
  BY <1>3, <1>6, <1>7, <1>8, BroughtValue
<1>10. /\ helper' = g /\ IsCaseDone(g) /\ Values(m) = brought
  BY <1>1, <1>4, <1>5, <1>6, <1>7 DEF Values, Brought
<1>11. /\ Coherent(helper, book) /\ Composed(helper, book, ofvs)
       /\ Consistent(book) /\ eval \in [Known(book) -> EvalStates]
  BY DEF EnsembleInv, OverseerTypes
<1>12. /\ book' \in Handled(book, c) /\ stopped' \in BOOLEAN
       /\ phase' \in {"loop", "crashed"}
       /\ eval' = [Evals(book', eval) EXCEPT ![c] = "E_DONE"]
  <2>1. h = g
    BY <1>5, <1>6
  <2>2. PICK p \in ApplyCasePhases(c) : Submit(book, c, "E_DONE", p)
    BY <1>1, <1>9, <2>1
  <2> QED BY <1>3, <1>8, <2>2 DEF Submit, Verdicts, ApplyCasePhases
<1>13. PICK k : k = book'
  OBVIOUS
<1>14. PICK values : values = ofvs'
  OBVIOUS
<1>15. /\ Consistent(k) /\ LifeStep(book, k)
       /\ Known(book) \subseteq Known(k) /\ Known(k) = Known(book) \cup k.queue
       /\ k.queue \cap Known(book) \subseteq book.queue
       /\ k.evaluating = book.evaluating \ {c}
       /\ k.evaluated = book.evaluated \cup {c}
  BY <1>3, <1>8, <1>11, <1>12, <1>13, HandledBooks, SubmitStep
<1>16. k.evaluating = {} /\ Left(g) = {}
  BY <1>3, <1>8, <1>10, <1>11, <1>15 DEF Coherent, IsCaseDone, Left
<1>17. /\ AreValues(Known(k), values)
       /\ \A d \in Known(book) : values[d] = brought[d]
       /\ \A d \in Known(k) \ Known(book) : Own(values[d], d) = {}
  <2>1. values \in Inherited(k, brought)
    BY <1>1, <1>10, <1>13, <1>14
  <2> QED BY <1>9, <1>15, <2>1, InheritedValues
<1>18. Coherent(g, k)
  BY <1>9, <1>16 DEF Coherent
<1>19. /\ c \in Known(book) /\ book.queue \subseteq Known(book) \ {c}
       /\ book.evaluated \subseteq Known(book) \ {c}
  BY <1>3, <1>8, <1>11 DEF Consistent, Known, Pending
<1>20. /\ Cardinality(Own(values[c], c)) = g.select
       /\ g.select = NumRealizations => values[c] = Own(values[c], c)
  <2>1. values[c] = brought[c]
    BY <1>17, <1>19
  <2>2. /\ Cardinality(Own(brought[c], c)) + Cardinality(Left(g)) = g.select
        /\ g.select = NumRealizations => \A v \in brought[c] : v[2] = c
    BY <1>9, <1>16 DEF Completing
  <2>3. Cardinality(Left(g)) = 0
    BY <1>16, FS_EmptySet
  <2>4. Cardinality(Own(brought[c], c)) \in Nat
    BY <1>9, <1>19, OwnValues DEF AreValues, IsMap
  <2> QED BY <2>1, <2>2, <2>3, <2>4 DEF Own
<1>21. Composed(g, k, values)
  <2>1. \A d \in k.queue : Own(values[d], d) = {}
    BY <1>9, <1>11, <1>15, <1>17, <1>19 DEF Composed
  <2>2. \A d \in book.evaluated : values[d] = ofvs[d]
    BY <1>9, <1>17, <1>19
  <2> QED BY <1>9, <1>11, <1>15, <1>16, <1>20, <2>1, <2>2 DEF Composed
<1>22. eval' \in [Known(book') -> EvalStates]
  BY <1>11, <1>12, <1>13, <1>15, <1>19, SubmittedEval DEF EvalStates
<1>23. OverseerTypes'
  BY <1>3, <1>12, <1>13, <1>15, <1>22 DEF EnsembleInv, OverseerTypes, Phases
<1>24. c # NoActiveCase
  BY <1>11, <1>19, CasesAreCases DEF NoCase, NoActiveCase
<1>25. Jobs' = {helper'.case} \X helper'.busy
  BY <1>4, <1>8, <1>9, <1>10
<1> QED BY <1>3, <1>9, <1>10, <1>13, <1>14, <1>15, <1>17, <1>18, <1>21, <1>23,
           <1>24, <1>25 DEF EnsembleInv

(* The steps that hand out and receive no realization.                     *)
LEMMA EnsembleShutdownKeeps ==
  ASSUME EnsembleInv,
         \/ FinishEnsembleDistribution \/ LeaveEnsembleLoop
         \/ TerminateEnsembleWorkers \/ EnsureEnsembleTermination
  PROVE  EnsembleInv' /\ UNCHANGED book
<1>1. /\ Network /\ Jobs = {helper.case} \X helper.busy /\ OverseerTypes
      /\ Coherent(helper, book)
      /\ helper.case = NoActiveCase => phase = "distribute"
  BY DEF EnsembleInv
<1>2. UNCHANGED <<book, stopped, eval, working, pc, current, applied, helper, ofvs>>
  BY DEF FinishEnsembleDistribution, LeaveEnsembleLoop, LeaveLoop,
         TerminateEnsembleWorkers, TerminateWorkers,
         EnsureEnsembleTermination, EnsureWorkerTermination, workerVars
<1>3. /\ Network' /\ Jobs' = Jobs
      /\ phase' \in {"loop", "terminate", "ensure", "done"}
      /\ helper.case # NoActiveCase
  <2>1. CASE FinishEnsembleDistribution
    BY <1>1, <1>2, <2>1, DistributedNetwork DEF FinishEnsembleDistribution
  <2>2. CASE LeaveEnsembleLoop
    <3>1. LeaveLoop
      BY <2>2 DEF LeaveEnsembleLoop
    <3>2. BusyWorkers = {}
      <4>1. Jobs = {}
        BY <1>1, <3>1 DEF LeaveLoop, IsFinished, Coherent, Left
      <4> QED BY <4>1 DEF Jobs
    <3> QED BY <1>1, <3>1, <3>2, LeaveNetwork DEF LeaveLoop
  <2>3. CASE TerminateEnsembleWorkers
    <3>1. TerminateWorkers
      BY <2>3 DEF TerminateEnsembleWorkers
    <3> QED BY <1>1, <3>1, TerminateNetwork DEF TerminateWorkers
  <2>4. CASE EnsureEnsembleTermination
    <3>1. EnsureWorkerTermination
      BY <2>4 DEF EnsureEnsembleTermination
    <3> QED BY <1>1, <3>1, EnsureNetwork DEF EnsureWorkerTermination
  <2> QED BY <2>1, <2>2, <2>3, <2>4
<1>4. OverseerTypes'
  BY <1>1, <1>2, <1>3 DEF OverseerTypes, Phases
<1> QED BY <1>1, <1>2, <1>3, <1>4 DEF EnsembleInv

(* The steps of a worker.                                                  *)
LEMMA EnsembleWorkerKeeps ==
  ASSUME EnsembleInv, NEW r \in Ranks, EnsembleWorkerNext(r)
  PROVE  EnsembleInv' /\ UNCHANGED book
<1>1. /\ Network /\ Jobs = {helper.case} \X helper.busy /\ OverseerTypes
      /\ Coherent(helper, book)
  BY DEF EnsembleInv
<1>2. WorkerNext(r) /\ UNCHANGED <<book, stopped, phase, peer, working, eval, helper, ofvs>>
  BY DEF EnsembleWorkerNext, WorkerNext, RecvModelSync, RecvUnevaluatedCase,
         FinalizeWorker, EvaluateCase, overseerVars
<1>3. CASE RecvUnevaluatedCase(r)
  <2>1. /\ Network' /\ Jobs' = Jobs
        /\ current'[r] = IF working[r] THEN Job(r) ELSE NoCase
        /\ current' = [current EXCEPT ![r] = current'[r]]
    <3>1. current \in [Ranks -> (Case \X Realizations) \cup {NoCase}]
      BY <1>1 DEF OverseerTypes
    <3>2. current' = [current EXCEPT ![r] = current'[r]]
      BY <1>3, <3>1 DEF RecvUnevaluatedCase
    <3> QED BY <1>1, <1>3, <3>2, RecvUnevaluatedNetwork
  <2>2. working[r] => Job(r) \in Case \X Realizations
    <3>1. ASSUME working[r] PROVE Job(r) \in {helper.case} \X helper.busy
      BY <1>1, <3>1, BusyWorking DEF Jobs
    <3>2. helper.busy # {} => helper.case \in Case
      BY <1>1, CasesAreCases DEF Coherent, Left, OverseerTypes, Known, Pending
    <3>3. helper.busy \subseteq Realizations
      BY <1>1, HelperFields DEF Coherent
    <3> QED BY <3>1, <3>2, <3>3
  <2>3. current' \in [Ranks -> (Case \X Realizations) \cup {NoCase}]
    BY <1>1, <2>1, <2>2 DEF OverseerTypes
  <2>4. OverseerTypes'
    BY <1>1, <1>2, <2>3 DEF OverseerTypes
  <2> QED BY <1>1, <1>2, <2>1, <2>4 DEF EnsembleInv
<1>4. CASE RecvModelSync(r) \/ FinalizeWorker(r) \/ \E o \in Outcomes : EvaluateCase(r, o)
  <2>1. Network' /\ Jobs' = Jobs
    BY <1>1, <1>4, RecvModelSyncNetwork, FinalizeNetwork, EvaluateNetwork
  <2>2. UNCHANGED current
    BY <1>4 DEF RecvModelSync, FinalizeWorker, EvaluateCase
  <2>3. OverseerTypes'
    BY <1>1, <1>2, <2>2 DEF OverseerTypes
  <2> QED BY <1>1, <1>2, <2>1, <2>3 DEF EnsembleInv
<1> QED BY <1>2, <1>3, <1>4 DEF WorkerNext

LEMMA EnsembleInitInv == EnsembleInit => EnsembleInv
<1> SUFFICES ASSUME EnsembleInit PROVE EnsembleInv
  OBVIOUS
<1>1. MPIInv /\ Network /\ Jobs = {} /\ phase = "distribute"
  BY InitInv, InitNetwork DEF EnsembleInit, MPIInit
<1>2. Consistent(book) /\ book.evaluating = {} /\ book.evaluated = {BaseCase}
  <2>1. book \in Grown(NewBook) /\ NewBook.evaluating = {}
    BY DEF EnsembleInit, MPIInit, Init, NewBook
  <2> QED BY <2>1, NewBookConsistent, GrownBooks
<1>3. PICK n \in Selects : helper = NewHelper(n)
  BY DEF EnsembleInit
<1>4. /\ helper \in Helpers /\ helper.case = NoActiveCase
      /\ helper.queue = {} /\ helper.busy = {} /\ helper.select = n
      /\ \A z \in Realizations : helper.workers[z] = {}
  BY <1>3 DEF NewHelper, Helpers
<1>5. Coherent(helper, book)
  BY <1>2, <1>4 DEF Coherent, Left
<1>6. \A c \in Known(book) : ofvs[c] = {} /\ Own(ofvs[c], c) = {}
  BY DEF EnsembleInit, Own
<1>7. AreValues(Known(book), ofvs)
  BY <1>6 DEF EnsembleInit, AreValues, IsMap
<1>8. Composed(helper, book, ofvs)
  BY <1>2, <1>6 DEF Composed, Known, Pending
<1>9. FewBindings(helper)
  <2>1. n \in Nat
    BY <1>4, HelperFields
  <2> QED BY <1>4, <2>1, FS_EmptySet DEF FewBindings
<1>10. OverseerTypes
  <2>1. current \in [Ranks -> (Case \X Realizations) \cup {NoCase}]
    BY DEF EnsembleInit, MPIInit
  <2> QED BY <1>1, <2>1 DEF OverseerTypes, MPIInv, MPITypeOK
<1> QED BY <1>1, <1>4, <1>5, <1>7, <1>8, <1>9, <1>10 DEF EnsembleInv

LEMMA EnsembleStepKeeps ==
  ASSUME EnsembleInv, [EnsembleNext]_ensembleVars
  PROVE  EnsembleInv' /\ (LifeStep(book, book') \/ UNCHANGED book)
<1>1. ASSUME UNCHANGED ensembleVars PROVE EnsembleInv' /\ UNCHANGED book
  <2>1. UNCHANGED <<book, stopped, phase, peer, working, eval, toWorker,
                    toOverseer, pc, current, applied, outcome, helper, ofvs>>
    BY <1>1 DEF ensembleVars, vars, overseerVars, workerVars
  <2>2. (Network' <=> Network) /\ Jobs' = Jobs
    BY <2>1, SameNetwork
  <2>3. OverseerTypes' <=> OverseerTypes
    BY <2>1 DEF OverseerTypes
  <2> QED BY <2>1, <2>2, <2>3 DEF EnsembleInv
<1>2. CASE EnsembleOverseerNext
  BY <1>2, ActivateKeeps, DistributeKeeps, HandleRealizationKeeps,
     HandleCaseKeeps, RecvKeepsActive, RecvLastKeeps, EnsembleShutdownKeeps
  DEF EnsembleOverseerNext
<1>3. ASSUME NEW r \in Ranks, EnsembleWorkerNext(r)
      PROVE  EnsembleInv' /\ UNCHANGED book
  BY <1>3, EnsembleWorkerKeeps
<1> QED BY <1>1, <1>2, <1>3 DEF EnsembleNext, EnsembleEnded

LEMMA EnsembleInvariant == EnsembleSpec => []EnsembleInv
<1>1. EnsembleInv /\ [EnsembleNext]_ensembleVars => EnsembleInv'
  BY EnsembleStepKeeps
<1> QED BY <1>1, EnsembleInitInv, PTL DEF EnsembleSpec

--------------------------------------------------------------------------------
(* The state of an ensemble run is type correct in every reachable state,  *)
(* and every case has at most one value for each realization.              *)
THEOREM EnsembleTypeCorrect == EnsembleSpec => []EnsembleTypeOK
<1>1. EnsembleInv => EnsembleTypeOK
  <2> SUFFICES ASSUME EnsembleInv PROVE EnsembleTypeOK
    OBVIOUS
  <2>1. helper \in Helpers /\ AreValues(Known(book), ofvs) /\ OverseerTypes
    BY DEF EnsembleInv, Coherent
  <2>2. peer \in Ranks
    BY DEF EnsembleInv, Network, Channels
  <2> QED BY <2>1, <2>2 DEF OverseerTypes, AreValues, IsMap, EnsembleTypeOK
<1> QED BY <1>1, EnsembleInvariant, PTL

(* The helper's list of busy realizations is what is out, while results    *)
(* come from any worker in any order (EnsembleHelper::SubmitEvaluated-     *)
(* Realization), and its case is the one that is being evaluated.          *)
THEOREM RealizationsOutCorrect == EnsembleSpec => []RealizationsOut
<1>1. EnsembleInv => RealizationsOut
  <2> SUFFICES ASSUME EnsembleInv PROVE RealizationsOut
    OBVIOUS
  <2>1. /\ Network /\ Jobs = {helper.case} \X helper.busy
        /\ phase # "threw" /\ Coherent(helper, book)
    BY DEF EnsembleInv, OverseerTypes, Phases
  <2>2. Cardinality(helper.busy) = Cardinality(BusyWorkers)
    <3>1. helper.busy \in SUBSET Realizations
      BY <2>1, HelperFields DEF Coherent
    <3> QED BY <2>1, <3>1, AsManyBusy
  <2>3. book.evaluating =
          IF IsCaseDone(helper) \/ phase = "threw" THEN {} ELSE {helper.case}
    BY <2>1 DEF Coherent, Left, IsCaseDone
  <2>4. /\ \A r \in Ranks : NumOut(r) = IF working[r] THEN 1 ELSE 0
        /\ Jobs = UNION {Out(r) : r \in Ranks}
    BY <2>1, NetworkOut
  <2> QED BY <2>1, <2>2, <2>3, <2>4 DEF RealizationsOut
<1> QED BY <1>1, EnsembleInvariant, PTL

(* The average that is a case's value is over as many simulations of its   *)
(* own as realizations were selected, although trial points inherit the    *)
(* map of the case they are copies of (Case::GetEnsembleAverageOfv).       *)
THEOREM CompositeCorrect == EnsembleSpec => []CompositeIsComplete
<1>1. EnsembleInv => CompositeIsComplete
  BY DEF EnsembleInv, Composed, CompositeIsComplete
<1> QED BY <1>1, EnsembleInvariant, PTL

(* No realization is ever bound to more workers than realizations are      *)
(* selected for a case (EnsembleHelper::GetAssignedWorker).                *)
THEOREM BindingsCorrect == EnsembleSpec => []BindingsBounded
<1>1. EnsembleInv => BindingsBounded
  BY DEF EnsembleInv, FewBindings, BindingsBounded
<1> QED BY <1>1, EnsembleInvariant, PTL

(* The helper never throws: every result is one of a busy realization, and *)
(* no case becomes active before the last one is done.                     *)
THEOREM EnsembleNeverThrowsCorrect == EnsembleSpec => []EnsembleNeverThrows
<1>1. EnsembleInv => EnsembleNeverThrows
  BY DEF EnsembleInv, OverseerTypes, Phases, EnsembleNeverThrows
<1> QED BY <1>1, EnsembleInvariant, PTL

(* With several realizations of every case under way, the optimizer's      *)
(* cases still go through the lifecycle of a case, first in, first out.    *)
THEOREM EnsembleImplementsLifecycle == EnsembleSpec => Stages!Spec
<1>1. EnsembleInit => Stages!Init
  BY ContractInit DEF EnsembleInit, MPIInit
<1>2. EnsembleInv /\ [EnsembleNext]_ensembleVars
        => [Stages!Advance]_(StageOf(book))
  <2> SUFFICES ASSUME EnsembleInv, [EnsembleNext]_ensembleVars
               PROVE  Stages!Advance \/ UNCHANGED StageOf(book)
    OBVIOUS
  <2>1. /\ Consistent(book) /\ EnsembleInv'
        /\ LifeStep(book, book') \/ UNCHANGED book
    BY EnsembleStepKeeps DEF EnsembleInv, OverseerTypes
  <2>2. Consistent(book')
    BY <2>1 DEF EnsembleInv, OverseerTypes
  <2>3. CASE UNCHANGED book
    BY <2>3 DEF StageOf, Known, Pending
  <2> QED BY <2>1, <2>2, <2>3, StepStages
<1> QED BY <1>1, <1>2, EnsembleInvariant, PTL DEF EnsembleSpec, Stages!Spec
================================================================================
