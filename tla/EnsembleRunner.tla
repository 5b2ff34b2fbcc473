---------------------------- MODULE EnsembleRunner ----------------------------
(***************************************************************************)
(* Runner::MPI::SynchronousMPIRunner for ensemble runs.  The workers, the  *)
(* messages and the shutdown are those of MPIRunner; what travels is a     *)
(* realization of a case, the pair of both.  The optimizer's case is       *)
(* evaluated when all its selected realizations have come back, and its    *)
(* value is the average over its map of realization values, which a trial  *)
(* point inherits from the case it is a copy of.                           *)
(*                                                                         *)
(* The state of a case while its realizations are out is left "E_PENDING": *)
(* the overseer marks the copies only.                                     *)
(***************************************************************************)
EXTENDS MPIRunner, EnsembleHelper

CONSTANT Selects  \* numbers of realizations a run may select for each case

ASSUME SelectsAssumption == Selects \subseteq Realizations

VARIABLES
  helper,  \* ensemble_helper_
  ofvs     \* ensemble_ofvs_ of each case in the overseer's case handler

ensembleVars == <<vars, helper, ofvs>>

--------------------------------------------------------------------------------
(* The values of the cases when the book has become h: each new case is a  *)
(* copy of an evaluated case, or made from nothing.                        *)
Inherited(h, values) ==
  LET origins == {values[o] : o \in h.evaluated \cap DOMAIN values} \cup {{}}
      new     == Known(h) \ DOMAIN values
  IN  {[c \in Known(h) |-> IF c \in new THEN origin[c] ELSE values[c]] :
          origin \in [new -> origins]}

(* Hand the realization z of the active case of h to the worker r.         *)
AssignRealization(h, z, r) ==
  /\ toWorker' =
       Put(toWorker, r, CaseMessage("CASE_UNEVAL", <<h.case, z>>, "E_PENDING"))
  /\ working' = [working EXCEPT ![r] = TRUE]

(* The overseer asks the optimizer for a case: the head c of the book g.   *)
TakeCase(g, c) ==
  /\ IsHead(g, c)
  /\ book' = GetNextCaseForEvaluation(g, c)
  /\ IF book.queue = {} THEN stopped' \in BOOLEAN ELSE UNCHANGED stopped
  /\ eval' = Evals(book', eval)
  /\ ofvs' \in Inherited(book', ofvs)

(* initialDistribution: the first case becomes active; its realizations go *)
(* to free workers, all but one, and no worker is bound.                   *)
ActivateFirstCase ==
  /\ phase = "distribute" /\ helper.case = NoActiveCase
  /\ \E g \in Suppliers : \E c \in g.queue :
       /\ TakeCase(g, c)
       /\ \E s \in Selections(helper.select) :
            helper' = SetActiveCase(helper, c, s)
  /\ UNCHANGED <<phase, peer, working, toWorker, toOverseer, workerVars>>

MayDistributeRealization ==
  IsCaseAvailableForEval(helper) /\ Cardinality(FreeWorkers) > 1

DistributeRealization ==
  /\ phase = "distribute" /\ helper.case # NoActiveCase
  /\ MayDistributeRealization
  /\ \E z \in helper.queue, r \in Ranks :
       /\ IsNextRealization(helper, z) /\ getFreeWorker(r)
       /\ AssignRealization(helper, z, r)
       /\ helper' = GetCaseForEval(helper, z)
  /\ UNCHANGED <<book, stopped, phase, peer, eval, toOverseer, workerVars, ofvs>>

FinishEnsembleDistribution ==
  /\ helper.case # NoActiveCase /\ ~MayDistributeRealization
  /\ phase = "distribute"
  /\ phase' = "loop"
  /\ UNCHANGED <<book, stopped, peer, working, eval, toWorker, toOverseer,
                 workerVars, helper, ofvs>>

--------------------------------------------------------------------------------
(* The branches of the main loop: whether to handle a new case or to wait. *)

(* Had the loop not waited for the realizations that are out.              *)
HandlesWhileBusy ==
  IF IsCaseAvailableForEval(helper) THEN FreeWorkers # {} ELSE HandlesNewCase

HandlesRealization ==
  IF IsCaseAvailableForEval(helper)
    THEN FreeWorkers # {}
    ELSE IsCaseDone(helper) /\ HandlesNewCase

(* Assign the next realization of the active case of h, to a worker that   *)
(* has loaded it if there is a free one.                                   *)
AssignNext(h) ==
  \E z \in h.queue, r \in FreeWorkers :
    /\ IsNextRealization(h, z)
    /\ GetAssignedWorker(h, z, FreeWorkers, r)
    /\ AssignRealization(h, z, r)
    /\ helper' = Bound(GetCaseForEval(h, z), z, r)

(* handle_new_case, realizations of the active case being left.            *)
HandleRealization ==
  /\ InLoop /\ HandlesRealization
  /\ IsCaseAvailableForEval(helper)
  /\ AssignNext(helper)
  /\ UNCHANGED <<book, stopped, phase, peer, eval, toOverseer, workerVars, ofvs>>

(* handle_new_case, none being left: the next case of the optimizer        *)
(* becomes active.  SetActiveCase throws if realizations are out.          *)
HandleCase ==
  /\ InLoop /\ HandlesRealization
  /\ ~IsCaseAvailableForEval(helper)
  /\ \E g \in Suppliers : \E c \in g.queue :
       /\ TakeCase(g, c)
       /\ IF IsCaseDone(helper)
            THEN /\ \E s \in Selections(helper.select) :
                      AssignNext(SetActiveCase(helper, c, s))
                 /\ UNCHANGED phase
            ELSE /\ phase' = "threw"
                 /\ UNCHANGED <<toWorker, working, helper>>
  /\ UNCHANGED <<peer, toOverseer, workerVars>>

(* wait_for_evaluated_case, before the last realization: its value enters  *)
(* the map of the active case.  A realization that is not busy makes the   *)
(* helper throw.                                                           *)
Values(m) ==
  IF m.tag = "CASE_EVAL_SUCCESS" \/ m.eval = "E_DONE"
    THEN [ofvs EXCEPT ![helper.case] =
            SetRealizationOfv(@, m.case[2], m.case[1])]
    ELSE ofvs

Received(r) ==
  /\ InLoop /\ ~HandlesRealization
  /\ toOverseer[r] # <<>>
  /\ toOverseer' = Take(toOverseer, r)
  /\ working' = [working EXCEPT ![r] = FALSE]
  /\ UNCHANGED <<peer, toWorker, workerVars>>

RecvRealization(r) ==
  /\ Received(r)
  /\ LET m == Head(toOverseer[r])
         h == SubmitEvaluatedRealization(helper, m.case[2])
     IN  IF m.case[2] \in helper.busy
           THEN /\ ~IsCaseDone(h)
                /\ helper' = h
                /\ ofvs' = Values(m)
                /\ UNCHANGED phase
           ELSE /\ phase' = "threw"
                /\ UNCHANGED <<helper, ofvs>>
  /\ UNCHANGED <<book, stopped, eval>>

(* The overseer applies the composite case to its own model, which has the *)
(* grid of the base realization, outside of any try: it dies unless the    *)
(* case is valid there.                                                    *)
ValidOnBase(c) ==
  /\ <<c, BaseRealization>> \in DOMAIN outcome
  /\ outcome[<<c, BaseRealization>>] # "invalid"

ApplyCasePhases(c) == {phase} \cup (IF ValidOnBase(c) THEN {} ELSE {"crashed"})

(* wait_for_evaluated_case, with the last realization.                     *)
RecvLastRealization(r) ==
  /\ Received(r)
  /\ LET m == Head(toOverseer[r])
         h == SubmitEvaluatedRealization(helper, m.case[2])
     IN  /\ m.case[2] \in helper.busy
         /\ IsCaseDone(h)
         /\ helper' = h
         /\ \E p \in ApplyCasePhases(h.case) : Submit(book, h.case, "E_DONE", p)
         /\ ofvs' \in Inherited(book', Values(m))

--------------------------------------------------------------------------------
EnsembleInit ==
  /\ MPIInit
  /\ helper \in {NewHelper(n) : n \in Selects}
  /\ ofvs = [c \in Known(book) |-> {}]

(* The actions ensemble runs share with the others.                        *)
LeaveEnsembleLoop == LeaveLoop /\ UNCHANGED <<helper, ofvs>>
TerminateEnsembleWorkers == TerminateWorkers /\ UNCHANGED <<helper, ofvs>>
EnsureEnsembleTermination ==
  EnsureWorkerTermination /\ UNCHANGED <<helper, ofvs>>
EnsembleWorkerNext(r) == WorkerNext(r) /\ UNCHANGED <<helper, ofvs>>

Crashed == phase = "crashed"

EnsembleEnded ==
  /\ Died \/ Finalized \/ Crashed
  /\ UNCHANGED ensembleVars

EnsembleOverseerNext ==
  \/ ActivateFirstCase \/ DistributeRealization \/ FinishEnsembleDistribution
  \/ HandleRealization \/ HandleCase
  \/ \E r \in Ranks : RecvRealization(r)
  \/ \E r \in Ranks : RecvLastRealization(r)
  \/ LeaveEnsembleLoop \/ TerminateEnsembleWorkers \/ EnsureEnsembleTermination

EnsembleNext ==
  \/ EnsembleOverseerNext
  \/ \E r \in Ranks : EnsembleWorkerNext(r)
  \/ EnsembleEnded

(* As MPIFairness.                                                         *)
EnsembleFairness ==
  /\ WF_ensembleVars(OverseerSent /\ EnsembleOverseerNext)
  /\ \A r \in Ranks : WF_ensembleVars(WorkerSent(r) /\ EnsembleWorkerNext(r))

EnsembleSpec == EnsembleInit /\ [][EnsembleNext]_ensembleVars

FairEnsembleSpec == EnsembleSpec /\ EnsembleFairness

--------------------------------------------------------------------------------
Helpers ==
  [select : Selects, case : Case \cup {NoActiveCase},
   queue : SUBSET Realizations, busy : SUBSET Realizations,
   workers : [Realizations -> SUBSET Ranks]]

(* Type correctness; every case of the book has its map of values, with at *)
(* most one value for each realization.                                    *)
EnsembleTypeOK ==
  /\ Consistent(book) /\ stopped \in BOOLEAN
  /\ phase \in Phases \cup {"crashed"} /\ peer \in Ranks
  /\ eval \in [Known(book) -> EvalStates]
  /\ current \in [Ranks -> (Case \X Realizations) \cup {NoCase}]
  /\ helper \in Helpers
  /\ DOMAIN ofvs = Known(book)
  /\ \A c \in Known(book) :
       /\ ofvs[c] \subseteq Realizations \X Known(book)
       /\ \A v, w \in ofvs[c] : v[1] = w[1] => v = w

(* The helper's list of busy realizations is exact while results come from *)
(* several workers in any order: these realizations of the active case are *)
(* out, one at each busy worker, and no other case is being evaluated.     *)
RealizationsOut ==
  /\ \A r \in Ranks : NumOut(r) = IF working[r] THEN 1 ELSE 0
  /\ UNION {Out(r) : r \in Ranks} = {helper.case} \X helper.busy
  /\ Cardinality(helper.busy) = Cardinality(BusyWorkers)
  /\ book.evaluating =
       IF IsCaseDone(helper) \/ phase = "threw" THEN {} ELSE {helper.case}

(* A case is evaluated when, and only when, as many of its own simulations *)
(* are in its map as there are realizations to select; when all are        *)
(* selected, nothing inherited is left in the average.                     *)
CompositeIsComplete ==
  \A c \in book.evaluated \ {BaseCase} :
    /\ Cardinality(Own(ofvs[c], c)) = helper.select
    /\ helper.select = NumRealizations => ofvs[c] = Own(ofvs[c], c)

(* A realization is bound to another worker only when its workers are busy *)
(* with other realizations, so it never has more workers than the number   *)
(* of realizations that are out at once.                                   *)
BindingsBounded ==
  \A z \in Realizations : Cardinality(helper.workers[z]) <= helper.select

(* The helper is never asked for what it does not have: no realization is  *)
(* submitted twice, and no case becomes active before the last one is      *)
(* done.                                                                   *)
EnsembleNeverThrows == phase # "threw"

(* Every ensemble run comes to its end, unless a process dies: the loop    *)
(* does not wait for a realization that no worker has.                     *)
EnsembleShutdown == <>(Finalized \/ Died \/ Crashed)

(* "Generate a vector of _unique_ random integers in the range [lower ..   *)
(* upper]" (random.hpp), where lower is the base realization: every        *)
(* realization can be among the selected ones.                             *)
EveryRealizationSelectable == UNION Selections(helper.select) = Realizations
================================================================================
