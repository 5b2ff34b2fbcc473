---------------------------- MODULE EnsembleHelper ----------------------------
(***************************************************************************)
(* Runner::EnsembleHelper, which turns the evaluation of one case into the *)
(* evaluation of several geological realizations of it: which realizations *)
(* of the active case wait, which are being simulated, and which workers   *)
(* have loaded which realization.  As in CaseHandler, its operations are   *)
(* functions of its state.                                                 *)
(*                                                                         *)
(* A realization is named by the position of its alias in GetAliases, the  *)
(* first being the base realization.                                       *)
(***************************************************************************)
EXTENDS Integers, FiniteSets

CONSTANT NumRealizations  \* size of the ensemble

ASSUME NumRealizationsAssumption == NumRealizations \in Nat \ {0}

Realizations == 1 .. NumRealizations
BaseRealization == 1

NoActiveCase == <<>>

(* n is the number of realizations to select for every case.               *)
NewHelper(n) ==
  [select  |-> n,               \* n_select_
   case    |-> NoActiveCase,    \* current_case_
   queue   |-> {},              \* rzn_queue_
   busy    |-> {},              \* rzn_busy_
   workers |-> [z \in Realizations |-> {}]]  \* assigend_workers_

IsCaseAvailableForEval(h) == h.queue # {}

(* Had the realizations that are out been forgotten.                       *)
IsQueueEmpty(h) == h.queue = {}

IsCaseDone(h) == h.queue = {} /\ h.busy = {}

(* What unique_random_integers promises.                                   *)
SubsetsOfSize(n) == {s \in SUBSET Realizations : Cardinality(s) = n}

(* selectRealizations.  unique_random_integers draws until it has enough   *)
(* numbers that are not in its result, a vector that it fills with zeros   *)
(* first: the index 0 of the base realization is never drawn.              *)
Selections(n) ==
  IF n = NumRealizations
    THEN {Realizations}
    ELSE {s \in SubsetsOfSize(n) : BaseRealization \notin s}

(* The code throws unless IsCaseDone(h).                                   *)
SetActiveCase(h, c, selection) == [h EXCEPT !.case = c, !.queue = selection]

(* The next realization of the queue: the last alias when all of them are  *)
(* selected, and in no particular order when they are drawn.               *)
IsNextRealization(h, z) ==
  /\ z \in h.queue
  /\ h.select = NumRealizations => \A y \in h.queue : y <= z

(* The code throws when the queue is empty.                                *)
GetCaseForEval(h, z) == [h EXCEPT !.queue = @ \ {z}, !.busy = @ \cup {z}]

(* Had the realization stayed in the list of busy ones.                    *)
KeepEvaluatedRealization(h, z) == h

(* The code throws unless z is busy.                                       *)
SubmitEvaluatedRealization(h, z) == [h EXCEPT !.busy = @ \ {z}]

(* Had the realization been moved to a new worker whenever possible.       *)
GetNewWorker(h, z, free, r) ==
  LET loaded == free \ h.workers[z]
      among == IF loaded # {} THEN loaded ELSE free
  IN  r \in among /\ \A s \in among : r <= s

(* The worker for the realization z: the first of the free ones that has   *)
(* loaded it, or else the first free one (the loads are sorted as pairs of *)
(* rank and load).                                                         *)
GetAssignedWorker(h, z, free, r) ==
  LET loaded == free \cap h.workers[z]
      among == IF loaded # {} THEN loaded ELSE free
  IN  r \in among /\ \A s \in among : r <= s

Bound(h, z, r) == [h EXCEPT !.workers[z] = @ \cup {r}]

--------------------------------------------------------------------------------
(* The values of a case: pairs of a realization and the case whose         *)
(* simulation the value comes from.                                        *)

(* Had the value been appended.                                            *)
AppendRealizationOfv(values, z, c) == values \cup {<<z, c>>}

SetRealizationOfv(values, z, c) ==
  {v \in values : v[1] # z} \cup {<<z, c>>}

Own(values, c) == {v \in values : v[2] = c}
================================================================================
