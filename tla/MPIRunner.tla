------------------------------- MODULE MPIRunner -------------------------------
(***************************************************************************)
(* Runner::MPI::SynchronousMPIRunner with its Overseer (rank 0), Workers   *)
(* (ranks 1, 2, ...) and the messages of MPIRunner, for runs with a single *)
(* realization.  The overseer drives an optimizer that keeps               *)
(* OptimizerContract.  Messages between two ranks are not reordered; the   *)
(* overseer receives from any worker that has sent.                        *)
(*                                                                         *)
(* The code of a process between two communications is one step.           *)
(***************************************************************************)
EXTENDS OptimizerContract, Sequences, FiniteSets

CONSTANTS
  NumWorkers,  \* number of MPI processes besides the overseer
  Outcomes     \* how simulations may end

Ranks == 1 .. NumWorkers

ASSUME NumWorkersAssumption == NumWorkers \in Nat \ {0}
ASSUME OutcomesAssumption == Outcomes \subseteq {"success", "timeout", "invalid"}

VARIABLES
  phase,      \* where the overseer is in Execute
  peer,       \* loop counter of TerminateWorkers and EnsureWorkerTermination
  working,    \* WorkerStatus.working of each rank
  eval,       \* state.eval of each case in the overseer's case handler
  toWorker,   \* messages sent to each rank and not yet received
  toOverseer, \* messages sent by each rank and not yet received
  pc,         \* where each worker is in Execute
  current,    \* current_case_ of each Worker
  applied,    \* has the worker's Model a current_case_?
  outcome     \* how the simulation of each simulated case ended (history)

overseerVars == <<book, stopped, phase, peer, working, eval>>
workerVars == <<pc, current, applied, outcome>>
vars == <<overseerVars, workerVars, toWorker, toOverseer>>

--------------------------------------------------------------------------------
(* Messages.  An evaluated case travels with its own state.eval.           *)
NoCase == <<>>

CaseMessage(tag, c, e) == [tag |-> tag, case |-> c, eval |-> e]
PlainMessage(tag) == [tag |-> tag, case |-> NoCase, eval |-> "none"]

Put(channels, r, m) == [channels EXCEPT ![r] = Append(@, m)]
Take(channels, r) == [channels EXCEPT ![r] = Tail(@)]

(* A blocking send returns when its message is received, and may return    *)
(* before if MPI buffers it: a process whose messages are all received is  *)
(* past its sends, one with a message on its way may be.                   *)
OverseerSent == \A r \in Ranks : toWorker[r] = <<>>
WorkerSent(r) == toOverseer[r] = <<>>

(* The tag of a returned case: SendEvaluatedCase ignores its argument.     *)
EvaluatedTag(tag) == "CASE_EVAL_SUCCESS"

EvalOf(o) ==
  CASE o = "success" -> "E_DONE"
    [] o = "timeout" -> "E_TIMEOUT"
    [] o = "invalid" -> "E_FAILED"

TagOf(o) ==
  CASE o = "success" -> "CASE_EVAL_SUCCESS"
    [] o = "timeout" -> "CASE_EVAL_TIMEOUT"
    [] o = "invalid" -> "CASE_EVAL_INVALID"

--------------------------------------------------------------------------------
(* The overseer.                                                           *)
FreeWorkers == {r \in Ranks : ~working[r]}
BusyWorkers == Ranks \ FreeWorkers

(* Had the overseer not looked at the workers' status.                     *)
getFirstWorker(r) == \A s \in Ranks : r <= s

getFreeWorker(r) == r \in FreeWorkers /\ \A s \in FreeWorkers : r <= s

(* Had the states of new cases been left out.                              *)
EvalsOfOldCases(h, e) == e

(* eval after the book has become h: what is new is pending.               *)
Evals(h, e) ==
  [c \in Known(h) |-> IF c \in DOMAIN e THEN e[c] ELSE "E_PENDING"]

(* AssignCase of the case c, the book being h.                             *)
AssignCase(h, c) ==
  \E r \in Ranks :
    /\ getFreeWorker(r)
    /\ toWorker' = Put(toWorker, r, CaseMessage("CASE_UNEVAL", c, "E_PENDING"))
    /\ working' = [working EXCEPT ![r] = TRUE]
    /\ book' = h
    /\ eval' = [Evals(h, eval) EXCEPT ![c] = "E_CURRENT"]

(* optimizer_->SubmitEvaluatedCase of the case c in state e, the book      *)
(* being h; SetCaseEvaluated throws if c is not being evaluated, and the   *)
(* overseer continues in the phase p otherwise.                            *)
Submit(h, c, e, p) ==
  IF c \in h.evaluating
    THEN /\ book' \in Handled(h, c)
         /\ stopped' \in Verdicts(book')
         /\ eval' = [Evals(book', eval) EXCEPT ![c] = e]
         /\ phase' = p
    ELSE /\ phase' = "threw"
         /\ UNCHANGED <<book, stopped, eval>>

(* initialDistribution leaves one worker free and asks no bookkeeper.      *)
MayDistribute == book.queue # {} /\ Cardinality(FreeWorkers) > 1

InitialDistribution ==
  /\ phase = "distribute"
  /\ MayDistribute
  /\ \E c \in book.queue :
       /\ IsHead(book, c)
       /\ AssignCase(GetNextCaseForEvaluation(book, c), c)
  /\ UNCHANGED <<stopped, phase, peer, toOverseer, workerVars>>

FinishDistribution ==
  /\ phase = "distribute"
  /\ ~MayDistribute
  /\ phase' = "loop"
  /\ UNCHANGED <<book, stopped, peer, working, eval, toWorker, toOverseer,
                 workerVars>>

(* The branches of the main loop.                                          *)
InLoop == phase = "loop" /\ ~IsFinished

(* Had the loop waited for results whenever the queue is empty.            *)
HandlesQueuedCase == book.queue # {} /\ FreeWorkers # {}

HandlesNewCase ==
  IF book.queue # {} THEN FreeWorkers # {} ELSE BusyWorkers = {}

(* handle_new_case, the case being unknown to the bookkeeper.              *)
AssignNewCase ==
  /\ InLoop /\ HandlesNewCase
  /\ \E g \in Suppliers : \E c \in g.queue :
       /\ IsHead(g, c)
       /\ AssignCase(GetNextCaseForEvaluation(g, c), c)
  /\ IF book.queue = {} THEN stopped' \in BOOLEAN ELSE UNCHANGED stopped
  /\ UNCHANGED <<phase, peer, toOverseer, workerVars>>

(* handle_new_case, the bookkeeper knowing an evaluated case that is equal *)
(* (the base case may equal any case).                                     *)
SubmitBookkeepedCase ==
  /\ InLoop /\ HandlesNewCase
  /\ \E g \in Suppliers : \E c \in g.queue :
       /\ IsHead(g, c)
       /\ Submit(GetNextCaseForEvaluation(g, c), c, "E_BOOKKEEPED", phase)
  /\ UNCHANGED <<peer, working, toWorker, toOverseer, workerVars>>

(* wait_for_evaluated_case: RecvEvaluatedCase takes whatever message comes *)
(* first; the submission of one without a case fails.                      *)
RecvEvaluatedCase ==
  /\ InLoop /\ ~HandlesNewCase
  /\ \E r \in Ranks :
       /\ toOverseer[r] # <<>>
       /\ LET m == Head(toOverseer[r])
          IN  Submit(book, m.case,
                     IF m.tag = "CASE_EVAL_SUCCESS" THEN "E_DONE" ELSE m.eval,
                     phase)
       /\ toOverseer' = Take(toOverseer, r)
       /\ working' = [working EXCEPT ![r] = FALSE]
  /\ UNCHANGED <<peer, toWorker, workerVars>>

(* The loop ends; FinalizeRun of the overseer touches no shared state.     *)
LeaveLoop ==
  /\ phase = "loop" /\ IsFinished
  /\ phase' = "terminate"
  /\ peer' = 1
  /\ UNCHANGED <<book, stopped, working, eval, toWorker, toOverseer, workerVars>>

(* Had the loops left out the last rank.                                   *)
NextPeerButLast(p) ==
  IF peer < NumWorkers - 1
    THEN peer' = peer + 1 /\ UNCHANGED phase
    ELSE peer' = 1 /\ phase' = p

(* One iteration of the loop over the ranks, p being the next phase.       *)
NextPeer(p) ==
  IF peer < NumWorkers
    THEN peer' = peer + 1 /\ UNCHANGED phase
    ELSE peer' = 1 /\ phase' = p

TerminateWorkers ==
  /\ phase = "terminate"
  /\ toWorker' = Put(toWorker, peer, PlainMessage("TERMINATE"))
  /\ NextPeer("ensure")
  /\ UNCHANGED <<book, stopped, working, eval, toOverseer, workerVars>>

EnsureWorkerTermination ==
  /\ phase = "ensure"
  /\ toOverseer[peer] # <<>>
  /\ IF Head(toOverseer[peer]).tag = "TERMINATE"
       THEN NextPeer("done")
       ELSE phase' = "threw" /\ UNCHANGED peer
  /\ toOverseer' = Take(toOverseer, peer)
  /\ UNCHANGED <<book, stopped, working, eval, toWorker, workerVars>>

OverseerNext ==
  \/ InitialDistribution \/ FinishDistribution
  \/ AssignNewCase \/ SubmitBookkeepedCase \/ RecvEvaluatedCase
  \/ LeaveLoop \/ TerminateWorkers \/ EnsureWorkerTermination

--------------------------------------------------------------------------------
(* The workers.                                                            *)
Receives(r) == toWorker[r] # <<>>

(* RecvModelSynchronizationObject, in the constructor.                     *)
RecvModelSync(r) ==
  /\ pc[r] = "sync" /\ Receives(r)
  /\ Head(toWorker[r]).tag = "MODEL_SYNC"
  /\ toWorker' = Take(toWorker, r)
  /\ pc' = [pc EXCEPT ![r] = "waiting"]
  /\ UNCHANGED <<overseerVars, toOverseer, current, applied, outcome>>

RecvUnevaluatedCase(r) ==
  /\ pc[r] = "waiting" /\ Receives(r)
  /\ LET m == Head(toWorker[r])
     IN  /\ pc' = [pc EXCEPT ![r] =
                     IF m.tag = "TERMINATE" THEN "finalizing" ELSE "evaluating"]
         /\ current' = [current EXCEPT ![r] = m.case]
  /\ toWorker' = Take(toWorker, r)
  /\ UNCHANGED <<overseerVars, toOverseer, applied, outcome>>

(* One pass of the worker's loop: apply the case to the model, simulate,   *)
(* send it back.  A model that fails its verification or a simulator that  *)
(* throws makes the case invalid, before or after the model has taken it.  *)
EvaluateCase(r, o) ==
  /\ pc[r] = "evaluating"
  /\ applied' \in {[applied EXCEPT ![r] = TRUE]}
                    \cup (IF o = "invalid" THEN {applied} ELSE {})
  /\ outcome' = [c \in DOMAIN outcome \cup {current[r]} |->
                   IF c = current[r] THEN o ELSE outcome[c]]
  /\ toOverseer' = Put(toOverseer, r,
                       CaseMessage(EvaluatedTag(TagOf(o)), current[r], EvalOf(o)))
  /\ pc' = [pc EXCEPT ![r] = "waiting"]
  /\ UNCHANGED <<overseerVars, toWorker, current>>

(* FinalizeRun and ConfirmFinalization.  Model::Finalize dereferences the  *)
(* model's current_case_, a null pointer when no case was ever applied: the *)
(* process dies.                                                           *)
FinalizeWorker(r) ==
  /\ pc[r] = "finalizing"
  /\ IF applied[r]
       THEN /\ pc' = [pc EXCEPT ![r] = "done"]
            /\ toOverseer' = Put(toOverseer, r, PlainMessage("TERMINATE"))
       ELSE /\ pc' = [pc EXCEPT ![r] = "died"]
            /\ UNCHANGED toOverseer
  /\ UNCHANGED <<overseerVars, toWorker, current, applied, outcome>>

WorkerNext(r) ==
  \/ RecvModelSync(r) \/ RecvUnevaluatedCase(r) \/ FinalizeWorker(r)
  \/ \E o \in Outcomes : EvaluateCase(r, o)

--------------------------------------------------------------------------------
(* The overseer has constructed the optimizer, which has something to do,  *)
(* and broadcast the model.                                                *)
MPIInit ==
  /\ Init
  /\ ~stopped
  /\ phase = "distribute"
  /\ peer = 1
  /\ working = [r \in Ranks |-> FALSE]
  /\ eval = [c \in Known(book) |->
               IF c = BaseCase THEN "E_DONE" ELSE "E_PENDING"]
  /\ toWorker = [r \in Ranks |-> <<PlainMessage("MODEL_SYNC")>>]
  /\ toOverseer = [r \in Ranks |-> <<>>]
  /\ pc = [r \in Ranks |-> "sync"]
  /\ current = [r \in Ranks |-> NoCase]
  /\ applied = [r \in Ranks |-> FALSE]
  /\ outcome = [c \in {} |-> "success"]

Died == \E r \in Ranks : pc[r] = "died"
Finalized == phase = "done" /\ \A r \in Ranks : pc[r] = "done"

(* All processes have returned from Execute, or the job is aborted because *)
(* one of them died.                                                       *)
Ended ==
  /\ Died \/ Finalized
  /\ UNCHANGED vars

MPINext ==
  \/ InitialDistribution \/ FinishDistribution
  \/ AssignNewCase \/ SubmitBookkeepedCase \/ RecvEvaluatedCase
  \/ LeaveLoop \/ TerminateWorkers \/ EnsureWorkerTermination
  \/ \E r \in Ranks : RecvModelSync(r)
  \/ \E r \in Ranks : RecvUnevaluatedCase(r)
  \/ \E r \in Ranks, o \in Outcomes : EvaluateCase(r, o)
  \/ \E r \in Ranks : FinalizeWorker(r)
  \/ Ended

(* No process stops running once its sends have returned, and every        *)
(* simulation ends.  MPI is not required to buffer anything.               *)
MPIFairness ==
  /\ WF_vars(OverseerSent /\ OverseerNext)
  /\ \A r \in Ranks : WF_vars(WorkerSent(r) /\ WorkerNext(r))

MPISpec == MPIInit /\ [][MPINext]_vars

FairMPISpec == MPISpec /\ MPIFairness

--------------------------------------------------------------------------------
(* Where the cases are: on their way to a worker, at it, on their way back. *)
CasesIn(messages) == {i \in DOMAIN messages : messages[i].case # NoCase}

SentTo(r) == {toWorker[r][i].case : i \in CasesIn(toWorker[r])}
HeldBy(r) == IF pc[r] = "evaluating" THEN {current[r]} ELSE {}
SentBy(r) == {toOverseer[r][i].case : i \in CasesIn(toOverseer[r])}
Out(r) == SentTo(r) \cup HeldBy(r) \cup SentBy(r)

NumOut(r) ==
  Cardinality(CasesIn(toWorker[r])) + Cardinality(HeldBy(r))
    + Cardinality(CasesIn(toOverseer[r]))

Phases == {"distribute", "loop", "terminate", "ensure", "done", "threw"}
PCs == {"sync", "waiting", "evaluating", "finalizing", "done", "died"}
EvalStates == {"E_PENDING", "E_CURRENT", "E_DONE", "E_TIMEOUT", "E_FAILED",
               "E_BOOKKEEPED"}
Tags == {"MODEL_SYNC", "CASE_UNEVAL", "CASE_EVAL_SUCCESS", "CASE_EVAL_TIMEOUT",
         "CASE_EVAL_INVALID", "TERMINATE"}
Messages ==
  [tag : Tags, case : Case \cup {NoCase}, eval : EvalStates \cup {"none"}]

(* Type correctness; the case handler and the simulations speak of the     *)
(* same cases.                                                             *)
MPITypeOK ==
  /\ Consistent(book) /\ stopped \in BOOLEAN
  /\ phase \in Phases /\ peer \in Ranks
  /\ working \in [Ranks -> BOOLEAN]
  /\ eval \in [Known(book) -> EvalStates]
  /\ toWorker \in [Ranks -> Seq(Messages)]
  /\ toOverseer \in [Ranks -> Seq(Messages)]
  /\ pc \in [Ranks -> PCs]
  /\ current \in [Ranks -> Case \cup {NoCase}]
  /\ applied \in [Ranks -> BOOLEAN]
  /\ outcome \in [DOMAIN outcome -> Outcomes]
  /\ DOMAIN outcome \subseteq Known(book)

(* The overseer's view of its workers is exact: a worker is marked as      *)
(* working exactly while one case is on its way to it, at it, or on its    *)
(* way back, and the cases out are the ones the optimizer believes are     *)
(* being evaluated.  So when no worker is busy the optimizer may iterate.  *)
BusyMeansOneCaseOut ==
  /\ \A r \in Ranks : NumOut(r) = IF working[r] THEN 1 ELSE 0
  /\ book.evaluating = UNION {Out(r) : r \in Ranks}
  /\ Cardinality(book.evaluating) = Cardinality(BusyWorkers)

(* No case is simulated twice, a bookkeeped case is not simulated at all,  *)
(* and every evaluated case got its value from one of the two.             *)
SimulatedOnce ==
  /\ \A r \in Ranks : (SentTo(r) \cup HeldBy(r)) \cap DOMAIN outcome = {}
  /\ \A c \in DOMAIN outcome : eval[c] # "E_BOOKKEEPED"
  /\ \A c \in book.evaluated \ {BaseCase} :
        c \in DOMAIN outcome \/ eval[c] = "E_BOOKKEEPED"

(* The overseer never throws: no result arrives for a case that is not     *)
(* being evaluated, no confirmation arrives while results are awaited, and *)
(* no result while confirmations are ("Something's fishy").                *)
NeverThrows == phase # "threw"

(* When the overseer returns, every worker has finalized, no message is    *)
(* left in any channel and no case was left at a worker.                   *)
CleanShutdown ==
  phase = "done" =>
    /\ \A r \in Ranks : /\ pc[r] = "done" /\ ~working[r]
                         /\ toWorker[r] = <<>> /\ toOverseer[r] = <<>>
    /\ book.evaluating = {}

(* Every case the workers or the channels hold is on its way through the   *)
(* lifecycle of a case, and is lost in none of them.                       *)
Place(c) ==
  IF \E r \in Ranks : c \in Out(r) THEN "evaluating"
  ELSE IF c \in book.queue THEN "queued"
  ELSE IF c \in book.evaluated THEN "evaluated"
  ELSE "discarded"

Lifecycle == INSTANCE CaseLifecycle WITH stage <- [c \in Known(book) |-> Place(c)]
LifecycleSpec == Lifecycle!Spec

(* All processes return, unless one has died: they do not wait for each    *)
(* other in a circle, even if every send waits for its receiver.           *)
Shutdown == <>(Finalized \/ Died)

(* "The tag the message should be sent with, indicating whether the        *)
(* evaluation was successful" (worker.h): the overseer records how each    *)
(* simulation ended.                                                       *)
OutcomeRecorded ==
  \A c \in DOMAIN outcome \cap book.evaluated : eval[c] = EvalOf(outcome[c])

(* Model::Finalize "should be called at the end of the optimization run"   *)
(* (model.h), and every worker calls it before it confirms termination.    *)
NoWorkerDies == ~Died
================================================================================
