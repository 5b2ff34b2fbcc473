---------------------------- MODULE OptimizationRun ----------------------------
(***************************************************************************)
(* A whole run of one optimizer: what AbstractRunner::InitializeOptimizer  *)
(* constructs, driven by the loop that the MPI runner and, with one case   *)
(* out at a time, the serial runner execute.  Results come back in any     *)
(* order and with any value.                                               *)
(*                                                                         *)
(* How the runners evaluate a case is not the question here (MPIRunner,    *)
(* Evaluation); what matters is that the serial runner also submits        *)
(* cases that failed, with the sentinel value, that the overseer marks     *)
(* every result as a success, and that a case the bookkeeper knows comes   *)
(* back before the next one is handed out.                                 *)
(***************************************************************************)
EXTENDS VFSA, SPSA, Swarms, ExhaustiveSearch2DVert, HybridOptimizer, FiniteSets

CONSTANTS
  Types,            \* the optimizers the driver file may name
  HybridTypes,      \* the pairs of components of a hybrid one
  WorkerCounts,     \* numbers of workers; 1 stands for the serial runner too
  Values,           \* objective function values
  BaseValue,        \* that of the base case
  Sentinel,         \* what a failed case gets
  MaxCalls          \* bound on the batches of optimizers that never finish

ASSUME RunAssumption ==
  /\ Types \subseteq {"Compass", "VFSA", "SPSA", "EGO", "PSO", "CMA_ES", "RGARDD",
                      "Exhaustive", "Hybrid"}
  /\ HybridTypes \subseteq {"Compass", "EGO", "RGARDD"} \X {"Compass", "EGO", "RGARDD"}
  /\ WorkerCounts \subseteq Nat \ {0}
  /\ Values \subseteq Int /\ BaseValue \in Int /\ Sentinel \in Int
  /\ MaxCalls \in Nat

VARIABLES
  opt,      \* optimizer_
  cases,    \* its case handler and the case objects
  workers,  \* how many cases may be out
  repeats,  \* may an optimizer propose a case that is evaluated already?
            \* (no difference if only one case is out at a time)
  found,    \* the case the bookkeeper has just found, as a set
  phase     \* "loop", "finished" or, when an exception ends the run, "threw"

vars == <<opt, cases, workers, repeats, found, phase>>

--------------------------------------------------------------------------------
InitializeOptimizer(t, s) ==
  CASE t = "Compass"    -> {Result(NewCompassSearch(BaseCase), s)}
    [] t = "VFSA"       -> {Result(NewVFSA(BaseCase), s)}
    [] t = "SPSA"       -> {Result(NewSPSA(BaseCase), s)}
    [] t = "EGO"        -> NewEGO(BaseCase, s)
    [] t = "PSO"        -> NewPSO(BaseCase, s)
    [] t = "CMA_ES"     -> NewCMA_ES(BaseCase, s)
    [] t = "RGARDD"     -> NewRGARDD(BaseCase, s, MaxIterations)
    [] t = "Exhaustive" -> {Result(NewExhaustive(BaseCase), s)}
    [] t = "Hybrid"     -> UNION {NewHybrid(p, BaseCase, s) : p \in HybridTypes}

IsFinished(o, s) ==
  CASE o.type = "VFSA"       -> VFSAFinished(o, s)
    [] o.type = "SPSA"       -> SPSAFinished(o, s)
    [] o.type = "PSO"        -> PSOFinished(o, s)
    [] o.type = "CMA_ES"     -> CMA_ESFinished(o, s)
    [] o.type = "Exhaustive" -> ExhaustiveFinished(o, s)
    [] o.type = "Hybrid"     -> HybridFinished(o, s)
    [] OTHER                 -> ComponentFinished(o, s)

Iterate(o, s) ==
  CASE o.type = "VFSA"       -> VFSAIterate(o, s)
    [] o.type = "SPSA"       -> SPSAIterate(o, s)
    [] o.type = "PSO"        -> PSOIterate(o, s)
    [] o.type = "CMA_ES"     -> CMA_ESIterate(o, s)
    [] o.type = "Exhaustive" -> ExhaustiveIterate(o, s)
    [] o.type = "Hybrid"     -> HybridIterate(o, s)
    [] OTHER                 -> ComponentIterate(o, s)

HandleEvaluatedCase(o, s, c, ok) ==
  CASE o.type = "VFSA"       -> VFSAHandle(o, s, c)
    [] o.type = "SPSA"       -> SPSAHandle(o, s, c, ok)
    [] o.type = "PSO"        -> PSOHandle(o, s, c)
    [] o.type = "CMA_ES"     -> CMA_ESHandle(o, s, c)
    [] o.type = "Exhaustive" -> ExhaustiveHandle(o, s, c)
    [] o.type = "Hybrid"     -> HybridHandle(o, s, c)
    [] OTHER                 -> ComponentHandle(o, s, c)

(* Those of which a run need not end (see Termination).                    *)
Unending(o) ==
  \/ o.type = "Exhaustive"
  \/ o.type = "Hybrid" /\ "EGO" \in {o.types[1], o.types[2]}

--------------------------------------------------------------------------------
Init ==
  /\ \E t \in Types : \E r \in InitializeOptimizer(t, NewCases(BaseValue)) :
       opt = r.opt /\ cases = r.cases
  /\ workers \in WorkerCounts
  /\ repeats \in IF workers = 1 THEN {FALSE} ELSE BOOLEAN
  /\ found = {}
  /\ phase = "loop"

InLoop == phase = "loop" /\ found = {} /\ ~IsFinished(opt, cases)

Queued == cases.book.queue # {}

(* Had the loop left one worker free, as the initial distribution does.    *)
HandsOutButOne ==
  IF Queued THEN Cardinality(cases.book.evaluating) < workers - 1
  ELSE Idle(cases)

(* The overseer hands out as long as a worker is free, and lets the        *)
(* optimizer iterate when no case is out.                                  *)
HandsOut ==
  IF Queued THEN Cardinality(cases.book.evaluating) < workers ELSE Idle(cases)

(* The head of the queue is handed out; the bookkeeper may know it.        *)
HandOut(r) ==
  \E c \in r.cases.book.queue :
    /\ IsHead(r.cases.book, c)
    /\ opt' = r.opt
    /\ cases' = [r.cases EXCEPT !.book = GetNextCaseForEvaluation(@, c)]
    /\ found' \in {{}} \cup (IF repeats THEN {{c}} ELSE {})
    /\ UNCHANGED <<workers, repeats, phase>>

(* Optimizer::GetCaseForEvaluation, from the queue or after an iteration.  *)
GetQueuedCase == InLoop /\ HandsOut /\ Queued /\ HandOut(Result(opt, cases))

GetIteratedCase ==
  /\ InLoop /\ HandsOut /\ ~Queued
  /\ Unending(opt) => cases.book.calls <= MaxCalls
  /\ \E r \in Iterate(opt, cases) : HandOut(r)

(* The queue is empty after iterate: CaseHandler throws, and no caller     *)
(* catches it.                                                             *)
GetNoCase ==
  /\ InLoop /\ HandsOut /\ ~Queued
  /\ \E r \in Iterate(opt, cases) :
       /\ r.cases.book.queue = {}
       /\ opt' = r.opt /\ cases' = r.cases
  /\ phase' = "threw"
  /\ UNCHANGED <<workers, repeats, found>>

Submit(c, x, ok) ==
  LET s == Recorded(cases, c, x)
  IN  /\ opt' \in HandleEvaluatedCase(Counted(opt), s, c, ok)
      /\ cases' = s

(* The bookkeeper takes the value from an evaluated case.                  *)
SubmitBookkeepedCase ==
  /\ phase = "loop"
  /\ \E c \in found : \E d \in cases.book.evaluated :
       Submit(c, cases.value[d], TRUE)
  /\ found' = {}
  /\ UNCHANGED <<workers, repeats, phase>>

SubmitEvaluatedCase ==
  /\ InLoop /\ ~HandsOut
  /\ \E c \in cases.book.evaluating :
       \/ \E x \in Values : Submit(c, x, TRUE)
       \/ workers = 1 /\ Submit(c, Sentinel, FALSE)
  /\ UNCHANGED <<workers, repeats, found, phase>>

Finish ==
  /\ phase = "loop" /\ found = {} /\ IsFinished(opt, cases)
  /\ phase' = "finished"
  /\ UNCHANGED <<opt, cases, workers, repeats, found>>

Next ==
  \/ GetQueuedCase \/ GetIteratedCase \/ GetNoCase
  \/ SubmitBookkeepedCase \/ SubmitEvaluatedCase
  \/ Finish

Spec == Init /\ [][Next]_vars

(* Simulations end, and the runner's loop goes on.                         *)
FairSpec == Spec /\ WF_vars(Next)

--------------------------------------------------------------------------------
Created == Known(cases.book) \ {BaseCase}

(* The evaluations that the settings allow, going by their documentation   *)
(* (Settings/optimizer.h:60, 75, 103, 112 and Optimization/optimizer.h:    *)
(* 169): so many, or so many iterations of so many.                        *)
Allowance(o) ==
  CASE o.type \in {"Compass", "EGO"} -> MaxEvaluations
    [] o.type = "VFSA"   -> MaxIterations * EvalsPerIteration
    [] o.type = "SPSA"   -> MaxIterations * 2
    [] o.type \in {"PSO", "CMA_ES"} -> MaxIterations * PopulationSize
    [] o.type = "RGARDD" -> MaxIterations * ChromosomeCount

(* What the code may create beyond that:                                   *)
(*   compass search  the rest of a poll, begun with one evaluation left;   *)
(*   EGO             one case, because it compares with >; or the initial  *)
(*                   guesses that are too many from the start;             *)
(*   VFSA            the iterations are counted from 0 to MaxIterations,   *)
(*                   and the first cases of one more are created to find   *)
(*                   out that they are over;                               *)
(*   PSO, CMA_ES and RGARDD                                                *)
(*                   the generation of the constructor, which is not       *)
(*                   counted as an iteration.                              *)
Overspend(o) ==
  CASE o.type = "Compass" -> PollDirections - 1
    [] o.type = "EGO"     -> IF InitialGuesses > MaxEvaluations
                               THEN InitialGuesses - MaxEvaluations ELSE 1
    [] o.type = "VFSA"    -> EvalsPerIteration + VFSABatch
    [] o.type = "SPSA"    -> 0
    [] o.type \in {"PSO", "CMA_ES"} -> PopulationSize
    [] o.type = "RGARDD"  -> ChromosomeCount

(* A finished run in which only the constructor made cases: there was no   *)
(* iteration to make, or the first swarm of PSO had stagnated already.     *)
EndedAtOnce ==
  /\ cases.book.evaluated = {BaseCase}
  /\ MaxIterations = 0 \/ (opt.type = "PSO" /\ opt.stagnant)

(* The lists of the case handler are consistent, exactly the evaluated     *)
(* cases have a value, and the tentative best case is one of them.         *)
RunTypeOK ==
  /\ Consistent(cases.book)
  /\ DOMAIN cases.value = cases.book.evaluated
  /\ opt.best \in cases.book.evaluated
  /\ opt.iteration \in Nat /\ opt.evaluated \in Nat
  /\ found \subseteq cases.book.evaluating
  /\ Cardinality(cases.book.evaluating) <= workers

(* The tentative best case is the best case encountered so far, as the     *)
(* final result of a run is (optimizer.h:68-72, 178).                      *)
BestOfAll == \A c \in cases.book.evaluated : ~IsBetter(cases, c, opt.best)

(* It is for the optimizers that compare every result with it and never    *)
(* change a value afterwards: compass search, SPSA, EGO, PSO and a hybrid, *)
(* whatever its components make of the same results.                       *)
RunBestDominates ==
  opt.type \in {"Compass", "SPSA", "EGO", "PSO", "Hybrid"} => BestOfAll

(* The tentative best case gets no worse, of the optimizers that do not    *)
(* accept worse cases by design (VFSA) and do not lower the value of the   *)
(* best case itself (CMA_ES).                                              *)
NeverLosesBest ==
  [][opt.type \notin {"VFSA", "CMA_ES"} =>
       ~IsBetter(cases', opt.best, opt'.best)]_vars

(* An optimizer that is asked for a case has one, but for SPSA: after a    *)
(* pair of which one failed, or when no valid pair is found up to the last *)
(* iteration, its iterate returns without a case and the run dies of the   *)
(* exception of the case handler, although IsFinished was false.           *)
NeverWithoutCase ==
  phase = "threw" =>
    /\ opt.type = "SPSA" /\ opt.iteration > 0
    /\ opt.pair = {} \/ opt.done # opt.pair

(* Nothing is out when a run ends, and nothing is left in the queue if     *)
(* there are two workers and no case is found by the bookkeeper: only      *)
(* between the results of several workers does IsFinished, which does not  *)
(* look at the queue in most optimizers, never see a half-done generation. *)
(* The exception is the generation of the constructor in a run that is     *)
(* over before its loop begins.                                            *)
NothingLeftBehind ==
  phase = "finished" =>
    /\ Idle(cases)
    /\ workers > 1 /\ ~repeats => ~Queued \/ EndedAtOnce

(* Most optimizers create more cases than the documentation of their       *)
(* settings allows, for they look at the limit only between two batches,   *)
(* or compare with it wrongly.  But never by more than a fixed amount,     *)
(* whatever the results, their order and the number of workers.            *)
OverspendBounded ==
  \/ opt.type \in {"Exhaustive", "Hybrid"}
  \/ Cardinality(Created) <= Allowance(opt) + Overspend(opt)

(* The code contradicts "Maximum number of objective function evaluations  *)
(* allowed before terminating" (optimizer.h:169) and "Maximum number of    *)
(* iterations to be performed" (Settings/optimizer.h:103) in every run of  *)
(* EGO and of VFSA that comes to its end: more cases have been evaluated   *)
(* than they allow.                                                        *)
OverspendsAlways ==
  phase = "finished" /\ opt.type \in {"EGO", "VFSA"} =>
    opt.evaluated > Allowance(opt)

(* What a run creates beyond its settings, as IsFinished of each optimizer *)
(* decides it: never more than Overspend, and by EGO (EGO.cpp:152) and     *)
(* VFSA (VFSA.cpp:63) some of it in every run that ends.                   *)
OverspendKnown == OverspendBounded /\ OverspendsAlways

(* The positions a batch may fill, whichever optimizer fills it.           *)
BatchPositions ==
  UNION {1..n : n \in {PollDirections, VFSABatch, 2, InitialGuesses,
                       PopulationSize, ChromosomeCount, (Nx - 1) * (Ny - 1)}}

(* Every optimizer keeps what the runners rely on, but for the case that   *)
(* SPSA fails to have: the exception is a step the contract does not see   *)
(* (NeverWithoutCase does).  The exhaustive search is never finished with  *)
(* a case out because it is never finished.                                *)
Contract == INSTANCE OptimizerContract WITH
  Positions <- BatchPositions,
  Calls     <- Nat,
  book      <- [cases.book EXCEPT !.recent = {}],
  stopped   <- phase # "threw" /\ IsFinished(opt, cases)

RunImplementsContract == Contract!Spec

(* Every run ends, but for the exhaustive search, which starts again when  *)
(* it is through, and a hybrid with EGO, which never takes its turn to be  *)
(* over.                                                                   *)
RunTerminates == <>(phase # "loop" \/ Unending(opt))
================================================================================
