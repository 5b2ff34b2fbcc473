------------------------------ MODULE Evaluation ------------------------------
(***************************************************************************)
(* How one process evaluates cases one after another: the loop bodies of   *)
(* SerialRunner::Execute and of the worker in SynchronousMPIRunner, with   *)
(* the timeout they derive from the simulations that succeeded so far.     *)
(* Simulations with a timeout are calls of Execution; those without block  *)
(* until the script ends.                                                  *)
(*                                                                         *)
(* All cases are simulated in one working directory (that of their         *)
(* realization).  The result files in it are never deleted, and the exit   *)
(* status of a script is ignored: a simulation that fails leaves the files *)
(* of an earlier one.                                                      *)
(***************************************************************************)
EXTENDS Execution, Sequences, FiniteSets

CONSTANTS
  Settings,         \* what runs may be started with, see SettingsAssumption
  NumCases,         \* number of cases to evaluate
  ShortestTimeout,  \* the 10 seconds of ECLSimulator::Evaluate
  DefaultTimeout,   \* the 10 000 seconds of timeoutValue
  LongestScript     \* bound on the time of simulations without a timeout

(* Which of the two loops; is_ensemble_run_; simulation_timeout, that is 0 *)
(* or the factor of the median; max_minutes in units of time, or -1 if it  *)
(* is not given; and whether the script is replaced by the simulator       *)
(* (exec).                                                                 *)
ASSUME SettingsAssumption ==
  Settings \subseteq [runner : {"serial", "worker"}, ensemble : BOOLEAN,
                     timeout : Nat, max : Nat \cup {-1}, exec : BOOLEAN]

ASSUME TimesAssumption ==
  /\ NumCases \in Nat
  /\ ShortestTimeout \in Nat \ {0}
  /\ DefaultTimeout \in Nat /\ DefaultTimeout >= ShortestTimeout
  /\ LongestScript \in Nat

VARIABLES
  setting,  \* what the run was started with
  times,    \* simulation_times_
  evals,    \* state.eval of the cases evaluated so far, in order
  values,   \* from whose results each of them got its value, if any
  files,    \* whose results are in the working directory
  wrote     \* the cases whose simulation wrote all its results (history)

cases == <<times, evals, values>>
directory == <<files, wrote>>
evaluationVars == <<executionVars, setting, cases, directory>>

case == Len(evals) + 1

(* The base case is case 0; a worker does not simulate it.                 *)
None == -1

--------------------------------------------------------------------------------
(* The k-th smallest element of a list.                                    *)
Ranked(list, k) ==
  CHOOSE v \in {list[i] : i \in DOMAIN list} :
    /\ Cardinality({i \in DOMAIN list : list[i] < v}) < k
    /\ Cardinality({i \in DOMAIN list : list[i] <= v}) >= k

calc_median(list) ==
  LET size == Len(list)
  IN  IF size % 2 = 0
        THEN (Ranked(list, size \div 2) + Ranked(list, size \div 2 + 1)) \div 2
        ELSE Ranked(list, size \div 2 + 1)

(* There is nothing to compute a timeout from.                             *)
NoNormalTimeout == times = <<>> \/ setting.timeout = 0

timeoutValue ==
  IF NoNormalTimeout THEN DefaultTimeout ELSE calc_median(times) * setting.timeout

(* Simulate without a timeout?                                             *)
Unmonitored ==
  IF setting.runner = "serial"
    THEN ~setting.ensemble /\ NoNormalTimeout
    ELSE setting.timeout = 0 /\ setting.max < 0

(* The timeout of a simulation: realizations at a worker get max_minutes   *)
(* whatever it is.                                                         *)
RequestedTimeout ==
  IF /\ setting.runner = "worker"
     /\ setting.ensemble \/ (times = <<>> /\ setting.max > 0)
    THEN setting.max
    ELSE timeoutValue

(* ECLSimulator::Evaluate always lets a simulation run for a while.        *)
AtLeastShortest(t) == IF t < ShortestTimeout THEN ShortestTimeout ELSE t

--------------------------------------------------------------------------------
Finish(eval, value) ==
  /\ control' = "idle"
  /\ evals' = Append(evals, eval)
  /\ values' = Append(values, value)
  /\ UNCHANGED <<process, returned, pid, limit, waited, elapsed, result, setting,
                 directory>>

(* The case cannot be applied to the model.                                *)
InvalidCase ==
  /\ control = "idle" /\ case <= NumCases
  /\ Finish("E_FAILED", None)
  /\ UNCHANGED <<signal, times>>

StartMonitored ==
  /\ control = "idle" /\ case <= NumCases /\ ~Unmonitored
  /\ Fork(case, AtLeastShortest(RequestedTimeout))
  /\ UNCHANGED <<setting, cases, directory>>

(* system(): no timeout, and the child is waited for.                      *)
StartUnmonitored ==
  /\ control = "idle" /\ case <= NumCases /\ Unmonitored
  /\ control' = "unmonitored"
  /\ elapsed' = 0
  /\ UNCHANGED <<process, returned, signal, pid, limit, waited, result,
                 setting, cases, directory>>

UnmonitoredTick ==
  /\ control = "unmonitored" /\ elapsed < LongestScript
  /\ elapsed' = elapsed + 1
  /\ UNCHANGED <<process, returned, signal, control, pid, limit, waited, result,
                 setting, cases, directory>>

(* The simulation of case k ends, with or without having written results.  *)
Written(k) ==
  \/ files' = k /\ wrote' = wrote \cup {k}
  \/ UNCHANGED directory

UnmonitoredEnds ==
  /\ control = "unmonitored"
  /\ Return(TRUE)
  /\ returned' = returned \cup {case}
  /\ Written(case)
  /\ UNCHANGED <<process, signal, pid, limit, waited, elapsed, setting, cases>>

(* The results are read from the files that are there.  A script that runs *)
(* after the simulation leaves its own SIGCHLD pending once that signal is *)
(* blocked.                                                                *)
RecordSuccess ==
  /\ control = "returned" /\ result
  /\ files # None
  /\ times' = Append(times, elapsed)
  /\ signal' \in {signal} \cup (IF Children # {} THEN {TRUE} ELSE {})
  /\ Finish("E_DONE", files)

(* Results that are not there, or cannot be read, make the case invalid.   *)
RecordInvalid ==
  /\ control = "returned"
  /\ Finish("E_FAILED", None)
  /\ UNCHANGED <<times, signal>>

(* Had every killed script been taken for one that ran for its timeout.    *)
RecordTimeoutAlways ==
  /\ control = "returned" /\ ~result
  /\ Finish("E_TIMEOUT", None)
  /\ UNCHANGED <<times, signal>>

(* A worker takes every failure for a timeout.                             *)
RecordTimeout ==
  /\ control = "returned" /\ ~result
  /\ Finish(IF setting.runner = "serial" /\ elapsed < timeoutValue
              THEN "E_FAILED" ELSE "E_TIMEOUT", None)
  /\ UNCHANGED <<times, signal>>

--------------------------------------------------------------------------------
EvaluationInit ==
  /\ process = [k \in {} |-> "running"]
  /\ returned = {}
  /\ signal = FALSE
  /\ control = "idle"
  /\ pid = 0 /\ limit = 0 /\ waited = 0 /\ elapsed = 0
  /\ result = FALSE
  /\ setting \in Settings
  /\ times = <<>> /\ evals = <<>> /\ values = <<>>
  /\ files = (IF setting.runner = "serial" THEN 0 ELSE None)
  /\ wrote = {}

MonitorNext == CallNext /\ UNCHANGED <<setting, cases, directory>>

(* What a simulation has written when it is killed stays.                  *)
KillSimulation ==
  /\ KillChild
  /\ files' \in {files} \cup (IF process[pid] = "running" THEN {pid} ELSE {})
  /\ UNCHANGED <<setting, cases, wrote>>

ChildEnds(k) == ScriptEnds(k) /\ Written(k) /\ UNCHANGED <<setting, cases>>
ChildDies(k) == KilledChildDies(k) /\ UNCHANGED <<setting, cases, directory>>

Orphans == {k \in Children \ returned : ~setting.exec /\ process[k] # "running"}

(* The simulator that a killed script has started lives on.                *)
OrphanWrites(k) ==
  /\ k \in Orphans
  /\ files' = k
  /\ UNCHANGED <<executionVars, setting, cases, wrote>>

RunnerNext ==
  \/ InvalidCase \/ StartMonitored \/ StartUnmonitored \/ UnmonitoredEnds
  \/ KillSimulation \/ RecordSuccess \/ RecordInvalid \/ RecordTimeout

EvaluationNext ==
  \/ RunnerNext \/ MonitorNext \/ UnmonitoredTick
  \/ \E k \in Children : ChildEnds(k)
  \/ \E k \in Children : ChildDies(k)
  \/ \E k \in Children : OrphanWrites(k)

(* The process runs, time passes, and killed children die; simulations     *)
(* without a timeout end, those with one need not.                         *)
EvaluationFairness ==
  /\ WF_evaluationVars(RunnerNext)
  /\ WF_evaluationVars(MonitorNext)
  /\ \A k \in 1 .. NumCases : WF_evaluationVars(k \in Children /\ ChildDies(k))

EvaluationSpec == EvaluationInit /\ [][EvaluationNext]_evaluationVars

FairEvaluationSpec == EvaluationSpec /\ EvaluationFairness

--------------------------------------------------------------------------------
InCall == {"check", "wait", "signalled", "timedout", "interrupted", "kill"}
Controls == InCall \cup {"idle", "unmonitored", "returned"}

KilledBefore == {k \in Children \ {pid} : k \notin returned}

(* Type correctness; the children are those of cases that were simulated,  *)
(* and only the child of the current call may still be running.            *)
EvaluationTypeOK ==
  /\ process \in [Children -> ProcessStates]
  /\ Children \cup returned \subseteq 1 .. case
  /\ signal \in BOOLEAN /\ result \in BOOLEAN
  /\ control \in Controls
  /\ pid \in 0 .. case /\ limit \in Nat /\ waited \in Nat /\ elapsed \in Nat
  /\ setting \in Settings
  /\ times \in Seq(Nat)
  /\ evals \in Seq({"E_DONE", "E_TIMEOUT", "E_FAILED"}) /\ Len(evals) <= NumCases
  /\ values \in Seq(None .. NumCases) /\ Len(values) = Len(evals)
  /\ files \in None .. NumCases /\ wrote \subseteq returned
  /\ \A k \in Children : process[k] = "running" => k = pid /\ control \in InCall

(* The number of a child is free for another process as soon as the child  *)
(* is waited for: SIGKILL is only sent to a child that is not.             *)
KillsOwnChild ==
  control = "kill" => pid \in Children /\ process[pid] # "reaped"

(* A case is done only if its script ended by itself, and was waited for.  *)
(* The recorded times are those of the cases that are done.                *)
DoneIsTrue ==
  /\ \A k \in DOMAIN evals :
        evals[k] = "E_DONE" =>
          k \in returned /\ (k \in Children => process[k] = "reaped")
  /\ Len(times) = Cardinality({k \in DOMAIN evals : evals[k] = "E_DONE"})

(* A serial run takes the case it is through with for timed out only if    *)
(* its script ran for the time it was given when it was started, and was   *)
(* not killed because its wait was interrupted.  The exception is a script *)
(* that was given the shortest time because its timeout was shorter still: *)
(* its time is compared with that shorter timeout.                         *)
TimeoutIsTrue ==
  /\ setting.runner = "serial" /\ control = "idle"
  /\ evals # <<>> /\ evals[Len(evals)] = "E_TIMEOUT"
  => elapsed >= limit \/ limit = ShortestTimeout

(* The outcome of a case is what has happened to its simulation.           *)
OutcomeIsTrue == DoneIsTrue /\ TimeoutIsTrue

(* A case that is done has its own value if its simulation wrote results,  *)
(* whatever earlier simulations have left in the directory; unless the     *)
(* simulator of a killed script is still writing there.                    *)
OwnResults ==
  setting.exec =>
    \A k \in DOMAIN evals : evals[k] = "E_DONE" /\ k \in wrote => values[k] = k

(* A signal left behind by a child of an earlier call restarts the wait in *)
(* full: a script runs for at most its timeout, and once more for each     *)
(* child that was killed before it.                                        *)
OverrunBounded ==
  control \in InCall =>
    elapsed <= limit * (1 + Cardinality(KilledBefore))

(* Every case comes to be evaluated, though scripts may run forever.       *)
EveryCaseEvaluated == <>(Len(evals) = NumCases)

(* "MaxMinutes is the maximum number of minutes a simulation is allowed to *)
(* run if a "normal" timeout value cannot be calculated."                  *)
MaxMinutesRespected ==
  control # "idle" /\ NoNormalTimeout /\ setting.max > 0
    => elapsed <= AtLeastShortest(setting.max)
================================================================================
