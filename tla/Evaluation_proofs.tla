--------------------------- MODULE Evaluation_proofs ---------------------------
(***************************************************************************)
(* For every choice of settings, number of cases and timeouts: SIGKILL is  *)
(* sent to the child of the call only, a case that is done was simulated   *)
(* to its end and has its own results, one that a serial run takes for     *)
(* timed out ran for the time it was given, and no script runs longer than *)
(* its timeout and once more for each child that was killed before.        *)
(*                                                                         *)
(* The inductive invariant follows one case through a call: its child is   *)
(* running or a zombie until the call returns, the zombie is one because   *)
(* the script ended by itself, and the call returns true only when it has  *)
(* waited for that zombie.  On top of it, Typing holds the domains it does *)
(* not need, Granted ties the limit of a call to the timeout its runner    *)
(* asks for, and Timing charges every wait that a signal interrupted to a  *)
(* killed child that has died.                                             *)
(***************************************************************************)
EXTENDS Evaluation, FiniteSetTheorems, SequenceTheorems,
        WellFoundedInduction, TLAPS

Outcomes == {"E_DONE", "E_TIMEOUT", "E_FAILED"}

Done == {k \in DOMAIN evals : evals[k] = "E_DONE"}

(* The domains, as far as the proof needs them.                            *)
Shape ==
  /\ evals \in Seq(Outcomes) /\ values \in Seq(Int) /\ Len(values) = Len(evals)
  /\ times \in Seq(Nat) /\ elapsed \in Nat
  /\ process \in [Children -> ProcessStates]
  /\ Children \cup returned \subseteq 1 .. case
  /\ wrote \subseteq returned
  /\ files \in Int
  /\ control \in Controls /\ result \in BOOLEAN

(* Nothing is known of a case before it is simulated.                      *)
BeforeCall ==
  control \in {"idle", "unmonitored"} => case \notin Children \cup returned

(* The child of a call, and no other one, is running or has ended by       *)
(* itself and is waited for by nobody else.                                *)
DuringCall ==
  /\ control \in InCall =>
       /\ pid = case /\ pid \in Children
       /\ process[pid] \in {"running", "zombie"}
       /\ process[pid] = "zombie" <=> pid \in returned
  /\ \A k \in Children : process[k] = "running" => k = pid /\ control \in InCall

(* A call that returns true has waited for a script that ended.            *)
AfterCall ==
  control = "returned" /\ result =>
    case \in returned /\ (case \in Children => process[case] = "reaped")

(* What the simulation of the current case wrote is there until it is read.*)
Fresh ==
  setting.exec /\ case \in wrote /\ (control = "returned" => result)
    => files = case

EvaluationInv ==
  /\ Shape /\ BeforeCall /\ DuringCall /\ AfterCall
  /\ Fresh /\ DoneIsTrue /\ OwnResults

--------------------------------------------------------------------------------
LEMMA InitEstablishes == EvaluationInit => EvaluationInv
<1> SUFFICES ASSUME EvaluationInit PROVE EvaluationInv
  OBVIOUS
<1>1. /\ evals = <<>> /\ Len(evals) = 0 /\ DOMAIN evals = {}
      /\ times = <<>> /\ Len(times) = 0
      /\ values = <<>> /\ Len(values) = 0
      /\ Children = {} /\ returned = {} /\ wrote = {} /\ control = "idle"
  BY DEF EvaluationInit, Children
<1>2. Shape
  <2>1. process \in [Children -> ProcessStates]
    BY <1>1 DEF EvaluationInit, Children
  <2>2. /\ control \in Controls /\ result \in BOOLEAN /\ elapsed \in Nat
        /\ files = 0 \/ files = None
    BY <1>1 DEF EvaluationInit, Controls
  <2>4. files \in Int
    BY <2>2 DEF None
  <2>3. evals \in Seq(Outcomes) /\ values \in Seq(Int) /\ times \in Seq(Nat)
    BY <1>1
  <2> QED BY <1>1, <2>1, <2>2, <2>3, <2>4 DEF Shape
<1>6. BeforeCall /\ DuringCall /\ AfterCall
  BY <1>1 DEF BeforeCall, DuringCall, AfterCall, InCall
<1>3. Fresh /\ OwnResults
  BY <1>1 DEF Fresh, OwnResults
<1>4. {k \in DOMAIN evals : evals[k] = "E_DONE"} = {}
  BY <1>1
<1>5. DoneIsTrue
  BY <1>1, <1>4, FS_EmptySet DEF DoneIsTrue
<1> QED BY <1>2, <1>3, <1>5, <1>6 DEF EvaluationInv
--------------------------------------------------------------------------------
(* What is said of finished cases stays true as long as no case finishes:  *)
(* a child that was waited for stays so.                                   *)
LEMMA FinishedCasesKeep ==
  ASSUME EvaluationInv,
         UNCHANGED <<evals, values, times, setting>>,
         returned \subseteq returned',
         \A k \in DOMAIN evals : k \in wrote' => k \in wrote,
         \A k \in Children' : k \in DOMAIN evals =>
           k \in Children /\ (process[k] = "reaped" => process'[k] = "reaped")
  PROVE  DoneIsTrue' /\ OwnResults'
<1>1. DoneIsTrue'
  BY DEF EvaluationInv, DoneIsTrue
<1>2. OwnResults'
  BY DEF EvaluationInv, OwnResults
<1> QED BY <1>1, <1>2

(* The numbers of the cases so far.                                        *)
LEMMA CaseNumbers ==
  ASSUME Shape
  PROVE  /\ case \in Nat /\ DOMAIN evals = 1 .. (case - 1)
         /\ case \notin DOMAIN evals
         /\ DOMAIN values = DOMAIN evals
BY DEF Shape, case

(* The steps of a call that change neither the children nor the outcome.   *)
LEMMA WaitingKeeps ==
  ASSUME EvaluationInv, control \in InCall, control' \in InCall,
         UNCHANGED <<process, returned, pid, result, setting, cases, directory>>,
         elapsed' \in Nat
  PROVE  EvaluationInv'
<1> USE DEF cases, directory
<1>1. Shape'
  BY DEF EvaluationInv, Shape, case, Children, Controls
<1>2. DoneIsTrue' /\ OwnResults'
  BY FinishedCasesKeep DEF Children
<1>3. BeforeCall' /\ AfterCall'
  BY DEF BeforeCall, AfterCall, InCall
<1>4. DuringCall' /\ Fresh'
  BY DEF EvaluationInv, DuringCall, Fresh, case, Children, InCall
<1> QED BY <1>1, <1>2, <1>3, <1>4 DEF EvaluationInv

(* The answer of is_pid_running is right.                                  *)
LEMMA PollAnswers ==
  ASSUME EvaluationInv, control \in InCall,
         NEW b \in BOOLEAN, IsPidRunning(b)
  PROVE  /\ process' \in [Children -> ProcessStates] /\ Children' = Children
         /\ \A k \in Children : process'[k] =
               IF process[k] = "zombie" THEN "reaped" ELSE process[k]
         /\ b <=> process[pid] = "running"
<1>1. /\ process \in [Children -> ProcessStates]
      /\ pid \in Children /\ process[pid] \in {"running", "zombie"}
  BY DEF EvaluationInv, Shape, DuringCall
<1>2. process' = [k \in Children |->
                    IF process[k] = "zombie" THEN "reaped" ELSE process[k]]
  BY DEF IsPidRunning, Reap
<1>3. process' \in [Children -> ProcessStates] /\ Children' = Children
  BY <1>1, <1>2 DEF ProcessStates, Children
<1>4. b = (process'[pid] # "reaped")
  BY DEF IsPidRunning
<1> QED BY <1>1, <1>2, <1>3, <1>4

(* The steps of a call that ask whether the child is running, and return   *)
(* if it is not.                                                           *)
LEMMA PollingKeeps ==
  ASSUME EvaluationInv, control \in InCall,
         NEW b \in BOOLEAN, IsPidRunning(b),
         b => control' \in InCall /\ result' = result,
         ~b => control' = "returned" /\ result' \in BOOLEAN,
         UNCHANGED <<returned, pid, elapsed, setting, cases, directory>>
  PROVE  EvaluationInv'
<1> USE DEF cases, directory
<1>0. /\ process' \in [Children -> ProcessStates] /\ Children' = Children
      /\ \A k \in Children : process'[k] =
            IF process[k] = "zombie" THEN "reaped" ELSE process[k]
      /\ b <=> process[pid] = "running"
  BY PollAnswers
<1>1. Shape'
  BY <1>0 DEF EvaluationInv, Shape, case, Controls
<1>2. DoneIsTrue' /\ OwnResults'
  BY <1>0, FinishedCasesKeep
<1>3. /\ pid = case /\ pid \in Children
      /\ process[pid] \in {"running", "zombie"}
      /\ process[pid] = "zombie" <=> pid \in returned
  BY DEF EvaluationInv, DuringCall
<1>4. BeforeCall' /\ AfterCall'
  BY <1>0, <1>3 DEF BeforeCall, AfterCall, InCall, case
<1>5. DuringCall'
  BY <1>0, <1>3 DEF EvaluationInv, DuringCall, case, InCall
<1>6. Fresh'
  BY DEF EvaluationInv, Fresh, case, InCall
<1> QED BY <1>1, <1>2, <1>4, <1>5, <1>6 DEF EvaluationInv
--------------------------------------------------------------------------------
(* The child of the call is killed, unless it has ended since.             *)
LEMMA KillKeeps == EvaluationInv /\ KillSimulation => EvaluationInv'
<1> SUFFICES ASSUME EvaluationInv, KillSimulation PROVE EvaluationInv'
  OBVIOUS
<1> USE DEF cases
<1>1. /\ process' = [process EXCEPT ![pid] = IF @ = "running" THEN "killed" ELSE @]
      /\ control = "kill" /\ control' = "returned" /\ result' = FALSE
      /\ files' \in {files} \cup (IF process[pid] = "running" THEN {pid} ELSE {})
      /\ UNCHANGED <<returned, pid, elapsed, setting, evals, values, times, wrote>>
  BY DEF KillSimulation, KillChild, Return
<1>2. /\ pid = case /\ pid \in Children
      /\ process[pid] \in {"running", "zombie"}
      /\ process[pid] = "zombie" <=> pid \in returned
  BY <1>1 DEF EvaluationInv, DuringCall, InCall
<1>3. /\ process' \in [Children -> ProcessStates] /\ Children' = Children
      /\ \A k \in Children \ {pid} : process'[k] = process[k]
      /\ process'[pid] \in {"killed", "zombie"}
  BY <1>1, <1>2 DEF EvaluationInv, Shape, ProcessStates, Children
<1>4. Shape'
  <2>1. files' \in Int
    BY <1>1, <1>2, CaseNumbers DEF EvaluationInv, Shape
  <2>2. control' \in Controls /\ result' \in BOOLEAN
    BY <1>1 DEF Controls
  <2> QED BY <1>1, <1>3, <2>1, <2>2 DEF EvaluationInv, Shape, case
<1>5. DoneIsTrue' /\ OwnResults'
  BY <1>1, <1>2, <1>3, FinishedCasesKeep
<1>6. BeforeCall' /\ AfterCall' /\ Fresh'
  BY <1>1 DEF BeforeCall, AfterCall, Fresh
<1>7. DuringCall'
  BY <1>1, <1>3 DEF EvaluationInv, DuringCall, InCall
<1> QED BY <1>4, <1>5, <1>6, <1>7 DEF EvaluationInv

(* A script ends by itself, with or without having written its results.    *)
LEMMA EndKeeps ==
  ASSUME NEW k \in Children, EvaluationInv, ChildEnds(k)
  PROVE  EvaluationInv'
<1> USE DEF cases, directory
<1>1. /\ process[k] = "running" /\ process' = [process EXCEPT ![k] = "zombie"]
      /\ returned' = returned \cup {k}
      /\ \/ files' = k /\ wrote' = wrote \cup {k}
         \/ files' = files /\ wrote' = wrote
      /\ UNCHANGED <<control, pid, elapsed, result, setting, evals, values, times>>
  BY DEF ChildEnds, ScriptEnds, Written, callVars
<1>2. /\ k = pid /\ control \in InCall /\ pid = case /\ k \notin returned
  BY <1>1 DEF EvaluationInv, DuringCall
<1>3. /\ process' \in [Children -> ProcessStates] /\ Children' = Children
      /\ \A j \in Children \ {k} : process'[j] = process[j]
      /\ process'[k] = "zombie"
  BY <1>1 DEF EvaluationInv, Shape, ProcessStates, Children
<1>4. Shape'
  BY <1>1, <1>2, <1>3, CaseNumbers DEF EvaluationInv, Shape, case, Controls
<1>5. DoneIsTrue' /\ OwnResults'
  BY <1>1, <1>2, <1>3, FinishedCasesKeep, CaseNumbers DEF EvaluationInv
<1>6. BeforeCall' /\ AfterCall'
  BY <1>1, <1>2 DEF BeforeCall, AfterCall, InCall
<1>7. DuringCall'
  BY <1>1, <1>2, <1>3 DEF EvaluationInv, DuringCall, case
<1>8. Fresh'
  BY <1>1, <1>2 DEF EvaluationInv, Fresh, case, InCall
<1> QED BY <1>4, <1>5, <1>6, <1>7, <1>8 DEF EvaluationInv

(* A killed child dies.                                                    *)
LEMMA DeathKeeps ==
  ASSUME NEW k \in Children, EvaluationInv, ChildDies(k)
  PROVE  EvaluationInv'
<1> USE DEF cases, directory
<1>1. /\ process[k] = "killed" /\ process' = [process EXCEPT ![k] = "zombie"]
      /\ UNCHANGED <<returned, control, pid, elapsed, result, setting, evals,
                     values, times, files, wrote>>
  BY DEF ChildDies, KilledChildDies, callVars
<1>2. /\ process' \in [Children -> ProcessStates] /\ Children' = Children
      /\ \A j \in Children \ {k} : process'[j] = process[j]
      /\ process'[k] = "zombie"
  BY <1>1 DEF EvaluationInv, Shape, ProcessStates, Children
<1>3. Shape'
  BY <1>1, <1>2 DEF EvaluationInv, Shape, case, Controls
<1>4. DoneIsTrue' /\ OwnResults'
  BY <1>1, <1>2, FinishedCasesKeep
<1>5. BeforeCall' /\ AfterCall' /\ Fresh'
  BY <1>1, <1>2 DEF EvaluationInv, BeforeCall, AfterCall, Fresh, case
<1>6. DuringCall'
  BY <1>1, <1>2 DEF EvaluationInv, DuringCall, case
<1> QED BY <1>3, <1>4, <1>5, <1>6 DEF EvaluationInv

(* The simulator of a killed script writes its results.                    *)
LEMMA OrphanKeeps ==
  ASSUME NEW k \in Children, EvaluationInv, OrphanWrites(k)
  PROVE  EvaluationInv'
<1> USE DEF cases, executionVars, callVars
<1>1. /\ ~setting.exec /\ files' = k
      /\ UNCHANGED <<process, returned, control, pid, elapsed, result, setting,
                     evals, values, times, wrote>>
  BY DEF OrphanWrites, Orphans
<1>2. Shape'
  BY <1>1, CaseNumbers DEF EvaluationInv, Shape, case, Controls, Children
<1>3. DoneIsTrue' /\ OwnResults'
  BY <1>1, FinishedCasesKeep DEF Children
<1>4. BeforeCall' /\ AfterCall' /\ Fresh' /\ DuringCall'
  BY <1>1 DEF EvaluationInv, BeforeCall, AfterCall, Fresh, DuringCall, case, Children
<1> QED BY <1>2, <1>3, <1>4 DEF EvaluationInv
--------------------------------------------------------------------------------
(* A script is started in a child process of its own.                      *)
LEMMA StartMonitoredKeeps == EvaluationInv /\ StartMonitored => EvaluationInv'
<1> SUFFICES ASSUME EvaluationInv, StartMonitored PROVE EvaluationInv'
  OBVIOUS
<1> USE DEF cases, directory
<1>1. /\ control = "idle" /\ control' = "check" /\ pid' = case /\ elapsed' = 0
      /\ process' = [j \in Children \cup {case} |->
                       IF j = case THEN "running" ELSE process[j]]
      /\ UNCHANGED <<returned, result, setting, evals, values, times, files, wrote>>
  BY DEF StartMonitored, Fork
<1>2. case \notin Children \cup returned /\ case \notin wrote
  BY <1>1 DEF EvaluationInv, BeforeCall, Shape
<1>3. /\ Children' = Children \cup {case}
      /\ process' \in [Children' -> ProcessStates]
      /\ process'[case] = "running"
      /\ \A j \in Children : process'[j] = process[j]
  BY <1>1, <1>2 DEF EvaluationInv, Shape, ProcessStates, Children
<1>4. case' = case
  BY <1>1 DEF case
<1>5. Shape'
  <2>1. Children' \cup returned' \subseteq 1 .. case'
    BY <1>1, <1>3, <1>4, CaseNumbers DEF EvaluationInv, Shape, case
  <2>2. control' \in Controls /\ elapsed' \in Nat
    BY <1>1 DEF Controls, InCall
  <2> QED BY <1>1, <1>3, <2>1, <2>2 DEF EvaluationInv, Shape
<1>6. DoneIsTrue' /\ OwnResults'
  BY <1>1, <1>3, FinishedCasesKeep, CaseNumbers DEF EvaluationInv
<1>7. BeforeCall' /\ AfterCall' /\ Fresh'
  BY <1>1, <1>2, <1>4 DEF BeforeCall, AfterCall, Fresh
<1>8. DuringCall'
  BY <1>1, <1>2, <1>3, <1>4 DEF EvaluationInv, DuringCall, InCall
<1> QED BY <1>5, <1>6, <1>7, <1>8 DEF EvaluationInv

(* A script is started with system(), or it goes on.                       *)
LEMMA UnmonitoredKeeps ==
  EvaluationInv /\ (StartUnmonitored \/ UnmonitoredTick) => EvaluationInv'
<1> SUFFICES ASSUME EvaluationInv, StartUnmonitored \/ UnmonitoredTick
             PROVE  EvaluationInv'
  OBVIOUS
<1> USE DEF cases, directory
<1>1. /\ control \in {"idle", "unmonitored"} /\ control' = "unmonitored"
      /\ elapsed' \in Nat
      /\ UNCHANGED <<process, returned, pid, result, setting, evals, values,
                     times, files, wrote>>
  BY DEF StartUnmonitored, UnmonitoredTick, EvaluationInv, Shape
<1>2. Shape'
  BY <1>1 DEF EvaluationInv, Shape, case, Children, Controls
<1>3. DoneIsTrue' /\ OwnResults'
  BY <1>1, FinishedCasesKeep DEF Children
<1>4. BeforeCall' /\ AfterCall' /\ Fresh'
  BY <1>1 DEF EvaluationInv, BeforeCall, AfterCall, Fresh, case, Children
<1>5. DuringCall'
  BY <1>1 DEF EvaluationInv, DuringCall, Children, InCall
<1> QED BY <1>2, <1>3, <1>4, <1>5 DEF EvaluationInv

(* A script that was started with system() ends.                           *)
LEMMA UnmonitoredEndKeeps == EvaluationInv /\ UnmonitoredEnds => EvaluationInv'
<1> SUFFICES ASSUME EvaluationInv, UnmonitoredEnds PROVE EvaluationInv'
  OBVIOUS
<1> USE DEF cases, directory
<1>1. /\ control = "unmonitored" /\ control' = "returned" /\ result' = TRUE
      /\ returned' = returned \cup {case}
      /\ \/ files' = case /\ wrote' = wrote \cup {case}
         \/ files' = files /\ wrote' = wrote
      /\ UNCHANGED <<process, pid, elapsed, setting, evals, values, times>>
  BY DEF UnmonitoredEnds, Return, Written
<1>2. case \notin Children \cup returned /\ case \notin wrote /\ case' = case
  BY <1>1 DEF EvaluationInv, BeforeCall, Shape, case
<1>3. Shape'
  <2>1. files' \in Int /\ wrote' \subseteq returned'
    BY <1>1, CaseNumbers DEF EvaluationInv, Shape
  <2>2. Children' \cup returned' \subseteq 1 .. case'
    BY <1>1, <1>2, CaseNumbers DEF EvaluationInv, Shape, Children, case
  <2>3. control' \in Controls /\ result' \in BOOLEAN
    BY <1>1 DEF Controls
  <2> QED BY <1>1, <2>1, <2>2, <2>3 DEF EvaluationInv, Shape, Children
<1>4. DoneIsTrue' /\ OwnResults'
  BY <1>1, FinishedCasesKeep, CaseNumbers DEF Children, EvaluationInv
<1>5. BeforeCall' /\ AfterCall' /\ Fresh'
  BY <1>1, <1>2 DEF BeforeCall, AfterCall, Fresh, Children
<1>6. DuringCall'
  BY <1>1 DEF EvaluationInv, DuringCall, Children, InCall
<1> QED BY <1>3, <1>4, <1>5, <1>6 DEF EvaluationInv

--------------------------------------------------------------------------------
(* The next case starts from scratch, whatever became of the last one.     *)
LEMMA FinishKeepsShape ==
  ASSUME EvaluationInv, control \in {"idle", "returned"},
         NEW e \in Outcomes, NEW x \in Int, Finish(e, x), times' \in Seq(Nat)
  PROVE  /\ Shape' /\ BeforeCall' /\ DuringCall' /\ AfterCall' /\ Fresh'
         /\ DOMAIN evals' = DOMAIN evals \cup {case}
         /\ evals'[case] = e /\ values'[case] = x
         /\ \A k \in DOMAIN evals : evals'[k] = evals[k] /\ values'[k] = values[k]
<1> USE DEF directory
<1>1. /\ control' = "idle" /\ evals' = Append(evals, e) /\ values' = Append(values, x)
      /\ UNCHANGED <<process, returned, pid, elapsed, result, setting, files, wrote>>
  BY DEF Finish
<1>2. /\ evals' \in Seq(Outcomes) /\ values' \in Seq(Int)
      /\ Len(evals') = Len(evals) + 1 /\ Len(values') = Len(evals')
      /\ evals'[case] = e /\ values'[case] = x
      /\ \A k \in DOMAIN evals : evals'[k] = evals[k] /\ values'[k] = values[k]
  BY <1>1 DEF EvaluationInv, Shape, case
<1>3. case' = case + 1 /\ case \in Nat
  BY <1>2, CaseNumbers DEF case, EvaluationInv
<1>4. DOMAIN evals' = DOMAIN evals \cup {case}
  BY <1>2 DEF EvaluationInv, Shape, case
<1>5. Shape'
  <2>1. Children' \cup returned' \subseteq 1 .. case'
    BY <1>1, <1>3 DEF EvaluationInv, Shape, Children
  <2>2. control' \in Controls
    BY <1>1 DEF Controls
  <2> QED BY <1>1, <1>2, <2>1, <2>2 DEF EvaluationInv, Shape, Children
<1>6. BeforeCall' /\ AfterCall' /\ Fresh'
  BY <1>1, <1>3 DEF EvaluationInv, Shape, BeforeCall, AfterCall, Fresh, Children
<1>7. DuringCall'
  BY <1>1 DEF EvaluationInv, DuringCall, Children, InCall
<1> QED BY <1>2, <1>4, <1>5, <1>6, <1>7

(* A case that is not done has no outcome to be true.                      *)
LEMMA FailureKeeps ==
  EvaluationInv /\ (InvalidCase \/ RecordInvalid \/ RecordTimeout) => EvaluationInv'
<1> SUFFICES ASSUME EvaluationInv, InvalidCase \/ RecordInvalid \/ RecordTimeout
             PROVE  EvaluationInv'
  OBVIOUS
<1>1. PICK e \in {"E_FAILED", "E_TIMEOUT"} : Finish(e, None)
  BY DEF InvalidCase, RecordInvalid, RecordTimeout
<1>2. control \in {"idle", "returned"} /\ times' = times
  BY DEF InvalidCase, RecordInvalid, RecordTimeout
<1>3. e \in Outcomes /\ None \in Int /\ times' \in Seq(Nat)
  BY <1>2 DEF EvaluationInv, Shape, Outcomes, None
<1>4. /\ Shape' /\ BeforeCall' /\ DuringCall' /\ AfterCall' /\ Fresh'
      /\ DOMAIN evals' = DOMAIN evals \cup {case}
      /\ evals'[case] = e /\ values'[case] = None
      /\ \A k \in DOMAIN evals : evals'[k] = evals[k] /\ values'[k] = values[k]
  BY <1>1, <1>2, <1>3, FinishKeepsShape
<1>5. UNCHANGED <<process, returned, setting, wrote>>
  BY <1>1 DEF Finish, directory
<1>6. Done' = Done
  BY <1>1, <1>4, CaseNumbers DEF Done, EvaluationInv
<1>7. DoneIsTrue'
  BY <1>1, <1>2, <1>4, <1>5, <1>6 DEF EvaluationInv, DoneIsTrue, Children, Done
<1>8. OwnResults'
  BY <1>1, <1>4, <1>5 DEF EvaluationInv, OwnResults
<1> QED BY <1>4, <1>7, <1>8 DEF EvaluationInv

(* A case is done when its script has ended, and has its own results.      *)
LEMMA SuccessKeeps == EvaluationInv /\ RecordSuccess => EvaluationInv'
<1> SUFFICES ASSUME EvaluationInv, RecordSuccess PROVE EvaluationInv'
  OBVIOUS
<1>1. /\ control = "returned" /\ result = TRUE
      /\ times' = Append(times, elapsed) /\ Finish("E_DONE", files)
  BY DEF RecordSuccess, EvaluationInv, Shape
<1>2. /\ times' \in Seq(Nat) /\ Len(times') = Len(times) + 1 /\ Len(times) \in Nat
      /\ files \in Int /\ "E_DONE" \in Outcomes
  BY <1>1 DEF EvaluationInv, Shape, Outcomes
<1>3. /\ Shape' /\ BeforeCall' /\ DuringCall' /\ AfterCall' /\ Fresh'
      /\ DOMAIN evals' = DOMAIN evals \cup {case}
      /\ evals'[case] = "E_DONE" /\ values'[case] = files
      /\ \A k \in DOMAIN evals : evals'[k] = evals[k] /\ values'[k] = values[k]
  BY <1>1, <1>2, FinishKeepsShape
<1>4. UNCHANGED <<process, returned, setting, wrote>>
  BY <1>1 DEF Finish, directory
<1>5. case \in returned /\ (case \in Children => process[case] = "reaped")
  BY <1>1 DEF EvaluationInv, AfterCall
<1>6. DoneIsTrue'
  <2>1. Done' = Done \cup {case} /\ case \notin Done
    BY <1>3, CaseNumbers DEF Done, EvaluationInv
  <2>2. IsFiniteSet(Done)
    <3>1. IsFiniteSet(1 .. (case - 1)) /\ Done \subseteq 1 .. (case - 1)
      BY FS_Interval, CaseNumbers DEF Done, EvaluationInv
    <3> QED BY <3>1, FS_Subset
  <2>3. Cardinality(Done') = Cardinality(Done) + 1
    BY <2>1, <2>2, FS_AddElement
  <2>4. Len(times') = Cardinality(Done')
    BY <1>2, <2>3 DEF EvaluationInv, DoneIsTrue, Done
  <2>5. \A k \in DOMAIN evals' : evals'[k] = "E_DONE" =>
           k \in returned' /\ (k \in Children' => process'[k] = "reaped")
    BY <1>3, <1>4, <1>5 DEF EvaluationInv, DoneIsTrue, Children
  <2> QED BY <2>4, <2>5 DEF DoneIsTrue, Done
<1>7. OwnResults'
  BY <1>1, <1>3, <1>4 DEF EvaluationInv, OwnResults, Fresh
<1> QED BY <1>3, <1>6, <1>7 DEF EvaluationInv

--------------------------------------------------------------------------------
(* The steps of a call, each of one of the two kinds above.                *)
LEMMA CallKeeps == EvaluationInv /\ MonitorNext => EvaluationInv'
<1> SUFFICES ASSUME EvaluationInv, CallNext, UNCHANGED <<setting, cases, directory>>
             PROVE  EvaluationInv'
  BY DEF MonitorNext
<1>1. CASE Tick \/ TakeSignal \/ TimeOut \/ Interrupt
  <2>1. /\ control = "wait" /\ control' \in InCall
        /\ UNCHANGED <<process, returned, pid, result>>
    BY <1>1 DEF Tick, TakeSignal, TimeOut, Interrupt, InCall
  <2>2. control \in InCall
    BY <2>1 DEF InCall
  <2>3. elapsed' \in Nat
    BY <1>1 DEF Tick, TakeSignal, TimeOut, Interrupt, EvaluationInv, Shape
  <2> QED BY <2>1, <2>2, <2>3, WaitingKeeps
<1>2. CASE CheckChild \/ AfterSignal \/ AfterTimeout \/ AfterInterrupt
  <2>1. control \in InCall /\ UNCHANGED <<returned, pid, elapsed>>
    BY <1>2 DEF CheckChild, AfterSignal, AfterTimeout, AfterInterrupt, InCall
  <2>2. PICK b \in BOOLEAN :
          /\ IsPidRunning(b)
          /\ b => control' \in {"wait", "check", "kill"} /\ result' = result
          /\ ~b => control' = "returned" /\ result' \in BOOLEAN
    BY <1>2 DEF CheckChild, AfterSignal, AfterTimeout, AfterInterrupt, Return
  <2>3. b => control' \in InCall
    BY <2>2 DEF InCall
  <2> QED BY <2>1, <2>2, <2>3, PollingKeeps
<1> QED BY <1>1, <1>2 DEF CallNext

LEMMA StepKeeps == EvaluationInv /\ [EvaluationNext]_evaluationVars => EvaluationInv'
<1> SUFFICES ASSUME EvaluationInv, [EvaluationNext]_evaluationVars
             PROVE  EvaluationInv'
  OBVIOUS
<1>1. CASE UNCHANGED evaluationVars
  <2>1. UNCHANGED <<process, returned, control, pid, elapsed, result, setting,
                    evals, values, times, files, wrote>>
    BY <1>1 DEF evaluationVars, executionVars, callVars, cases, directory
  <2>2. Shape' /\ BeforeCall' /\ DuringCall'
    BY <2>1 DEF EvaluationInv, Shape, BeforeCall, DuringCall, case, Children
  <2>3. AfterCall' /\ Fresh' /\ DoneIsTrue' /\ OwnResults'
    BY <2>1 DEF EvaluationInv, AfterCall, Fresh, DoneIsTrue, OwnResults,
       case, Children
  <2> QED BY <2>2, <2>3 DEF EvaluationInv
<1>2. CASE RunnerNext
  BY <1>2, FailureKeeps, SuccessKeeps, StartMonitoredKeeps, UnmonitoredKeeps,
     UnmonitoredEndKeeps, KillKeeps DEF RunnerNext
<1>3. CASE MonitorNext \/ UnmonitoredTick
  BY <1>3, CallKeeps, UnmonitoredKeeps
<1>4. CASE \E k \in Children : ChildEnds(k) \/ ChildDies(k) \/ OrphanWrites(k)
  BY <1>4, EndKeeps, DeathKeeps, OrphanKeeps
<1> QED BY <1>1, <1>2, <1>3, <1>4 DEF EvaluationNext

LEMMA Invariance == EvaluationSpec => []EvaluationInv
BY InitEstablishes, StepKeeps, PTL DEF EvaluationSpec

(* SIGKILL is sent to the child of the call only, which nobody has waited  *)
(* for since is_pid_running was asked.                                     *)
THEOREM KillsOwnChildCorrect == EvaluationSpec => []KillsOwnChild
<1>1. EvaluationInv => KillsOwnChild
  BY DEF EvaluationInv, DuringCall, KillsOwnChild, InCall
<1> QED BY <1>1, Invariance, PTL

(* A case whose simulation wrote its results is not given those of another *)
(* one, however many failed or were killed before it.                      *)
THEOREM OwnResultsCorrect == EvaluationSpec => []OwnResults
<1>1. EvaluationInv => OwnResults
  BY DEF EvaluationInv
<1> QED BY <1>1, Invariance, PTL

--------------------------------------------------------------------------------
(* Every set of natural numbers has a least element.                       *)
LEMMA LeastNumber ==
  ASSUME NEW T \in SUBSET Nat, T # {}
  PROVE  \E x \in T : \A y \in T : x <= y
<1>1. PICK x \in T : \A y \in T : <<y, x>> \notin OpToRel(<, Nat)
  BY WFMin, NatLessThanWellFounded, Zenon
<1>2. \A y \in T : ~(y < x)
  BY <1>1, Zenon DEF OpToRel
<1> QED BY <1>2

(* The positions of a list that hold at most, or less than, a value.       *)
UpTo(list, v) == {i \in DOMAIN list : list[i] <= v}
Below(list, v) == {i \in DOMAIN list : list[i] < v}

LEMMA PositionsCounted ==
  ASSUME NEW list \in Seq(Nat), NEW I \in SUBSET DOMAIN list
  PROVE  /\ IsFiniteSet(I) /\ Cardinality(I) \in Nat
         /\ I = DOMAIN list => Cardinality(I) = Len(list)
<1>1. DOMAIN list = 1 .. Len(list) /\ Len(list) \in Nat
  OBVIOUS
<1>2. IsFiniteSet(DOMAIN list) /\ Cardinality(DOMAIN list) = Len(list)
  <2>1. Cardinality(1 .. Len(list)) = IF 1 > Len(list) THEN 0 ELSE Len(list) - 1 + 1
    BY <1>1, FS_Interval
  <2>2. IsFiniteSet(1 .. Len(list))
    BY <1>1, FS_Interval
  <2> QED BY <1>1, <2>1, <2>2
<1> QED BY <1>2, FS_Subset, FS_CardinalityType

(* A list that is not empty has a greatest element: one with the least     *)
(* number of greater ones.                                                 *)
LEMMA GreatestElement ==
  ASSUME NEW list \in Seq(Nat), list # <<>>
  PROVE  \E i \in DOMAIN list : UpTo(list, list[i]) = DOMAIN list
<1> DEFINE Above(i) == {j \in DOMAIN list : list[j] > list[i]}
           Counts == {Cardinality(Above(i)) : i \in DOMAIN list}
<1>1. \A i \in DOMAIN list : list[i] \in Nat
  OBVIOUS
<1>2. \A i \in DOMAIN list :
         IsFiniteSet(Above(i)) /\ Cardinality(Above(i)) \in Nat
  BY PositionsCounted
<1>3. Counts \in SUBSET Nat /\ Counts # {}
  <2>1. Len(list) # 0 /\ Len(list) \in Nat /\ DOMAIN list = 1 .. Len(list)
    BY EmptySeq
  <2>2. 1 \in DOMAIN list
    BY <2>1
  <2>3. Counts \subseteq Nat
    BY <1>2
  <2> QED BY <2>2, <2>3
<1> HIDE DEF Counts
<1>4. PICK n \in Counts : \A m \in Counts : n <= m
  BY <1>3, LeastNumber
<1>5. PICK i \in DOMAIN list : n = Cardinality(Above(i))
  BY DEF Counts
<1>6. ASSUME NEW j \in Above(i) PROVE FALSE
  <2>1. Above(j) \subseteq Above(i) /\ j \notin Above(j)
    BY <1>1
  <2>2. Cardinality(Above(j)) < Cardinality(Above(i))
    <3>1. Above(i) # Above(j) /\ IsFiniteSet(Above(i))
      BY <1>2, <1>6, <2>1
    <3>2. Cardinality(Above(i)) \in Nat /\ Cardinality(Above(j)) \in Nat
      BY <1>2, <1>6
    <3> HIDE DEF Above
    <3>3. /\ Cardinality(Above(j)) <= Cardinality(Above(i))
          /\ Cardinality(Above(j)) # Cardinality(Above(i))
      BY <2>1, <3>1, FS_Subset
    <3> QED BY <3>2, <3>3
  <2>3. Cardinality(Above(j)) \in Counts
    BY DEF Counts
  <2>4. Cardinality(Above(i)) \in Nat /\ Cardinality(Above(j)) \in Nat
    BY <1>2, <1>6
  <2>5. Cardinality(Above(i)) <= Cardinality(Above(j))
    BY <1>4, <1>5, <2>3
  <2> HIDE DEF Above
  <2> QED BY <2>2, <2>4, <2>5
<1>7. \A j \in DOMAIN list : list[j] <= list[i]
  BY <1>1, <1>6
<1>8. UpTo(list, list[i]) = DOMAIN list
  BY <1>7 DEF UpTo
<1> QED BY <1>8

(* There is a k-th smallest element.                                       *)
LEMMA RankedInList ==
  ASSUME NEW list \in Seq(Nat), NEW k \in 1 .. Len(list)
  PROVE  \E i \in DOMAIN list : Ranked(list, k) = list[i]
<1> DEFINE Elements == {list[i] : i \in DOMAIN list}
           Enough == {v \in Elements : Cardinality(UpTo(list, v)) >= k}
<1>1. /\ Elements \subseteq Nat /\ Len(list) \in Nat /\ list # <<>>
      /\ \A i \in DOMAIN list : list[i] \in Nat
  OBVIOUS
<1>2. Enough # {}
  <2>1. PICK i \in DOMAIN list : UpTo(list, list[i]) = DOMAIN list
    BY <1>1, GreatestElement
  <2>2. Cardinality(DOMAIN list) = Len(list) /\ Len(list) >= k
    BY PositionsCounted
  <2> QED BY <2>1, <2>2
<1>3. PICK v \in Enough : \A u \in Enough : v <= u
  BY <1>1, <1>2, LeastNumber
<1>4. Cardinality(Below(list, v)) < k
  <2>1. CASE Below(list, v) = {}
    BY <2>1, FS_EmptySet
  <2>2. CASE Below(list, v) # {}
    <3>. DEFINE T == {x \in Nat : \E i \in Below(list, v) : x = v - list[i]}
    <3>1. \A i \in Below(list, v) : v - list[i] \in T
      BY <1>1, <1>3 DEF Below
    <3>2. PICK x \in T : \A y \in T : x <= y
      BY <2>2, <3>1, LeastNumber
    <3>3. PICK i \in Below(list, v) : x = v - list[i]
      OBVIOUS
    <3>4. \A j \in Below(list, v) : list[j] <= list[i]
      <4>1. v \in Nat /\ \A j \in Below(list, v) : list[j] \in Nat
        BY <1>1, <1>3 DEF Below
      <4>2. \A j \in Below(list, v) : v - list[i] <= v - list[j]
        BY <3>1, <3>2, <3>3
      <4> HIDE DEF Enough, T
      <4> QED BY <4>1, <4>2
    <3>5. Below(list, v) \subseteq UpTo(list, list[i])
      BY <3>4 DEF Below, UpTo
    <3>6. list[i] \in Elements /\ list[i] < v /\ v \in Nat
      BY <1>1, <1>3 DEF Below
    <3>7. list[i] \notin Enough
      <4>1. list[i] \in Enough => v <= list[i]
        BY <1>3
      <4>2. list[i] \in Nat
        BY <1>1, <3>3 DEF Below
      <4> HIDE DEF Enough
      <4> QED BY <3>6, <4>1, <4>2
    <3>8. Cardinality(UpTo(list, list[i])) < k
      <4>1. Cardinality(UpTo(list, list[i])) \in Nat /\ k \in Nat
        BY PositionsCounted DEF UpTo
      <4>2. ~(Cardinality(UpTo(list, list[i])) >= k)
        BY <3>6, <3>7
      <4> HIDE DEF T, Enough
      <4> QED BY <4>1, <4>2
    <3>9. /\ IsFiniteSet(UpTo(list, list[i]))
          /\ Cardinality(UpTo(list, list[i])) \in Nat
          /\ Cardinality(Below(list, v)) \in Nat
      BY PositionsCounted DEF UpTo, Below
    <3> QED BY <3>5, <3>8, <3>9, FS_Subset
  <2> QED BY <2>1, <2>2
<1>5. /\ v \in Elements
      /\ Cardinality({i \in DOMAIN list : list[i] < v}) < k
      /\ Cardinality({i \in DOMAIN list : list[i] <= v}) >= k
  BY <1>3, <1>4 DEF UpTo, Below
<1>6. Ranked(list, k) \in Elements
  BY <1>5 DEF Ranked
<1> QED BY <1>6

(* A median of times is a time.                                            *)
LEMMA MedianIsNumber ==
  ASSUME NEW list \in Seq(Nat), list # <<>>
  PROVE  calc_median(list) \in Nat
<1>1. Len(list) \in Nat \ {0}
  OBVIOUS
<1>2. \A k \in 1 .. Len(list) : Ranked(list, k) \in Nat
  BY RankedInList
<1>3. CASE Len(list) % 2 = 0
  <2>1. /\ Len(list) \div 2 \in 1 .. Len(list)
        /\ Len(list) \div 2 + 1 \in 1 .. Len(list)
    BY <1>1, <1>3
  <2>2. \A a, b \in Nat : (a + b) \div 2 \in Nat
    OBVIOUS
  <2> QED BY <1>2, <1>3, <2>1, <2>2 DEF calc_median
<1>4. CASE Len(list) % 2 # 0
  <2>1. Len(list) \div 2 + 1 \in 1 .. Len(list)
    BY <1>1, <1>4
  <2> QED BY <1>2, <1>4, <2>1 DEF calc_median
<1> QED BY <1>3, <1>4

--------------------------------------------------------------------------------
(* The domains that the invariant above does not need.                     *)
Typing ==
  /\ signal \in BOOLEAN
  /\ pid \in 0 .. case /\ limit \in Nat /\ waited \in Nat
  /\ setting \in Settings
  /\ Len(evals) <= NumCases
  /\ control # "idle" => case <= NumCases
  /\ values \in Seq(None .. NumCases) /\ files \in None .. NumCases

LEMMA TimeoutValueIsNumber ==
  ASSUME Shape, setting \in Settings
  PROVE  timeoutValue \in Nat
<1>1. DefaultTimeout \in Nat /\ setting.timeout \in Nat
  BY TimesAssumption, SettingsAssumption
<1>2. CASE NoNormalTimeout
  BY <1>1, <1>2 DEF timeoutValue
<1>3. CASE ~NoNormalTimeout
  <2>1. calc_median(times) \in Nat
    BY <1>3, MedianIsNumber DEF NoNormalTimeout, Shape
  <2>2. \A a, b \in Nat : a * b \in Nat
    OBVIOUS
  <2> QED BY <1>1, <1>3, <2>1, <2>2 DEF timeoutValue
<1> QED BY <1>2, <1>3

(* Every timeout is one the wait may be called with, though realizations   *)
(* at a worker may be asked for -1.                                        *)
LEMMA TimeoutIsNumber ==
  ASSUME Shape, setting \in Settings
  PROVE  AtLeastShortest(RequestedTimeout) \in Nat
<1>1. ShortestTimeout \in Nat /\ setting.max \in Int
  BY TimesAssumption, SettingsAssumption
<1>2. RequestedTimeout \in Int
  BY <1>1, TimeoutValueIsNumber DEF RequestedTimeout
<1> QED BY <1>1, <1>2 DEF AtLeastShortest

(* No child is there, and nothing has returned, for a case that is not.    *)
LEMMA ChildNumbers ==
  ASSUME EvaluationInv, Typing
  PROVE  Children \cup returned \subseteq 1 .. NumCases
<1>1. Children \cup returned \subseteq 1 .. case /\ case \in Nat
  BY CaseNumbers DEF EvaluationInv, Shape
<1>2. NumCases \in Nat
  BY TimesAssumption
<1>3. CASE control = "idle"
  <2>1. case \notin Children \cup returned /\ case <= NumCases + 1
    BY <1>2, <1>3 DEF EvaluationInv, Shape, BeforeCall, Typing, case
  <2> QED BY <1>1, <1>2, <2>1
<1>4. CASE control # "idle"
  BY <1>1, <1>2, <1>4 DEF Typing
<1> QED BY <1>3, <1>4

LEMMA TypingImpliesType == EvaluationInv /\ Typing => EvaluationTypeOK
<1> SUFFICES ASSUME EvaluationInv, Typing PROVE EvaluationTypeOK
  OBVIOUS
<1>1. \A k \in Children : process[k] = "running" => k = pid /\ control \in InCall
  BY DEF EvaluationInv, DuringCall
<1> QED BY <1>1 DEF EvaluationInv, Shape, Typing, EvaluationTypeOK, Outcomes

(* A case is started only if there is one, and counted when it is through. *)
LEMMA FinishKeepsTyping ==
  ASSUME EvaluationInv, Typing, NEW e \in Outcomes, NEW x \in None .. NumCases,
         Finish(e, x), case <= NumCases, signal' \in BOOLEAN
  PROVE  Typing'
<1>1. /\ control' = "idle" /\ evals' = Append(evals, e) /\ values' = Append(values, x)
      /\ UNCHANGED <<pid, limit, waited, setting, files>>
  BY DEF Finish, directory
<1>2. /\ Len(evals') = case /\ case \in Nat /\ case' = case + 1
      /\ values' \in Seq(None .. NumCases)
  BY <1>1, CaseNumbers DEF EvaluationInv, Shape, case, Typing
<1>3. pid' \in 0 .. case'
  BY <1>1, <1>2 DEF Typing
<1> QED BY <1>1, <1>2, <1>3 DEF Typing

(* The steps between two cases.                                            *)
LEMMA CallKeepsTyping ==
  ASSUME EvaluationInv, Typing,
         UNCHANGED <<evals, values, setting>>,
         control # "idle" \/ case <= NumCases,
         signal' \in BOOLEAN, waited' \in Nat,
         \/ UNCHANGED <<pid, limit>>
         \/ pid' = case /\ limit' = AtLeastShortest(RequestedTimeout),
         files' \in {files, pid, case} \cup Children
  PROVE  Typing'
<1>1. case' = case /\ case \in Nat /\ case >= 1 /\ case <= NumCases
      /\ NumCases \in Nat
  BY TimesAssumption DEF case, Typing, EvaluationInv, Shape
<1>2. pid' \in 0 .. case' /\ limit' \in Nat
  BY <1>1, TimeoutIsNumber DEF EvaluationInv, Typing
<1>3. files' \in None .. NumCases
  <2>1. Children \subseteq 1 .. NumCases
    BY ChildNumbers
  <2>2. files \in -1 .. NumCases /\ pid \in 0 .. NumCases /\ case \in 1 .. NumCases
    BY <1>1 DEF Typing, None
  <2> QED BY <1>1, <2>1, <2>2 DEF None
<1> QED BY <1>1, <1>2, <1>3 DEF Typing

LEMMA StepKeepsTyping ==
  EvaluationInv /\ Typing /\ [EvaluationNext]_evaluationVars => Typing'
<1> SUFFICES ASSUME EvaluationInv, Typing, [EvaluationNext]_evaluationVars
             PROVE  Typing'
  OBVIOUS
<1> USE DEF cases, directory
<1>1. CASE UNCHANGED evaluationVars
  <2>1. UNCHANGED <<signal, control, pid, limit, waited, setting, evals, values, files>>
    BY <1>1 DEF evaluationVars, executionVars, callVars
  <2> QED BY <2>1 DEF Typing, case
<1>2. CASE InvalidCase \/ RecordInvalid \/ RecordTimeout
  <2>1. PICK e \in {"E_FAILED", "E_TIMEOUT"} : Finish(e, None)
    BY <1>2 DEF InvalidCase, RecordInvalid, RecordTimeout
  <2>2. e \in Outcomes /\ None \in None .. NumCases
    BY TimesAssumption DEF Outcomes, None
  <2>3. case <= NumCases /\ signal' = signal
    BY <1>2 DEF InvalidCase, RecordInvalid, RecordTimeout, Typing
  <2>4. signal' \in BOOLEAN
    BY <2>3 DEF Typing
  <2> QED BY <2>1, <2>2, <2>3, <2>4, FinishKeepsTyping
<1>3. CASE RecordSuccess
  <2>1. /\ Finish("E_DONE", files) /\ control = "returned"
        /\ signal' \in {signal} \cup (IF Children # {} THEN {TRUE} ELSE {})
    BY <1>3 DEF RecordSuccess
  <2>2. /\ "E_DONE" \in Outcomes /\ files \in None .. NumCases
        /\ case <= NumCases /\ signal' \in BOOLEAN
    BY <2>1 DEF Outcomes, Typing
  <2> QED BY <2>1, <2>2, FinishKeepsTyping
<1>4. CASE StartMonitored
  <2>1. /\ UNCHANGED <<evals, values, setting, files, signal>> /\ case <= NumCases
        /\ pid' = case /\ limit' = AtLeastShortest(RequestedTimeout) /\ waited' = 0
    BY <1>4 DEF StartMonitored, Fork
  <2> QED BY <2>1, CallKeepsTyping DEF Typing
<1>5. CASE StartUnmonitored \/ UnmonitoredTick
  <2>1. /\ UNCHANGED <<evals, values, setting, files, signal, pid, limit, waited>>
        /\ control # "idle" \/ case <= NumCases
    BY <1>5 DEF StartUnmonitored, UnmonitoredTick
  <2> QED BY <2>1, CallKeepsTyping DEF Typing
<1>6. CASE UnmonitoredEnds
  <2>1. /\ UNCHANGED <<evals, values, setting, signal, pid, limit, waited>>
        /\ control # "idle" /\ files' \in {files, case}
    BY <1>6 DEF UnmonitoredEnds, Written
  <2> QED BY <2>1, CallKeepsTyping DEF Typing
<1>7. CASE KillSimulation
  <2>1. /\ UNCHANGED <<evals, values, setting, signal, pid, limit, waited>>
        /\ control # "idle" /\ files' \in {files, pid}
    BY <1>7 DEF KillSimulation, KillChild
  <2> QED BY <2>1, CallKeepsTyping DEF Typing
<1>8. CASE MonitorNext
  <2>1. /\ UNCHANGED <<evals, values, setting, files, pid, limit>>
        /\ control # "idle" /\ signal' \in {signal, FALSE}
        /\ waited' \in {waited, waited + 1, 0}
    BY <1>8 DEF MonitorNext, CallNext, CheckChild, Tick, TakeSignal, TimeOut,
       Interrupt, AfterSignal, AfterTimeout, AfterInterrupt
  <2>2. signal' \in BOOLEAN
    BY <2>1 DEF Typing
  <2>3. waited' \in Nat
    BY <2>1 DEF Typing
  <2> QED BY <2>1, <2>2, <2>3, CallKeepsTyping
<1>9. ASSUME NEW k \in Children, ChildEnds(k) \/ ChildDies(k) \/ OrphanWrites(k)
      PROVE  Typing'
  <2>1. /\ UNCHANGED <<evals, values, setting, control, pid, limit, waited>>
        /\ signal' \in {signal, TRUE} /\ files' \in {files, k}
    BY <1>9 DEF ChildEnds, ScriptEnds, Written, ChildDies, KilledChildDies,
       OrphanWrites, executionVars, callVars
  <2>2. case' = case /\ files' \in None .. NumCases
    <3>1. k \in 1 .. NumCases
      BY ChildNumbers
    <3> QED BY <2>1, <3>1, TimesAssumption DEF Typing, case, None
  <2>3. signal' \in BOOLEAN
    BY <2>1 DEF Typing
  <2>4. pid' \in 0 .. case' /\ limit' \in Nat /\ waited' \in Nat /\ setting' \in Settings
    BY <2>1, <2>2 DEF Typing
  <2>5. /\ Len(evals') <= NumCases /\ (control' # "idle" => case' <= NumCases)
        /\ values' \in Seq(None .. NumCases)
    BY <2>1, <2>2 DEF Typing
  <2> QED BY <2>2, <2>3, <2>4, <2>5 DEF Typing
<1> QED BY <1>1, <1>2, <1>3, <1>4, <1>5, <1>6, <1>7, <1>8, <1>9
        DEF EvaluationNext, RunnerNext

LEMMA TypingInvariance == EvaluationSpec => [](EvaluationInv /\ Typing)
<1>1. EvaluationInit => Typing
  <2> SUFFICES ASSUME EvaluationInit PROVE Typing
    OBVIOUS
  <2>1. evals = <<>> /\ values = <<>> /\ Len(evals) = 0 /\ case = 1
    BY DEF EvaluationInit, case
  <2>2. files \in None .. NumCases
    BY TimesAssumption DEF EvaluationInit, None
  <2>3. values \in Seq(None .. NumCases)
    BY <2>1
  <2>4. /\ signal \in BOOLEAN /\ pid = 0 /\ limit = 0 /\ waited = 0
        /\ setting \in Settings /\ control = "idle"
    BY DEF EvaluationInit
  <2> QED BY <2>1, <2>2, <2>3, <2>4, TimesAssumption DEF Typing
<1> QED BY <1>1, Invariance, StepKeepsTyping, PTL DEF EvaluationSpec

(* Every variable stays in its domain; in particular there is a timeout to *)
(* wait for, whatever the runner asks for, and children and files belong   *)
(* to cases there are.                                                     *)
THEOREM EvaluationTypeCorrect == EvaluationSpec => []EvaluationTypeOK
BY TypingInvariance, TypingImpliesType, PTL

--------------------------------------------------------------------------------
(* Until its outcome is recorded, a call that has not returned true was    *)
(* given the timeout that its runner would ask for now: the recorded times *)
(* do not change during a call.                                            *)
Granted ==
  control \in InCall \/ (control = "returned" /\ ~result) =>
    limit = AtLeastShortest(RequestedTimeout)

(* The outcome of a case is recorded: only a serial run's comparison of    *)
(* the times makes it a timeout.                                           *)
LEMMA RecordKeepsTimeout ==
  ASSUME EvaluationInv, Typing, Granted, NEW e \in Outcomes, NEW x,
         Finish(e, x),
         setting.runner = "serial" /\ e = "E_TIMEOUT" =>
           control = "returned" /\ ~result /\ ~(elapsed < timeoutValue)
  PROVE  Granted' /\ TimeoutIsTrue'
<1>1. control' = "idle" /\ evals' = Append(evals, e)
      /\ UNCHANGED <<limit, elapsed, setting>>
  BY DEF Finish
<1>2. evals'[Len(evals')] = e
  BY <1>1 DEF EvaluationInv, Shape
<1>3. Granted'
  BY <1>1 DEF Granted, InCall
<1>4. ASSUME setting.runner = "serial", e = "E_TIMEOUT"
      PROVE  elapsed >= limit \/ limit = ShortestTimeout
  <2>1. timeoutValue \in Nat /\ elapsed \in Nat /\ ShortestTimeout \in Nat
    BY TimeoutValueIsNumber, TimesAssumption DEF EvaluationInv, Shape, Typing
  <2>2. elapsed >= timeoutValue
    BY <1>4, <2>1
  <2>3. limit = AtLeastShortest(timeoutValue)
    BY <1>4 DEF Granted, RequestedTimeout
  <2> QED BY <2>1, <2>2, <2>3 DEF AtLeastShortest
<1>5. TimeoutIsTrue'
  BY <1>1, <1>2, <1>4 DEF TimeoutIsTrue
<1> QED BY <1>3, <1>5

(* No other step ends a case.                                              *)
LEMMA StepKeepsTimeout ==
  EvaluationInv /\ Typing /\ Granted /\ TimeoutIsTrue
    /\ [EvaluationNext]_evaluationVars => Granted' /\ TimeoutIsTrue'
<1> SUFFICES ASSUME EvaluationInv, Typing, Granted, TimeoutIsTrue,
                    [EvaluationNext]_evaluationVars
             PROVE  Granted' /\ TimeoutIsTrue'
  OBVIOUS
<1> USE DEF cases, directory
<1>0. ASSUME UNCHANGED <<setting, times>>
      PROVE  RequestedTimeout' = RequestedTimeout
  BY <1>0 DEF RequestedTimeout, timeoutValue, NoNormalTimeout
<1>1. ASSUME UNCHANGED <<setting, times, evals, control, limit, elapsed, result>>
      PROVE  Granted' /\ TimeoutIsTrue'
  BY <1>0, <1>1 DEF Granted, TimeoutIsTrue, AtLeastShortest
<1>2. ASSUME UNCHANGED <<setting, times>>, control' # "idle",
             \/ UNCHANGED limit /\ control \in InCall
             \/ limit' = AtLeastShortest(RequestedTimeout)
             \/ control' = "unmonitored" \/ (control' = "returned" /\ result' = TRUE)
      PROVE  Granted' /\ TimeoutIsTrue'
  BY <1>0, <1>2 DEF Granted, TimeoutIsTrue, AtLeastShortest, InCall
<1>3. CASE UNCHANGED evaluationVars
  BY <1>1, <1>3 DEF evaluationVars, executionVars, callVars
<1>4. CASE InvalidCase \/ RecordInvalid
  <2>1. Finish("E_FAILED", None)
    BY <1>4 DEF InvalidCase, RecordInvalid
  <2> QED BY <2>1, RecordKeepsTimeout DEF Outcomes
<1>5. CASE RecordSuccess
  <2>1. Finish("E_DONE", files)
    BY <1>5 DEF RecordSuccess
  <2> QED BY <2>1, RecordKeepsTimeout DEF Outcomes
<1>6. CASE RecordTimeout
  <2> DEFINE e == IF setting.runner = "serial" /\ elapsed < timeoutValue
                    THEN "E_FAILED" ELSE "E_TIMEOUT"
  <2>1. Finish(e, None) /\ e \in Outcomes /\ control = "returned" /\ ~result
    BY <1>6 DEF RecordTimeout, Outcomes
  <2>2. setting.runner = "serial" /\ e = "E_TIMEOUT" => ~(elapsed < timeoutValue)
    OBVIOUS
  <2> HIDE DEF e
  <2> QED BY <2>1, <2>2, RecordKeepsTimeout
<1>7. CASE StartMonitored
  <2>1. UNCHANGED <<setting, times>> /\ control' = "check"
        /\ limit' = AtLeastShortest(RequestedTimeout)
    BY <1>7 DEF StartMonitored, Fork
  <2> QED BY <1>2, <2>1
<1>8. CASE StartUnmonitored \/ UnmonitoredTick
  <2>1. UNCHANGED <<setting, times>> /\ control' = "unmonitored"
    BY <1>8 DEF StartUnmonitored, UnmonitoredTick
  <2> QED BY <1>2, <2>1
<1>9. CASE UnmonitoredEnds
  <2>1. UNCHANGED <<setting, times>> /\ control' = "returned" /\ result' = TRUE
    BY <1>9 DEF UnmonitoredEnds, Return
  <2> QED BY <1>2, <2>1
<1>10. CASE KillSimulation \/ MonitorNext
  <2>1. UNCHANGED <<setting, times, limit>> /\ control \in InCall /\ control' # "idle"
    BY <1>10 DEF KillSimulation, KillChild, MonitorNext, CallNext, CheckChild, Tick,
       TakeSignal, TimeOut, Interrupt, AfterSignal, AfterTimeout, AfterInterrupt,
       Return, InCall
  <2> QED BY <1>2, <2>1
<1>11. ASSUME NEW k \in Children, ChildEnds(k) \/ ChildDies(k) \/ OrphanWrites(k)
       PROVE  Granted' /\ TimeoutIsTrue'
  BY <1>1, <1>11 DEF ChildEnds, ScriptEnds, ChildDies, KilledChildDies, OrphanWrites,
     executionVars, callVars
<1> QED BY <1>3, <1>4, <1>5, <1>6, <1>7, <1>8, <1>9, <1>10, <1>11
        DEF EvaluationNext, RunnerNext

(* A case is done only if its script ended by itself and was waited for,   *)
(* the times the timeouts are computed from are those of such cases, and a *)
(* case that a serial run takes for timed out ran for the time it was      *)
(* given.                                                                  *)
THEOREM OutcomeCorrect == EvaluationSpec => []OutcomeIsTrue
<1>1. EvaluationInit => Granted /\ TimeoutIsTrue
  BY DEF EvaluationInit, Granted, TimeoutIsTrue, InCall
<1>2. EvaluationInv /\ TimeoutIsTrue => OutcomeIsTrue
  BY DEF EvaluationInv, OutcomeIsTrue
<1> QED BY <1>1, <1>2, TypingInvariance, StepKeepsTimeout, PTL DEF EvaluationSpec

--------------------------------------------------------------------------------
(* Children that were killed before the call and have died: each may have  *)
(* interrupted a wait, and none of them will again once the signal is      *)
(* taken.                                                                  *)
Dead == {k \in KilledBefore : process[k] # "killed"}

(* The current wait adds at most its timeout to what the waits that were   *)
(* interrupted took; and as long as the child runs, a pending signal has   *)
(* been charged to a child that died.                                      *)
Timing ==
  control \in InCall =>
    /\ waited <= limit
    /\ elapsed <= limit * Cardinality(Dead) + waited
    /\ /\ process[pid] = "running"
       /\ control \in {"check", "signalled"} \/ (control = "wait" /\ signal)
       => elapsed <= limit * Cardinality(Dead)

(* A child is killed only if its script has not ended.                     *)
KilledUnreturned ==
  \A k \in Children : process[k] = "killed" => k \notin returned

LEMMA ScaledNumbers ==
  ASSUME NEW l \in Nat, NEW d \in Nat, NEW e \in Nat, d <= e
  PROVE  /\ l * d \in Nat /\ l * e \in Nat /\ l * d <= l * e
         /\ l * (1 + d) = l * d + l
<1>1. \A a, b \in Nat : a * b \in Nat
  OBVIOUS
<1>2. l * (1 + d) = l * d + l
  OBVIOUS
<1>3. e - d \in Nat /\ l * e = l * d + l * (e - d)
  OBVIOUS
<1>4. l * d \in Nat /\ l * e \in Nat /\ l * (e - d) \in Nat
  BY <1>1, <1>3
<1> QED BY <1>2, <1>3, <1>4

LEMMA DeadCounted ==
  ASSUME EvaluationInv
  PROVE  /\ IsFiniteSet(KilledBefore) /\ IsFiniteSet(Dead)
         /\ Cardinality(Dead) \in Nat /\ Cardinality(KilledBefore) \in Nat
         /\ Cardinality(Dead) <= Cardinality(KilledBefore)
<1>1. case \in Nat /\ KilledBefore \subseteq 1 .. case /\ Dead \subseteq KilledBefore
  BY CaseNumbers DEF EvaluationInv, Shape, KilledBefore, Dead
<1>2. IsFiniteSet(1 .. case)
  BY <1>1, FS_Interval
<1>3. IsFiniteSet(KilledBefore)
  BY <1>1, <1>2, FS_Subset
<1> QED BY <1>1, <1>3, FS_Subset, FS_CardinalityType

FewDead == IsFiniteSet(Dead) /\ Cardinality(Dead) \in Nat

LEMMA FewDeadNext == EvaluationInv' => FewDead'
<1>1. EvaluationInv => FewDead
  BY DeadCounted DEF FewDead
<1> QED BY <1>1, PTL

(* In a call the dead only become more.                                    *)
LEMMA DeadGrow ==
  ASSUME EvaluationInv, EvaluationInv', Typing, limit' = limit,
         Dead \subseteq Dead'
  PROVE  /\ limit * Cardinality(Dead) \in Nat /\ limit * Cardinality(Dead') \in Nat
         /\ limit * Cardinality(Dead) <= limit' * Cardinality(Dead')
<1>1. IsFiniteSet(Dead') /\ Cardinality(Dead') \in Nat
  BY FewDeadNext DEF FewDead
<1>2. Cardinality(Dead) <= Cardinality(Dead')
  BY <1>1, FS_Subset
<1>3. limit \in Nat /\ Cardinality(Dead) \in Nat /\ Cardinality(Dead') \in Nat
  BY <1>1, DeadCounted DEF Typing
<1> QED BY <1>2, <1>3, ScaledNumbers

(* Asking whether the child is running does not revive or kill anybody.    *)
LEMMA PollKeepsTiming ==
  ASSUME EvaluationInv, EvaluationInv', Typing, Timing, control \in InCall,
         NEW b \in BOOLEAN, IsPidRunning(b),
         UNCHANGED <<returned, signal, pid, limit, elapsed>>,
         \/ control' \notin InCall
         \/ control' = "kill" /\ waited' = waited
         \/ control = "check" /\ control' = "wait" /\ waited' = 0 /\ b
         \/ control = "signalled" /\ control' = "check" /\ waited' = waited /\ b
  PROVE  Timing'
<1>1. /\ Children' = Children
      /\ \A k \in Children : process'[k] =
            IF process[k] = "zombie" THEN "reaped" ELSE process[k]
      /\ b <=> process[pid] = "running"
  BY PollAnswers
<1>2. Dead' = Dead
  BY <1>1 DEF Dead, KilledBefore
<1>3. /\ limit * Cardinality(Dead) \in Nat /\ elapsed \in Nat
      /\ limit \in Nat /\ waited \in Nat
  BY <1>2, DeadGrow DEF Typing, EvaluationInv, Shape
<1>4. CASE control' \notin InCall
  BY <1>4 DEF Timing
<1>5. CASE control' = "kill" /\ waited' = waited
  BY <1>2, <1>5 DEF Timing
<1>6. CASE b /\ control \in {"check", "signalled"} /\ waited' \in {0, waited}
  <2>1. elapsed <= limit * Cardinality(Dead) /\ waited <= limit
    BY <1>1, <1>6 DEF Timing
  <2> QED BY <1>2, <1>3, <1>6, <2>1 DEF Timing
<1> QED BY <1>4, <1>5, <1>6

(* The wait goes on, or ends.                                              *)
LEMMA WaitKeepsTiming ==
  ASSUME EvaluationInv, Typing, Timing, Tick \/ TakeSignal \/ TimeOut \/ Interrupt
  PROVE  Timing'
<1>1. /\ control = "wait" /\ control \in InCall
      /\ UNCHANGED <<process, returned, pid, limit>>
  BY DEF Tick, TakeSignal, TimeOut, Interrupt, InCall
<1>2. Dead' = Dead
  BY <1>1 DEF Dead, KilledBefore, Children
<1>3. /\ waited <= limit
      /\ elapsed <= limit * Cardinality(Dead) + waited
      /\ process[pid] = "running" /\ signal => elapsed <= limit * Cardinality(Dead)
  BY <1>1 DEF Timing
<1>4. limit * Cardinality(Dead) \in Nat /\ elapsed \in Nat
  BY DeadCounted, ScaledNumbers DEF EvaluationInv, Shape, Typing
<1>5. limit \in Nat /\ waited \in Nat
  BY DEF Typing
<1>6. CASE Tick
  <2>1. /\ control' = "wait" /\ ~signal /\ ~signal' /\ waited < limit
        /\ waited' = waited + 1 /\ elapsed' = elapsed + 1
    BY <1>1, <1>6 DEF Tick
  <2>2. waited' <= limit /\ elapsed' <= limit * Cardinality(Dead) + waited'
    BY <1>3, <1>4, <1>5, <2>1
  <2> QED BY <1>1, <1>2, <2>1, <2>2 DEF Timing
<1>7. CASE TakeSignal \/ TimeOut \/ Interrupt
  BY <1>1, <1>2, <1>3, <1>7 DEF TakeSignal, TimeOut, Interrupt, Timing
<1> QED BY <1>6, <1>7

(* The child ends, or one that was killed before dies.                     *)
LEMMA ChildKeepsTiming ==
  ASSUME EvaluationInv, EvaluationInv', Typing, Timing, KilledUnreturned,
         NEW k \in Children, ScriptEnds(k) \/ KilledChildDies(k)
  PROVE  Timing'
<1>1. UNCHANGED <<control, pid, limit, waited, elapsed>>
  BY DEF ScriptEnds, KilledChildDies, callVars
<1>2. SUFFICES ASSUME control \in InCall PROVE Timing'
  BY <1>1 DEF Timing
<1>3. /\ pid \in Children /\ process[pid] \in {"running", "zombie"}
      /\ process \in [Children -> ProcessStates]
      /\ \A j \in Children : process[j] = "running" => j = pid
  BY <1>2 DEF EvaluationInv, DuringCall, Shape
<1>4. /\ waited <= limit /\ elapsed <= limit * Cardinality(Dead) + waited
      /\ limit \in Nat /\ waited \in Nat /\ elapsed \in Nat
  BY <1>2 DEF Timing, Typing, EvaluationInv, Shape
<1>5. CASE ScriptEnds(k)
  <2>1. /\ k = pid /\ process' = [process EXCEPT ![k] = "zombie"]
        /\ returned' = returned \cup {k}
    BY <1>3, <1>5 DEF ScriptEnds
  <2>2. /\ Children' = Children /\ process'[pid] = "zombie"
        /\ \A j \in Children \ {pid} : process'[j] = process[j]
    BY <1>3, <2>1 DEF Children
  <2>3. Dead' = Dead
    BY <1>1, <2>1, <2>2 DEF Dead, KilledBefore
  <2> QED BY <1>1, <1>4, <2>2, <2>3 DEF Timing
<1>6. CASE KilledChildDies(k)
  <2>1. /\ process[k] = "killed" /\ k # pid
        /\ process' = [process EXCEPT ![k] = "zombie"] /\ returned' = returned
    BY <1>3, <1>6 DEF KilledChildDies
  <2>2. k \notin returned
    BY <2>1 DEF KilledUnreturned
  <2>3. /\ Children' = Children /\ process'[k] = "zombie"
        /\ \A j \in Children \ {k} : process'[j] = process[j]
    BY <1>3, <2>1 DEF Children
  <2>4. Dead' = Dead \cup {k} /\ k \notin Dead
    BY <1>1, <2>1, <2>2, <2>3 DEF Dead, KilledBefore
  <2>5. /\ Cardinality(Dead) \in Nat
        /\ Cardinality(Dead') = 1 + Cardinality(Dead)
    <3>1. IsFiniteSet(Dead)
      BY DeadCounted
    <3>2. Cardinality(Dead) \in Nat
      BY DeadCounted
    <3>3. Cardinality(Dead \cup {k}) = Cardinality(Dead) + 1
      BY <2>4, <3>1, FS_AddElement
    <3> QED BY <2>4, <3>2, <3>3
  <2>6. /\ limit * Cardinality(Dead) \in Nat
        /\ limit * Cardinality(Dead') = limit * Cardinality(Dead) + limit
    <3> DEFINE d == Cardinality(Dead)
    <3>1. d \in Nat /\ d <= d /\ Cardinality(Dead') = 1 + d
      BY <2>5
    <3>2. limit * d \in Nat /\ limit * (1 + d) = limit * d + limit
      BY <1>4, <3>1, ScaledNumbers
    <3> QED BY <3>1, <3>2
  <2>7. elapsed <= limit * Cardinality(Dead')
    BY <1>4, <2>6
  <2> QED BY <1>1, <1>4, <2>6, <2>7 DEF Timing
<1> QED BY <1>5, <1>6

LEMMA StepKeepsTiming ==
  /\ EvaluationInv /\ EvaluationInv' /\ Typing /\ Timing /\ KilledUnreturned
  /\ [EvaluationNext]_evaluationVars
  => Timing'
<1> SUFFICES ASSUME EvaluationInv, EvaluationInv', Typing, Timing, KilledUnreturned,
                    [EvaluationNext]_evaluationVars
             PROVE  Timing'
  OBVIOUS
<1>1. CASE \/ UNCHANGED evaluationVars
           \/ \E k \in Children : OrphanWrites(k)
  <2>1. UNCHANGED <<process, returned, signal, control, pid, limit, waited, elapsed>>
    BY <1>1 DEF OrphanWrites, evaluationVars, executionVars, callVars
  <2>2. Dead' = Dead
    BY <2>1 DEF Dead, KilledBefore, Children
  <2> QED BY <2>1, <2>2 DEF Timing
<1>2. CASE RunnerNext \/ UnmonitoredTick
  <2>1. CASE StartMonitored
    <3>1. /\ control' = "check" /\ elapsed' = 0 /\ waited' = 0
          /\ limit' = AtLeastShortest(RequestedTimeout)
      BY <2>1 DEF StartMonitored, Fork
    <3>2. limit' \in Nat
      BY <3>1, TimeoutIsNumber DEF EvaluationInv, Typing
    <3>3. Cardinality(Dead') \in Nat
      BY FewDeadNext DEF FewDead
    <3>4. limit' * Cardinality(Dead') \in Nat
      BY <3>2, <3>3, ScaledNumbers
    <3> QED BY <3>1, <3>2, <3>4 DEF Timing
  <2>2. CASE ~StartMonitored
    <3>1. control' \in {"idle", "unmonitored", "returned"}
      BY <1>2, <2>2 DEF RunnerNext, UnmonitoredTick, InvalidCase, StartUnmonitored,
         UnmonitoredEnds, KillSimulation, KillChild, Return, RecordSuccess,
         RecordInvalid, RecordTimeout, Finish
    <3> QED BY <3>1 DEF Timing, InCall
  <2> QED BY <2>1, <2>2
<1>3. CASE MonitorNext
  <2>1. CASE Tick \/ TakeSignal \/ TimeOut \/ Interrupt
    BY <2>1, WaitKeepsTiming
  <2>2. CASE CheckChild \/ AfterSignal \/ AfterTimeout \/ AfterInterrupt
    <3>1. control \in InCall /\ UNCHANGED <<returned, signal, pid, limit, elapsed>>
      BY <2>2 DEF CheckChild, AfterSignal, AfterTimeout, AfterInterrupt, InCall
    <3>2. PICK b \in BOOLEAN :
            /\ IsPidRunning(b)
            /\ \/ control' = "returned"
               \/ control' = "kill" /\ waited' = waited
               \/ control = "check" /\ control' = "wait" /\ waited' = 0 /\ b
               \/ control = "signalled" /\ control' = "check" /\ waited' = waited /\ b
      BY <2>2 DEF CheckChild, AfterSignal, AfterTimeout, AfterInterrupt, Return
    <3>3. "returned" \notin InCall
      BY DEF InCall
    <3> QED BY <3>1, <3>2, <3>3, PollKeepsTiming
  <2> QED BY <1>3, <2>1, <2>2 DEF MonitorNext, CallNext
<1>4. CASE \E k \in Children : ChildEnds(k) \/ ChildDies(k)
  BY <1>4, ChildKeepsTiming DEF ChildEnds, ChildDies
<1> QED BY <1>1, <1>2, <1>3, <1>4 DEF EvaluationNext

LEMMA StepKeepsUnreturned ==
  EvaluationInv /\ KilledUnreturned /\ [EvaluationNext]_evaluationVars
  => KilledUnreturned'
<1> SUFFICES ASSUME EvaluationInv, KilledUnreturned,
                    [EvaluationNext]_evaluationVars
             PROVE  KilledUnreturned'
  OBVIOUS
<1>1. process \in [Children -> ProcessStates]
  BY DEF EvaluationInv, Shape
<1>2. CASE UNCHANGED <<process, returned>>
  BY <1>2 DEF KilledUnreturned, Children
<1>3. CASE StartMonitored \/ UnmonitoredEnds
  <2>1. case \notin Children \cup returned
    BY <1>3 DEF StartMonitored, UnmonitoredEnds, EvaluationInv, BeforeCall
  <2>2. CASE StartMonitored
    BY <2>1, <2>2 DEF StartMonitored, Fork, KilledUnreturned, Children
  <2>3. CASE UnmonitoredEnds
    BY <2>1, <2>3 DEF UnmonitoredEnds, KilledUnreturned, Children
  <2> QED BY <1>3, <2>2, <2>3
<1>4. CASE KillSimulation
  <2>1. /\ process' = [process EXCEPT ![pid] = IF @ = "running" THEN "killed" ELSE @]
        /\ control = "kill" /\ returned' = returned
    BY <1>4 DEF KillSimulation, KillChild
  <2>2. pid \in Children /\ (process[pid] = "running" => pid \notin returned)
    BY <2>1 DEF EvaluationInv, DuringCall, InCall
  <2> QED BY <1>1, <2>1, <2>2 DEF KilledUnreturned, Children
<1>5. CASE \E b \in BOOLEAN : IsPidRunning(b) /\ returned' = returned
  BY <1>1, <1>5 DEF IsPidRunning, Reap, KilledUnreturned, Children
<1>6. CASE \E k \in Children : ChildEnds(k) \/ ChildDies(k)
  <2>1. PICK k \in Children :
          /\ process' = [process EXCEPT ![k] = "zombie"]
          /\ returned' \in {returned, returned \cup {k}}
    BY <1>6 DEF ChildEnds, ScriptEnds, ChildDies, KilledChildDies
  <2> QED BY <1>1, <2>1 DEF KilledUnreturned, Children
<1>7. CASE \/ UNCHANGED evaluationVars \/ UnmonitoredTick
           \/ \E k \in Children : OrphanWrites(k)
  BY <1>2, <1>7 DEF evaluationVars, executionVars, UnmonitoredTick, OrphanWrites
<1>8. CASE RunnerNext /\ ~(StartMonitored \/ UnmonitoredEnds \/ KillSimulation)
  BY <1>2, <1>8 DEF RunnerNext, InvalidCase, StartUnmonitored, RecordSuccess,
     RecordInvalid, RecordTimeout, Finish
<1>9. CASE MonitorNext
  BY <1>2, <1>5, <1>9 DEF MonitorNext, CallNext, CheckChild, Tick, TakeSignal,
     TimeOut, Interrupt, AfterSignal, AfterTimeout, AfterInterrupt
<1> QED BY <1>3, <1>4, <1>6, <1>7, <1>8, <1>9 DEF EvaluationNext

(* A script runs for at most its timeout, and once more for each child     *)
(* that was killed before it, whatever signals those leave behind.         *)
THEOREM OverrunCorrect == EvaluationSpec => []OverrunBounded
<1>1. EvaluationInit => Timing /\ KilledUnreturned
  BY DEF EvaluationInit, Timing, InCall, KilledUnreturned, Children
<1>2. EvaluationInv /\ Typing /\ Timing => OverrunBounded
  <2> SUFFICES ASSUME EvaluationInv, Typing, Timing, control \in InCall
               PROVE  elapsed <= limit * (1 + Cardinality(KilledBefore))
    BY DEF OverrunBounded
  <2>1. /\ limit \in Nat /\ waited \in Nat /\ elapsed \in Nat /\ waited <= limit
        /\ elapsed <= limit * Cardinality(Dead) + waited
    BY DEF Typing, Timing, EvaluationInv, Shape
  <2>2. /\ Cardinality(Dead) \in Nat /\ Cardinality(KilledBefore) \in Nat
        /\ Cardinality(Dead) <= Cardinality(KilledBefore)
    BY DeadCounted
  <2>3. /\ limit * Cardinality(Dead) <= limit * Cardinality(KilledBefore)
        /\ limit * Cardinality(Dead) \in Nat
        /\ limit * Cardinality(KilledBefore) \in Nat
    BY <2>1, <2>2, ScaledNumbers
  <2>4. limit * (1 + Cardinality(KilledBefore))
          = limit * Cardinality(KilledBefore) + limit
    BY <2>1, <2>2, ScaledNumbers
  <2> QED BY <2>1, <2>3, <2>4
<1>3. EvaluationSpec => [](EvaluationInv /\ Typing /\ Timing /\ KilledUnreturned)
  BY <1>1, TypingInvariance, StepKeepsTiming, StepKeepsUnreturned, PTL
     DEF EvaluationSpec
<1> QED BY <1>2, <1>3, PTL
================================================================================
