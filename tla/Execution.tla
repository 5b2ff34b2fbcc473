------------------------------- MODULE Execution -------------------------------
(***************************************************************************)
(* Utilities::Unix::ExecShellScriptTimeout: run a script in a child        *)
(* process, wait for it at most for a given time, and kill it.  One        *)
(* process calls it again and again; the calls share the signal SIGCHLD,   *)
(* which is blocked at the first call and stays blocked, and the children  *)
(* that were killed and not waited for.                                    *)
(*                                                                         *)
(* Children are named by the number of the script they run.  The code      *)
(* between two system calls takes no time; time passes in sigtimedwait.    *)
(***************************************************************************)
EXTENDS Integers

VARIABLES
  process,  \* the state of each child, by the number of its script
  returned, \* the scripts that ended by themselves (history)
  signal,   \* is SIGCHLD pending?  It is pending at most once.
  control,  \* where the caller is in a call, or outside of it
  pid,      \* the child of the call
  limit,    \* the timeout of the call
  waited,   \* time spent in the current sigtimedwait
  elapsed,  \* time since the script was started
  result    \* what the call returns

callVars == <<control, pid, limit, waited, elapsed, result>>
executionVars == <<process, returned, signal, callVars>>

Children == DOMAIN process

(* Killed processes die at some later time; dead ones are zombies until    *)
(* they are waited for.                                                    *)
ProcessStates == {"running", "killed", "zombie", "reaped"}

--------------------------------------------------------------------------------
(* The call starts: the child exists and its script runs.                  *)
Fork(k, t) ==
  /\ process' = [j \in Children \cup {k} |->
                   IF j = k THEN "running" ELSE process[j]]
  /\ control' = "check"
  /\ pid' = k
  /\ limit' = t
  /\ elapsed' = 0
  /\ waited' = 0
  /\ UNCHANGED <<returned, signal, result>>

Return(b) == control' = "returned" /\ result' = b

Reap ==
  process' = [k \in Children |->
                IF process[k] = "zombie" THEN "reaped" ELSE process[k]]

(* Had the child been looked for before the zombies were waited for.       *)
IsPidRunningThenReap(b) ==
  /\ Reap
  /\ b = (process[pid] # "reaped")

(* is_pid_running answers b, after it waited for all zombies; a zombie     *)
(* that is not waited for would exist.                                     *)
IsPidRunning(b) ==
  /\ Reap
  /\ b = (process'[pid] # "reaped")

(* The body of the loop down to sigtimedwait.                              *)
CheckChild ==
  /\ control = "check"
  /\ \E running \in BOOLEAN :
       /\ IsPidRunning(running)
       /\ IF running
            THEN control' = "wait" /\ waited' = 0 /\ UNCHANGED result
            ELSE Return(TRUE) /\ UNCHANGED waited
  /\ UNCHANGED <<returned, signal, pid, limit, elapsed>>

Tick ==
  /\ control = "wait" /\ ~signal /\ waited < limit
  /\ waited' = waited + 1
  /\ elapsed' = elapsed + 1
  /\ UNCHANGED <<process, returned, signal, control, pid, limit, result>>

(* sigtimedwait returns: SIGCHLD, EAGAIN, or EINTR.                        *)
TakeSignal ==
  /\ control = "wait" /\ signal
  /\ signal' = FALSE
  /\ control' = "signalled"
  /\ UNCHANGED <<process, returned, pid, limit, waited, elapsed, result>>

TimeOut ==
  /\ control = "wait" /\ ~signal /\ waited >= limit
  /\ control' = "timedout"
  /\ UNCHANGED <<process, returned, signal, pid, limit, waited, elapsed, result>>

Interrupt ==
  /\ control = "wait"
  /\ control' = "interrupted"
  /\ UNCHANGED <<process, returned, signal, pid, limit, waited, elapsed, result>>

(* Had the signal been taken for the end of the script.                    *)
TrustSignal ==
  /\ control = "signalled"
  /\ Return(TRUE)
  /\ UNCHANGED <<process, returned, signal, pid, limit, waited, elapsed>>

(* The child is checked before anything is concluded: a child may die      *)
(* without its signal being the one received, and the other way round.     *)
AfterSignal ==
  /\ control = "signalled"
  /\ \E running \in BOOLEAN :
       /\ IsPidRunning(running)
       /\ IF running THEN control' = "check" /\ UNCHANGED result
                     ELSE Return(TRUE)
  /\ UNCHANGED <<returned, signal, pid, limit, waited, elapsed>>

AfterTimeout ==
  /\ control = "timedout"
  /\ \E running \in BOOLEAN :
       /\ IsPidRunning(running)
       /\ IF running THEN control' = "kill" /\ UNCHANGED result
                     ELSE Return(TRUE)
  /\ UNCHANGED <<returned, signal, pid, limit, waited, elapsed>>

(* Had the interrupted wait been started again.                            *)
WaitAgain ==
  /\ control = "interrupted"
  /\ control' = "check"
  /\ UNCHANGED <<process, returned, signal, pid, limit, waited, elapsed, result>>

AfterInterrupt ==
  /\ control = "interrupted"
  /\ \E running \in BOOLEAN :
       /\ IsPidRunning(running)
       /\ IF running THEN control' = "kill" /\ UNCHANGED result
                     ELSE Return(FALSE)
  /\ UNCHANGED <<returned, signal, pid, limit, waited, elapsed>>

(* Had the call returned as if the script had ended.                       *)
KillAndReturnTrue ==
  /\ control = "kill"
  /\ process' = [process EXCEPT ![pid] = IF @ = "running" THEN "killed" ELSE @]
  /\ Return(TRUE)
  /\ UNCHANGED <<returned, signal, pid, limit, waited, elapsed>>

(* The child may have died since it was checked.                           *)
KillChild ==
  /\ control = "kill"
  /\ process' = [process EXCEPT ![pid] = IF @ = "running" THEN "killed" ELSE @]
  /\ Return(FALSE)
  /\ UNCHANGED <<returned, signal, pid, limit, waited, elapsed>>

(* All steps of a call but KillChild.                                      *)
CallNext ==
  \/ CheckChild \/ Tick \/ TakeSignal \/ TimeOut \/ Interrupt
  \/ AfterSignal \/ AfterTimeout \/ AfterInterrupt

--------------------------------------------------------------------------------
(* The children.  A script may run forever.                                *)
ScriptEnds(k) ==
  /\ process[k] = "running"
  /\ process' = [process EXCEPT ![k] = "zombie"]
  /\ returned' = returned \cup {k}
  /\ signal' = TRUE
  /\ UNCHANGED callVars

KilledChildDies(k) ==
  /\ process[k] = "killed"
  /\ process' = [process EXCEPT ![k] = "zombie"]
  /\ signal' = TRUE
  /\ UNCHANGED <<returned, callVars>>
================================================================================
