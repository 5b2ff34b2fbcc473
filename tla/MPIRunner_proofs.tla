---------------------------- MODULE MPIRunner_proofs ---------------------------
(***************************************************************************)
(* For every number of workers, every size and number of batches, and      *)
(* whether or not MPI buffers messages: the overseer's view of its workers *)
(* is exact, no case is lost, repeated or left behind, nothing throws, and *)
(* the runner and the optimizer together implement CaseLifecycle.          *)
(*                                                                         *)
(* The first part is about the network alone: what the channel to a worker,*)
(* the worker and the channel from it hold together.  It does not say what *)
(* a case is, so it holds of ensemble runs as well (EnsembleRunner_proofs).*)
(***************************************************************************)
EXTENDS MPIRunner, OptimizerContract_proofs, FiniteSetTheorems,
        SequenceTheorems

Sync == PlainMessage("MODEL_SYNC")
Terminate == PlainMessage("TERMINATE")
Unevaluated(c) == CaseMessage("CASE_UNEVAL", c, "E_PENDING")
Evaluated(c, e) == CaseMessage("CASE_EVAL_SUCCESS", c, e)

Simulated == {"E_DONE", "E_TIMEOUT", "E_FAILED"}

(* TERMINATE has been sent to r; its confirmation has been received.       *)
Told(r) == phase \in {"ensure", "done"} \/ (phase = "terminate" /\ r < peer)
Confirmed(r) == phase = "done" \/ (phase = "ensure" /\ r < peer)

(* The four places of a case that was sent to the worker r.                *)
OnItsWay(r, c) ==
  /\ toOverseer[r] = <<>>
  /\ \/ pc[r] = "sync" /\ toWorker[r] = <<Sync, Unevaluated(c)>>
     \/ pc[r] = "waiting" /\ toWorker[r] = <<Unevaluated(c)>>

AtWorker(r, c) ==
  /\ toOverseer[r] = <<>> /\ toWorker[r] = <<>>
  /\ pc[r] = "evaluating" /\ current[r] = c

OnItsWayBack(r, c) ==
  /\ toWorker[r] = <<>> /\ pc[r] = "waiting"
  /\ \E e \in Simulated : toOverseer[r] = <<Evaluated(c, e)>>

Carries(r, c) == OnItsWay(r, c) \/ AtWorker(r, c) \/ OnItsWayBack(r, c)

(* A worker that has nothing to do, and one that is to stop or has stopped. *)
Idle(r) ==
  /\ ~Told(r) /\ toOverseer[r] = <<>>
  /\ \/ pc[r] = "sync" /\ toWorker[r] = <<Sync>>
     \/ pc[r] = "waiting" /\ toWorker[r] = <<>>

Stopping(r) ==
  /\ Told(r)
  /\ \/ /\ ~Confirmed(r) /\ toOverseer[r] = <<>>
        /\ \/ pc[r] = "sync" /\ toWorker[r] = <<Sync, Terminate>>
           \/ pc[r] = "waiting" /\ toWorker[r] = <<Terminate>>
           \/ pc[r] \in {"finalizing", "died"} /\ toWorker[r] = <<>>
     \/ /\ pc[r] = "done" /\ toWorker[r] = <<>>
        /\ toOverseer[r] = IF Confirmed(r) THEN <<>> ELSE <<Terminate>>

(* The case a busy worker has.                                             *)
Job(r) ==
  IF toOverseer[r] # <<>> THEN toOverseer[r][1].case
  ELSE IF pc[r] = "evaluating" THEN current[r]
  ELSE IF pc[r] = "sync" THEN toWorker[r][2].case
  ELSE toWorker[r][1].case

Jobs == {Job(r) : r \in BusyWorkers}

Channels ==
  /\ working \in [Ranks -> BOOLEAN] /\ pc \in [Ranks -> PCs]
  /\ applied \in [Ranks -> BOOLEAN] /\ peer \in Ranks
  /\ toWorker = [r \in Ranks |-> toWorker[r]]
  /\ toOverseer = [r \in Ranks |-> toOverseer[r]]
  /\ current = [r \in Ranks |-> current[r]]

Situation(r) ==
  IF working[r] THEN Carries(r, Job(r)) ELSE Idle(r) \/ Stopping(r)

(* The workers the overseer takes for busy have one case each, all         *)
(* different; the others have none.                                        *)
Network ==
  /\ Channels
  /\ \A r \in Ranks : Situation(r)
  /\ phase \in {"terminate", "ensure", "done"} => BusyWorkers = {}
  /\ \A r \in BusyWorkers : Job(r) # NoCase
  /\ \A r, s \in BusyWorkers : Job(r) = Job(s) => r = s

(* Where a case is decides whether it has been simulated.                  *)
Progress ==
  /\ \A r \in BusyWorkers :
       Job(r) \in DOMAIN outcome <=> toOverseer[r] # <<>>
  /\ book.queue \cap DOMAIN outcome = {}
  /\ \A c \in book.evaluating : eval[c] = "E_CURRENT"
  /\ \A c \in DOMAIN outcome : eval[c] # "E_BOOKKEEPED"
  /\ \A c \in book.evaluated \ {BaseCase} :
        c \in DOMAIN outcome \/ eval[c] = "E_BOOKKEEPED"

MPIInv ==
  /\ MPITypeOK /\ phase # "threw"
  /\ Network
  /\ Jobs = book.evaluating
  /\ Progress

--------------------------------------------------------------------------------
(* The short sequences that a channel may be.                              *)
LEMMA ShortSequences ==
  /\ DOMAIN <<>> = {}
  /\ \A a : /\ <<a>> # <<>> /\ <<a>>[1] = a /\ DOMAIN <<a>> = {1}
            /\ Head(<<a>>) = a /\ Tail(<<a>>) = <<>> /\ Append(<<>>, a) = <<a>>
  /\ \A a, b : /\ <<a, b>> # <<>> /\ <<a>> # <<a, b>>
               /\ <<a, b>>[1] = a /\ <<a, b>>[2] = b /\ DOMAIN <<a, b>> = {1, 2}
               /\ Head(<<a, b>>) = a /\ Tail(<<a, b>>) = <<b>>
               /\ Append(<<a>>, b) = <<a, b>>
<1>1. DOMAIN <<>> = {}
  OBVIOUS
<1>2. ASSUME NEW a, NEW b PROVE Append(<<a>>, b) = <<a, b>>
  <2> DEFINE S == {a, b}
  <2>1. <<a>> \in Seq(S) /\ <<a, b>> \in Seq(S)
    OBVIOUS
  <2>2. Append(<<a>>, b) \in Seq(S)
    BY <2>1
  <2>3. Len(Append(<<a>>, b)) = 2 /\ Len(<<a, b>>) = 2
    BY <2>1
  <2>4. \A i \in 1 .. 2 : Append(<<a>>, b)[i] = <<a, b>>[i]
    BY <2>1, AppendProperties
  <2> QED BY <2>1, <2>2, <2>3, <2>4, SeqEqual
<1>3. ASSUME NEW a, NEW b
      PROVE  /\ <<a, b>> # <<>> /\ <<a>> # <<a, b>>
             /\ <<a, b>>[1] = a /\ <<a, b>>[2] = b /\ DOMAIN <<a, b>> = {1, 2}
  OBVIOUS
<1>4. ASSUME NEW a, NEW b
      PROVE  Head(<<a, b>>) = a /\ Tail(<<a, b>>) = <<b>>
  OBVIOUS
<1>5. ASSUME NEW a
      PROVE  <<a>> # <<>> /\ <<a>>[1] = a /\ DOMAIN <<a>> = {1}
  OBVIOUS
<1>6. ASSUME NEW a
      PROVE  /\ Head(<<a>>) = a /\ Tail(<<a>>) = <<>>
             /\ Append(<<>>, a) = <<a>>
  OBVIOUS
<1> QED BY <1>1, <1>2, <1>3, <1>4, <1>5, <1>6

(* Which messages of such a channel carry a case.                          *)
LEMMA NoCasesInChannels ==
  /\ CasesIn(<<>>) = {} /\ CasesIn(<<Sync>>) = {}
  /\ CasesIn(<<Terminate>>) = {} /\ CasesIn(<<Sync, Terminate>>) = {}
<1>1. Sync.case = NoCase /\ Terminate.case = NoCase
  BY DEF Sync, Terminate, PlainMessage
<1> QED BY <1>1, ShortSequences DEF CasesIn

LEMMA CasesInChannels ==
  ASSUME NEW c, c # NoCase, NEW t, NEW e
  PROVE  /\ CasesIn(<<CaseMessage(t, c, e)>>) = {1}
         /\ CasesIn(<<Sync, CaseMessage(t, c, e)>>) = {2}
<1>1. Sync.case = NoCase /\ CaseMessage(t, c, e).case = c
  BY DEF Sync, PlainMessage, CaseMessage
<1> HIDE DEF Sync, CaseMessage
<1>2. CasesIn(<<CaseMessage(t, c, e)>>) = {1}
  BY <1>1, ShortSequences DEF CasesIn
<1>3. CasesIn(<<Sync, CaseMessage(t, c, e)>>) = {2}
  BY <1>1, ShortSequences DEF CasesIn
<1> QED BY <1>2, <1>3

(* How many cases are out at a worker, from where they are.                *)
LEMMA CountOut ==
  ASSUME NEW r, NEW c
  PROVE  /\ CasesIn(toWorker[r]) = {} /\ HeldBy(r) = {}
              /\ CasesIn(toOverseer[r]) = {} => NumOut(r) = 0
         /\ CasesIn(toWorker[r]) \in {{1}, {2}} /\ HeldBy(r) = {}
              /\ CasesIn(toOverseer[r]) = {} => NumOut(r) = 1
         /\ CasesIn(toWorker[r]) = {} /\ HeldBy(r) = {c}
              /\ CasesIn(toOverseer[r]) = {} => NumOut(r) = 1
         /\ CasesIn(toWorker[r]) = {} /\ HeldBy(r) = {}
              /\ CasesIn(toOverseer[r]) = {1} => NumOut(r) = 1
<1> DEFINE n(S) == Cardinality(S)
<1>1. n({}) = 0 /\ n({1}) = 1 /\ n({2}) = 1 /\ n({c}) = 1
  BY FS_EmptySet, FS_Singleton
<1>2. NumOut(r) = n(CasesIn(toWorker[r])) + n(HeldBy(r))
                    + n(CasesIn(toOverseer[r]))
  BY DEF NumOut
<1> HIDE DEF n
<1> QED BY <1>1, <1>2

(* What is out at a worker that has a case, and at one that has none.      *)
LEMMA OutAtCarrier ==
  ASSUME NEW r, NEW c, c # NoCase, Carries(r, c)
  PROVE  /\ NumOut(r) = 1 /\ Out(r) = {c}
         /\ SentTo(r) \cup HeldBy(r) = IF toOverseer[r] = <<>> THEN {c} ELSE {}
<1>1. \A e : Evaluated(c, e).case = c /\ Unevaluated(c).case = c
  BY DEF Evaluated, Unevaluated, CaseMessage
<1>2. /\ CasesIn(<<>>) = {}
      /\ CasesIn(<<Unevaluated(c)>>) = {1}
      /\ CasesIn(<<Sync, Unevaluated(c)>>) = {2}
      /\ \A e : CasesIn(<<Evaluated(c, e)>>) = {1}
  BY NoCasesInChannels, CasesInChannels DEF Unevaluated, Evaluated
<1>4. CASE OnItsWay(r, c)
  <2>1. HeldBy(r) = {} /\ SentBy(r) = {} /\ toOverseer[r] = <<>>
    BY <1>2, <1>4 DEF OnItsWay, HeldBy, SentBy
  <2>2. CASE toWorker[r] = <<Sync, Unevaluated(c)>>
    <3>1. SentTo(r) = {c}
      BY <1>1, <1>2, <2>2, ShortSequences DEF SentTo
    <3>2. NumOut(r) = 1
      BY <1>2, <2>1, <2>2, CountOut
    <3> QED BY <2>1, <3>1, <3>2 DEF Out
  <2>3. CASE toWorker[r] = <<Unevaluated(c)>>
    <3>1. SentTo(r) = {c}
      BY <1>1, <1>2, <2>3, ShortSequences DEF SentTo
    <3>2. NumOut(r) = 1
      BY <1>2, <2>1, <2>3, CountOut
    <3> QED BY <2>1, <3>1, <3>2 DEF Out
  <2> QED BY <1>4, <2>2, <2>3 DEF OnItsWay
<1>5. CASE AtWorker(r, c)
  <2>1. /\ SentTo(r) = {} /\ HeldBy(r) = {c} /\ SentBy(r) = {}
        /\ toOverseer[r] = <<>> /\ toWorker[r] = <<>>
    BY <1>2, <1>5 DEF AtWorker, SentTo, HeldBy, SentBy
  <2>2. NumOut(r) = 1
    BY <1>2, <2>1, CountOut
  <2> QED BY <2>1, <2>2 DEF Out
<1>6. CASE OnItsWayBack(r, c)
  <2>1. PICK e \in Simulated : toOverseer[r] = <<Evaluated(c, e)>>
    BY <1>6 DEF OnItsWayBack
  <2>2. /\ SentTo(r) = {} /\ HeldBy(r) = {} /\ SentBy(r) = {c}
        /\ toWorker[r] = <<>>
    BY <1>1, <1>2, <1>6, <2>1, ShortSequences
    DEF OnItsWayBack, SentTo, HeldBy, SentBy
  <2>3. NumOut(r) = 1
    BY <1>2, <2>1, <2>2, CountOut
  <2>4. toOverseer[r] # <<>>
    BY <2>1, ShortSequences
  <2> QED BY <2>2, <2>3, <2>4 DEF Out
<1> QED BY <1>4, <1>5, <1>6 DEF Carries

LEMMA OutAtOthers ==
  ASSUME NEW r, Idle(r) \/ Stopping(r)
  PROVE  NumOut(r) = 0 /\ Out(r) = {} /\ SentTo(r) \cup HeldBy(r) = {}
<1>2. /\ CasesIn(toWorker[r]) = {} /\ CasesIn(toOverseer[r]) = {}
      /\ pc[r] # "evaluating"
  BY NoCasesInChannels DEF Idle, Stopping
<1>3. HeldBy(r) = {} /\ SentTo(r) = {} /\ SentBy(r) = {}
  BY <1>2 DEF SentTo, HeldBy, SentBy
<1> QED BY <1>2, <1>3, CountOut DEF Out

LEMMA RanksFinite ==
  /\ IsFiniteSet(Ranks) /\ IsFiniteSet(FreeWorkers) /\ IsFiniteSet(BusyWorkers)
  /\ Ranks \subseteq Nat /\ 1 \in Ranks
<1>1. IsFiniteSet(Ranks) /\ Ranks \subseteq Nat /\ 1 \in Ranks
  BY NumWorkersAssumption, FS_Interval DEF Ranks
<1> QED BY <1>1, FS_Subset DEF FreeWorkers, BusyWorkers

LEMMA BusyWorking ==
  \A r : r \in BusyWorkers <=> r \in Ranks /\ working[r]
BY DEF BusyWorkers, FreeWorkers

(* The busy workers have all that is out, one case each.                   *)
LEMMA NetworkOut ==
  ASSUME Network
  PROVE  /\ \A r \in Ranks : NumOut(r) = IF working[r] THEN 1 ELSE 0
         /\ Jobs = UNION {Out(r) : r \in Ranks}
         /\ IsFiniteSet(Jobs) /\ Cardinality(Jobs) = Cardinality(BusyWorkers)
<1>1. ASSUME NEW r \in BusyWorkers
      PROVE  NumOut(r) = 1 /\ Out(r) = {Job(r)} /\ working[r]
  <2>1. Carries(r, Job(r)) /\ Job(r) # NoCase /\ working[r]
    BY <1>1, BusyWorking DEF Network, Situation
  <2> QED BY <2>1, OutAtCarrier
<1>2. ASSUME NEW r \in Ranks, r \notin BusyWorkers
      PROVE  NumOut(r) = 0 /\ Out(r) = {} /\ ~working[r]
  <2>1. (Idle(r) \/ Stopping(r)) /\ ~working[r]
    BY <1>2, BusyWorking DEF Network, Situation
  <2> QED BY <2>1, OutAtOthers
<1>3. \A r \in Ranks : NumOut(r) = IF working[r] THEN 1 ELSE 0
  BY <1>1, <1>2
<1>4. Jobs = UNION {Out(r) : r \in Ranks}
  <2>1. BusyWorkers \subseteq Ranks
    BY BusyWorking
  <2> QED BY <1>1, <1>2, <2>1 DEF Jobs
<1>5. IsFiniteSet(Jobs) /\ Cardinality(Jobs) = Cardinality(BusyWorkers)
  <2> DEFINE f == [r \in BusyWorkers |-> Job(r)]
  <2>1. f \in Bijection(BusyWorkers, Jobs)
    BY DEF Network, Jobs, Bijection, Injection, Surjection, IsInjective
  <2>2. ExistsBijection(BusyWorkers, Jobs)
    BY <2>1 DEF ExistsBijection
  <2> QED BY <2>2, RanksFinite, FS_Bijection
<1> QED BY <1>3, <1>4, <1>5

(* A step that leaves a worker and its channels alone, and does not change *)
(* whether it was told to stop, leaves its situation and its case.         *)
LEMMA SameSituation ==
  ASSUME NEW r,
         UNCHANGED <<working[r], pc[r], current[r], toWorker[r], toOverseer[r]>>,
         Told(r)' <=> Told(r), Confirmed(r)' <=> Confirmed(r)
  PROVE  (Situation(r)' <=> Situation(r)) /\ Job(r)' = Job(r)
<1>1. Job(r)' = Job(r)
  BY DEF Job
<1>2. Idle(r)' <=> Idle(r)
  BY DEF Idle
<1>3. Stopping(r)' <=> Stopping(r)
  BY DEF Stopping
<1>4. Carries(r, Job(r))' <=> Carries(r, Job(r))
  BY <1>1 DEF Carries, OnItsWay, AtWorker, OnItsWayBack
<1> QED BY <1>1, <1>2, <1>3, <1>4 DEF Situation

(* A step at one worker.                                                   *)
LEMMA StepAtOne ==
  ASSUME Network, Channels', NEW r \in Ranks,
         \A s \in Ranks \ {r} :
           UNCHANGED <<working[s], pc[s], current[s], toWorker[s], toOverseer[s]>>,
         \A s \in Ranks \ {r} :
           (Told(s)' <=> Told(s)) /\ (Confirmed(s)' <=> Confirmed(s)),
         Situation(r)',
         working'[r] =>
           /\ Job(r)' # NoCase
           /\ \A s \in BusyWorkers \ {r} : Job(r)' # Job(s)
           /\ phase' \notin {"terminate", "ensure", "done"},
         phase' \in {"terminate", "ensure", "done"} =>
           phase \in {"terminate", "ensure", "done"} \/ BusyWorkers = {}
  PROVE  /\ Network'
         /\ Jobs' = {Job(s) : s \in BusyWorkers \ {r}}
                      \cup (IF working'[r] THEN {Job(r)'} ELSE {})
         /\ BusyWorkers' = (BusyWorkers \ {r})
                             \cup (IF working'[r] THEN {r} ELSE {})
         /\ \A s \in BusyWorkers \ {r} : Job(s)' = Job(s)
<1>1. \A s \in Ranks \ {r} :
        Situation(s)' /\ Job(s)' = Job(s) /\ working'[s] = working[s]
  BY SameSituation DEF Network
<1>2. BusyWorkers' = (BusyWorkers \ {r}) \cup (IF working'[r] THEN {r} ELSE {})
  BY <1>1 DEF BusyWorkers, FreeWorkers
<1>3. \A s \in BusyWorkers \ {r} : s \in Ranks /\ Job(s)' = Job(s)
  BY <1>1 DEF BusyWorkers, FreeWorkers
<1>4. Jobs' = {Job(s) : s \in BusyWorkers \ {r}}
                \cup (IF working'[r] THEN {Job(r)'} ELSE {})
  BY <1>2, <1>3 DEF Jobs
<1>5. \A s \in Ranks : Situation(s)'
  BY <1>1
<1>6. phase' \in {"terminate", "ensure", "done"} => BusyWorkers' = {}
  BY <1>2 DEF Network
<1>7. \A s \in BusyWorkers' : Job(s)' # NoCase
  BY <1>2, <1>3 DEF Network
<1>8. \A s, t \in BusyWorkers' : Job(s)' = Job(t)' => s = t
  BY <1>2, <1>3 DEF Network
<1> QED BY <1>2, <1>3, <1>4, <1>5, <1>6, <1>7, <1>8 DEF Network
--------------------------------------------------------------------------------
(* The steps of the overseer.                                              *)

(* AssignCase gives a free worker a case that is not out.                  *)
LEMMA AssignNetwork ==
  ASSUME Network, phase \in {"distribute", "loop"}, phase' = phase,
         NEW r \in FreeWorkers, NEW c, c \notin Jobs, c # NoCase,
         toWorker' = Put(toWorker, r, Unevaluated(c)),
         working' = [working EXCEPT ![r] = TRUE],
         UNCHANGED <<peer, toOverseer, pc, current, applied>>
  PROVE  /\ Network' /\ Jobs' = Jobs \cup {c}
         /\ BusyWorkers' = BusyWorkers \cup {r} /\ r \notin BusyWorkers
         /\ Job(r)' = c /\ toOverseer[r] = <<>>
         /\ \A s \in BusyWorkers : Job(s)' = Job(s)
<1>1. r \in Ranks /\ ~working[r] /\ r \notin BusyWorkers
  BY DEF FreeWorkers, BusyWorkers
<1>2. /\ Channels'
      /\ working'[r] /\ toWorker'[r] = Append(toWorker[r], Unevaluated(c))
      /\ \A s \in Ranks \ {r} :
           toWorker'[s] = toWorker[s] /\ working'[s] = working[s]
  <2>1. Channels
    BY DEF Network
  <2>2. /\ toWorker' = [s \in Ranks |-> toWorker'[s]]
        /\ \A s \in Ranks \ {r} : toWorker'[s] = toWorker[s]
        /\ toWorker'[r] = Append(toWorker[r], Unevaluated(c))
    BY <1>1, <2>1 DEF Channels, Put
  <2>3. /\ working' \in [Ranks -> BOOLEAN] /\ working'[r]
        /\ \A s \in Ranks \ {r} : working'[s] = working[s]
    BY <1>1, <2>1 DEF Channels
  <2> QED BY <2>1, <2>2, <2>3 DEF Channels
<1>3. \A s : (Told(s)' <=> Told(s)) /\ (Confirmed(s)' <=> Confirmed(s))
  BY DEF Told, Confirmed
<1>4. Idle(r)
  BY <1>1 DEF Network, Situation, Stopping, Told
<1>5. OnItsWay(r, c)'
  <2>1. toOverseer'[r] = <<>>
    BY <1>4 DEF Idle
  <2>2. CASE pc[r] = "sync" /\ toWorker[r] = <<Sync>>
    BY <1>2, <2>1, <2>2, ShortSequences DEF OnItsWay
  <2>3. CASE pc[r] = "waiting" /\ toWorker[r] = <<>>
    BY <1>2, <2>1, <2>3, ShortSequences DEF OnItsWay
  <2> QED BY <1>4, <2>2, <2>3 DEF Idle
<1>6. Carries(r, c)'
  BY <1>5 DEF Carries
<1>7. Job(r)' = c
  <2>1. Evaluated(c, 0).case = c /\ Unevaluated(c).case = c
    BY DEF Evaluated, Unevaluated, CaseMessage
  <2> QED BY <1>5, <2>1, ShortSequences DEF OnItsWay, Job
<1>8. Situation(r)'
  BY <1>2, <1>6, <1>7 DEF Situation
<1>9. \A s \in BusyWorkers : Job(s) # c
  BY DEF Jobs
<1>10. \A s \in Ranks \ {r} :
         UNCHANGED <<working[s], pc[s], current[s], toWorker[s], toOverseer[s]>>
  BY <1>2
<1>11. /\ Network'
       /\ Jobs' = {Job(s) : s \in BusyWorkers \ {r}} \cup {Job(r)'}
       /\ BusyWorkers' = (BusyWorkers \ {r}) \cup {r}
       /\ \A s \in BusyWorkers \ {r} : Job(s)' = Job(s)
  BY <1>1, <1>2, <1>3, <1>7, <1>8, <1>9, <1>10, StepAtOne
<1> QED BY <1>1, <1>4, <1>7, <1>11 DEF Jobs, Idle

(* The receipt of a result frees the worker that sent it.                  *)
LEMMA ReceiveNetwork ==
  ASSUME Network, phase = "loop",
         phase' \notin {"terminate", "ensure", "done"},
         NEW r \in Ranks, toOverseer[r] # <<>>,
         toOverseer' = Take(toOverseer, r),
         working' = [working EXCEPT ![r] = FALSE],
         UNCHANGED <<peer, toWorker, pc, current, applied>>
  PROVE  /\ r \in BusyWorkers
         /\ \E e \in Simulated : Head(toOverseer[r]) = Evaluated(Job(r), e)
         /\ Network' /\ Jobs' = Jobs \ {Job(r)}
         /\ BusyWorkers' = BusyWorkers \ {r}
         /\ \A s \in BusyWorkers \ {r} :
              Job(s)' = Job(s) /\ toOverseer'[s] = toOverseer[s]
<1>1. OnItsWayBack(r, Job(r)) /\ r \in BusyWorkers
  <2>1. ~Told(r)
    BY DEF Told
  <2>2. working[r] /\ Carries(r, Job(r))
    BY <2>1 DEF Network, Situation, Idle, Stopping
  <2> QED BY <2>2, BusyWorking DEF Carries, OnItsWay, AtWorker
<1>2. PICK e \in Simulated : toOverseer[r] = <<Evaluated(Job(r), e)>>
  BY <1>1 DEF OnItsWayBack
<1>3. /\ Channels'
      /\ ~working'[r] /\ toOverseer'[r] = Tail(toOverseer[r])
      /\ \A s \in Ranks \ {r} :
           toOverseer'[s] = toOverseer[s] /\ working'[s] = working[s]
  <2>1. Channels
    BY DEF Network
  <2>2. /\ toOverseer' = [s \in Ranks |-> toOverseer'[s]]
        /\ \A s \in Ranks \ {r} : toOverseer'[s] = toOverseer[s]
        /\ toOverseer'[r] = Tail(toOverseer[r])
    BY <2>1 DEF Channels, Take
  <2>3. /\ working' \in [Ranks -> BOOLEAN] /\ ~working'[r]
        /\ \A s \in Ranks \ {r} : working'[s] = working[s]
    BY <2>1 DEF Channels
  <2> QED BY <2>1, <2>2, <2>3 DEF Channels
<1>4. \A s : (Told(s)' <=> Told(s)) /\ (Confirmed(s)' <=> Confirmed(s))
  BY DEF Told, Confirmed
<1>5. toOverseer'[r] = <<>> /\ Head(toOverseer[r]) = Evaluated(Job(r), e)
  BY <1>2, <1>3, ShortSequences
<1>6. Situation(r)'
  BY <1>1, <1>3, <1>5 DEF OnItsWayBack, Situation, Idle, Told
<1>7. \A s \in Ranks \ {r} :
        UNCHANGED <<working[s], pc[s], current[s], toWorker[s], toOverseer[s]>>
  BY <1>3
<1>8. /\ Network'
      /\ Jobs' = {Job(s) : s \in BusyWorkers \ {r}}
      /\ BusyWorkers' = BusyWorkers \ {r}
      /\ \A s \in BusyWorkers \ {r} :
           Job(s)' = Job(s) /\ toOverseer'[s] = toOverseer[s]
  BY <1>3, <1>4, <1>6, <1>7, StepAtOne, BusyWorking
<1>9. {Job(s) : s \in BusyWorkers \ {r}} = Jobs \ {Job(r)}
  BY <1>1 DEF Jobs, Network
<1> QED BY <1>1, <1>5, <1>8, <1>9

(* The overseer ends the initial distribution.                             *)
LEMMA DistributedNetwork ==
  ASSUME Network, phase = "distribute", phase' = "loop",
         UNCHANGED <<peer, working, toWorker, toOverseer, pc, current, applied>>
  PROVE  /\ Network' /\ Jobs' = Jobs /\ BusyWorkers' = BusyWorkers
         /\ \A r \in BusyWorkers : Job(r)' = Job(r)
<1>1. BusyWorkers' = BusyWorkers /\ BusyWorkers \subseteq Ranks
  BY BusyWorking DEF BusyWorkers, FreeWorkers
<1>2. \A r \in Ranks : (Told(r)' <=> Told(r)) /\ (Confirmed(r)' <=> Confirmed(r))
  BY DEF Told, Confirmed
<1>3. \A r \in Ranks : (Situation(r)' <=> Situation(r)) /\ Job(r)' = Job(r)
  BY <1>2, SameSituation
<1>4. Channels' /\ Jobs' = Jobs
  BY <1>1, <1>3 DEF Network, Channels, Jobs
<1> QED BY <1>1, <1>3, <1>4 DEF Network

(* The overseer leaves its loop when no worker is busy.                    *)
LEMMA LeaveNetwork ==
  ASSUME Network, BusyWorkers = {}, LeaveLoop
  PROVE  Network' /\ Jobs' = Jobs
<1> USE DEF LeaveLoop, workerVars
<1>1. \A s \in Ranks : (Told(s)' <=> Told(s)) /\ (Confirmed(s)' <=> Confirmed(s))
  BY NumWorkersAssumption DEF Told, Confirmed, Ranks
<1>2. \A s \in Ranks : (Situation(s)' <=> Situation(s)) /\ Job(s)' = Job(s)
  BY <1>1, SameSituation
<1>3. BusyWorkers' = BusyWorkers
  BY DEF BusyWorkers, FreeWorkers
<1>4. Channels'
  BY RanksFinite DEF Network, Channels
<1>5. Jobs' = {} /\ Jobs = {}
  BY <1>3 DEF Jobs
<1> QED BY <1>2, <1>3, <1>4, <1>5 DEF Network

(* A loop over the ranks.                                                  *)
LEMMA NextPeerRank ==
  ASSUME peer \in Ranks, NEW p, NextPeer(p)
  PROVE  /\ peer' \in Ranks
         /\ \/ peer < NumWorkers /\ phase' = phase /\ peer' = peer + 1
            \/ /\ phase' = p /\ peer' = 1
               /\ \A s \in Ranks : s < peer <=> s # peer
BY NumWorkersAssumption DEF NextPeer, Ranks

LEMMA TerminateNetwork ==
  ASSUME Network, TerminateWorkers
  PROVE  Network' /\ Jobs' = Jobs /\ phase' \in {"terminate", "ensure"}
<1> USE DEF TerminateWorkers, workerVars
<1>1. PICK r \in Ranks : r = peer
  BY DEF Network, Channels
<1>2. r \notin BusyWorkers /\ BusyWorkers = {} /\ ~working[r] /\ ~working'[r]
  BY BusyWorking DEF Network
<1>3. /\ peer' \in Ranks
      /\ \/ phase' = "terminate" /\ peer' = r + 1
         \/ /\ phase' = "ensure" /\ peer' = 1
            /\ \A s \in Ranks : s < r <=> s # r
  BY <1>1, NextPeerRank
<1>4. /\ Channels'
      /\ toWorker'[r] = Append(toWorker[r], Terminate)
      /\ \A s \in Ranks \ {r} : toWorker'[s] = toWorker[s]
  BY <1>1, <1>3 DEF Network, Channels, Put, Terminate
<1>5. /\ \A s \in Ranks \ {r} :
           (Told(s)' <=> Told(s)) /\ (Confirmed(s)' <=> Confirmed(s))
      /\ Told(r)' /\ ~Told(r) /\ ~Confirmed(r)'
  BY <1>1, <1>3, NumWorkersAssumption DEF Told, Confirmed, Ranks
<1>6. Idle(r)
  BY <1>1, <1>2, <1>5 DEF Network, Situation, Stopping
<1>7. Stopping(r)'
  <2>1. CASE pc[r] = "sync" /\ toWorker[r] = <<Sync>>
    <3>1. toWorker'[r] = <<Sync, Terminate>>
      BY <1>4, <2>1, ShortSequences
    <3> QED BY <1>5, <1>6, <2>1, <3>1 DEF Stopping, Idle
  <2>2. CASE pc[r] = "waiting" /\ toWorker[r] = <<>>
    <3>1. toWorker'[r] = <<Terminate>>
      BY <1>4, <2>2, ShortSequences
    <3> QED BY <1>5, <1>6, <2>2, <3>1 DEF Stopping, Idle
  <2> QED BY <1>6, <2>1, <2>2 DEF Idle
<1>8. Situation(r)'
  BY <1>2, <1>7 DEF Situation
<1>9. \A s \in Ranks \ {r} :
        UNCHANGED <<working[s], pc[s], current[s], toWorker[s], toOverseer[s]>>
  BY <1>4
<1>10. Network' /\ Jobs' = {Job(s) : s \in BusyWorkers \ {r}}
  BY <1>2, <1>4, <1>5, <1>8, <1>9, StepAtOne
<1> QED BY <1>2, <1>3, <1>10 DEF Jobs

(* What the overseer receives from a worker it has told to stop is the     *)
(* confirmation.                                                           *)
LEMMA EnsureNetwork ==
  ASSUME Network, EnsureWorkerTermination
  PROVE  Network' /\ Jobs' = Jobs /\ phase' \in {"ensure", "done"}
<1> USE DEF EnsureWorkerTermination, workerVars
<1>1. PICK r \in Ranks : r = peer
  BY DEF Network, Channels
<1>2. r \notin BusyWorkers /\ BusyWorkers = {} /\ ~working[r] /\ ~working'[r]
  BY BusyWorking DEF Network
<1>3. Told(r) /\ ~Confirmed(r) /\ toOverseer[r] # <<>>
  BY <1>1, NumWorkersAssumption DEF Told, Confirmed, Ranks
<1>4. pc[r] = "done" /\ toWorker[r] = <<>> /\ toOverseer[r] = <<Terminate>>
  BY <1>2, <1>3 DEF Network, Situation, Idle, Stopping
<1>5. Head(toOverseer[r]).tag = "TERMINATE"
  BY <1>4, ShortSequences DEF Terminate, PlainMessage
<1>6. /\ peer' \in Ranks
      /\ \/ phase' = "ensure" /\ peer' = r + 1
         \/ /\ phase' = "done" /\ peer' = 1
            /\ \A s \in Ranks : s < r <=> s # r
  BY <1>1, <1>5, NextPeerRank
<1>7. /\ Channels'
      /\ toOverseer'[r] = Tail(toOverseer[r])
      /\ \A s \in Ranks \ {r} : toOverseer'[s] = toOverseer[s]
  BY <1>1, <1>6 DEF Network, Channels, Take
<1>8. /\ \A s \in Ranks \ {r} :
           (Told(s)' <=> Told(s)) /\ (Confirmed(s)' <=> Confirmed(s))
      /\ Told(r)' /\ Confirmed(r)'
  BY <1>1, <1>6, NumWorkersAssumption DEF Told, Confirmed, Ranks
<1>9. toOverseer'[r] = <<>>
  BY <1>4, <1>7, ShortSequences
<1>10. Situation(r)'
  BY <1>2, <1>4, <1>8, <1>9 DEF Situation, Stopping
<1>11. \A s \in Ranks \ {r} :
         UNCHANGED <<working[s], pc[s], current[s], toWorker[s], toOverseer[s]>>
  BY <1>7
<1>12. Network' /\ Jobs' = {Job(s) : s \in BusyWorkers \ {r}}
  BY <1>2, <1>7, <1>8, <1>10, <1>11, StepAtOne
<1> QED BY <1>2, <1>6, <1>12 DEF Jobs
--------------------------------------------------------------------------------
(* The steps of the workers: none changes which cases are out, or the case *)
(* a worker has.                                                           *)
LEMMA WorkerStep ==
  ASSUME Network, Channels', NEW r \in Ranks,
         \A s \in Ranks \ {r} :
           UNCHANGED <<pc[s], current[s], toWorker[s], toOverseer[s]>>,
         UNCHANGED overseerVars,
         working[r] => Carries(r, Job(r))' /\ Job(r)' = Job(r),
         ~working[r] => Idle(r)' \/ Stopping(r)'
  PROVE  /\ Network' /\ Jobs' = Jobs /\ BusyWorkers' = BusyWorkers
         /\ \A s \in BusyWorkers : Job(s)' = Job(s)
<1> USE DEF overseerVars
<1>1. \A s : (Told(s)' <=> Told(s)) /\ (Confirmed(s)' <=> Confirmed(s))
  BY DEF Told, Confirmed
<1>2. Situation(r)'
  BY DEF Situation
<1>3. BusyWorkers' = BusyWorkers
  BY DEF BusyWorkers, FreeWorkers
<1>4. /\ working'[r] =>
           /\ Job(r)' # NoCase
           /\ \A s \in BusyWorkers \ {r} : Job(r)' # Job(s)
           /\ phase' \notin {"terminate", "ensure", "done"}
      /\ working'[r] <=> r \in BusyWorkers
  BY BusyWorking DEF Network
<1>5. \A s \in Ranks \ {r} :
        UNCHANGED <<working[s], pc[s], current[s], toWorker[s], toOverseer[s]>>
  OBVIOUS
<1>6. /\ Network'
      /\ Jobs' = {Job(s) : s \in BusyWorkers \ {r}}
                   \cup (IF working'[r] THEN {Job(r)'} ELSE {})
      /\ \A s \in BusyWorkers \ {r} : Job(s)' = Job(s)
  BY <1>1, <1>2, <1>4, <1>5, StepAtOne DEF Network
<1>7. Jobs' = Jobs
  BY <1>4, <1>6 DEF Jobs
<1> QED BY <1>3, <1>4, <1>6, <1>7

(* A worker that receives a message either gets a case or is told to stop. *)
LEMMA ReceivedMessage ==
  ASSUME Network, NEW r \in Ranks, toWorker[r] # <<>>,
         toWorker' = Take(toWorker, r)
  PROVE  \/ /\ working[r] /\ toOverseer[r] = <<>> /\ Job(r) # NoCase
            /\ \/ /\ pc[r] = "sync" /\ Head(toWorker[r]) = Sync
                  /\ toWorker'[r] = <<Unevaluated(Job(r))>>
               \/ /\ pc[r] = "waiting" /\ Head(toWorker[r]) = Unevaluated(Job(r))
                  /\ toWorker'[r] = <<>>
         \/ /\ ~working[r] /\ toOverseer[r] = <<>> /\ ~Confirmed(r)
            /\ \/ /\ pc[r] = "sync" /\ Head(toWorker[r]) = Sync
                  /\ \/ ~Told(r) /\ toWorker'[r] = <<>>
                     \/ Told(r) /\ toWorker'[r] = <<Terminate>>
               \/ /\ pc[r] = "waiting" /\ Head(toWorker[r]) = Terminate
                  /\ Told(r) /\ toWorker'[r] = <<>>
<1>1. toWorker'[r] = Tail(toWorker[r])
  BY DEF Network, Channels, Take
<1>2. ASSUME working[r]
      PROVE  /\ toOverseer[r] = <<>> /\ Job(r) # NoCase
             /\ \/ /\ pc[r] = "sync" /\ Head(toWorker[r]) = Sync
                   /\ toWorker'[r] = <<Unevaluated(Job(r))>>
                \/ /\ pc[r] = "waiting" /\ Head(toWorker[r]) = Unevaluated(Job(r))
                   /\ toWorker'[r] = <<>>
  <2>1. OnItsWay(r, Job(r)) /\ Job(r) # NoCase
    BY <1>2, BusyWorking
    DEF Network, Situation, Carries, AtWorker, OnItsWayBack
  <2>2. CASE pc[r] = "sync" /\ toWorker[r] = <<Sync, Unevaluated(Job(r))>>
    BY <1>1, <2>1, <2>2, ShortSequences DEF OnItsWay
  <2>3. CASE pc[r] = "waiting" /\ toWorker[r] = <<Unevaluated(Job(r))>>
    BY <1>1, <2>1, <2>3, ShortSequences DEF OnItsWay
  <2> QED BY <2>1, <2>2, <2>3 DEF OnItsWay
<1>3. ASSUME ~working[r]
      PROVE  /\ toOverseer[r] = <<>> /\ ~Confirmed(r)
             /\ \/ /\ pc[r] = "sync" /\ Head(toWorker[r]) = Sync
                   /\ \/ ~Told(r) /\ toWorker'[r] = <<>>
                      \/ Told(r) /\ toWorker'[r] = <<Terminate>>
                \/ /\ pc[r] = "waiting" /\ Head(toWorker[r]) = Terminate
                   /\ Told(r) /\ toWorker'[r] = <<>>
  <2>1. /\ toOverseer[r] = <<>> /\ ~Confirmed(r)
        /\ \/ pc[r] = "sync" /\ ~Told(r) /\ toWorker[r] = <<Sync>>
           \/ pc[r] = "sync" /\ Told(r) /\ toWorker[r] = <<Sync, Terminate>>
           \/ pc[r] = "waiting" /\ Told(r) /\ toWorker[r] = <<Terminate>>
    BY <1>3 DEF Network, Situation, Idle, Stopping, Told, Confirmed
  <2>2. CASE pc[r] = "sync" /\ ~Told(r) /\ toWorker[r] = <<Sync>>
    BY <1>1, <2>1, <2>2, ShortSequences
  <2>3. CASE pc[r] = "sync" /\ Told(r) /\ toWorker[r] = <<Sync, Terminate>>
    BY <1>1, <2>1, <2>3, ShortSequences
  <2>4. CASE pc[r] = "waiting" /\ Told(r) /\ toWorker[r] = <<Terminate>>
    BY <1>1, <2>1, <2>4, ShortSequences
  <2> QED BY <2>1, <2>2, <2>3, <2>4
<1> QED BY <1>2, <1>3

LEMMA RecvModelSyncNetwork ==
  ASSUME Network, NEW r \in Ranks, RecvModelSync(r)
  PROVE  /\ Network' /\ Jobs' = Jobs /\ BusyWorkers' = BusyWorkers
         /\ \A s \in BusyWorkers : Job(s)' = Job(s)
<1>1. /\ Channels' /\ pc'[r] = "waiting" /\ pc[r] = "sync"
      /\ UNCHANGED <<overseerVars, toOverseer, current>>
      /\ \A s \in Ranks \ {r} :
           UNCHANGED <<pc[s], current[s], toWorker[s], toOverseer[s]>>
  BY DEF RecvModelSync, Network, Channels, Take, overseerVars, PCs
<1>2. (Told(r)' <=> Told(r)) /\ (Confirmed(r)' <=> Confirmed(r))
  BY <1>1 DEF Told, Confirmed, overseerVars
<1>3. toWorker[r] # <<>> /\ toWorker' = Take(toWorker, r)
  BY DEF RecvModelSync, Receives
<1>4. ASSUME working[r] PROVE Carries(r, Job(r))' /\ Job(r)' = Job(r)
  <2>1. PICK c : c = Job(r)
    OBVIOUS
  <2>2. toWorker'[r] = <<Unevaluated(c)>> /\ toOverseer'[r] = <<>>
    BY <1>1, <1>3, <1>4, <2>1, ReceivedMessage
  <2>3. Carries(r, c)'
    BY <1>1, <2>2 DEF Carries, OnItsWay
  <2>4. Job(r)' = c
    <3>1. Unevaluated(c).case = c
      BY DEF Unevaluated, CaseMessage
    <3> QED BY <1>1, <2>2, <3>1, ShortSequences DEF Job
  <2> QED BY <2>1, <2>3, <2>4
<1>5. ASSUME ~working[r] PROVE Idle(r)' \/ Stopping(r)'
  BY <1>1, <1>2, <1>3, <1>5, ReceivedMessage DEF Idle, Stopping
<1> QED BY <1>1, <1>4, <1>5, WorkerStep

LEMMA RecvUnevaluatedNetwork ==
  ASSUME Network, NEW r \in Ranks, RecvUnevaluatedCase(r)
  PROVE  /\ Network' /\ Jobs' = Jobs /\ BusyWorkers' = BusyWorkers
         /\ \A s \in BusyWorkers : Job(s)' = Job(s)
         /\ current'[r] = IF working[r] THEN Job(r) ELSE NoCase
<1>1. pc[r] = "waiting" /\ toWorker[r] # <<>> /\ toWorker' = Take(toWorker, r)
  BY DEF RecvUnevaluatedCase, Receives
<1>2. Head(toWorker[r]) = IF working[r] THEN Unevaluated(Job(r)) ELSE Terminate
  BY <1>1, ReceivedMessage
<1>3. /\ \A c : Unevaluated(c).case = c /\ Unevaluated(c).tag = "CASE_UNEVAL"
      /\ Terminate.case = NoCase /\ Terminate.tag = "TERMINATE"
  BY DEF Unevaluated, Terminate, CaseMessage, PlainMessage
<1>4. /\ pc' = [pc EXCEPT ![r] = IF working[r] THEN "evaluating" ELSE "finalizing"]
      /\ current' = [current EXCEPT ![r] = IF working[r] THEN Job(r) ELSE NoCase]
  BY <1>2, <1>3 DEF RecvUnevaluatedCase
<1>5. /\ Channels'
      /\ pc'[r] = IF working[r] THEN "evaluating" ELSE "finalizing"
      /\ current'[r] = IF working[r] THEN Job(r) ELSE NoCase
      /\ UNCHANGED <<overseerVars, toOverseer>>
      /\ \A s \in Ranks \ {r} :
           UNCHANGED <<pc[s], current[s], toWorker[s], toOverseer[s]>>
  <2>1. UNCHANGED <<overseerVars, toOverseer, applied>>
    BY DEF RecvUnevaluatedCase
  <2> QED BY <1>1, <1>4, <2>1 DEF Network, Channels, Take, overseerVars, PCs
<1>6. (Told(r)' <=> Told(r)) /\ (Confirmed(r)' <=> Confirmed(r))
  BY <1>5 DEF Told, Confirmed, overseerVars
<1>7. ASSUME working[r] PROVE Carries(r, Job(r))' /\ Job(r)' = Job(r)
  <2>1. PICK c : c = Job(r)
    OBVIOUS
  <2>2. /\ toWorker'[r] = <<>> /\ toOverseer'[r] = <<>>
        /\ pc'[r] = "evaluating" /\ current'[r] = c
    BY <1>1, <1>5, <1>7, <2>1, ReceivedMessage
  <2>3. Carries(r, c)' /\ Job(r)' = c
    BY <2>2 DEF Carries, AtWorker, Job
  <2> QED BY <2>1, <2>3
<1>8. ASSUME ~working[r] PROVE Idle(r)' \/ Stopping(r)'
  BY <1>1, <1>5, <1>6, <1>8, ReceivedMessage DEF Stopping
<1> QED BY <1>5, <1>7, <1>8, WorkerStep

(* A case is simulated once it is at a worker.                             *)
LEMMA EvaluateNetwork ==
  ASSUME Network, NEW r \in Ranks, NEW o \in Outcomes, EvaluateCase(r, o)
  PROVE  /\ Network' /\ Jobs' = Jobs /\ BusyWorkers' = BusyWorkers
         /\ r \in BusyWorkers /\ current[r] = Job(r) /\ toOverseer[r] = <<>>
         /\ toOverseer'[r] = <<Evaluated(Job(r), EvalOf(o))>>
         /\ EvalOf(o) \in Simulated
         /\ \A s \in BusyWorkers : Job(s)' = Job(s)
         /\ \A s \in Ranks \ {r} : toOverseer'[s] = toOverseer[s]
<1>1. EvalOf(o) \in Simulated
  BY OutcomesAssumption DEF EvalOf, Simulated
<1>2. working[r] /\ AtWorker(r, Job(r))
  BY DEF EvaluateCase, Network, Situation, Carries, OnItsWay, OnItsWayBack,
         Idle, Stopping
<1>3. PICK c : c = Job(r)
  OBVIOUS
<1>4. PICK e : e = EvalOf(o)
  OBVIOUS
<1>5. toOverseer' = Put(toOverseer, r, Evaluated(c, e))
  BY <1>2, <1>3, <1>4 DEF EvaluateCase, AtWorker, Evaluated, EvaluatedTag
<1>6. /\ Channels'
      /\ pc'[r] = "waiting" /\ toOverseer'[r] = Append(toOverseer[r], Evaluated(c, e))
      /\ UNCHANGED <<overseerVars, toWorker, current>>
      /\ \A s \in Ranks \ {r} :
           UNCHANGED <<pc[s], current[s], toWorker[s], toOverseer[s]>>
  <2>1. /\ UNCHANGED <<overseerVars, toWorker, current>>
        /\ pc' = [pc EXCEPT ![r] = "waiting"]
    BY DEF EvaluateCase
  <2>2. applied' \in [Ranks -> BOOLEAN]
    <3>1. applied' = [applied EXCEPT ![r] = TRUE] \/ applied' = applied
      BY DEF EvaluateCase
    <3> QED BY <3>1 DEF Network, Channels
  <2> QED BY <1>5, <2>1, <2>2 DEF Network, Channels, Put, overseerVars, PCs
<1>7. toOverseer[r] = <<>> /\ toWorker'[r] = <<>>
  BY <1>2, <1>6 DEF AtWorker
<1>8. toOverseer'[r] = <<Evaluated(c, e)>>
  BY <1>6, <1>7, ShortSequences
<1>9. Carries(r, c)' /\ Job(r)' = c
  <2>1. OnItsWayBack(r, c)'
    BY <1>1, <1>4, <1>6, <1>7, <1>8 DEF OnItsWayBack
  <2>2. Evaluated(c, e).case = c
    BY DEF Evaluated, CaseMessage
  <2> QED BY <1>8, <2>1, <2>2, ShortSequences DEF Carries, Job
<1>10. Network' /\ Jobs' = Jobs /\ BusyWorkers' = BusyWorkers
  BY <1>2, <1>3, <1>6, <1>9, WorkerStep
<1>11. \A s \in BusyWorkers : Job(s)' = Job(s)
  BY <1>2, <1>3, <1>6, <1>9, WorkerStep
<1> QED BY <1>1, <1>2, <1>3, <1>4, <1>6, <1>7, <1>8, <1>10, <1>11, BusyWorking
        DEF AtWorker

LEMMA FinalizeNetwork ==
  ASSUME Network, NEW r \in Ranks, FinalizeWorker(r)
  PROVE  /\ Network' /\ Jobs' = Jobs /\ BusyWorkers' = BusyWorkers
         /\ \A s \in BusyWorkers :
              Job(s)' = Job(s) /\ toOverseer'[s] = toOverseer[s]
<1>1. /\ ~working[r] /\ Told(r) /\ ~Confirmed(r)
      /\ toOverseer[r] = <<>> /\ toWorker[r] = <<>>
  BY DEF FinalizeWorker, Network, Situation, Carries, OnItsWay, AtWorker,
         OnItsWayBack, Idle, Stopping
<1>2. /\ Channels'
      /\ \/ pc'[r] = "done" /\ toOverseer'[r] = Append(toOverseer[r], Terminate)
         \/ pc'[r] = "died" /\ toOverseer'[r] = toOverseer[r]
      /\ UNCHANGED <<overseerVars, toWorker, current>>
      /\ \A s \in Ranks \ {r} :
           UNCHANGED <<pc[s], current[s], toWorker[s], toOverseer[s]>>
  <2>1. UNCHANGED <<overseerVars, toWorker, current, applied>>
    BY DEF FinalizeWorker
  <2>2. \/ /\ pc' = [pc EXCEPT ![r] = "done"]
           /\ toOverseer' = Put(toOverseer, r, Terminate)
        \/ /\ pc' = [pc EXCEPT ![r] = "died"]
           /\ toOverseer' = toOverseer
    BY DEF FinalizeWorker, Terminate
  <2> QED BY <2>1, <2>2 DEF Network, Channels, Put, overseerVars, PCs
<1>3. (Told(r)' <=> Told(r)) /\ (Confirmed(r)' <=> Confirmed(r))
  BY <1>2 DEF Told, Confirmed, overseerVars
<1>4. Append(toOverseer[r], Terminate) = <<Terminate>>
  BY <1>1, ShortSequences
<1>5. Stopping(r)'
  BY <1>1, <1>2, <1>3, <1>4 DEF Stopping
<1>6. /\ Network' /\ Jobs' = Jobs /\ BusyWorkers' = BusyWorkers
      /\ \A s \in BusyWorkers : Job(s)' = Job(s)
  BY <1>1, <1>2, <1>5, WorkerStep
<1> QED BY <1>1, <1>2, <1>6, BusyWorking

(* The workers all have received nothing yet, and no case is out.          *)
LEMMA InitNetwork ==
  ASSUME MPIInit
  PROVE  Network /\ Jobs = {}
<1> USE DEF MPIInit
<1>1. Channels
  BY RanksFinite DEF Channels, PCs
<1>2. \A r \in Ranks : ~working[r] /\ ~Told(r) /\ Idle(r)
  BY DEF Told, Idle, Sync
<1>3. BusyWorkers = {}
  BY <1>2 DEF BusyWorkers, FreeWorkers
<1> QED BY <1>1, <1>2, <1>3 DEF Network, Situation, Jobs
--------------------------------------------------------------------------------
(* The overseer's case handler and the network together.                   *)

LEMMA CasesAreCases ==
  /\ NoCase \notin Case /\ BaseCase \in Case
  /\ \A h : Consistent(h) => Known(h) \subseteq Case
<1>1. NoCase \notin Case
  BY DEF NoCase, Case
<1> QED BY <1>1 DEF BaseCase, Case, Consistent, Book, Known, Pending

(* The states of the cases when the book has become h.                     *)
LEMMA EvalsType ==
  ASSUME NEW h, NEW e, e \in [DOMAIN e -> EvalStates], DOMAIN e \subseteq Known(h)
  PROVE  /\ Evals(h, e) \in [Known(h) -> EvalStates]
         /\ \A c \in DOMAIN e : Evals(h, e)[c] = e[c]
BY DEF Evals, EvalStates

LEMMA InitInv == MPIInit => MPIInv
<1> SUFFICES ASSUME MPIInit PROVE MPIInv
  OBVIOUS
<1> USE DEF MPIInit
<1>1. /\ Consistent(book) /\ Known(book) = {BaseCase} \cup book.queue
      /\ book.evaluated = {BaseCase} /\ book.evaluating = {}
  <2>1. book \in Grown(NewBook) /\ NewBook.evaluating = {}
    BY DEF Init, NewBook
  <2> QED BY <2>1, NewBookConsistent, GrownBooks
<1>2. Network /\ Jobs = {}
  BY InitNetwork
<1>3. DOMAIN outcome = {}
  OBVIOUS
<1>4. Progress
  <2>1. BusyWorkers = {}
    BY DEF BusyWorkers, FreeWorkers
  <2> QED BY <1>1, <1>3, <2>1 DEF Progress
<1>5. MPITypeOK
  <2>1. stopped \in BOOLEAN
    BY DEF Init, Verdicts
  <2>2. eval \in [Known(book) -> EvalStates]
    BY DEF EvalStates
  <2>3. PlainMessage("MODEL_SYNC") \in Messages
    BY DEF PlainMessage, Messages, Tags
  <2>4. /\ toWorker \in [Ranks -> Seq(Messages)]
        /\ toOverseer \in [Ranks -> Seq(Messages)]
    BY <2>3
  <2>5. /\ current \in [Ranks -> Case \cup {NoCase}]
        /\ outcome \in [DOMAIN outcome -> Outcomes]
        /\ DOMAIN outcome \subseteq Known(book)
    BY <1>3
  <2>6. phase \in Phases /\ peer \in Ranks
    BY RanksFinite DEF Phases
  <2> QED BY <1>1, <1>2, <2>1, <2>2, <2>4, <2>5, <2>6
          DEF MPITypeOK, Network, Channels
<1> QED BY <1>1, <1>2, <1>4, <1>5 DEF MPIInv

LEMMA ChannelTypes ==
  ASSUME NEW M, NEW f \in [Ranks -> Seq(M)], NEW r \in Ranks
  PROVE  /\ \A m \in M : Put(f, r, m) \in [Ranks -> Seq(M)]
         /\ f[r] # <<>> => Take(f, r) \in [Ranks -> Seq(M)]
<1>1. ASSUME NEW m \in M PROVE Put(f, r, m) \in [Ranks -> Seq(M)]
  <2>1. Append(f[r], m) \in Seq(M)
    OBVIOUS
  <2> QED BY <2>1 DEF Put
<1>2. ASSUME f[r] # <<>> PROVE Take(f, r) \in [Ranks -> Seq(M)]
  <2>1. Tail(f[r]) \in Seq(M)
    BY <1>2
  <2> QED BY <2>1 DEF Take
<1> QED BY <1>1, <1>2

LEMMA MessageTypes ==
  /\ \A c \in Case : Unevaluated(c) \in Messages
  /\ \A c \in Case, e \in Simulated : Evaluated(c, e) \in Messages
  /\ Terminate \in Messages
BY DEF Unevaluated, Evaluated, Terminate, PlainMessage, CaseMessage, Messages,
       Tags, EvalStates, Simulated

(* The overseer hands the head of the optimizer's queue to a worker.       *)
LEMMA AssignKeeps ==
  ASSUME MPIInv, phase \in {"distribute", "loop"}, phase' = phase,
         UNCHANGED <<peer, toOverseer, workerVars>>, stopped' \in BOOLEAN,
         NEW g \in Suppliers, NEW c \in g.queue, IsHead(g, c),
         AssignCase(GetNextCaseForEvaluation(g, c), c)
  PROVE  MPIInv' /\ LifeStep(book, book')
<1> DEFINE h == GetNextCaseForEvaluation(g, c)
<1>1. /\ Consistent(book) /\ eval \in [Known(book) -> EvalStates]
      /\ Network /\ Jobs = book.evaluating /\ Progress
      /\ DOMAIN outcome \subseteq Known(book) /\ MPITypeOK
  BY DEF MPIInv, MPITypeOK
<1>2. /\ Consistent(h) /\ LifeStep(book, h)
      /\ h.evaluating = book.evaluating \cup {c} /\ h.evaluated = book.evaluated
      /\ c \notin book.evaluating /\ c \notin book.evaluated
      /\ h.queue = g.queue \ {c} /\ Known(h) = Known(g)
  BY <1>1, GetStep
<1>3. /\ Known(book) \subseteq Known(g) /\ g.queue \cap Known(book) = book.queue
      /\ c \in Known(g)
  BY <1>1, SuppliedBooks DEF Known, Pending
<1>4. c \in Case /\ c # NoCase
  BY <1>2, <1>3, CasesAreCases
<1>5. c \notin DOMAIN outcome /\ h.queue \cap DOMAIN outcome = {}
  BY <1>1, <1>2, <1>3 DEF Progress
<1> HIDE DEF h
<1>6. PICK r \in FreeWorkers :
        /\ toWorker' = Put(toWorker, r, Unevaluated(c))
        /\ working' = [working EXCEPT ![r] = TRUE]
        /\ book' = h
        /\ eval' = [Evals(h, eval) EXCEPT ![c] = "E_CURRENT"]
  BY DEF AssignCase, getFreeWorker, Unevaluated, h
<1>7. UNCHANGED <<peer, toOverseer, pc, current, applied, outcome>>
  BY DEF workerVars
<1>8. /\ Network' /\ Jobs' = Jobs \cup {c}
      /\ BusyWorkers' = BusyWorkers \cup {r} /\ r \notin BusyWorkers
      /\ Job(r)' = c /\ toOverseer[r] = <<>>
      /\ \A s \in BusyWorkers : Job(s)' = Job(s)
  BY <1>1, <1>2, <1>4, <1>6, <1>7, AssignNetwork
<1>9. /\ eval' \in [Known(book') -> EvalStates] /\ eval'[c] = "E_CURRENT"
      /\ \A d \in Known(book) \ {c} : eval'[d] = eval[d]
  <2>1. /\ Evals(h, eval) \in [Known(h) -> EvalStates]
        /\ \A d \in Known(book) : Evals(h, eval)[d] = eval[d]
    BY <1>1, <1>2, <1>3, EvalsType
  <2>2. "E_CURRENT" \in EvalStates /\ c \in Known(h)
    BY <1>2, <1>3 DEF EvalStates
  <2> QED BY <1>2, <1>3, <1>6, <2>1, <2>2
<1>10. Progress'
  <2>1. \A s \in BusyWorkers' : (Job(s) \in DOMAIN outcome <=> toOverseer[s] # <<>>)'
    BY <1>1, <1>5, <1>7, <1>8 DEF Progress
  <2>2. /\ book.evaluating \subseteq Known(book) \ {c}
        /\ book.evaluated \subseteq Known(book) \ {c}
        /\ DOMAIN outcome \subseteq Known(book) \ {c}
    BY <1>1, <1>2, <1>5 DEF Known, Pending
  <2> QED BY <1>1, <1>2, <1>5, <1>6, <1>7, <1>9, <2>1, <2>2 DEF Progress
<1>11. MPITypeOK'
  <2>1. toWorker' \in [Ranks -> Seq(Messages)] /\ working' \in [Ranks -> BOOLEAN]
    BY <1>1, <1>4, <1>6, MessageTypes, ChannelTypes DEF MPITypeOK, FreeWorkers
  <2>2. DOMAIN outcome \subseteq Known(book')
    BY <1>1, <1>2, <1>3, <1>6
  <2> QED BY <1>1, <1>2, <1>6, <1>7, <1>9, <2>1, <2>2 DEF MPITypeOK
<1> QED BY <1>1, <1>2, <1>6, <1>8, <1>10, <1>11 DEF MPIInv

(* The network stays as it is when nothing it consists of changes.         *)
LEMMA SameNetwork ==
  ASSUME UNCHANGED <<phase, peer, working, toWorker, toOverseer, pc, current,
                     applied>>
  PROVE  /\ Network' <=> Network
         /\ Jobs' = Jobs /\ BusyWorkers' = BusyWorkers
         /\ \A r : Job(r)' = Job(r)
<1>1. BusyWorkers' = BusyWorkers
  BY DEF BusyWorkers, FreeWorkers
<1>2. \A r : (Situation(r)' <=> Situation(r)) /\ Job(r)' = Job(r)
  BY SameSituation DEF Told, Confirmed
<1>3. Channels' <=> Channels
  BY DEF Channels
<1>4. Jobs' = Jobs
  BY <1>1, <1>2 DEF Jobs
<1> QED BY <1>1, <1>2, <1>3, <1>4 DEF Network

(* The case c gets the state e; h is the book before and book' after.      *)
LEMMA SubmittedEval ==
  ASSUME eval \in [Known(book) -> EvalStates],
         NEW h, Known(book) \subseteq Known(h), NEW c \in Known(h),
         Known(h) \subseteq Known(book'), NEW e \in EvalStates,
         eval' = [Evals(book', eval) EXCEPT ![c] = e]
  PROVE  /\ eval' \in [Known(book') -> EvalStates] /\ eval'[c] = e
         /\ \A d \in Known(book) \ {c} : eval'[d] = eval[d]
<1>1. /\ Evals(book', eval) \in [Known(book') -> EvalStates]
      /\ \A d \in Known(book) : Evals(book', eval)[d] = eval[d]
  BY EvalsType
<1> QED BY <1>1

(* The bookkeeper knows the head of the queue: the case goes straight back *)
(* to the optimizer.                                                       *)
LEMMA BookkeepedKeeps ==
  ASSUME MPIInv, SubmitBookkeepedCase
  PROVE  MPIInv' /\ LifeStep(book, book')
<1>1. /\ Consistent(book) /\ eval \in [Known(book) -> EvalStates]
      /\ Network /\ Jobs = book.evaluating /\ Progress
      /\ DOMAIN outcome \subseteq Known(book) /\ MPITypeOK
  BY DEF MPIInv, MPITypeOK
<1>0. PICK g \in Suppliers : \E c \in g.queue :
        /\ IsHead(g, c)
        /\ Submit(GetNextCaseForEvaluation(g, c), c, "E_BOOKKEEPED", phase)
  BY DEF SubmitBookkeepedCase
<1>2. PICK c \in g.queue :
        /\ IsHead(g, c)
        /\ Submit(GetNextCaseForEvaluation(g, c), c, "E_BOOKKEEPED", phase)
  BY <1>0
<1> DEFINE h == GetNextCaseForEvaluation(g, c)
<1>3. /\ Consistent(h) /\ LifeStep(book, h)
      /\ h.evaluating = book.evaluating \cup {c} /\ h.evaluated = book.evaluated
      /\ c \notin book.evaluating /\ c \notin book.evaluated
      /\ h.queue = g.queue \ {c} /\ Known(h) = Known(g)
  BY <1>1, <1>2, GetStep
<1>4. /\ Known(book) \subseteq Known(g) /\ g.queue \cap Known(book) = book.queue
      /\ c \in Known(g)
  BY <1>1, SuppliedBooks DEF Known, Pending
<1>5. /\ book' \in Handled(h, c) /\ stopped' \in BOOLEAN /\ phase' = phase
      /\ eval' = [Evals(book', eval) EXCEPT ![c] = "E_BOOKKEEPED"]
  BY <1>2, <1>3 DEF Submit, Verdicts
<1>6. /\ Consistent(book') /\ LifeStep(book, book')
      /\ book'.evaluating = book.evaluating
      /\ book'.evaluated = book.evaluated \cup {c}
      /\ Known(book') = Known(h) \cup book'.queue
      /\ book'.queue \cap Known(h) \subseteq h.queue
  BY <1>1, <1>2, <1>5, GetAndSubmitStep
<1> HIDE DEF h
<1>7. c \notin DOMAIN outcome /\ book'.queue \cap DOMAIN outcome = {}
  BY <1>1, <1>3, <1>4, <1>6 DEF Progress
<1>8. /\ eval' \in [Known(book') -> EvalStates] /\ eval'[c] = "E_BOOKKEEPED"
      /\ \A d \in Known(book) \ {c} : eval'[d] = eval[d]
  BY <1>1, <1>3, <1>4, <1>5, <1>6, SubmittedEval DEF EvalStates
<1>9. UNCHANGED <<peer, working, toWorker, toOverseer, pc, current, applied, outcome>>
  BY DEF SubmitBookkeepedCase, workerVars
<1>10. /\ Network' /\ Jobs' = Jobs /\ BusyWorkers' = BusyWorkers
       /\ \A r : Job(r)' = Job(r)
  BY <1>1, <1>5, <1>9, SameNetwork
<1>11. Progress'
  <2>1. /\ book.evaluating \subseteq Known(book) \ {c}
        /\ book.evaluated \subseteq Known(book) \ {c}
        /\ DOMAIN outcome \subseteq Known(book) \ {c}
    BY <1>1, <1>3, <1>7 DEF Known, Pending
  <2> QED BY <1>1, <1>6, <1>7, <1>8, <1>9, <1>10, <2>1 DEF Progress
<1>12. MPITypeOK'
  <2>1. DOMAIN outcome \subseteq Known(book')
    BY <1>1, <1>3, <1>4, <1>6
  <2> QED BY <1>1, <1>5, <1>6, <1>8, <1>9, <2>1 DEF MPITypeOK
<1> QED BY <1>1, <1>5, <1>6, <1>10, <1>11, <1>12 DEF MPIInv

(* A result arrives; it is one of a case being evaluated.                  *)
LEMMA RecvKeeps ==
  ASSUME MPIInv, RecvEvaluatedCase
  PROVE  MPIInv' /\ LifeStep(book, book')
<1>1. /\ Consistent(book) /\ eval \in [Known(book) -> EvalStates]
      /\ Network /\ Jobs = book.evaluating /\ Progress
      /\ DOMAIN outcome \subseteq Known(book) /\ MPITypeOK
  BY DEF MPIInv, MPITypeOK
<1>2. PICK r \in Ranks :
        /\ toOverseer[r] # <<>>
        /\ LET m == Head(toOverseer[r])
           IN  Submit(book, m.case,
                      IF m.tag = "CASE_EVAL_SUCCESS" THEN "E_DONE" ELSE m.eval,
                      phase)
        /\ toOverseer' = Take(toOverseer, r)
        /\ working' = [working EXCEPT ![r] = FALSE]
  BY DEF RecvEvaluatedCase
<1>3. phase = "loop" /\ UNCHANGED <<peer, toWorker, pc, current, applied, outcome>>
  BY DEF RecvEvaluatedCase, InLoop, workerVars
<1>4. PICK c : c = Job(r)
  OBVIOUS
<1>5. r \in BusyWorkers /\ c \in book.evaluating
  <2>1. r \in BusyWorkers
    <3>1. ~Told(r)
      BY <1>3 DEF Told
    <3> QED BY <1>1, <1>2, <3>1, BusyWorking
            DEF Network, Situation, Idle, Stopping
  <2> QED BY <1>1, <1>4, <2>1 DEF Jobs
<1>6. PICK e \in Simulated : toOverseer[r] = <<Evaluated(c, e)>>
  <2>1. Carries(r, c)
    BY <1>1, <1>4, <1>5, BusyWorking DEF Network, Situation
  <2> QED BY <1>2, <2>1 DEF Carries, OnItsWay, AtWorker, OnItsWayBack
<1>7. Submit(book, c, "E_DONE", phase)
  <2>1. Head(toOverseer[r]) = Evaluated(c, e)
    BY <1>6, ShortSequences
  <2>2. Evaluated(c, e).case = c /\ Evaluated(c, e).tag = "CASE_EVAL_SUCCESS"
    BY DEF Evaluated, CaseMessage
  <2> QED BY <1>2, <2>1, <2>2
<1>8. /\ book' \in Handled(book, c) /\ stopped' \in BOOLEAN /\ phase' = "loop"
      /\ eval' = [Evals(book', eval) EXCEPT ![c] = "E_DONE"]
  BY <1>3, <1>5, <1>7 DEF Submit, Verdicts
<1>9. /\ Consistent(book') /\ Known(book) \subseteq Known(book')
      /\ book'.queue \cap Known(book) \subseteq book.queue
      /\ book'.evaluating = book.evaluating \ {c}
      /\ book'.evaluated = book.evaluated \cup {c}
      /\ LifeStep(book, book')
  BY <1>1, <1>5, <1>8, HandledBooks, SubmitStep
<1>10. /\ Network' /\ Jobs' = Jobs \ {c}
       /\ BusyWorkers' = BusyWorkers \ {r}
       /\ \A s \in BusyWorkers \ {r} :
            Job(s)' = Job(s) /\ toOverseer'[s] = toOverseer[s]
  BY <1>1, <1>2, <1>3, <1>4, <1>8, ReceiveNetwork
<1>11. /\ eval' \in [Known(book') -> EvalStates] /\ eval'[c] = "E_DONE"
       /\ \A d \in Known(book) \ {c} : eval'[d] = eval[d]
  <2>1. c \in Known(book)
    BY <1>5 DEF Known, Pending
  <2> QED BY <1>1, <1>8, <1>9, <2>1, SubmittedEval DEF EvalStates
<1>12. Progress'
  <2>1. c \in DOMAIN outcome
    BY <1>1, <1>2, <1>4, <1>5 DEF Progress
  <2>2. \A s \in BusyWorkers' : (Job(s) \in DOMAIN outcome <=> toOverseer[s] # <<>>)'
    BY <1>1, <1>3, <1>10 DEF Progress
  <2>3. /\ book.evaluating \subseteq Known(book)
        /\ book.evaluated \subseteq Known(book)
        /\ book'.queue \cap DOMAIN outcome = {}
    BY <1>1, <1>9 DEF Known, Pending, Progress
  <2> QED BY <1>1, <1>3, <1>9, <1>11, <2>1, <2>2, <2>3 DEF Progress
<1>13. MPITypeOK'
  <2>1. toOverseer' \in [Ranks -> Seq(Messages)] /\ working' \in [Ranks -> BOOLEAN]
    BY <1>1, <1>2, ChannelTypes DEF MPITypeOK
  <2> QED BY <1>1, <1>3, <1>8, <1>9, <1>11, <2>1 DEF MPITypeOK, Phases
<1> QED BY <1>1, <1>8, <1>9, <1>10, <1>12, <1>13 DEF MPIInv

(* The steps of a worker.                                                  *)
LEMMA WorkerKeeps ==
  ASSUME MPIInv, NEW r \in Ranks, WorkerNext(r)
  PROVE  MPIInv' /\ UNCHANGED book
<1>1. /\ Network /\ Jobs = book.evaluating /\ Progress /\ MPITypeOK
      /\ phase # "threw"
  BY DEF MPIInv
<1>2. UNCHANGED <<book, stopped, phase, peer, working, eval>>
  BY DEF WorkerNext, RecvModelSync, RecvUnevaluatedCase, FinalizeWorker,
         EvaluateCase, overseerVars
<1>3. CASE RecvModelSync(r)
  <2>1. /\ Network' /\ Jobs' = Jobs /\ BusyWorkers' = BusyWorkers
        /\ \A s \in BusyWorkers : Job(s)' = Job(s)
    BY <1>1, <1>3, RecvModelSyncNetwork
  <2>2. UNCHANGED <<toOverseer, current, applied, outcome>>
    BY <1>3 DEF RecvModelSync
  <2>3. Progress'
    BY <1>1, <1>2, <2>1, <2>2 DEF Progress
  <2>4. toWorker' \in [Ranks -> Seq(Messages)] /\ pc' \in [Ranks -> PCs]
    BY <1>1, <1>3, ChannelTypes DEF RecvModelSync, Receives, MPITypeOK, PCs
  <2> QED BY <1>1, <1>2, <2>1, <2>2, <2>3, <2>4 DEF MPIInv, MPITypeOK
<1>4. CASE RecvUnevaluatedCase(r)
  <2>1. /\ Network' /\ Jobs' = Jobs /\ BusyWorkers' = BusyWorkers
        /\ \A s \in BusyWorkers : Job(s)' = Job(s)
        /\ current'[r] = IF working[r] THEN Job(r) ELSE NoCase
    BY <1>1, <1>4, RecvUnevaluatedNetwork
  <2>2. UNCHANGED <<toOverseer, applied, outcome>>
    BY <1>4 DEF RecvUnevaluatedCase
  <2>3. Progress'
    BY <1>1, <1>2, <2>1, <2>2 DEF Progress
  <2>4. toWorker' \in [Ranks -> Seq(Messages)] /\ pc' \in [Ranks -> PCs]
    BY <1>1, <1>4, ChannelTypes DEF RecvUnevaluatedCase, Receives, MPITypeOK, PCs
  <2>5. current' \in [Ranks -> Case \cup {NoCase}]
    <3>1. current'[r] \in Case \cup {NoCase}
      <4>1. working[r] => Job(r) \in book.evaluating
        BY <1>1, BusyWorking DEF Jobs
      <4> QED BY <1>1, <2>1, <4>1 DEF MPITypeOK, Consistent, Book
    <3>2. current' = [current EXCEPT ![r] = current'[r]]
      BY <1>1, <1>4 DEF RecvUnevaluatedCase, MPITypeOK
    <3> QED BY <1>1, <3>1, <3>2 DEF MPITypeOK
  <2> QED BY <1>1, <1>2, <2>1, <2>2, <2>3, <2>4, <2>5 DEF MPIInv, MPITypeOK
<1>5. ASSUME NEW o \in Outcomes, EvaluateCase(r, o) PROVE MPIInv'
  <2> DEFINE c == current[r]
  <2>1. /\ Network' /\ Jobs' = Jobs /\ BusyWorkers' = BusyWorkers
        /\ r \in BusyWorkers /\ c = Job(r) /\ toOverseer[r] = <<>>
        /\ toOverseer'[r] # <<>> /\ EvalOf(o) \in Simulated
        /\ \A s \in BusyWorkers : Job(s)' = Job(s)
        /\ \A s \in Ranks \ {r} : toOverseer'[s] = toOverseer[s]
    BY <1>1, <1>5, EvaluateNetwork, ShortSequences
  <2>2. /\ UNCHANGED <<toWorker, current>>
        /\ outcome' = [d \in DOMAIN outcome \cup {c} |->
                         IF d = c THEN o ELSE outcome[d]]
        /\ toOverseer' = Put(toOverseer, r, Evaluated(c, EvalOf(o)))
        /\ pc' = [pc EXCEPT ![r] = "waiting"]
    BY <1>5 DEF EvaluateCase, Evaluated, EvaluatedTag
  <2>3. c \in book.evaluating /\ c \in Known(book) /\ c \in Case
    BY <1>1, <2>1, CasesAreCases DEF Jobs, Known, Pending, MPITypeOK
  <2>4. Progress'
    <3>1. \A s \in BusyWorkers' : (Job(s) \in DOMAIN outcome <=> toOverseer[s] # <<>>)'
      <4>1. \A s \in BusyWorkers \ {r} : s \in Ranks /\ Job(s) # c
        BY <1>1, <2>1, BusyWorking DEF Network
      <4> QED BY <1>1, <2>1, <2>2, <4>1 DEF Progress
    <3>2. c \notin book.queue /\ eval[c] = "E_CURRENT"
      BY <1>1, <2>3 DEF MPITypeOK, Consistent, Progress
    <3> QED BY <1>1, <1>2, <2>2, <3>1, <3>2 DEF Progress
  <2>5. /\ toOverseer' \in [Ranks -> Seq(Messages)] /\ pc' \in [Ranks -> PCs]
    BY <1>1, <2>1, <2>2, <2>3, MessageTypes, ChannelTypes DEF MPITypeOK, PCs
  <2>6. /\ outcome' \in [DOMAIN outcome' -> Outcomes]
        /\ DOMAIN outcome' \subseteq Known(book')
    BY <1>1, <1>2, <2>2, <2>3 DEF MPITypeOK
  <2>7. applied' \in [Ranks -> BOOLEAN]
    BY <2>1 DEF Network, Channels
  <2> QED BY <1>1, <1>2, <2>1, <2>2, <2>4, <2>5, <2>6, <2>7 DEF MPIInv, MPITypeOK
<1>6. CASE FinalizeWorker(r)
  <2>1. /\ Network' /\ Jobs' = Jobs /\ BusyWorkers' = BusyWorkers
        /\ \A s \in BusyWorkers : Job(s)' = Job(s) /\ toOverseer'[s] = toOverseer[s]
    BY <1>1, <1>6, FinalizeNetwork
  <2>2. UNCHANGED <<toWorker, current, applied, outcome>>
    BY <1>6 DEF FinalizeWorker
  <2>3. Progress'
    BY <1>1, <1>2, <2>1, <2>2 DEF Progress
  <2>4. toOverseer' \in [Ranks -> Seq(Messages)] /\ pc' \in [Ranks -> PCs]
    <3>1. \/ /\ pc' = [pc EXCEPT ![r] = "done"]
             /\ toOverseer' = Put(toOverseer, r, Terminate)
          \/ /\ pc' = [pc EXCEPT ![r] = "died"]
             /\ toOverseer' = toOverseer
      BY <1>6 DEF FinalizeWorker, Terminate
    <3>2. /\ toOverseer \in [Ranks -> Seq(Messages)] /\ pc \in [Ranks -> PCs]
      BY <1>1 DEF MPITypeOK
    <3>3. Put(toOverseer, r, Terminate) \in [Ranks -> Seq(Messages)]
      BY <3>2, ChannelTypes, MessageTypes
    <3> QED BY <3>1, <3>2, <3>3 DEF PCs
  <2> QED BY <1>1, <1>2, <2>1, <2>2, <2>3, <2>4 DEF MPIInv, MPITypeOK
<1> QED BY <1>2, <1>3, <1>4, <1>5, <1>6 DEF WorkerNext

(* The steps of the overseer that hand out and receive no case.            *)
LEMMA ShutdownKeeps ==
  ASSUME MPIInv,
         \/ FinishDistribution \/ LeaveLoop
         \/ TerminateWorkers \/ EnsureWorkerTermination
  PROVE  MPIInv' /\ UNCHANGED book
<1>1. /\ Network /\ Jobs = book.evaluating /\ Progress /\ MPITypeOK
      /\ phase # "threw"
  BY DEF MPIInv
<1>2. UNCHANGED <<book, stopped, working, eval, pc, current, applied, outcome>>
  BY DEF FinishDistribution, LeaveLoop, TerminateWorkers,
         EnsureWorkerTermination, workerVars
<1>3. BusyWorkers' = BusyWorkers
  BY <1>2 DEF BusyWorkers, FreeWorkers
<1>4. CASE FinishDistribution
  <2>1. /\ Network' /\ Jobs' = Jobs
        /\ \A r \in BusyWorkers : Job(r)' = Job(r)
    BY <1>1, <1>2, <1>4, DistributedNetwork DEF FinishDistribution
  <2>2. Progress'
    BY <1>1, <1>2, <1>3, <1>4, <2>1 DEF FinishDistribution, Progress
  <2> QED BY <1>1, <1>2, <1>4, <2>1, <2>2
          DEF FinishDistribution, MPIInv, MPITypeOK, Phases
<1>5. CASE LeaveLoop
  <2>1. BusyWorkers = {}
    BY <1>1, <1>5 DEF LeaveLoop, IsFinished, Jobs
  <2>2. Network' /\ Jobs' = Jobs
    BY <1>1, <1>5, <2>1, LeaveNetwork
  <2>3. Progress'
    BY <1>1, <1>2, <1>3, <2>1 DEF Progress
  <2> QED BY <1>1, <1>2, <1>5, <2>2, <2>3, RanksFinite
          DEF LeaveLoop, MPIInv, MPITypeOK, Phases
<1>6. CASE TerminateWorkers
  <2>1. Network' /\ Jobs' = Jobs /\ phase' \in {"terminate", "ensure"}
    BY <1>1, <1>6, TerminateNetwork
  <2>2. Progress'
    BY <1>1, <1>2, <1>3, <1>6 DEF TerminateWorkers, Network, Progress
  <2>3. toWorker' \in [Ranks -> Seq(Messages)] /\ peer' \in Ranks
    BY <1>1, <1>6, <2>1, ChannelTypes, MessageTypes
    DEF TerminateWorkers, MPITypeOK, Terminate, Network, Channels
  <2> QED BY <1>1, <1>2, <1>6, <2>1, <2>2, <2>3
          DEF TerminateWorkers, MPIInv, MPITypeOK, Phases
<1>7. CASE EnsureWorkerTermination
  <2>1. Network' /\ Jobs' = Jobs /\ phase' \in {"ensure", "done"}
    BY <1>1, <1>7, EnsureNetwork
  <2>2. Progress'
    BY <1>1, <1>2, <1>3, <1>7 DEF EnsureWorkerTermination, Network, Progress
  <2>3. toOverseer' \in [Ranks -> Seq(Messages)] /\ peer' \in Ranks
    BY <1>1, <1>7, <2>1, ChannelTypes
    DEF EnsureWorkerTermination, MPITypeOK, Network, Channels
  <2> QED BY <1>1, <1>2, <1>7, <2>1, <2>2, <2>3
          DEF EnsureWorkerTermination, MPIInv, MPITypeOK, Phases
<1> QED BY <1>2, <1>4, <1>5, <1>6, <1>7

LEMMA StepKeeps ==
  ASSUME MPIInv, [MPINext]_vars
  PROVE  MPIInv' /\ (LifeStep(book, book') \/ UNCHANGED book)
<1>1. ASSUME InitialDistribution
      PROVE  MPIInv' /\ LifeStep(book, book')
  <2>1. PICK c \in book.queue :
          IsHead(book, c) /\ AssignCase(GetNextCaseForEvaluation(book, c), c)
    BY <1>1 DEF InitialDistribution
  <2>2. /\ book \in Suppliers /\ stopped' \in BOOLEAN
        /\ phase = "distribute" /\ phase' = phase
        /\ UNCHANGED <<peer, toOverseer, workerVars>>
    BY <1>1 DEF InitialDistribution, MayDistribute, Suppliers, MPIInv, MPITypeOK
  <2> QED BY <2>1, <2>2, AssignKeeps
<1>2. ASSUME AssignNewCase
      PROVE  MPIInv' /\ LifeStep(book, book')
  <2>1. PICK g \in Suppliers : \E c \in g.queue :
          IsHead(g, c) /\ AssignCase(GetNextCaseForEvaluation(g, c), c)
    BY <1>2 DEF AssignNewCase
  <2>2. PICK c \in g.queue :
          IsHead(g, c) /\ AssignCase(GetNextCaseForEvaluation(g, c), c)
    BY <2>1
  <2>3. /\ stopped' \in BOOLEAN /\ phase = "loop" /\ phase' = phase
        /\ UNCHANGED <<peer, toOverseer, workerVars>>
    BY <1>2 DEF AssignNewCase, InLoop, MPIInv, MPITypeOK
  <2> QED BY <2>2, <2>3, AssignKeeps
<1>3. ASSUME UNCHANGED vars
      PROVE  MPIInv' /\ UNCHANGED book
  <2>1. UNCHANGED <<book, stopped, phase, peer, working, eval, toWorker,
                    toOverseer, pc, current, applied, outcome>>
    BY <1>3 DEF vars, overseerVars, workerVars
  <2>2. /\ Network' <=> Network
        /\ Jobs' = Jobs /\ BusyWorkers' = BusyWorkers
        /\ \A r : Job(r)' = Job(r)
    BY <2>1, SameNetwork
  <2>3. Progress'
    BY <2>1, <2>2 DEF MPIInv, Progress
  <2>4. MPITypeOK'
    BY <2>1 DEF MPIInv, MPITypeOK
  <2> QED BY <2>1, <2>2, <2>3, <2>4 DEF MPIInv
<1>4. ASSUME NEW r \in Ranks,
             \/ RecvModelSync(r) \/ RecvUnevaluatedCase(r) \/ FinalizeWorker(r)
             \/ \E o \in Outcomes : EvaluateCase(r, o)
      PROVE  MPIInv' /\ UNCHANGED book
  BY <1>4, WorkerKeeps DEF WorkerNext
<1> QED BY <1>1, <1>2, <1>3, <1>4, BookkeepedKeeps, RecvKeeps, ShutdownKeeps
        DEF MPINext, Ended

LEMMA MPIInvariant == MPISpec => []MPIInv
<1>1. MPIInv /\ [MPINext]_vars => MPIInv'
  BY StepKeeps
<1> QED BY <1>1, InitInv, PTL DEF MPISpec

--------------------------------------------------------------------------------
(* The state of the MPI runner is type correct in every reachable state,   *)
(* and the case handler and the simulations speak of the same cases.       *)
THEOREM MPITypeCorrect == MPISpec => []MPITypeOK
<1>1. MPIInv => MPITypeOK
  BY DEF MPIInv
<1> QED BY <1>1, MPIInvariant, PTL

(* The overseer's flags, the places of the cases and the optimizer's list  *)
(* of cases being evaluated agree (WorkerStatus.working in overseer.h).    *)
THEOREM BusyCorrect == MPISpec => []BusyMeansOneCaseOut
<1>1. MPIInv => BusyMeansOneCaseOut
  BY NetworkOut DEF MPIInv, BusyMeansOneCaseOut
<1> QED BY <1>1, MPIInvariant, PTL

(* No case is simulated twice, a bookkeeped one never, and an evaluated    *)
(* case has its value from a simulation or from the bookkeeper.            *)
THEOREM SimulatedOnceCorrect == MPISpec => []SimulatedOnce
<1>1. MPIInv => SimulatedOnce
  <2> SUFFICES ASSUME MPIInv, NEW r \in Ranks
               PROVE  (SentTo(r) \cup HeldBy(r)) \cap DOMAIN outcome = {}
    BY DEF MPIInv, Progress, SimulatedOnce
  <2>1. CASE working[r]
    <3>1. r \in BusyWorkers /\ Job(r) # NoCase /\ Carries(r, Job(r))
      BY <2>1, BusyWorking DEF MPIInv, Network, Situation
    <3>2. SentTo(r) \cup HeldBy(r) = IF toOverseer[r] = <<>> THEN {Job(r)} ELSE {}
      BY <3>1, OutAtCarrier
    <3> QED BY <3>1, <3>2 DEF MPIInv, Progress
  <2>2. CASE ~working[r]
    BY <2>2, OutAtOthers DEF MPIInv, Network, Situation
  <2> QED BY <2>1, <2>2
<1> QED BY <1>1, MPIInvariant, PTL

(* The overseer never throws: every result is one of a case that is being  *)
(* evaluated, and every confirmation comes when it is awaited.             *)
THEOREM NeverThrowsCorrect == MPISpec => []NeverThrows
<1>1. MPIInv => NeverThrows
  BY DEF MPIInv, NeverThrows
<1> QED BY <1>1, MPIInvariant, PTL

(* When the overseer returns from Execute, all workers have finalized, all *)
(* messages have been received and no case was left behind.                *)
THEOREM ShutdownCorrect == MPISpec => []CleanShutdown
<1>1. MPIInv => CleanShutdown
  <2> SUFFICES ASSUME MPIInv, phase = "done"
               PROVE  /\ \A r \in Ranks : /\ pc[r] = "done" /\ ~working[r]
                                           /\ toWorker[r] = <<>>
                                           /\ toOverseer[r] = <<>>
                      /\ book.evaluating = {}
    BY DEF CleanShutdown
  <2>1. BusyWorkers = {}
    BY DEF MPIInv, Network
  <2>2. \A r \in Ranks : ~working[r] /\ Stopping(r) /\ Confirmed(r)
    BY <2>1, BusyWorking
    DEF MPIInv, Network, Situation, Idle, Told, Confirmed
  <2> QED BY <2>1, <2>2 DEF Stopping, MPIInv, Jobs
<1> QED BY <1>1, MPIInvariant, PTL
--------------------------------------------------------------------------------
(* Where a case is agrees with the optimizer's book.                       *)
LEMMA PlacesAreStages ==
  ASSUME MPIInv
  PROVE  [c \in Known(book) |-> Place(c)] = StageOf(book)
<1>1. /\ book.evaluating = UNION {Out(r) : r \in Ranks}
      /\ book.queue \cap book.evaluating = {}
  BY NetworkOut DEF MPIInv, MPITypeOK, Consistent
<1>2. \A c : (\E r \in Ranks : c \in Out(r)) <=> c \in book.evaluating
  BY <1>1
<1> QED BY <1>1, <1>2 DEF Place, StageOf

PlacesAgree == [c \in Known(book) |-> Place(c)] = StageOf(book)

LEMMA PlacesAgreeNext == MPIInv' => PlacesAgree'
<1>1. MPIInv => PlacesAgree
  BY PlacesAreStages DEF PlacesAgree
<1> QED BY <1>1, PTL

LEMMA LifecycleStep ==
  ASSUME MPIInv, [MPINext]_vars
  PROVE  [Lifecycle!Advance]_([c \in Known(book) |-> Place(c)])
<1> DEFINE st == [c \in Known(book) |-> Place(c)]
<1>1. MPIInv' /\ (LifeStep(book, book') \/ UNCHANGED book)
  BY StepKeeps
<1>2. st = StageOf(book)
  BY PlacesAreStages
<1>3. st' = StageOf(book)'
  BY <1>1, PlacesAgreeNext DEF PlacesAgree
<1>4. CASE LifeStep(book, book')
  <2>1. Stages!Advance
    BY <1>1, <1>4, StepStages DEF MPIInv, MPITypeOK
  <2>2. \A c, d : Lifecycle!Before(c, d) <=> Stages!Before(c, d)
    BY DEF Lifecycle!Before, Stages!Before
  <2>3. \A s, c : Lifecycle!Stage(s, c) = Stages!Stage(s, c)
    BY DEF Lifecycle!Stage, Stages!Stage
  <2>4. \A x : Lifecycle!Reachable(x) = Stages!Reachable(x)
    BY DEF Lifecycle!Reachable, Stages!Reachable
  <2>5. \A c : Lifecycle!HandedOut(c) <=> Stages!HandedOut(c)
    BY <1>2, <1>3, <2>3 DEF Lifecycle!HandedOut, Stages!HandedOut
  <2>6. Lifecycle!Advance
    BY <1>2, <1>3, <2>1, <2>2, <2>3, <2>4, <2>5
    DEF Lifecycle!Advance, Stages!Advance
  <2> QED BY <2>6
<1>5. CASE UNCHANGED book
  <2>1. StageOf(book)' = StageOf(book)
    BY <1>5 DEF StageOf, Known, Pending
  <2> QED BY <1>2, <1>3, <2>1
<1> QED BY <1>1, <1>4, <1>5

(* The overseer, its workers and an optimizer that keeps its contract take *)
(* every case through the lifecycle of a case: a case that is at a worker  *)
(* or in a channel is lost in none of them, and comes back once.           *)
THEOREM LifecycleCorrect == MPISpec => LifecycleSpec
<1>1. MPIInit => Lifecycle!Init
  <2> SUFFICES ASSUME MPIInit PROVE Lifecycle!Init
    OBVIOUS
  <2>1. MPIInv /\ Stages!Init
    BY InitInv, ContractInit DEF MPIInit
  <2> QED BY <2>1, PlacesAreStages
          DEF Lifecycle!Init, Stages!Init, Lifecycle!BaseCase, Stages!BaseCase
<1>2. MPIInv /\ [MPINext]_vars
        => [Lifecycle!Advance]_([c \in Known(book) |-> Place(c)])
  BY LifecycleStep
<1> QED BY <1>1, <1>2, MPIInvariant, PTL DEF MPISpec, LifecycleSpec, Lifecycle!Spec
================================================================================
