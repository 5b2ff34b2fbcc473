---------------------------------- MODULE APPS ---------------------------------
(***************************************************************************)
(* Optimization::Optimizers::APPS, asynchronous parallel pattern search,   *)
(* with the parts of GSS and Optimizer it inherits.  The caller (a runner) *)
(* asks for cases and submits evaluated ones in any order, at most Workers *)
(* of them being out at a time.                                            *)
(*                                                                         *)
(* A step length is the number of contractions that still leave it at      *)
(* least the tolerance, so level 0 is the shortest length not yet          *)
(* converged and a negative level is a converged direction.                *)
(* Objective function values are to be maximised.                          *)
(***************************************************************************)
EXTENDS CaseHandler, FiniteSets

CONSTANTS
  NumVars,      \* number of variables; there are two directions for each
  MaxQueueLen,  \* max_queue_length_
  MaxEvals,     \* max_evaluations_
  InitLevel,    \* level of the initial step length
  Expansion,    \* levels gained by one expansion (0: expansion factor 1.0)
  HasBounds,    \* does the constraint handler have boundary constraints?
  TopLevel,     \* bound on the levels rescaling by the boundaries may give
  Workers,      \* number of cases that may be evaluated at the same time
  Values        \* the objective function values an evaluation may return

Directions == 0 .. (2 * NumVars - 1)

ASSUME NumVarsAssumption == NumVars \in Nat \ {0}
ASSUME QueueAssumption == MaxQueueLen \in Nat /\ MaxQueueLen >= 2 * NumVars
ASSUME EvalsAssumption == MaxEvals \in Nat
ASSUME LevelAssumption ==
  InitLevel \in Nat /\ Expansion \in Nat /\ TopLevel \in Nat
ASSUME BoundsAssumption == HasBounds \in BOOLEAN
ASSUME WorkersAssumption == Workers \in Nat \ {0}
ASSUME ValuesAssumption == Values \subseteq Int /\ Values # {}

VARIABLES
  book,              \* case_handler_
  origin,            \* origin_case of every trial case
  length,            \* origin_step_length of every trial case, as a level
  ofv,               \* objective_function_value_ of every case
  best,              \* tentative_best_case_
  steps,             \* step_lengths_, as levels
  active,            \* active_
  iteration,         \* iteration_
  evaluated_cases,   \* evaluated_cases_
  is_hybrid_component

vars == <<book, origin, length, ofv, best, steps, active, iteration,
          evaluated_cases, is_hybrid_component>>

(* generate_trial_points gives the trial case of direction d the position  *)
(* d, and iterate generates the trial cases in increasing direction order. *)
Direction(c) == c[2]
Trials == DOMAIN origin

NumDirections == 2 * NumVars
Twin(d) == IF d >= NumVars THEN d - NumVars ELSE d + NumVars

IsConverged(st) == \A d \in Directions : st[d] < 0

(* Had IsFinished compared the other way round.                            *)
StoppedAboveMaxEvals == evaluated_cases > MaxEvals \/ IsConverged(steps)

Stopped == evaluated_cases >= MaxEvals \/ IsConverged(steps)
Finished == Stopped /\ book.evaluating = {}

(* Had inactive() left out a test, or compared strictly.                   *)
InactiveOrConverged(act, st) == Directions \ act
InactiveOrActive(act, st) == {d \in Directions : st[d] >= 0}
InactiveAboveTolerance(act, st) == {d \in Directions \ act : st[d] > 0}

Inactive(act, st) == {d \in Directions \ act : st[d] >= 0}

(* The step lengths set_step_lengths may produce from a success at level l *)
(* in direction d.  Rescaling by the boundaries of the variables gives the *)
(* two directions of a variable the same length, never below the           *)
(* tolerance; which one depends on the boundaries.                         *)
SetStepLengths(d, l) ==
  IF HasBounds
    THEN {st \in [Directions -> 0 .. (IF l > TopLevel THEN l ELSE TopLevel)] :
            /\ st[d] = IF l < 0 THEN 0 ELSE l
            /\ \A e \in Directions : st[e] = st[Twin(e)]}
    ELSE {[e \in Directions |-> l]}

Expand(st) == [d \in Directions |-> st[d] + Expansion]

(* Had contract() shortened every step length.                             *)
ContractAll(st, d) == [e \in Directions |-> st[e] - 1]

Contract(st, d) == [st EXCEPT ![d] = @ - 1]

(* Had prune_queue left no room for new cases.                             *)
PrunedToMaximum(q, n) ==
  IF Cardinality(q) <= MaxQueueLen THEN {q}
  ELSE {k \in SUBSET q : Cardinality(k) = MaxQueueLen}

(* What prune_queue may discard: it removes the cases with the worst       *)
(* origin until the queue is short enough, in any order among equals.  A   *)
(* trial case carries a copy of its origin's value.                        *)
PrunedQueue(q, n) ==
  LET room == MaxQueueLen - NumDirections
      keep == IF n >= MaxEvals THEN 1 ELSE room
  IN  IF Cardinality(q) <= room THEN {q}
      ELSE {k \in SUBSET q :
              /\ Cardinality(k) = IF Cardinality(q) < keep
                                    THEN Cardinality(q) ELSE keep
              /\ \A c \in k, d \in q \ k : ofv[c] >= ofv[d]}

(* Had iterate not looked at the number of evaluations.                    *)
NewDirectionsUncapped(act, st, n) == Inactive(act, st)

(* APPS::iterate.  Its operands are what the calling operation has         *)
(* computed so far: the book h, the best case b, the step lengths st, the  *)
(* active directions act, the evaluation count n and the values o.         *)
NewDirections(act, st, n) == IF n < MaxEvals THEN Inactive(act, st) ELSE {}

IteratedBook(h, dirs) == IF dirs = {} THEN h ELSE AddNewCases(h, dirs)

Iterate(h, b, st, act, n, o) ==
  LET dirs  == NewDirections(act, st, n)
      fresh == Batch(h, dirs)
  IN  /\ origin' = [c \in Trials \cup fresh |->
                      IF c \in fresh THEN b ELSE origin[c]]
      /\ length' = [c \in Trials \cup fresh |->
                      IF c \in fresh THEN st[Direction(c)] ELSE length[c]]
      /\ ofv' = [c \in DOMAIN o \cup fresh |->
                   IF c \in fresh THEN o[b] ELSE o[c]]
      /\ best' = b
      /\ steps' = st
      /\ active' = act \cup dirs
      /\ iteration' = iteration + 1
      /\ evaluated_cases' = IF is_hybrid_component THEN iteration + 1 ELSE n
      /\ UNCHANGED is_hybrid_component

(* Had isImprovement compared with the case's origin, or not strictly.     *)
IsImprovementOnOrigin(c, v) == v > ofv[origin[c]]
IsNoWorse(c, v) == v >= ofv[best]

(* Optimizer::isImprovement of the case c evaluated to v.                  *)
IsImprovement(c, v) == v > ofv[best]

(* Had the queue been any container.                                       *)
AnyOfQueue(h) == h.queue

(* The case GetNextCaseForEvaluation takes from the book h.                *)
HeadOfQueue(h) == {c \in h.queue : IsHead(h, c)}

--------------------------------------------------------------------------------
(* The constructors.  is_hybrid_component_ is set only for a component of  *)
(* a hybrid optimizer: in a stand-alone one it is read uninitialised.      *)
Init ==
  /\ book = NewBook
  /\ origin = [c \in {} |-> BaseCase]
  /\ length = [c \in {} |-> 0]
  /\ ofv \in [{BaseCase} -> Values]
  /\ best = BaseCase
  /\ steps = [d \in Directions |-> InitLevel]
  /\ active = {}
  /\ iteration = 0
  /\ evaluated_cases = 0
  /\ is_hybrid_component \in BOOLEAN

(* GetCaseForEvaluation when the queue holds a case.                       *)
GetQueuedCase ==
  /\ ~Finished
  /\ Cardinality(book.evaluating) < Workers
  /\ \E c \in HeadOfQueue(book) : book' = GetNextCaseForEvaluation(book, c)
  /\ UNCHANGED <<origin, length, ofv, best, steps, active, iteration,
                 evaluated_cases, is_hybrid_component>>

(* GetCaseForEvaluation when the queue is empty, which the runners call    *)
(* only when no case is out: iterate, then take the head.  If iterate adds *)
(* nothing the code throws and the step is not possible.                   *)
StartIteration ==
  /\ ~Finished
  /\ Pending(book) = {}
  /\ LET h == IteratedBook(book, NewDirections(active, steps, evaluated_cases))
     IN  \E c \in HeadOfQueue(h) : book' = GetNextCaseForEvaluation(h, c)
  /\ Iterate(book, best, steps, active, evaluated_cases, ofv)

(* SubmitEvaluatedCase of the case c evaluated to v: successful_iteration  *)
(* when c improves on the best case, else unsuccessful_iteration.          *)
SubmitSuccess(c, v) ==
  LET n == evaluated_cases + 1
      h == SetCaseEvaluated(book, c)
      o == [ofv EXCEPT ![c] = v]
  IN  /\ IsImprovement(c, v)
      /\ \E st \in SetStepLengths(Direction(c), length[c]),
            k \in PrunedQueue(h.queue, n) :
           LET pruned == DequeueCases(h, h.queue \ k)
           IN  /\ book' = IteratedBook(pruned, NewDirections({}, Expand(st), n))
               /\ Iterate(pruned, c, Expand(st), {}, n, o)

SubmitFailure(c, v) ==
  LET n     == evaluated_cases + 1
      h     == SetCaseEvaluated(book, c)
      o     == [ofv EXCEPT ![c] = v]
      fresh == origin[c] = best
      st    == IF fresh THEN Contract(steps, Direction(c)) ELSE steps
      act   == IF fresh THEN active \ {Direction(c)} ELSE active
  IN  /\ ~IsImprovement(c, v)
      /\ IF IsConverged(st)
           THEN /\ book' = h
                /\ ofv' = o
                /\ steps' = st
                /\ active' = act
                /\ evaluated_cases' = n
                /\ UNCHANGED <<origin, length, best, iteration,
                               is_hybrid_component>>
           ELSE /\ book' = IteratedBook(h, NewDirections(act, st, n))
                /\ Iterate(h, best, st, act, n, o)

SubmitEvaluatedCase ==
  \E c \in book.evaluating, v \in Values :
    SubmitSuccess(c, v) \/ SubmitFailure(c, v)

(* The runner leaves its loop.                                             *)
Terminate == Finished /\ UNCHANGED vars

Next ==
  \/ GetQueuedCase
  \/ StartIteration
  \/ \E c \in book.evaluating, v \in Values : SubmitSuccess(c, v)
  \/ \E c \in book.evaluating, v \in Values : SubmitFailure(c, v)
  \/ Terminate

(* The runner keeps asking for cases while the search is not finished, and *)
(* every simulation ends, if only by its timeout.                          *)
Fairness ==
  /\ WF_vars(GetQueuedCase)
  /\ WF_vars(StartIteration)
  /\ WF_vars(SubmitEvaluatedCase)

Spec == Init /\ [][Next]_vars

FairSpec == Spec /\ Fairness

--------------------------------------------------------------------------------
Value == Int

(* Type correctness; a trial case is known to the book and comes from a    *)
(* case that has been evaluated.                                           *)
TypeOK ==
  /\ book \in Book
  /\ Trials = Known(book) \ {BaseCase}
  /\ Trials \subseteq Nat \X Directions
  /\ origin \in [Trials -> book.evaluated]
  /\ length \in [Trials -> Nat]
  /\ ofv \in [Known(book) -> Value]
  /\ best \in book.evaluated
  /\ steps \in [Directions -> Int]
  /\ active \subseteq Directions
  /\ iteration \in Nat
  /\ evaluated_cases \in Nat
  /\ is_hybrid_component \in BOOLEAN

(* The pending cases that search from the current best case.               *)
Current == {c \in Pending(book) : origin[c] = best}

(* A direction is active exactly while one trial case in that direction    *)
(* from the current best case is queued or being evaluated (active_ is     *)
(* kept apart from the book by set_active, set_inactive and reset_active): *)
(* no direction is polled twice at once and none is forgotten.             *)
ActiveMeansPending ==
  /\ active = {Direction(c) : c \in Current}
  /\ \A c, d \in Current : Direction(c) = Direction(d) => c = d

(* When the runner asks for a case although the queue is empty and no case *)
(* is out, iterate finds a direction to search: GetNextCaseForEvaluation   *)
(* does not throw on an empty queue.                                       *)
NeverEmptyHanded ==
  ~Finished /\ Pending(book) = {} =>
    NewDirections(active, steps, evaluated_cases) # {}

(* The queue never outgrows max_queue_length_, whatever order results come *)
(* in: pruning leaves room for one case of every direction.                *)
QueueBounded == Cardinality(book.queue) <= MaxQueueLen

(* The tentative best case is at least as good as every evaluated case.    *)
BestDominates == \A c \in book.evaluated : ofv[c] <= ofv[best]

(* Every replacement of the tentative best case is a strict improvement,   *)
(* and the value of an evaluated case never changes afterwards.            *)
BestImprovesStep ==
  /\ best' # best => ofv'[best'] > ofv[best]
  /\ \A c \in book.evaluated : ofv'[c] = ofv[c]

BestImproves == [][BestImprovesStep]_vars

(* The guarantee of pattern search: when the step lengths have converged,  *)
(* every direction was polled from the final best case at the length whose *)
(* contraction is below the tolerance, without improvement.  Results for   *)
(* superseded best cases contract nothing.                                 *)
ConvergedMeansPolled ==
  IsConverged(steps) =>
    \A d \in Directions :
      \E c \in Trials \cap book.evaluated :
        /\ Direction(c) = d /\ origin[c] = best
        /\ length[c] = steps[d] + 1
        /\ ofv[c] <= ofv[best]

(* Once max_evaluations_ is reached no case is created: what is evaluated  *)
(* beyond it was pending by then.                                          *)
OvershootBounded ==
  evaluated_cases >= MaxEvals =>
    evaluated_cases + Cardinality(Pending(book))
      < MaxEvals + MaxQueueLen + Workers

(* optimizer.h calls max_evaluations_ the "Maximum number of objective     *)
(* function evaluations allowed before terminating".  Stated for a         *)
(* stand-alone search whose is_hybrid_component_ happens to be false, so   *)
(* that evaluated_cases_ really counts the evaluations.                    *)
MaxEvaluationsRespected ==
  ~is_hybrid_component => evaluated_cases <= MaxEvals

(* The search ends, whatever the values of the cases.                      *)
Termination == <>Finished

(* APPS keeps what the runners rely on of every optimizer.                 *)
Optimizer == INSTANCE OptimizerContract WITH
  Positions <- Directions, Calls <- Nat, stopped <- Stopped,
  book <- ClearRecentlyEvaluatedCases(book)
ContractSpec == Optimizer!Spec

--------------------------------------------------------------------------------
(* The inductive invariant, written over the state a handler has reached   *)
(* between two of its calls: the book h, the origins org, lengths len and  *)
(* values o of the cases, the best case b, the step lengths st and the     *)
(* active directions act.                                                  *)
From(h, org, b) == {c \in Pending(h) : org[c] = b}

SearchType(h, org, len, o, b, st, act) ==
  /\ Consistent(h)
  /\ Known(h) \ {BaseCase} \subseteq Nat \X Directions
  /\ org \in [Known(h) \ {BaseCase} -> h.evaluated]
  /\ len \in [Known(h) \ {BaseCase} -> Nat]
  /\ o \in [Known(h) -> Int]
  /\ b \in h.evaluated
  /\ st \in [Directions -> Int]
  /\ act \subseteq Directions

(* Each active direction has one pending case from the best one, and that  *)
(* case was generated with the current step length of the direction.       *)
SearchActive(h, org, len, b, st, act) ==
  /\ act = {Direction(c) : c \in From(h, org, b)}
  /\ \A c, d \in From(h, org, b) : Direction(c) = Direction(d) => c = d
  /\ \A c \in From(h, org, b) : len[c] = st[Direction(c)]

(* The best case dominates, and a direction below the tolerance has been   *)
(* polled from it.                                                         *)
Polled(h, org, len, o, b, st, d) ==
  \E c \in h.evaluated \ {BaseCase} :
    /\ Direction(c) = d /\ org[c] = b
    /\ len[c] = st[d] + 1
    /\ o[c] <= o[b]

SearchBest(h, org, len, o, b, st) ==
  /\ \A c \in h.evaluated : o[c] <= o[b]
  /\ \A d \in Directions : st[d] < 0 => Polled(h, org, len, o, b, st, d)

SearchInv(h, org, len, o, b, st, act) ==
  /\ SearchType(h, org, len, o, b, st, act)
  /\ SearchActive(h, org, len, b, st, act)
  /\ SearchBest(h, org, len, o, b, st)

IInv ==
  /\ SearchInv(book, origin, length, ofv, best, steps, active)
  /\ iteration \in Nat
  /\ evaluated_cases \in Nat
  /\ is_hybrid_component \in BOOLEAN
================================================================================
