# FieldOpt in TLA+

FieldOpt optimises petroleum field development.  An *optimizer* proposes
*cases* (values of the decision variables), a *runner* has them simulated,
serially or by MPI workers, and submits the objective values.  These modules
model the search control of the optimizers, the distribution of cases and of
their realizations, and the execution of simulations: the part of the program
where the order of events decides whether it is right.  Paths below are relative
to `src/FieldOpt`.

## The system

| Part | State | Operations | Hard behaviour | What makes it correct |
|---|---|---|---|---|
| `Optimization/case_handler` | queue, evaluating, evaluated, recently evaluated | add, hand out, mark evaluated, discard | several containers describe one case | a case goes through the book once, in FIFO order |
| `Optimization/optimizer` | best case, evaluation count, iteration | `GetCaseForEvaluation`, `SubmitEvaluatedCase`, `IsFinished` | callers choose the order of results | what the runners rely on (`OptimizerContract`) |
| `optimizers/GSS`, `APPS` | step lengths, active directions | iterate, (un)successful iteration, prune | asynchronous results, stale trial points, budget reached with cases out | no lost direction, convergence means polled, termination |
| other optimizers (compass search, RGARDD, PSO, CMA-ES, SPSA, VFSA, EGO, exhaustive, hybrid) | generations, swarms, schedules, components | iterate, handle a case | generation boundaries, switching components, unequal termination tests | same contract, budget, best case, termination |
| `Runner/runners/synchronous_mpi_runner`, `overseer`, `worker`, `mpi_runner` | worker flags, message channels, one case per worker | assign, receive, terminate, confirm | concurrent processes, blocking sends, receives from any source and with any tag, failed simulations, shutdown | no case lost or repeated, flags match reality, clean shutdown |
| `Runner/runners/ensemble_helper` | selected, queued, running, done realizations, workers per realization | select, hand out, submit, average | results of one case from several workers | an average over exactly the selected realizations |
| `Runner/runners/serial_runner`, `abstract_runner` | simulation times | evaluate one case after the other | timeout, invalid case, bookkeeper | every case evaluated, timeouts from what succeeded |
| `Runner/bookkeeper` | none | compare a case with the evaluated ones | equal cases that are out together | a case is not simulated twice |
| `Utilities/execution`, simulator interfaces | child processes, pending SIGCHLD, result files | fork, wait, kill, reap | exit racing the timeout, stale signals and files | the outcome is true, the right process is killed, a case gets its own results |
| `Model` | variables, wells, current case | apply a case, finalize | partial application when verification throws | log and model agree |

They interact by calls: the runner calls the optimizer, which keeps its cases in
the case handler; the MPI runner also by messages between the overseer (rank 0)
and the workers.  Nothing is persisted and read back, so there is no crash
recovery to model.

## Modules

| Module | Models | Uses |
|---|---|---|
| `CaseHandler` | `case_handler.cpp`: the book of cases as a record, each operation a function of it | |
| `CaseLifecycle` | abstract: new, queued, evaluating, evaluated or discarded; first in, first out | `CaseHandler` |
| `OptimizerContract` | abstract: what a runner may rely on of any optimizer | `CaseHandler` |
| `APPS` | `APPS.cpp`, the used part of `GSS.cpp`, and `optimizer.cpp` | `CaseHandler`; implements `OptimizerContract` |
| `MPIRunner` | `synchronous_mpi_runner.cpp`, `overseer.cpp`, `worker.cpp`, `mpi_runner.cpp` for a single realization | `OptimizerContract`; implements `CaseLifecycle` |
| `EnsembleHelper` | `ensemble_helper.cpp`: the helper as a record, each operation a function of it | |
| `EnsembleRunner` | the ensemble branches of `synchronous_mpi_runner.cpp` | `MPIRunner`, `EnsembleHelper` |
| `Optimizer` | `optimizer.cpp`: what the optimizers below share | `CaseHandler` |
| `CompassSearch`, `VFSA`, `SPSA`, `EGO`, `Swarms` (PSO, CMA-ES), `RGARDD`, `ExhaustiveSearch2DVert` | the optimizers of these names | `Optimizer` |
| `HybridOptimizer` | `hybrid_optimizer.cpp` | `CompassSearch`, `EGO`, `RGARDD` |
| `OptimizationRun` | a run of any of them: `InitializeOptimizer` and the loops of `serial_runner.cpp` and `synchronous_mpi_runner.cpp` | all of the optimizers but APPS; implements `OptimizerContract` |
| `Execution` | `execution.hpp`: `ExecShellScriptTimeout`, over any number of calls | |
| `Evaluation` | simulations one after another: the loop bodies of the serial runner and of the worker, `timeoutValue`, `eclsimulator.cpp` | `Execution` |
| `MCAPPS`, `MCMPIRunner`, `MCEnsembleRunner`, `MCOptimizationRun`, `MCEvaluation` | values of constants for TLC | |
| `CaseHandler_proofs`, `OptimizerContract_proofs` | lemmas about the operations of the book and the steps of the contract; contract ⇒ `CaseLifecycle` | `TLAPS` |
| `APPS_proofs`, `APPSQueue_proofs` | theorems about `APPS`: the search; the contract, the queue and the overshoot | `CaseHandler_proofs`, `TLAPS` |
| `MPIRunner_proofs`, `EnsembleRunner_proofs` | theorems about the runners; the second uses the network lemmas of the first | `OptimizerContract_proofs`, `TLAPS` |
| `OptimizationRun_proofs` | theorems about runs of the other optimizers | `CaseHandler_proofs`, `TLAPS` |
| `Evaluation_proofs` | theorems about `Evaluation` | `TLAPS` |

**Cases.**  A case is named by the call of `AddNewCases` that queued it and its
position in that call, where the code has a UUID.  Since a case is queued once,
when it is created, the order of the FIFO queue is the order of these names, so
the queue is a set and `IsHead` its least element.

**APPS.**  Position in a batch is the search direction.  A step length is a
*level*: how many contractions leave it at least the tolerance; a negative level
is a converged direction.  This is exact for equal initial lengths and an
expansion factor that is a power of the inverse of the contraction factor
(constant `Expansion`; the default factor 1.0 is level 0).  Rescaling by the
boundaries (`set_step_lengths`) gives any level up to `TopLevel`, equal for the
two directions of a variable.  `prune_queue` sorts unstably, so which of several
equally bad cases goes is a free choice.  Values are to be maximised;
minimisation is symmetric.  Each action is one call by the runner: handing out a
queued case (`GetQueuedCase`), handing out after iterating (`StartIteration`),
submitting an improvement or a failure, with everything these calls do down to
the final `iterate`.  `is_hybrid_component_` is never initialised in a
stand-alone optimizer, so it starts as either value; when true, `iterate`
overwrites the evaluation count.  `APPS` assumes two things of its caller: at
most `Workers` cases are out, and it asks with an empty queue only when none is.
`MPIRunner` shows both (`BusyMeansOneCaseOut` and the guard of the loop).

**OptimizerContract.**  The optimizer hands out in FIFO order, iterates to at
least one case when its queue is empty, may discard and enqueue on a result, and
is never finished while a case is out.  `Calls` bounds how many batches it
enqueues in TLC's instances; `APPS` implements it with `Calls = Nat`.
Two optimizers strain it.  `ExhaustiveSearch2DVert` keeps the last promise only
because it is never finished; its `IsFinished` does not look at what is out.  SPSA
may have no case when it is asked for one and make the case handler throw: for
`RunImplementsContract` that step changes nothing, and it shows in
`NeverWithoutCase` only.  So `NeverThrows` of `MPIRunner`, which rests on the promise
of a case, does not speak of runs with SPSA.

**MPIRunner.**  Code of a process between two communications is one step.
Between two ranks messages keep their order; the overseer receives from any
worker that has sent, as in the code.  A blocking send may return early, when
MPI buffers it, or when it is received; a safety property has to hold for both,
and for liveness a process is sure to go on only when its messages have been
received (`OverseerSent`, `WorkerSent`).  The branches of the main loop are the
actions `AssignNewCase`, `SubmitBookkeepedCase` (the bookkeeper's answer is a
free choice: the base case is evaluated and may equal any case) and
`RecvEvaluatedCase`; shutdown is `LeaveLoop`, `TerminateWorkers`,
`EnsureWorkerTermination` with a loop counter.  A worker's simulation succeeds,
times out or is invalid; `applied` remembers whether its model ever took a case,
which `Model::Finalize` depends on.  Where the code throws, the phase becomes
`threw`; a worker that dereferences the null pointer becomes `died`, after which
the job is aborted.  `outcome` is a history variable.  The run starts with an
optimizer that is not finished yet.

**EnsembleRunner.**  What travels is a pair of a case and a realization; the
workers, the messages and the shutdown are those of `MPIRunner`.  A realization
is a position in the list of aliases, whose first one is the base realization.
The values of a case are pairs of a realization and the case whose simulation
they come from, since a trial point is a copy of another case and inherits its
map; each new case has an origin of its own.  The overseer applies every composite case to its own model, outside of any
`try`; `crashed` is the phase when that throws.  Workers are bound in the order
of their ranks, which is what sorting the pairs of rank and load does, although
`ensemble_helper.h` speaks of the smallest load.

**OptimizationRun.**  An optimizer is a record, the case handler and the values
of the cases another; `iterate` and `handleEvaluatedCase` are operators that
return the set of possible results, since most optimizers draw random numbers.
Where new cases lie in the search space is left out, so are acceptance
probabilities, perturbations, covariance and the Gaussian process, but not the
decisions that hang on them, which become free choices: a swarm or population
stagnates, a pair of perturbations is valid, a worse case is accepted, a case
lies outside the bounds.  One worker stands for the serial runner too, which also
submits failed cases with the sentinel value; the overseer marks every result as
a success.  The initial distribution is part of the loop.  Some things the model
brings out:

* SPSA's `iterate` returns without a case after a pair of which one failed, or
  when no valid pair is found up to the last iteration; the case handler then
  throws in the runner although `IsFinished` was false (`NeverWithoutCase` names
  exactly these cases).
* the exhaustive search never finishes (`iteration_` stays 0), and enqueues its
  grid, without the last row and column, again and again; a hybrid with EGO never
  ends, because a component's `evaluated_cases_` stays 0.  `Unending` names both,
  `MaxCalls` bounds their batches.
* `IsFinished` of most optimizers looks at the cases being evaluated and not at
  the queue, so with one worker, or when the bookkeeper finds a case, the last
  generation or poll is left in the queue (`NothingLeftBehind` holds otherwise).
* CMA-ES lowers the values of case objects that it shares with the case handler,
  repeatedly, since `temp_population_` is never cleared; so the best case may
  get worse, by design of the penalty.  How far a case is lowered depends on where
  it lies; here it is always by one, and no property says anything of the amount.
* PSO may be finished with its first swarm, queued and not evaluated, if that has
  stagnated already; with no iteration to make, any population optimizer is.
* most optimizers create more cases than the documentation of their settings
  allows (`Allowance`): they look at the limit between two batches, do not count
  the generation of the constructor, count iterations from 0, or compare with `>`.
  `Overspend` says by how much at most, for each of them, and
  `OverspendBounded` that this is all.  EGO and VFSA exceed it in every run that
  ends (`OverspendsAlways`); `OverspendKnown` is both.

Sorting the population when RGARDD is finished, which changes nothing that is
used afterwards, is left out; `ComponentGenerations` is the budget of RGARDD as a
component.

**Evaluation.**  `Execution` follows one call through its system calls: code
between two of them takes no time, time passes in `sigtimedwait`.  `SIGCHLD` is
blocked by the first call and never unblocked, so the signal of a child killed
earlier, or of a script run after a simulation, is there for the next call.
Children are named by the case they simulate.  A script ends by itself or runs
for ever; it writes its results or fails silently (exit status ignored); what a
killed one has written stays, and if the script was not replaced by the simulator
(`exec`), the simulator lives on and writes later.  One working directory is
modelled, since realizations have their own.  `Settings` are combinations of the
runner, ensemble or not, the timeout factor, `MaxMinutes` and `exec`.  Errors of
the system calls themselves are left out, but for `EINTR`.

Definitions introduced by a comment "Had ..." are not part of the model: each is
a plausible mistake in the definition that follows it, and breaks a property.

## Runs

| Run | Bounds | Shows |
|---|---|---|
| `apps_search` | 1 variable (2 directions), queue of 4, 5 evaluations, 2 contractions to convergence, 2 workers, values 0..2 | the search core, `BestImproves`, `ContractSpec`, `Termination` |
| `apps_rescaled` | 2 variables, boundary constraints, levels up to 1, a queue of 4 for 4 directions, 3 evaluations | `QueueBounded` and `Termination` under rescaling |
| `apps_overshoot` | as `apps_search`, 3 evaluations | **violation**: more evaluations than `max_evaluations_` |
| `mpi` | 3 workers, up to 2 batches of up to 2 cases | conservation of cases, single simulation, shutdown, `CaseLifecycle` |
| `mpi_outcome` | 2 workers | **violation**: a failed simulation is recorded as `E_DONE` |
| `mpi_finalize` | 2 workers | **violation**: a worker without a case dies in `Finalize` |
| `ensemble` | 2 workers, 2 realizations, 1 or both selected, up to 2 batches | realizations in any order make one result of the right values; the run ends |
| `ensemble_selection` | as `ensemble` | **violation**: the base realization is never drawn |
| `optimizers` | all optimizers, hybrids of compass search with RGARDD and RGARDD with EGO, 1 or 2 workers, generations of 2, values 1..2 | contract, how far the settings' limits are exceeded, and by whom always, best case, termination |
| `optimizers_best` | RGARDD, 4 chromosomes | **violation**: the tentative best case is not the best |
| `evaluation` | 3 cases, 8 settings, timeouts of 1 and 2, scripts of any length | outcomes, killing, results, overrun, every case evaluated |
| `evaluation_fallback` | as `evaluation`, unmonitored scripts of up to 3 | **violation**: `MaxMinutes` is not respected |

Why the bounds are enough.  In `apps_search` a queue of four for two directions
lets two stale trial points coexist with two current ones, so pruning has a
choice; two workers let a stale result overtake a current one; three values give
two successive improvements and ties; the budget of five is reached both before
and after convergence.  With one variable the two directions are each other's
twins; the second run has independent ones and a queue without room to spare,
which every stale trial point would make too long.  In the MPI runs, batches of
one or two cases with two or three workers make queues longer, equal to and
shorter than the free workers, and the second batch follows either an idle
network or results still out; three workers leave one that the initial
distribution passes over and one that never gets a case.  In the ensemble run two
realizations at two workers swap their workers from one case to the next, and
selecting one of two leaves inherited values in the map.  In `optimizers` two
generations of two make the first, a middle and the last iteration distinct, three
evaluations end compass search within its second poll, which it overspends, and
two values give ties and improvements.  In `evaluation` three cases let the remains of two killed children
meet in the third call, with a median of none, one and two times.

Properties, briefly (each is stated in full above its definition):
`ActiveMeansPending` (the hand-maintained set of active directions mirrors the
book), `NeverEmptyHanded` (no exception from an empty queue), `QueueBounded`,
`BestDominates`, `BestImproves`, `ConvergedMeansPolled` (the guarantee of
pattern search), `OvershootBounded` (how far the budget may be exceeded),
`Termination`, `ContractSpec`; `BusyMeansOneCaseOut` (worker flags, location of
cases and the optimizer's book agree), `SimulatedOnce`, `NeverThrows`,
`CleanShutdown`, `LifecycleSpec`, `Shutdown`; `RealizationsOut` (the helper's
busy list matches what is out), `CompositeIsComplete` (a result is made of as many
simulations of its own case as were selected), `BindingsBounded`,
`EnsembleNeverThrows`, `EnsembleShutdown`; `RunBestDominates` and
`NeverLosesBest`, `NeverWithoutCase`, `NothingLeftBehind`, `OverspendKnown`,
`RunImplementsContract`, `RunTerminates`; `KillsOwnChild` (no recycled process
number is killed), `OutcomeIsTrue` (what is done has ended by itself, what a serial
run takes for timed out has run for its time), `OwnResults` (no value of another case),
`OverrunBounded` (each stale signal costs at most one timeout),
`EveryCaseEvaluated`.

Fairness.  `APPS`: the runner's loop never stops asking while the search is
unfinished (`while (IsFinished() == false)`), and every simulation ends, if only
by its timeout.  `MPIRunner` and `EnsembleRunner`: weak fairness of each process,
a receive being enabled only when a message is there, and only as long as the
process is not held up in a send, so that the run also ends when MPI buffers
nothing.  No fairness is assumed between the workers' messages: a worker whose
result waits cannot be overtaken for ever because the others run out of cases.
`OptimizationRun`: the loop goes on and what is out comes back.  `Evaluation`
justifies that: the process runs, time passes and a killed process dies; scripts
with a timeout need not end, and a case is evaluated all the same.  Only scripts
without any timeout are assumed to end (a run configured without one, and a
simulator that hangs, is a run that hangs).

## What disagrees with the documentation

* `optimizer.h:169` calls `max_evaluations_` the maximum number of evaluations
  allowed before terminating.  Three optimizers exceed it: APPS by what is queued
  and out when it is reached (`apps_overshoot`); compass search by the rest of a
  poll when several workers share it, since it looks at the number only when nothing
  is out (GSS.cpp:85-88); EGO by one case in every run that ends, since it
  compares with `>` (EGO.cpp:152) where the others have `>=`, and by more if it has
  more initial guesses.  `OverspendKnown`, in the run `optimizers`, says that EGO
  always does, and how far it and compass search go at most.
* `Settings/optimizer.h:103`: the maximum number of iterations of VFSA.  They are
  counted from 0 and compared with `<=` (VFSA.cpp:63), and that the last one is over
  is found out by creating a case (or a batch) of another one (VFSA.cpp:92-93).  So
  every run that ends has evaluated more cases than these iterations have
  (`OverspendKnown`).
* `worker.h:42`: the tag is to indicate whether the evaluation was successful.
  `SendEvaluatedCase` ignores it (`mpi_outcome`).  If it were sent, the overseer
  would dereference a null case, since `RecvMessage` does not unpack a case with
  the tag `CASE_EVAL_TIMEOUT`.
* `model.h:89`: `Finalize` should be called at the end of the run.  A worker that
  never applied a case dies in it (`mpi_finalize`).
* `random.hpp:94`: unique random integers in `[lower .. upper]`.  The lowest of
  the range 0.. is never drawn, since the result vector starts out filled with
  zeros; so the base realization is never selected (`ensemble_selection`).
* `optimizer.h:178`: the tentative best case is the best one so far.  RGARDD
  compares the cases of its first generation, and of a repopulated one, with
  themselves (`optimizers_best`).
* `Settings/README.md:225`: `MaxMinutes` limits a simulation when no timeout can
  be calculated.  The serial runner never reads it, and a worker does so only
  before its first success (`evaluation_fallback`).  A worker of an ensemble run
  uses it for every simulation instead, even when it is not given: a negative
  number of seconds, which becomes the least timeout of 10 seconds.

Smaller ones, seen while modelling and not made into runs: `runtime_settings.h:75`
speaks of the lowest recorded simulation time where the code takes the median;
`Settings/optimizer.h:75` calls `max_generations` the maximum number of iterations, and
the population optimizers evaluate one generation more, that of the constructor;
`ensemble_helper.h:127` of the worker with the smallest number of realizations
where the code takes the lowest rank; the bookkeeper never passes its tolerance
to `Case::Equals`; an ensemble worker without timeout and `MaxMinutes` runs
`Evaluate()`, which does not look at the realization.

## Proofs

TLC agrees with every statement first, the inductive invariants included; TLAPS
then proves them for every value of the constants that these assumptions, named
in the modules, allow.  Every invariant, every action property and every
refinement that a passing run checks is a theorem.

* `APPS`: at least one variable and one worker, any budget, step lengths and
  expansion, a queue of at least one batch (2 × variables, as the constructor
  asserts), any nonempty set of integer values.
* `OptimizerContract`, `MPIRunner`: batches of any size and number, any number of
  workers, any of the three outcomes of a simulation, MPI buffering or not.
* `EnsembleRunner`: any number of realizations, and of selected ones among them.
* `OptimizationRun`: any of the nine optimizers and of the nine hybrids, any
  generation, swarm and batch sizes and budgets, maximising or minimising, any
  number of workers and integer values, a grid of more than one row and column,
  an even number of chromosomes.
* `Evaluation`: any settings, number of cases, timeouts and lengths of scripts.

| Theorem | Property | Module |
|---|---|---|
| `TypeCorrect` | `TypeOK` | `APPS_proofs` |
| `ActiveCorrect` | `ActiveMeansPending` | |
| `NeverEmptyHandedCorrect` | `NeverEmptyHanded` | |
| `BestCorrect` | `BestDominates` | |
| `ConvergenceCorrect` | `ConvergedMeansPolled` | |
| `BestImprovesCorrect` | `BestImproves` | |
| `ContractCorrect` | `ContractSpec` | `APPSQueue_proofs` |
| `QueueBoundedCorrect` | `QueueBounded` | |
| `OvershootCorrect` | `OvershootBounded` | |
| `ContractImplementsLifecycle` | the contract implements `CaseLifecycle` | `OptimizerContract_proofs` |
| `MPITypeCorrect` | `MPITypeOK` | `MPIRunner_proofs` |
| `BusyCorrect` | `BusyMeansOneCaseOut` | |
| `SimulatedOnceCorrect` | `SimulatedOnce` | |
| `NeverThrowsCorrect` | `NeverThrows` | |
| `ShutdownCorrect` | `CleanShutdown` | |
| `LifecycleCorrect` | `LifecycleSpec` | |
| `EnsembleTypeCorrect` | `EnsembleTypeOK` | `EnsembleRunner_proofs` |
| `RealizationsOutCorrect` | `RealizationsOut` | |
| `CompositeCorrect` | `CompositeIsComplete` | |
| `BindingsCorrect` | `BindingsBounded` | |
| `EnsembleNeverThrowsCorrect` | `EnsembleNeverThrows` | |
| `EnsembleImplementsLifecycle` | an ensemble run implements `CaseLifecycle` | |
| `RunTypeCorrect` | `RunTypeOK` | `OptimizationRun_proofs` |
| `RunBestCorrect` | `RunBestDominates` | |
| `NeverLosesBestCorrect` | `NeverLosesBest` | |
| `RunContractCorrect` | `RunImplementsContract` | |
| `NeverWithoutCaseCorrect` | `NeverWithoutCase` | |
| `NothingLeftBehindCorrect` | `NothingLeftBehind` | |
| `OverspendCorrect` | `OverspendKnown` | |
| `EvaluationTypeCorrect` | `EvaluationTypeOK` | `Evaluation_proofs` |
| `KillsOwnChildCorrect` | `KillsOwnChild` | |
| `OutcomeCorrect` | `OutcomeIsTrue` | |
| `OwnResultsCorrect` | `OwnResults` | |
| `OverrunCorrect` | `OverrunBounded` | |

**The book.**  `CaseHandler_proofs` has what each operation does to the fields of
a consistent book, so that no proof about a user expands them.
`OptimizerContract_proofs` builds on it what a step of the contract does, and that
the contract implements `CaseLifecycle`: a case enters the queue behind all
others, leaves it at the head or by being discarded, and stays evaluated.  Together
the theorems make a chain: `APPS` and the optimizers of `OptimizationRun`
implement the contract, and what a runner makes of an optimizer that does so
implements the lifecycle.

**APPS.**  The properties are not inductive one by one.  The invariant `IInv` adds to
`ActiveMeansPending` that a pending trial point of the best case was generated
with the *current* step length of its direction, so that a failure proves
something about that length; and to `ConvergedMeansPolled` that each *single*
direction below the tolerance has been polled from the best case, whether or not
the others have converged.  It also keeps the book consistent and everything in
its domain.  `SearchInv` takes the state as arguments because `iterate` runs at
the end of other operations, on a state that no variable ever holds:
`FailurePreserves` and `SuccessSteps` establish it for that intermediate state
and `IteratePreserves` carries it through `iterate`.

The queue holds trial points of the best case, at most one for each direction,
and `Superseded` ones of earlier best cases.  `QueueInv` says that the latter fit
into the `Room` that is left of the queue when every direction has one.  There is
a corner: without such room, pruning may still keep one case.  Then the search is
`Closed`, that is, the budget is spent and no direction is searched again, so that
one case is all that remains.  `Counted` relates the two counters that `iterate`
confuses in a hybrid.  The overshoot follows: when the budget is reached, no more
is pending than the queue holds and the workers carry, and nothing is created later.

**MPIRunner.**  The heart of `MPIInv` is `Network`: a worker the overseer takes
for busy `Carries` exactly one case, at one of its places (the channel to it, the
worker, the channel back), each place fixing what the other two may hold; any other
worker is `Idle` or `Stopping`; and the cases of two busy workers differ.  `Jobs`
are these cases, and equal what the optimizer's book believes to be evaluated;
`Progress` says that such a case has been simulated if and only if its result is on
its way back.  The network lemmas say nothing of what a case is.  That is why
`EnsembleRunner_proofs` can use them for pairs of a case and a realization.

**EnsembleRunner.**  `EnsembleInv` has the same `Network`, whose `Jobs` are the
active case with each busy realization.  `Composed` follows the values of the
active case: its own ones and the realizations `Left` to come make up the
selection, and when all are selected an inherited value belongs to a realization
that is left and will be overwritten.  A realization is bound to one more worker
only when all of its workers are busy with others of the selection
(`FewBindings`).

**OptimizationRun.**  `RunInv` says that every optimizer is a record of its form
(`RunOpt`), whose cases are evaluated ones, beside a consistent book with no more
cases out than workers.  It is proved operation by operation: every constructor and
`iterate` feeds the queue one batch (`Fed`) or, SPSA only, none; handling a result
chooses the old best case or the new one (`Chooses`).  The contract and the two
properties of the best case are read off these lemmas.  `PairInv` (SPSA has heard
of a whole pair only if it is ready for the next one) gives `NeverWithoutCase`.
`LeftInv` gives `NothingLeftBehind`: with cases in the queue and none out, the
optimizer is not finished, unless the run is over before it begins (`EndedAtOnce`);
two workers are never idle together while cases wait.  For `OverspendBounded`,
`SpentInv` expresses the number of cases created by each optimizer's own counters
and by what is pending, so that the counters' bounds become one of that number.
`OverspendsAlways` follows where a run ends, from what `IsFinished` has found.

**Evaluation.**  `EvaluationInv` follows the current case through its call.  Nothing
is known of it before (`BeforeCall`); its child is running or a zombie, and a
zombie exactly if its script ended by itself (`DuringCall`), so that no one but
this call waits for it; a call that returns true has waited for it (`AfterCall`);
and what the simulation wrote is what the directory holds until it is read
(`Fresh`).  The lemmas sort the steps: those that only wait (`WaitingKeeps`),
those that ask whether the child runs (`PollingKeeps`), the children's own, and
those that begin or finish a case.  `Typing` adds the domains, for which the
median of the recorded times must exist.  `Granted` says that the limit of a call
is the timeout its runner would still ask for when the call has failed, since no
time is recorded meanwhile; so the comparison that makes a case timed out is one
with the time it was given.  `Timing` is the account of time: what has
elapsed before the current wait is one timeout for every child killed earlier that
has died, a pending signal being charged to one of them.

**Only model-checked.**  The liveness properties (`Termination`, `Shutdown`,
`EnsembleShutdown`, `RunTerminates`, `EveryCaseEvaluated`), since fairness and
`ENABLED` are out of the prover's reach, and with them the liveness half of the
specifications: the refinement theorems are about safety, as are the
abstract specifications.  The runs that expect a violation show a behaviour, of
which there is nothing to prove.  That the situations the theorems speak of
do occur is seen in TLC's runs, where each property is broken by a mistake in
the code.

## Plan

Done: the models above, and the theorems about every safety property of the
passing runs.

Next: the rest of what a run of `Execution` promises by itself (which signals and
zombies are left after a call); that an ensemble run asks its optimizer for
nothing the contract does not allow, as a refinement; APPS as a component of a
hybrid optimizer, for which `SearchInv` is already stated without variables; lemmas
that several proof modules repeat in small variations, moved to the module of
the operation they are about.

To be modelled if at all: the variable containers, for what
`Model::ApplyCase` leaves behind when verification throws, and for the
bookkeeper's comparison.

## Not modelled

Settings, parsing, grids, wells, well indices, objective functions, constraints
and simulator files: sequential computations on reals or input and output, with
no state the search control depends on beyond what is named above.  The
numerical content of the population optimizers, CMA-ES and the Gaussian process
are out of TLC's reach.  Logging has no effect on control, except that
`Finalize` is called for it.

Most of the repository is code of others or its wrapping (`ThirdParty`, the
ResInsight sources in `WellIndexCalculation/resinxx`, readers of binary result
files): libraries for grids, geometry and files, without any protocol of their
own.  What is modelled is nearly all of the control code of `Runner` and
`Optimization`, a small share of the lines.

Of the parts that are modelled, these operations are not: APPS as a component of
a hybrid optimizer; the ensemble branches of the serial runner, where, unlike in
an MPI run, a failed realization enters no value and the composite case keeps the
one it inherited; the one-off runner; the final `ApplyCase` of `FinalizeRun`,
which may throw as any other; penalty functions and normalizers; the driver
files and the parsing of results.
