------------------------------- MODULE Optimizer -------------------------------
(***************************************************************************)
(* Optimization::Optimizer, the base class of all optimizers but APPS,     *)
(* which has a module with variables of its own.                           *)
(*                                                                         *)
(* An optimizer is a record with at least the fields                       *)
(*    type, best, iteration, evaluated                                     *)
(* (tentative_best_case_, iteration_, evaluated_cases_).  The cases, which *)
(* the components of a hybrid optimizer share, are a record of their own:  *)
(*    book    the case handler's lists,                                    *)
(*    value   the objective function value of every evaluated case.        *)
(* The virtual functions iterate and handleEvaluatedCase are operators     *)
(* that return the set of their possible results, since most optimizers    *)
(* draw random numbers.                                                    *)
(***************************************************************************)
EXTENDS CaseHandler

CONSTANTS
  Maximize,         \* the optimisation mode
  MaxEvaluations,   \* max_evaluations
  MaxIterations     \* max_generations, vfsa_ and spsa_max_iterations

ASSUME OptimizerAssumption ==
  /\ Maximize \in BOOLEAN
  /\ MaxEvaluations \in Nat
  /\ MaxIterations \in Nat

Result(o, s) == [opt |-> o, cases |-> s]

NewCases(x) ==
  [book |-> NewBook, value |-> [c \in {BaseCase} |-> x]]

(* n new cases, the i-th of which is <<s.book.calls, i>>.                  *)
Enqueue(s, n) == [s EXCEPT !.book = AddNewCases(@, 1..n)]

NewCase(s, i) == <<s.book.calls, i>>

Idle(s) == s.book.evaluating = {}

IsBetter(s, c, d) ==
  IF Maximize THEN s.value[c] > s.value[d] ELSE s.value[c] < s.value[d]

IsImprovement(o, s, c) == IsBetter(s, c, o.best)

UpdateTentativeBestCase(o, c) == [o EXCEPT !.best = c]

(* Had every result been taken for an improvement.                         *)
ImprovedAlways(o, s, c) == UpdateTentativeBestCase(o, c)

(* What most optimizers do with every result.                              *)
Improved(o, s, c) ==
  IF IsImprovement(o, s, c) THEN UpdateTentativeBestCase(o, c) ELSE o

(* Optimizer::SubmitEvaluatedCase up to the call of handleEvaluatedCase,   *)
(* for a case c with the value x.                                          *)
Recorded(s, c, x) ==
  [book  |-> SetCaseEvaluated(s.book, c),
   value |-> [d \in DOMAIN s.value \cup {c} |->
                IF d = c THEN x ELSE s.value[d]]]

Counted(o) == [o EXCEPT !.evaluated = @ + 1]
================================================================================
