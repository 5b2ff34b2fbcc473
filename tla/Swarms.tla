-------------------------------- MODULE Swarms ---------------------------------
(***************************************************************************)
(* Optimizers::PSO and Optimizers::CMA_ES: a generation of new cases per   *)
(* iteration, the first enqueued by the constructor.                       *)
(*                                                                         *)
(* PSO stops early when its swarm, which changes only when a generation is *)
(* made, has stagnated; whether it has depends on random positions and the *)
(* stagnation limit, from the swarm of the constructor on.  CMA_ES lowers  *)
(* the objective values of the cases of its population that lie outside    *)
(* the bounds (outside) whenever it iterates.  By how much depends on      *)
(* where they lie; here it is one of the units that values are counted in. *)
(* Its temp_population_ is never cleared, so from the second iteration on  *)
(* the population is every case that an iteration has made so far.         *)
(***************************************************************************)
EXTENDS Optimizer

CONSTANT PopulationSize   \* pso_swarm_size, population_size

ASSUME SwarmAssumption == PopulationSize \in Nat \ {0}

Generation(s) == {NewCase(s, i) : i \in 1..PopulationSize}

NewPSO(b, s) ==
  {Result([type |-> "PSO", best |-> b, iteration |-> 0, evaluated |-> 0,
           stagnant |-> st],
          Enqueue(s, PopulationSize)) : st \in BOOLEAN}

(* Had the cases that are out not been waited for.                         *)
PSOFinishedWhileOut(o, s) == o.stagnant \/ o.iteration >= MaxIterations

PSOFinished(o, s) ==
  /\ Idle(s)
  /\ o.stagnant \/ o.iteration >= MaxIterations

PSOIterate(o, s) ==
  {Result([o EXCEPT !.iteration = @ + 1, !.stagnant = st],
          Enqueue(s, PopulationSize)) : st \in BOOLEAN}

PSOHandle(o, s, c) == {Improved(o, s, c)}

NewCMA_ES(b, s) ==
  {Result([type |-> "CMA_ES", best |-> b, iteration |-> 0, evaluated |-> 0,
           outside |-> out, later |-> {}],
          Enqueue(s, PopulationSize)) : out \in SUBSET Generation(s)}

CMA_ESFinished(o, s) ==
  /\ Idle(s)
  /\ o.iteration >= MaxIterations

Penalty == IF Maximize THEN -1 ELSE 1

Penalized(o, s) ==
  [s EXCEPT !.value = [c \in DOMAIN @ |->
                         IF c \in o.outside THEN @[c] + Penalty ELSE @[c]]]

(* later holds those of temp_population_ that lie outside the bounds.      *)
CMA_ESIterate(o, s) ==
  {LET later == o.later \cup out
   IN  Result([o EXCEPT !.iteration = @ + 1, !.outside = later,
                        !.later = later],
              Enqueue(Penalized(o, s), PopulationSize)) :
     out \in SUBSET Generation(s)}

CMA_ESHandle(o, s, c) == {Improved(o, s, c)}
================================================================================
