-------------------------------- MODULE RGARDD ---------------------------------
(***************************************************************************)
(* Optimizers::RGARDD on GeneticAlgorithm.  population is what the search  *)
(* has kept so far, pool the cases being evaluated: at first, and after a  *)
(* stagnant population was replaced, they are the same; otherwise the pool *)
(* holds the offspring, and the one at a position replaces the member at   *)
(* that position if it is better.                                          *)
(*                                                                         *)
(* Crossover, mutation and the measure of stagnation are random.  Parents  *)
(* decide only where offspring lie, so selection leaves no trace: every    *)
(* position of the pool is taken by an offspring.                          *)
(***************************************************************************)
EXTENDS Optimizer, Functions

CONSTANT ChromosomeCount   \* population_size_, made even by the constructor

ASSUME RGARDDAssumption ==
  ChromosomeCount \in Nat \ {0} /\ ChromosomeCount % 2 = 0

Positions == 1..ChromosomeCount

Half == ChromosomeCount \div 2

NewRGARDD(b, s, generations) ==
  LET first == [i \in Positions |-> NewCase(s, i)]
  IN  {Result([type |-> "RGARDD", best |-> b, iteration |-> 0,
               evaluated |-> 0, generations |-> generations,
               population |-> first, pool |-> first],
              Enqueue(s, ChromosomeCount))}

RGARDDFinished(o, s) ==
  /\ Idle(s)
  /\ o.iteration >= o.generations

(* std::sort leaves the order of equals open.                              *)
SortPopulation(o, s) ==
  {p \in {[i \in Positions |-> o.population[f[i]]] :
            f \in Bijection(Positions, Positions)} :
     \A i, j \in Positions : i < j => ~IsBetter(s, p[j], p[i])}

(* Had the best member been enqueued with the new ones.                    *)
RepopulateWithBest(o, s, sorted) ==
  LET next == [i \in Positions |-> IF i = 1 THEN sorted[1]
                                   ELSE NewCase(s, i - 1)]
      t    == Enqueue(s, ChromosomeCount - 1)
  IN  Result([o EXCEPT !.iteration = @ + 1, !.population = next,
                       !.pool = next],
             [t EXCEPT !.book.queue = @ \cup {sorted[1]}])

(* All members but the best are replaced by new cases.                     *)
Repopulate(o, s, sorted) ==
  LET next == [i \in Positions |-> IF i = 1 THEN sorted[1]
                                   ELSE NewCase(s, i - 1)]
  IN  Result([o EXCEPT !.iteration = @ + 1, !.population = next,
                       !.pool = next],
             Enqueue(s, ChromosomeCount - 1))

(* The offspring of the parents at i and Half + i are enqueued together.   *)
Offspring(s, i) ==
  IF i <= Half THEN NewCase(s, 2 * i - 1) ELSE NewCase(s, 2 * (i - Half))

Breed(o, s, sorted) ==
  Result([o EXCEPT !.iteration = @ + 1, !.population = sorted,
                   !.pool = [i \in Positions |-> Offspring(s, i)]],
         Enqueue(s, ChromosomeCount))

RGARDDIterate(o, s) ==
  IF Pending(s.book) # {} THEN {Result(o, s)}
  ELSE UNION {{Breed(o, s, p), Repopulate(o, s, p)} : p \in SortPopulation(o, s)}

RGARDDHandle(o, s, c) ==
  {IF \E i \in Positions : o.pool[i] = c /\ IsBetter(s, c, o.population[i])
     THEN [Improved(o, s, c) EXCEPT
             !.population = [i \in Positions |->
                               IF o.pool[i] = c THEN c ELSE @[i]]]
     ELSE o}
================================================================================
