---------------------------- MODULE HybridOptimizer ----------------------------
(***************************************************************************)
(* HybridOptimizer: two component optimizers take turns on one case        *)
(* handler.  A component is constructed from the best case so far when its *)
(* turn comes, so only the active one is kept; iteration_ counts completed *)
(* turns.  Results reach a component through handleEvaluatedCase only, so  *)
(* its evaluated_cases_ stays zero and its budget is never used up.        *)
(***************************************************************************)
EXTENDS CompassSearch, EGO, RGARDD

CONSTANTS
  MaxHybridIterations,
  ComponentGenerations   \* max_generations of a genetic component

ASSUME HybridAssumption ==
  MaxHybridIterations \in Nat /\ ComponentGenerations \in Nat

(* initializeComponent, for the components modelled here (APPS is the      *)
(* fourth that it accepts).                                                *)
NewComponent(t, b, s) ==
  CASE t = "Compass" -> {Result(NewCompassSearch(b), s)}
    [] t = "EGO"     -> NewEGO(b, s)
    [] t = "RGARDD"  -> NewRGARDD(b, s, ComponentGenerations)

ComponentFinished(o, s) ==
  CASE o.type = "Compass" -> CompassFinished(o, s)
    [] o.type = "EGO"     -> EGOFinished(o, s)
    [] o.type = "RGARDD"  -> RGARDDFinished(o, s)

ComponentIterate(o, s) ==
  CASE o.type = "Compass" -> CompassIterate(o, s)
    [] o.type = "EGO"     -> EGOIterate(o, s)
    [] o.type = "RGARDD"  -> RGARDDIterate(o, s)

ComponentHandle(o, s, c) ==
  CASE o.type = "Compass" -> CompassHandle(o, s, c)
    [] o.type = "EGO"     -> EGOHandle(o, s, c)
    [] o.type = "RGARDD"  -> RGARDDHandle(o, s, c)

(* types[i] is the type of component i, found[i] the best case at the end  *)
(* of its last turn (primary_best_case_, secondary_best_case_).            *)
NewHybrid(types, b, s) ==
  {Result([type |-> "Hybrid", best |-> b, iteration |-> 0, evaluated |-> 0,
           types |-> types, active |-> 1, component |-> r.opt,
           improvement |-> TRUE, found |-> <<b, b>>], r.cases) :
     r \in NewComponent(types[1], b, s)}

HybridFinished(o, s) ==
  /\ Idle(s)
  /\ \/ ~o.improvement /\ o.iteration > 1
     \/ /\ o.iteration >= MaxHybridIterations
        /\ o.active = 2
        /\ ComponentFinished(o.component, s)

(* Iterate if the constructor does not generate cases.                     *)
WithCases(r) ==
  IF r.cases.book.queue = {} THEN ComponentIterate(r.opt, r.cases) ELSE {r}

(* Did the component whose turn ends improve on the other's last turn?     *)
(* The first turn has none to compare with.                                *)
TurnImproved(o, s, found) ==
  \/ o.active = 1 /\ o.iteration = 0
  \/ IsBetter(s, found[o.active], found[3 - o.active])

SwitchComponent(o, s) ==
  LET found == [o.found EXCEPT ![o.active] = o.best]
      next  == 3 - o.active
  IN  {Result([o EXCEPT !.iteration = @ + 1, !.found = found, !.active = next,
                        !.component = r.opt,
                        !.improvement = @ /\ TurnImproved(o, s, found)],
              r.cases) :
         r \in UNION {WithCases(n) :
                        n \in NewComponent(o.types[next], o.best, s)}}

HybridIterate(o, s) ==
  IF ComponentFinished(o.component, s) THEN SwitchComponent(o, s)
  ELSE {Result([o EXCEPT !.component = r.opt], r.cases) :
          r \in ComponentIterate(o.component, s)}

(* Had the comparison been left to the component.                          *)
HybridHandleByComponent(o, s, c) ==
  {[o EXCEPT !.component = k, !.best = k.best] :
     k \in ComponentHandle(o.component, s, c)}

HybridHandle(o, s, c) ==
  {[Improved(o, s, c) EXCEPT !.component = k] :
     k \in ComponentHandle(o.component, s, c)}
================================================================================
