------------------------------ MODULE PlanGraph ------------------------------
(***************************************************************************)
(* The plan a task executes: praxis/core/execution_graph.py.               *)
(*                                                                         *)
(* A plan is a list of PlanStep's.  What the engine tells apart in a step  *)
(* is which indices it depends on, which earlier results its arguments     *)
(* name ("$<index>.<key>"), and whether its skill is mutating.             *)
(***************************************************************************)
EXTENDS Integers, FiniteSets

CONSTANT N          \* the number of steps of the plans considered

ASSUME NAssumption == N \in Nat \ {0}

Steps == 0 .. (N - 1)

(* One past either end stands for every index that is out of range.        *)
Indices == -1 .. N

Deps == [Steps -> SUBSET Indices]

(* A mutant for the model checker: the upper bound is off by one.          *)
BadIndex_OffByOne(deps) == \E i \in Steps : \E d \in deps[i] : d = i \/ d < 0 \/ d > N

(* compute_levels refuses a self-reference or an index out of range.       *)
BadIndex(deps) == \E i \in Steps : \E d \in deps[i] : d = i \/ d \notin Steps

(* The steps one turn of compute_levels' while loop calls ready.           *)
ReadySteps(deps, remaining, resolved) ==
  {i \in remaining : deps[i] \subseteq resolved}

(* What the planner's steps are to the engine, once compute_levels has     *)
(* accepted them.                                                          *)
PlanType == [deps : [Steps -> SUBSET Steps],
             refs : [Steps -> SUBSET Steps],
             mutating : SUBSET Steps]

(* lvl orders the steps after what they depend on.                         *)
Orders(lvl, deps) == \A i \in Steps : \A d \in deps[i] : lvl[d] < lvl[i]

(* A plan compute_levels accepts: some assignment of levels orders it.     *)
Accepted(p) == \E lvl \in [Steps -> Steps] : Orders(lvl, p.deps)

(* lvl has the steps of S, and all they depend on is in S, each exactly    *)
(* one level above every step it depends on.                               *)
EvenBy(lvl, S, deps) ==
  \A i \in S :
    /\ deps[i] \subseteq S
    /\ IF deps[i] = {} THEN lvl[i] = 0
                       ELSE \A d \in deps[i] : lvl[i] = lvl[d] + 1

(* The steps that no chain of dependencies reaches by an edge that skips a *)
(* level: all ways from a step without dependencies are equally long.      *)
Even(p) ==
  {i \in Steps : \E S \in SUBSET Steps, lvl \in [Steps -> Steps] :
                   i \in S /\ EvenBy(lvl, S, p.deps)}

==============================================================================
