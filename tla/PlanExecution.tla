---------------------------- MODULE PlanExecution ----------------------------
(***************************************************************************)
(* What the engine promises of a plan, whatever its supersteps, pauses and *)
(* restarts: steps take effect in dependency order, each exactly once.     *)
(***************************************************************************)
EXTENDS PlanGraph

VARIABLES
  plan,    \* the plan of the attempt
  done     \* the steps whose outcome is on record

vars == <<plan, done>>

Init == plan \in PlanType /\ done = {}

(* Steps that finish together must all have had their inputs.              *)
Finish(S) ==
  /\ S # {}
  /\ \A i \in S : plan.deps[i] \subseteq done
  /\ done' = done \cup S
  /\ UNCHANGED plan

Next == \E S \in SUBSET (Steps \ done) : Finish(S)

Spec == Init /\ [][Next]_vars

==============================================================================
