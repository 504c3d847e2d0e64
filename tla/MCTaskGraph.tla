----------------------------- MODULE MCTaskGraph -----------------------------
(* Small plans for TaskGraph.                                              *)
EXTENDS TaskGraph

(* Every accepted plan whose arguments name only declared dependencies;    *)
(* a step's references are all of its dependencies or none.                *)
AcceptedPlans ==
  {p \in [deps : [Steps -> SUBSET Steps],
          refs : [Steps -> SUBSET Steps],
          mutating : SUBSET Steps] :
     /\ \A i \in Steps : p.refs[i] \in {{}, p.deps[i]}
     /\ Accepted(p)}

(* Up to renumbering: dependencies point to smaller indices.               *)
ForwardPlans ==
  {p \in AcceptedPlans : \A i \in Steps : \A d \in p.deps[i] : d < i}

(* A fork, a join and a chain with two mutating siblings, or two mutating  *)
(* steps of the chain; in the fifth a step reads nothing of the step   *)
(* it waits for, and so can succeed after it failed.  In the last two an   *)
(* edge skips a level: step 2 is started beside the step 1 it waits for,   *)
(* and again.                                                              *)
Shape(a, b, c) == [i \in 0 .. 2 |-> CASE i = 0 -> a [] i = 1 -> b [] i = 2 -> c]
Reading(d, m) == [deps |-> d, refs |-> d, mutating |-> m]

SamplePlans ==
  {Reading(Shape({}, {0}, {0}), {1, 2}),
   Reading(Shape({}, {}, {0, 1}), {0, 1}),
   Reading(Shape({}, {}, {0, 1}), {0}),
   Reading(Shape({}, {0}, {1}), {0, 1}),
   [deps |-> Shape({}, {0}, {0}), refs |-> Shape({}, {}, {0}), mutating |-> {1}],
   [deps |-> Shape({}, {0}, {0, 1}), refs |-> Shape({}, {}, {}), mutating |-> {1, 2}],
   [deps |-> Shape({}, {0}, {0, 1}), refs |-> Shape({}, {0}, {}), mutating |-> {1}]}

==============================================================================
