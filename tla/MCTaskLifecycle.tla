---------------------------- MODULE MCTaskLifecycle ----------------------------
(* Two steps, two approve requests, one cancel and one sweep.            *)
EXTENDS TaskLifecycle, TLC

Requests == Permutations(Operators)
MCStops == {[cancel |-> "idle", sweep |-> "done"], [cancel |-> "done", sweep |-> "idle"]}
MCPlans == {{1}, {0, 1}}
==============================================================================
