---------------------------- MODULE ComputeLevels ----------------------------
(***************************************************************************)
(* compute_levels (praxis/core/execution_graph.py) as a state machine: the *)
(* index check, then one step per turn of the while loop.  The engine      *)
(* trusts it as the validator of every plan the planner returns.           *)
(***************************************************************************)
EXTENDS PlanGraph

CONSTANT Inputs       \* the depends_on lists it is called with

ASSUME InputsAssumption == Inputs \subseteq Deps

VARIABLES
  deps,        \* steps[i].depends_on
  resolved,    \* the local set of the same name
  remaining,   \* the local set of the same name
  levels,      \* how many lists `levels` holds
  level,       \* the position in `levels` of the list that holds a step
  outcome      \* "start", "running", "ok" (returned), "invalid" or "cycle" (ValueError)

levelsVars == <<deps, resolved, remaining, levels, level, outcome>>

LevelsInit ==
  /\ deps \in Inputs
  /\ resolved = {} /\ remaining = Steps
  /\ levels = 0 /\ level = [i \in Steps |-> -1]
  /\ outcome = "start"

(* The for loop over every depends_on entry.                               *)
CheckIndices ==
  /\ outcome = "start"
  /\ outcome' = IF BadIndex(deps) THEN "invalid" ELSE "running"
  /\ UNCHANGED <<deps, resolved, remaining, levels, level>>

(* One turn of the loop that finds ready steps.                            *)
AppendLevel ==
  LET ready == ReadySteps(deps, remaining, resolved) IN
  /\ outcome = "running" /\ remaining # {}
  /\ ready # {}
  /\ levels' = levels + 1
  /\ level' = [i \in Steps |-> IF i \in ready THEN levels ELSE level[i]]
  /\ resolved' = resolved \cup ready
  /\ remaining' = remaining \ ready
  /\ UNCHANGED <<deps, outcome>>

(* A mutant: it does not raise.                                            *)
Stuck_Spins ==
  /\ outcome = "running" /\ remaining # {}
  /\ ReadySteps(deps, remaining, resolved) = {}
  /\ UNCHANGED levelsVars

(* A turn that finds none: "dependency cycle among the remaining steps".   *)
Stuck ==
  /\ outcome = "running" /\ remaining # {}
  /\ ReadySteps(deps, remaining, resolved) = {}
  /\ outcome' = "cycle"
  /\ UNCHANGED <<deps, resolved, remaining, levels, level>>

ReturnLevels ==
  /\ outcome = "running" /\ remaining = {}
  /\ outcome' = "ok"
  /\ UNCHANGED <<deps, resolved, remaining, levels, level>>

LevelsNext == CheckIndices \/ AppendLevel \/ Stuck \/ ReturnLevels

LevelsSpec == LevelsInit /\ [][LevelsNext]_levelsVars /\ WF_levelsVars(LevelsNext)

------------------------------------------------------------------------------

(* The reference: a plan has an order iff its dependency relation has no   *)
(* cycle, i.e. no nonempty set of steps each waiting on one of the set.    *)
Cyclic(d) == \E S \in SUBSET Steps : S # {} /\ \A i \in S : d[i] \cap S # {}

(* compute_levels refuses exactly the plans that cannot run: a ValueError  *)
(* about a cycle only when there is one, and no return when there is.  What*)
(* it returns has every step, each in a later level than all it depends on.*)
VerdictMatchesReference ==
  /\ outcome = "ok" =>
       /\ ~BadIndex(deps) /\ ~Cyclic(deps)
       /\ \A i \in Steps : level[i] \in 0 .. (levels - 1)
       /\ Orders(level, deps)
  /\ outcome = "cycle" => Cyclic(deps)
  /\ outcome = "invalid" => BadIndex(deps)

(* "a malformed plan must fail loudly here, not hang": the call returns or *)
(* raises on every input.                                                  *)
Terminates == <>(outcome \in {"ok", "invalid", "cycle"})

==============================================================================
