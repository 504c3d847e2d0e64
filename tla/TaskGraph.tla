------------------------------ MODULE TaskGraph ------------------------------
(***************************************************************************)
(* One attempt at executing a plan: the LangGraph graph build_task_graph   *)
(* compiles (core/graph_engine.py), the node body run_step and its         *)
(* approval pause (core/orchestrator.py), and the checkpoint a paused or   *)
(* crashed attempt resumes from.                                           *)
(*                                                                         *)
(* LangGraph runs a superstep at a time: every triggered node runs, their  *)
(* writes reach the channels together when all have finished, and a node   *)
(* is triggered by ANY of its single-source edges that fired.  If a node   *)
(* interrupted, the superstep stays open: a resume re-runs the nodes that  *)
(* have no recorded write, from their start.                               *)
(*                                                                         *)
(* One drive of the graph runs at a time here and the row updates of a     *)
(* step are atomic; TaskLifecycle and Superstep lift those two             *)
(* restrictions.                                                           *)
(***************************************************************************)
EXTENDS PlanGraph

CONSTANTS
  Plans,        \* the plans the planner may return
  Modes,        \* the execution modes the task may have
  MaxUpsets     \* bound: how often a node raises what run_step does not
                \* catch, or the process dies

AllModes == {"execute", "dry_run", "read_only"}

ASSUME PlansAssumption == Plans \subseteq PlanType
ASSUME PlansAccepted   == \A p \in Plans : Accepted(p)
ASSUME ModesAssumption == Modes \subseteq AllModes
ASSUME BoundsAssumption == MaxUpsets \in Nat

VARIABLES
  plan,        \* context.steps
  mode,        \* context.mode
  cancelled,   \* context.cancelled
  phase,       \* what the drive of this task is doing
  pc,          \* where each node stands in the open superstep
  out,         \* the update a written node returned: its step_status
  status,      \* the step_status channel
  errors,      \* the errors channel, as the set of steps that reported
  grant,       \* the decision a resume addressed to a step's interrupt
  bare,        \* the decision a resume addressed to nobody: the next
               \* interrupt() takes it
  interrupted, \* steps whose interrupt is in the checkpoint
  record,      \* the ApprovalRecord of a step
  checklist,   \* tasks.checklist[i].status
  row,         \* tasks.status
  execs,       \* history: how often skill.run was called for a step
  everCancelled, \* history: some cancel_task took effect
  faults,      \* history: nodes that raised past run_step
  crashes      \* history: deaths of the process

graphVars == <<pc, out, status, errors>>
gateVars == <<grant, bare, interrupted, record>>
rowVars == <<checklist, row>>
history == <<execs, everCancelled, faults, crashes>>
vars == <<plan, mode, cancelled, phase, graphVars, gateVars, rowVars, history>>

StepStatus == {"completed", "failed", "skipped"}

(* The nodes LangGraph has started in the open superstep.                  *)
Triggered == {i \in Steps : pc[i] # "idle"}
Written == {i \in Steps : pc[i] = "written"}
Parked == {i \in Steps : pc[i] = "parked"}

(* The results channel holds a step's output once it completed.            *)
HasResult(i) == status[i] = "completed"

Init ==
  /\ plan \in Plans /\ mode \in Modes
  /\ cancelled = FALSE
  /\ phase = "running"
  /\ pc = [i \in Steps |-> IF plan.deps[i] = {} THEN "ready" ELSE "idle"]
  /\ out = [i \in Steps |-> "none"]
  /\ status = [i \in Steps |-> "none"]
  /\ errors = {}
  /\ grant = [i \in Steps |-> "none"]
  /\ bare = "none"
  /\ interrupted = {}
  /\ record = [i \in Steps |-> "none"]
  /\ checklist = [i \in Steps |-> "pending"]
  /\ row = "running"
  /\ execs = [i \in Steps |-> 0]
  /\ everCancelled = FALSE /\ faults = 0 /\ crashes = 0

------------------------------------------------------------------------------
(* The node body, run_step.  A node that returns leaves a pending write.   *)

Return(i, s, failed) ==
  /\ pc' = [pc EXCEPT ![i] = "written"]
  /\ out' = [out EXCEPT ![i] = s]
  /\ errors' = IF failed THEN errors \cup {i} ELSE errors
  /\ UNCHANGED status

Mark(i, s) == checklist' = [checklist EXCEPT ![i] = s]

(* The cancellation check at the top of run_step, then resolve_args: a     *)
(* reference to a step without a result raises, and the node wrapper turns *)
(* the KeyError into a failed step.                                        *)
Start(i) ==
  /\ phase = "running" /\ pc[i] = "ready"
  /\ \/ /\ cancelled
        /\ Return(i, "skipped", FALSE)
     \/ /\ ~cancelled
        /\ \E r \in plan.refs[i] : ~HasResult(r)
        /\ Return(i, "failed", TRUE)
     \/ /\ ~cancelled
        /\ \A r \in plan.refs[i] : HasResult(r)
        /\ pc' = [pc EXCEPT ![i] = "resolved"]
        /\ UNCHANGED <<out, status, errors>>
  /\ UNCHANGED <<plan, mode, cancelled, phase, gateVars, rowVars, history>>

(* The skill is missing and cannot be synthesized, is synthesized but not  *)
(* approved, or mutates under a mode that forbids it.  No factory marks it *)
(* skipped; a quarantined capability leaves the checklist alone, which a   *)
(* skill this process already ran past cannot become.                      *)
Refuse(i) ==
  /\ phase = "running" /\ pc[i] = "resolved"
  /\ \/ \E s \in {"failed", "skipped"} : Mark(i, s)
     \/ (record[i] = "none" \/ crashes > 0) /\ UNCHANGED checklist
  /\ Return(i, "failed", TRUE)
  /\ UNCHANGED <<plan, mode, cancelled, phase, gateVars, row, history>>

(* dry_run records what a mutating step would have called.                 *)
Simulate(i) ==
  /\ phase = "running" /\ pc[i] = "resolved"
  /\ i \in plan.mutating /\ mode = "dry_run"
  /\ Mark(i, "completed")
  /\ Return(i, "completed", FALSE)
  /\ UNCHANGED <<plan, mode, cancelled, phase, gateVars, row, history>>

NeedsApproval(i) == i \in plan.mutating /\ mode = "execute"

(* A mutant: any interrupt of the superstep takes an approval.             *)
Decision_Broadcast(i) == IF \E j \in Steps : grant[j] = "yes" THEN "yes" ELSE bare

(* What interrupt() finds for step i: the decision addressed to it, else   *)
(* the bare one.                                                           *)
Decision(i) == IF grant[i] # "none" THEN grant[i] ELSE bare

(* _await_approval: the pending record and the paused row are written on   *)
(* every run of the node, replays included; then interrupt() either raises *)
(* or returns the decision.  The binding check after it looks at the       *)
(* record's arguments, which a replay resolves again from the same         *)
(* results.                                                                *)
AwaitApproval(i) ==
  /\ phase = "running" /\ pc[i] = "resolved" /\ NeedsApproval(i)
  /\ record' = IF record[i] = "none" THEN [record EXCEPT ![i] = "pending"] ELSE record
  /\ row' = "awaiting_approval"
  /\ bare' = IF grant[i] = "none" THEN "none" ELSE bare
  /\ \/ /\ Decision(i) = "none"
        /\ pc' = [pc EXCEPT ![i] = "parked"]
        /\ interrupted' = interrupted \cup {i}
        /\ Mark(i, "awaiting_approval")
        /\ UNCHANGED <<out, status, errors>>
     \/ /\ Decision(i) = "yes"
        /\ pc' = [pc EXCEPT ![i] = "granted"]
        /\ Mark(i, "awaiting_approval")
        /\ UNCHANGED <<out, status, errors, interrupted>>
     \/ /\ Decision(i) = "no"
        /\ Mark(i, "skipped")
        /\ Return(i, "skipped", TRUE)
        /\ UNCHANGED interrupted
  /\ UNCHANGED <<plan, mode, cancelled, phase, grant, history>>

(* A read-only call answered by the tool cache or by an identical call in  *)
(* flight: the skill is not called (see Superstep).                        *)
Reuse(i) ==
  /\ phase = "running" /\ pc[i] = "resolved" /\ i \notin plan.mutating
  /\ \E s \in {"completed", "failed"} : Mark(i, s) /\ Return(i, s, s = "failed")
  /\ UNCHANGED <<plan, mode, cancelled, phase, gateVars, row, history>>

Execute(i) ==
  /\ phase = "running"
  /\ \/ pc[i] = "resolved" /\ i \notin plan.mutating
     \/ pc[i] = "granted"
  /\ pc' = [pc EXCEPT ![i] = "executing"]
  /\ execs' = [execs EXCEPT ![i] = @ + 1]
  /\ Mark(i, "in_progress")
  /\ UNCHANGED <<plan, mode, cancelled, phase, out, status, errors, gateVars, row,
                 everCancelled, faults, crashes>>

Finish(i) ==
  /\ phase = "running" /\ pc[i] = "executing"
  /\ \E s \in {"completed", "failed"} : Mark(i, s) /\ Return(i, s, s = "failed")
  /\ UNCHANGED <<plan, mode, cancelled, phase, gateVars, row, history>>

(* Anything run_step lets escape - a database error at one of its awaits, a *)
(* refused binding - is turned into a failed step by the node wrapper,     *)
(* which does not touch the checklist.                                     *)
NodeCrashed(i) ==
  /\ faults + crashes < MaxUpsets /\ faults' = faults + 1
  /\ phase = "running" /\ pc[i] \in {"resolved", "granted", "executing"}
  /\ Return(i, "failed", TRUE)
  /\ UNCHANGED <<plan, mode, cancelled, phase, gateVars, rowVars, execs, everCancelled,
                 crashes>>

------------------------------------------------------------------------------
(* LangGraph between supersteps, and the end of _drive.                    *)

(* A mutant: the superstep closes with the first node to return.           *)
SuperstepDone_First == Written # {}

SuperstepDone == \A i \in Triggered : pc[i] = "written"

(* A mutant: every dependent step is triggered.                            *)
Successors_All(done) == {j \in Steps : plan.deps[j] # {} /\ done # {} /\ status[j] = "none"}

(* The nodes the finished ones trigger: an edge per depends_on entry, each *)
(* of which triggers its target by itself.                                 *)
Successors(done) == {j \in Steps : plan.deps[j] \cap done # {}}

(* The channels' reducer merges what the superstep wrote into what earlier *)
(* ones did.                                                               *)
Merged == [i \in Steps |-> IF i \in Written THEN out[i] ELSE status[i]]

(* The channels take the superstep's writes and its successors start.      *)
EndSuperstep ==
  /\ phase = "running" /\ SuperstepDone
  /\ status' = Merged
  /\ pc' = [i \in Steps |-> IF i \in Successors(Written) THEN "ready" ELSE "idle"]
  /\ out' = [i \in Steps |-> "none"]
  /\ grant' = [i \in Steps |-> "none"]
  /\ bare' = "none"
  /\ interrupted' = {}
  /\ phase' = IF Successors(Written) = {} THEN "ended" ELSE "running"
  /\ UNCHANGED <<plan, mode, cancelled, errors, record, rowVars, history>>

(* Every node has returned or interrupted: ainvoke returns __interrupt__.  *)
Pause ==
  /\ phase = "running" /\ Parked # {}
  /\ \A i \in Triggered : pc[i] \in {"written", "parked"}
  /\ phase' = "paused"
  /\ UNCHANGED <<plan, mode, cancelled, graphVars, gateVars, rowVars, history>>

(* _settle, or _drive's early return for a cancelled context.              *)
Settle ==
  /\ phase = "ended"
  /\ phase' = "settled"
  /\ \/ cancelled /\ UNCHANGED row
     \/ ~cancelled /\ row' = "failed"       \* errors, or the gate refutes
     \/ ~cancelled /\ errors = {} /\ row' = "completed"
  /\ UNCHANGED <<plan, mode, cancelled, graphVars, gateVars, checklist, history>>

------------------------------------------------------------------------------
(* The operator, and the process.                                          *)

Awaiting == {i \in Steps : checklist[i] = "awaiting_approval"}

(* A mutant: the checklist is not consulted.                               *)
PausedIndex_First == 0

(* _paused_index: the first awaiting item, else 0.                         *)
PausedIndex ==
  IF Awaiting = {} THEN 0
  ELSE CHOOSE i \in Awaiting : \A j \in Awaiting : i <= j

(* A resumed thread re-runs the nodes that left no write.  (In the mutant  *)
(* all nodes of the superstep.)                                            *)
Rerun_All(nodes) == [i \in Steps |-> IF i \in Triggered THEN "ready" ELSE pc[i]]

Rerun(nodes) == [i \in Steps |-> IF i \in nodes THEN "ready" ELSE pc[i]]

(* resume_after_approval, decide_approval and _resume_payload.  A decided  *)
(* record is returned unchanged.  With several interrupts pending the      *)
(* decision is addressed to the paused step's, otherwise it goes bare.  A  *)
(* context that was cancelled or lost is rebuilt, not cancelled.           *)
Decide(approved) ==
  LET k == PausedIndex
      pending == {i \in interrupted : pc[i] # "written"}
      answer == IF approved THEN "yes" ELSE "no"
      several == Cardinality(pending) > 1
  IN
  /\ phase \in {"paused", "down"} /\ row = "awaiting_approval"
  /\ record[k] # "none"                     \* else decide_approval raises
  /\ several => k \in pending               \* else LangGraph refuses the resume
  /\ record' = IF record[k] = "pending"
               THEN [record EXCEPT ![k] = IF approved THEN "approved" ELSE "rejected"]
               ELSE record
  /\ grant' = [i \in Steps |-> IF several /\ i = k THEN answer ELSE "none"]
  /\ bare' = IF several THEN "none" ELSE answer
  /\ pc' = Rerun(Parked)
  /\ row' = "running" /\ phase' = "running"
  /\ cancelled' = FALSE
  /\ UNCHANGED <<plan, mode, out, status, errors, interrupted, checklist, history>>

(* cancel_task: it releases the thread of a task nothing is running, and a *)
(* running one skips the nodes it has yet to start.                        *)
Cancel ==
  /\ phase # "settled"
  /\ row \notin {"completed", "failed", "cancelled"}
  /\ cancelled' = (phase # "down")
  /\ row' = "cancelled" /\ everCancelled' = TRUE
  /\ checklist' = [i \in Steps |->
                     IF checklist[i] \in {"pending", "awaiting_approval", "in_progress"}
                     THEN "skipped" ELSE checklist[i]]
  /\ phase' = IF phase \in {"paused", "down"} THEN "settled" ELSE phase
  /\ UNCHANGED <<plan, mode, graphVars, gateVars, execs, faults, crashes>>

(* The process dies.  The checkpoint keeps the closed supersteps and those *)
(* writes of the open one that had been saved, all of them once the drive  *)
(* has returned; the context is gone.                                      *)
Crash ==
  /\ phase \in {"running", "paused", "ended"} /\ faults + crashes < MaxUpsets
  /\ crashes' = crashes + 1
  /\ \E saved \in SUBSET Written :
       /\ phase = "paused" => saved = Written
       /\ pc' = Rerun(Triggered \ saved)
       /\ out' = [i \in Steps |-> IF i \in saved THEN out[i] ELSE "none"]
       /\ errors' = errors \ (Written \ saved)
  /\ grant' = [i \in Steps |-> "none"]
  /\ bare' = "none"
  /\ cancelled' = FALSE
  /\ phase' = "down"
  /\ UNCHANGED <<plan, mode, status, interrupted, record, rowVars, execs, everCancelled, faults>>

------------------------------------------------------------------------------

StepNext(i) ==
  \/ Start(i) \/ Refuse(i) \/ Simulate(i) \/ AwaitApproval(i)
  \/ Reuse(i) \/ Execute(i) \/ Finish(i) \/ NodeCrashed(i)

Engine == (\E i \in Steps : StepNext(i)) \/ EndSuperstep \/ Pause \/ Settle

Next ==
  \/ Engine
  \/ \E approved \in BOOLEAN : Decide(approved)
  \/ Cancel
  \/ Crash

(* asyncio keeps running ready nodes, so the engine is fair; and the       *)
(* operator is assumed to answer a pause.                                  *)
Fairness == WF_vars(Engine) /\ WF_vars(\E approved \in BOOLEAN : Decide(approved))

Spec == Init /\ [][Next]_vars
FairSpec == Spec /\ Fairness

------------------------------------------------------------------------------

Decisions == {"none", "yes", "no"}

(* Shape of the state.                                                     *)
TypeOK ==
  /\ plan \in Plans /\ mode \in Modes /\ cancelled \in BOOLEAN
  /\ phase \in {"running", "paused", "ended", "settled", "down"}
  /\ pc \in [Steps -> {"idle", "ready", "resolved", "parked", "granted",
                       "executing", "written"}]
  /\ out \in [Steps -> StepStatus \cup {"none"}]
  /\ status \in [Steps -> StepStatus \cup {"none"}]
  /\ errors \in SUBSET Steps /\ interrupted \in SUBSET Steps
  /\ grant \in [Steps -> Decisions] /\ bare \in Decisions
  /\ record \in [Steps -> {"none", "pending", "approved", "rejected"}]
  /\ checklist \in [Steps -> {"pending", "awaiting_approval", "in_progress",
                              "completed", "failed", "skipped"}]
  /\ row \in {"running", "awaiting_approval", "completed", "failed", "cancelled"}
  /\ execs \in [Steps -> Nat]
  /\ everCancelled \in BOOLEAN /\ faults \in Nat /\ crashes \in Nat

(* An edge triggers its target by itself, so a step that an edge reaches   *)
(* past a level is started early and again (README, "Known disagreements"). *)
(* The graph keeps its promises about all other steps of any plan.         *)
EvenOf == [p \in Plans |-> Even(p)]
EvenSteps == EvenOf[plan]

(* PlanStep's contract: an even step is started only after every step it   *)
(* depends on has completed, i.e. has been run to its end.                 *)
DependenciesFirst ==
  \A i \in Triggered \cap EvenSteps : \A d \in plan.deps[i] : status[d] # "none"

(* An even step's skill is called once, and once more only if the process  *)
(* died.                                                                   *)
ExecutesOnce == \A i \in EvenSteps : execs[i] <= 1 + crashes

(* "Each mutating action needs its own human decision": no mutating skill  *)
(* is called unless that very step's record was approved, whatever its     *)
(* siblings of the superstep, the uneven ones too, were told.              *)
OwnDecision(i) == execs[i] > 0 => record[i] = "approved"

(* So it is for even steps of a task nobody cancels and whose nodes fail   *)
(* only as run_step foresees: the pauses of a superstep are told apart.    *)
Undisturbed == ~everCancelled /\ faults = 0 /\ crashes = 0
OwnDecisionUndisturbed ==
  Undisturbed => \A i \in plan.mutating \cap EvenSteps : OwnDecision(i)

(* A checkpointed result of an even step is never taken back or            *)
(* overwritten by a later superstep, a resume or a restart.                *)
ResultsStand ==
  [][\A i \in EvenSteps : status[i] # "none" => status'[i] = status[i]]_vars

(* The engine implements PlanExecution for the even steps: supersteps      *)
(* close on whole sets of steps whose inputs are there, and no step closes *)
(* twice.                                                                  *)
Done == {i \in EvenSteps : status[i] # "none"}
PE == INSTANCE PlanExecution WITH done <- Done
InDependencyOrder == PE!Spec

(* execution_graph.py, PlanStep: a step runs after every step index in     *)
(* depends_on has completed.                                               *)
(* (Of uneven steps it is not so: README, "Known disagreements".)          *)
AllDependenciesFirst ==
  \A i \in Triggered : \A d \in plan.deps[i] : status[d] # "none"

(* The row of an undisturbed task ends in a terminal status and stays    *)
(* there: no superstep waits for ever, no pause is left without a way to   *)
(* answer it, if operators do answer.                                      *)
Settles == []Undisturbed => <>[](row \in {"completed", "failed"})

==============================================================================
