----------------------------- MODULE TaskLifecycle -----------------------------
(***************************************************************************)
(* The row of one task (tasks.status) and everybody who writes it: the     *)
(* drive_task loop with its re-plans, the requests that answer an approval *)
(* (resume_after_approval), cancel_task, the approval-timeout sweep and a  *)
(* crash of the process (core/orchestrator.py, security/approval.py,       *)
(* api/main.py).                                                           *)
(*                                                                         *)
(* A plan is a chain of steps, of which some mutate and so ask for         *)
(* approval.  Every request that resumes the task runs the graph itself,   *)
(* from the checkpoint it finds: several may run the same thread at once.  *)
(* A session that tests the row before it writes it is two actions, the    *)
(* read and the commit, since no statement locks the row.                  *)
(***************************************************************************)
EXTENDS Integers, FiniteSets

CONSTANTS
  NSteps,        \* steps of a plan
  Plans,         \* which of them may mutate
  Driver,        \* the drive_task call
  Operators,     \* the approve requests, one decision each
  NoOne,         \* no context
  MaxReplans,    \* Settings.max_replan_attempts
  Frail,         \* bound: the steps whose node may raise
  Stops,         \* which of cancel_task and the sweep are still to come
  MaxUpsets      \* bound: no node raises and nothing crashes once Upsets exceeds it

ASSUME NStepsAssumption == NSteps \in Nat \ {0}
ASSUME PlansAssumption == Plans \subseteq SUBSET (0 .. (NSteps - 1))
ASSUME ActorsAssumption ==
  /\ Driver \notin Operators
  /\ NoOne \notin Operators \cup {Driver}
  /\ {"canceller", "sweeper"} \cap (Operators \cup {Driver, NoOne}) = {}
ASSUME OperatorsAssumption == IsFiniteSet(Operators)
ASSUME BoundsAssumption == MaxReplans \in Nat /\ MaxUpsets \in Nat
ASSUME StopsAssumption == Stops \subseteq [cancel : {"idle", "done"}, sweep : {"idle", "done"}]

Steps == 0 .. (NSteps - 1)
Drives == Operators \cup {Driver}
Terminal == {"completed", "failed", "cancelled"}

VARIABLES
  mode,        \* tasks.mode
  mutating,    \* the steps of the plan that mutate, the same in every re-plan
  row,         \* tasks.status
  awaiting,    \* the checklist items that say awaiting_approval
  record,      \* the latest ApprovalRecord of a step
  thread,      \* the checkpoint: the next step, and whether a step failed
  contexts,    \* Orchestrator._contexts[task_id], named by who created it
  flagged,     \* the contexts whose `cancelled` is set
  drive,       \* the calls that drive the graph, see In
  attempts,    \* attempts drive_task has made
  canceller,   \* where cancel_task stands
  sweeper,     \* where sweep_stale_approvals stands
  execs,       \* history: skill.run calls of a mutating step
  ran,         \* history: those a call made
  granted,     \* history: requests that committed approved = True
  overlapped,  \* history: some call looked at the row with another under way
  raised,      \* history: a node raised past run_step
  crashes      \* history: deaths of the process

taskVars == <<mode, mutating>>
rowVars == <<row, awaiting>>
contextVars == <<contexts, flagged>>
othersVars == <<canceller, sweeper>>
history == <<execs, ran, granted, overlapped, raised, crashes>>
vars == <<taskVars, rowVars, record, thread, contextVars, drive, attempts, othersVars,
          history>>

NoThread == [exists |-> FALSE, at |-> 0, erred |-> FALSE]
Thread(s, e) == [exists |-> TRUE, at |-> s, erred |-> e]

(* The locals of a call: where it stands, its context, the step it is at,  *)
(* whether its errors channel holds any, the resume value its next         *)
(* interrupt() takes, and the record a request loaded.                     *)
In(p) == [pc |-> p, ctx |-> NoOne, at |-> 0, erred |-> FALSE, answer |-> "none",
          saw |-> "none"]
Idle == In("idle")

Init ==
  /\ mode \in {"execute", "plan_only"} /\ mutating \in Plans
  /\ row = "pending" /\ awaiting = {}
  /\ record = [s \in Steps |-> "none"]
  /\ thread = NoThread
  /\ contexts = NoOne /\ flagged = {}
  /\ drive = [d \in Drives |-> IF d = Driver THEN In("new") ELSE Idle]
  /\ attempts = 0
  /\ \E stop \in Stops : canceller = stop.cancel /\ sweeper = stop.sweep
  /\ execs = [s \in Steps |-> 0] /\ ran = [d \in Drives |-> 0] /\ granted = {}
  /\ overlapped = FALSE /\ raised = FALSE /\ crashes = 0

(* Who is in the middle of something, besides `self`.                      *)
Midway(p) == p \notin {"idle", "done"}
Active == {d \in Drives : Midway(drive[d].pc)}
Alone(self) ==
  /\ Active \subseteq {self}
  /\ self = "canceller" \/ ~Midway(canceller)
  /\ self = "sweeper" \/ ~Midway(sweeper)

(* A request, a cancellation or the sweep takes its look at the row.       *)
Loads(self) ==
  /\ overlapped' = (overlapped \/ ~Alone(self))
  /\ UNCHANGED <<execs, ran, granted, raised, crashes>>

(* The attempts, and what has disturbed them.                              *)
Upsets == attempts + crashes + IF raised THEN 1 ELSE 0

Goto(d, p) == drive' = [drive EXCEPT ![d] = [@ EXCEPT !.pc = p]]

(* The graph run is over: drive_task reads the row back, a request returns. *)
Leave(d) == drive' = [drive EXCEPT ![d] = In(IF d = Driver THEN "outcome" ELSE "done")]

------------------------------------------------------------------------------
(* drive_task: _drive_with_ledger around _drive_attempt.                   *)

Begin ==
  /\ drive[Driver].pc = "new"
  /\ Goto(Driver, "planning")
  /\ row' = "planning"
  /\ attempts' = attempts + 1
  /\ UNCHANGED <<taskVars, awaiting, record, thread, contextVars, othersVars, history>>

(* The connector, the planner or compute_levels fails: _fail_task.  A plan *)
(* that repeats a refuted one also ends the loop.                          *)
PlanningFails ==
  /\ drive[Driver].pc = "planning"
  /\ \/ Goto(Driver, "outcome")
     \/ attempts > 1 /\ Goto(Driver, "done")
  /\ row' = "failed" /\ awaiting' = {}
  /\ contexts' = NoOne
  /\ UNCHANGED <<taskVars, record, thread, flagged, attempts, othersVars, history>>

PlanOnly ==
  /\ drive[Driver].pc = "planning" /\ mode = "plan_only"
  /\ Goto(Driver, "outcome")
  /\ row' = "completed" /\ awaiting' = {}
  /\ UNCHANGED <<taskVars, record, thread, contextVars, attempts, othersVars, history>>

(* The plan is stored and the row says running, whatever it said.          *)
Admit ==
  /\ drive[Driver].pc = "planning" /\ mode = "execute"
  /\ Goto(Driver, "admitted")
  /\ row' = "running" /\ awaiting' = {}
  /\ UNCHANGED <<taskVars, record, thread, contextVars, attempts, othersVars, history>>

(* The attempt's context is published and the graph started.               *)
Launch ==
  /\ drive[Driver].pc = "admitted"
  /\ drive' = [drive EXCEPT ![Driver] = [In("node") EXCEPT !.ctx = Driver]]
  /\ contexts' = Driver /\ flagged' = flagged \ {Driver}
  /\ thread' = Thread(0, FALSE)
  /\ UNCHANGED <<taskVars, rowVars, record, attempts, othersVars, history>>

(* What one attempt came to, read from the row.  A failed one is re-planned *)
(* from an empty thread, within the limit and unless it failed the same    *)
(* way again or the planner cannot be told.                                *)
Outcome ==
  /\ drive[Driver].pc = "outcome"
  /\ \/ /\ Goto(Driver, "done")
        /\ UNCHANGED <<thread, contexts>>
     \/ /\ row = "failed" /\ attempts <= MaxReplans
        /\ Goto(Driver, "new")
        /\ thread' = NoThread
        /\ contexts' = NoOne
  /\ UNCHANGED <<taskVars, rowVars, record, flagged, attempts, othersVars, history>>

------------------------------------------------------------------------------
(* A drive of the graph, by drive_task or by a request.                    *)

At(d, p) == drive[d].pc = p

(* A mutant: the resume value is kept for the next interrupt.              *)
Advance_KeepsAnswer(d, failed) ==
  LET errors == drive[d].erred \/ failed IN
  /\ drive' = [drive EXCEPT ![d] = [@ EXCEPT !.pc = "node", !.at = drive[d].at + 1, !.erred = errors]]
  /\ thread' = Thread(drive[d].at + 1, errors)

(* A step's write and the checkpoint after it.  The resume value does not  *)
(* outlive the superstep it was given to.                                  *)
Advance(d, failed) ==
  LET errors == drive[d].erred \/ failed IN
  /\ drive' = [drive EXCEPT ![d] = [@ EXCEPT !.pc = "node", !.at = drive[d].at + 1,
                                             !.erred = errors, !.answer = "none"]]
  /\ thread' = Thread(drive[d].at + 1, errors)

Cancelled(d) == drive[d].ctx \in flagged
Working(d) == At(d, "node") /\ drive[d].at < NSteps /\ ~Cancelled(d)

(* The steps a cancelled context has left are skipped.                     *)
SkipRest(d) ==
  /\ At(d, "node") /\ drive[d].at < NSteps /\ Cancelled(d)
  /\ drive' = [drive EXCEPT ![d].at = NSteps]
  /\ thread' = Thread(NSteps, drive[d].erred)
  /\ UNCHANGED <<taskVars, rowVars, record, contextVars, attempts, othersVars, history>>

(* A step that run_step refuses: its arguments, its skill or its mode.     *)
Refuse(d) ==
  /\ Working(d)
  /\ awaiting' = awaiting \ {drive[d].at}
  /\ Advance(d, TRUE)
  /\ UNCHANGED <<taskVars, row, record, contextVars, attempts, othersVars, history>>

Read(d) ==
  /\ Working(d) /\ drive[d].at \notin mutating
  /\ Goto(d, "exec")
  /\ UNCHANGED <<taskVars, rowVars, record, thread, contextVars, attempts, othersVars,
                 history>>

(* _await_approval up to interrupt(): also on a replay, approved or not.   *)
AskApproval(d) ==
  /\ Working(d) /\ drive[d].at \in mutating
  /\ Goto(d, "asked")
  /\ record' = [record EXCEPT ![drive[d].at] = IF @ = "none" THEN "pending" ELSE @]
  /\ row' = "awaiting_approval" /\ awaiting' = awaiting \cup {drive[d].at}
  /\ UNCHANGED <<taskVars, thread, contextVars, attempts, othersVars, history>>

(* What a resume value says.  (In the mutant any value is taken for a yes.) *)
Approves_Truthy(answer) == answer # "none"

Approves(answer) == answer = "yes"

(* interrupt(), and what follows an answer.  The binding check compares    *)
(* the action with the record's, not the decision with the record's.       *)
Interrupt(d) ==
  /\ At(d, "asked")
  /\ \/ /\ drive[d].answer = "none"
        /\ Leave(d)
        /\ UNCHANGED <<awaiting, thread, execs, ran>>
     \/ /\ Approves(drive[d].answer)
        /\ Goto(d, "exec")
        /\ awaiting' = awaiting \ {drive[d].at}
        /\ execs' = [execs EXCEPT ![drive[d].at] = @ + 1]
        /\ ran' = [ran EXCEPT ![d] = @ + 1]
        /\ UNCHANGED thread
     \/ /\ drive[d].answer # "none" /\ ~Approves(drive[d].answer)
        /\ awaiting' = awaiting \ {drive[d].at}
        /\ Advance(d, TRUE)
        /\ UNCHANGED <<execs, ran>>
  /\ UNCHANGED <<taskVars, row, record, contextVars, attempts, othersVars, granted,
                 overlapped, raised, crashes>>

SkillReturns(d) ==
  /\ At(d, "exec")
  /\ \E failed \in BOOLEAN : Advance(d, failed)
  /\ UNCHANGED <<taskVars, rowVars, record, contextVars, attempts, othersVars, history>>

(* Anything run_step lets escape - a database error at one of its awaits,  *)
(* a refused binding - is turned into a failed step by the node wrapper,   *)
(* which leaves the checklist and the row as they are.                     *)
NodeCrashed(d) ==
  /\ Upsets <= MaxUpsets /\ drive[d].at \in Frail
  /\ Working(d) \/ At(d, "asked") \/ At(d, "exec")
  /\ Advance(d, TRUE)
  /\ raised' = TRUE
  /\ UNCHANGED <<taskVars, rowVars, record, contextVars, attempts, othersVars, execs, ran,
                 granted, overlapped, crashes>>

(* ainvoke has returned: a cancelled context is dropped and nothing is     *)
(* settled; else the completion gate judges an error-free run.             *)
End(d) ==
  /\ At(d, "node") /\ drive[d].at = NSteps
  /\ IF Cancelled(d)
     THEN Leave(d) /\ contexts' = NoOne
     ELSE Goto(d, "settling") /\ UNCHANGED contexts
  /\ UNCHANGED <<taskVars, rowVars, record, thread, flagged, attempts, othersVars, history>>

(* (In the mutant the context is kept.)                                    *)
Settle_Keeps(d) ==
  /\ At(d, "settling")
  /\ \/ row' = "failed"
     \/ ~drive[d].erred /\ row' = "completed"
  /\ Leave(d)
  /\ UNCHANGED <<taskVars, awaiting, record, thread, contextVars, attempts, othersVars,
                 history>>

Settle(d) ==
  /\ At(d, "settling")
  /\ \/ row' = "failed"
     \/ ~drive[d].erred /\ row' = "completed"
  /\ Leave(d)
  /\ contexts' = NoOne
  /\ UNCHANGED <<taskVars, awaiting, record, thread, flagged, attempts, othersVars, history>>

------------------------------------------------------------------------------
(* resume_after_approval.                                                  *)

(* _paused_index.  (The mutant does not read the checklist.)               *)
PausedIndex_First == 0

PausedIndex ==
  IF awaiting = {} THEN 0 ELSE CHOOSE s \in awaiting : \A t \in awaiting : s <= t

(* The row must await approval, and the step have a record.                *)
LoadDecision(o) ==
  /\ At(o, "idle") /\ row = "awaiting_approval"
  /\ record[PausedIndex] # "none"
  /\ drive' = [drive EXCEPT ![o] = [@ EXCEPT !.pc = "deciding", !.at = PausedIndex,
                                             !.saw = record[PausedIndex]]]
  /\ Loads(o)
  /\ UNCHANGED <<taskVars, rowVars, record, thread, contextVars, attempts, othersVars>>

(* decide_approval leaves a decided record alone, and the request goes on  *)
(* with its own decision.                                                  *)
Decide(o, approved) ==
  /\ At(o, "deciding")
  /\ drive' = [drive EXCEPT ![o] =
                 [In("decided") EXCEPT !.answer = IF approved THEN "yes" ELSE "no"]]
  /\ record' = IF drive[o].saw = "pending"
               THEN [record EXCEPT ![drive[o].at] = IF approved THEN "approved" ELSE "rejected"]
               ELSE record
  /\ row' = "running"
  /\ granted' = IF approved THEN granted \cup {o} ELSE granted
  /\ UNCHANGED <<taskVars, awaiting, thread, contextVars, attempts, othersVars, execs,
                 ran, overlapped, raised, crashes>>

(* The context in the map, or one rebuilt from the row; then the thread as *)
(* it stands.  A thread a re-plan deleted cannot be resumed.               *)
Resume(o) ==
  LET mine == IF contexts = NoOne THEN o ELSE contexts IN
  /\ At(o, "decided")
  /\ contexts' = mine
  /\ drive' = [drive EXCEPT ![o] =
                 IF thread.exists
                 THEN [@ EXCEPT !.pc = "node", !.ctx = mine, !.at = thread.at,
                                !.erred = thread.erred]
                 ELSE In("done")]
  /\ UNCHANGED <<taskVars, rowVars, record, thread, flagged, attempts, othersVars, history>>

------------------------------------------------------------------------------
(* cancel_task; the sweep; the process.                                    *)

CancelLoads ==
  /\ canceller = "idle" /\ row \notin Terminal
  /\ canceller' = "loaded"
  /\ flagged' = flagged \cup ({contexts} \ {NoOne})
  /\ Loads("canceller")
  /\ UNCHANGED <<taskVars, rowVars, record, thread, contexts, drive, attempts, sweeper>>

CancelCommits ==
  /\ canceller = "loaded"
  /\ canceller' = "committed"
  /\ row' = "cancelled" /\ awaiting' = {}
  /\ UNCHANGED <<taskVars, record, thread, contextVars, drive, attempts, sweeper, history>>

CancelReleases ==
  /\ canceller = "committed"
  /\ canceller' = "done"
  /\ contexts' = NoOne
  /\ UNCHANGED <<taskVars, rowVars, record, thread, flagged, drive, attempts, sweeper,
                 history>>

(* A row that has said awaiting_approval for long: nobody has just written *)
(* it.                                                                     *)
SweepSelects ==
  /\ sweeper = "idle" /\ row = "awaiting_approval"
  /\ \A d \in Drives : ~At(d, "asked")
  /\ sweeper' = "selected"
  /\ Loads("sweeper")
  /\ UNCHANGED <<taskVars, rowVars, record, thread, contextVars, drive, attempts,
                 canceller>>

SweepCommits ==
  /\ sweeper = "selected"
  /\ sweeper' = "done"
  /\ row' = "failed"
  /\ UNCHANGED <<taskVars, awaiting, record, thread, contextVars, drive, attempts,
                 canceller, history>>

(* Whatever was under way is gone, and the contexts with it.               *)
Crash ==
  /\ Upsets <= MaxUpsets /\ crashes' = crashes + 1
  /\ drive' = [d \in Drives |-> IF d \in Active THEN In("done") ELSE drive[d]]
  /\ contexts' = NoOne /\ flagged' = {}
  /\ canceller' = IF Midway(canceller) THEN "done" ELSE canceller
  /\ sweeper' = IF Midway(sweeper) THEN "done" ELSE sweeper
  /\ UNCHANGED <<taskVars, rowVars, record, thread, attempts, execs, ran, granted,
                 overlapped, raised>>

------------------------------------------------------------------------------

DriveTask == Begin \/ PlanningFails \/ PlanOnly \/ Admit \/ Launch \/ Outcome

DriveNext(d) ==
  \/ SkipRest(d) \/ Refuse(d) \/ Read(d) \/ AskApproval(d) \/ Interrupt(d)
  \/ SkillReturns(d) \/ NodeCrashed(d) \/ End(d) \/ Settle(d)

Request(o) == LoadDecision(o) \/ Resume(o) \/ \E approved \in BOOLEAN : Decide(o, approved)

CancelTask == CancelLoads \/ CancelCommits \/ CancelReleases
Sweep == SweepSelects \/ SweepCommits

Next ==
  \/ DriveTask
  \/ \E d \in Drives : DriveNext(d)
  \/ \E o \in Operators : Request(o)
  \/ CancelTask
  \/ Sweep
  \/ Crash

Spec == Init /\ [][Next]_vars

------------------------------------------------------------------------------

Call == [pc : {"new", "planning", "admitted", "outcome", "idle", "deciding", "decided",
               "node", "asked", "exec", "settling", "done"},
         ctx : Drives \cup {NoOne},
         at : 0 .. NSteps,
         erred : BOOLEAN,
         answer : {"none", "yes", "no"},
         saw : {"none", "pending", "approved", "rejected"}]

(* Shape of the state.                                                     *)
TypeOK ==
  /\ mode \in {"execute", "plan_only"} /\ mutating \in Plans
  /\ row \in Terminal \cup {"pending", "planning", "running", "awaiting_approval"}
  /\ awaiting \in SUBSET Steps
  /\ record \in [Steps -> {"none", "pending", "approved", "rejected"}]
  /\ thread \in [exists : BOOLEAN, at : 0 .. NSteps, erred : BOOLEAN]
  /\ contexts \in Drives \cup {NoOne} /\ flagged \in SUBSET Drives
  /\ drive \in [Drives -> Call]
  /\ attempts \in 0 .. (MaxReplans + 1)
  /\ canceller \in {"idle", "loaded", "committed", "done"}
  /\ sweeper \in {"idle", "selected", "done"}
  /\ execs \in [Steps -> Nat] /\ ran \in [Drives -> Nat] /\ granted \in SUBSET Operators
  /\ overlapped \in BOOLEAN /\ raised \in BOOLEAN /\ crashes \in Nat

(* An approval is used up by the one execution it was given for: no call   *)
(* ever runs a mutating skill without a decision of its own, or a second   *)
(* one on the same decision, whatever requests, re-plans, cancellations,   *)
(* sweeps and crashes interleave.                                          *)
ExecutionsPaid == \A d \in Drives : ran[d] <= IF d \in granted THEN 1 ELSE 0

(* No call ever looked at the row while another was under way, and the     *)
(* process did not die: what follows is what is left of the promises.      *)
Orderly == ~overlapped /\ crashes = 0
AtRest == Alone(NoOne)

(* A node that raises leaves its item awaiting_approval, which misleads    *)
(* _paused_index from then on (README, "Known disagreements").             *)
Undisturbed == Orderly /\ ~raised

(* A mutating skill runs at most once, and only if its own record says     *)
(* approved: rejections, re-plans and the sweep never let it through.      *)
OwnDecision ==
  Undisturbed => \A s \in Steps : execs[s] <= IF record[s] = "approved" THEN 1 ELSE 0

(* A task shown as awaiting approval can be answered: nothing else runs,   *)
(* its thread is there, and the step the operator is shown is the one the  *)
(* thread will re-run, with a record to decide.                            *)
PausedIsAnswerable ==
  Undisturbed /\ AtRest /\ row = "awaiting_approval" =>
    /\ thread.exists /\ thread.at = PausedIndex /\ PausedIndex \in awaiting
    /\ record[PausedIndex] = "pending"

(* Whichever nodes raise, a task nothing works on any more is paused or    *)
(* over, never left saying that it runs; and one that completed or was     *)
(* cancelled leaves no context behind.  (One the sweep failed does: the    *)
(* sweep has no Orchestrator.)                                             *)
NeverStranded ==
  Orderly /\ AtRest =>
    /\ row \in Terminal \cup {"awaiting_approval"}
    /\ row \in {"completed", "cancelled"} => contexts = NoOne

(* "a duplicated or replayed approve call resolves to the same record      *)
(* rather than authorizing a second execution" (security/approval.py).     *)
ExecutesOnce == \A s \in Steps : execs[s] <= 1 + crashes

(* orchestrator.py, on interrupt(): "approving one must not               *)
(* blanket-approve the other, because each mutating action needs its own   *)
(* human decision".                                                        *)
(* (The code does not once a node raised: README, "Known disagreements".)  *)
EachItsOwnDecision ==
  Orderly => \A s \in Steps : execs[s] > 0 => record[s] = "approved"

(* "A task in one of these will never transition again", of cancelled.     *)
(* (The code does not: README, "Known disagreements".)                     *)
CancelledIsFinal == [][row = "cancelled" => row' = "cancelled"]_row

==============================================================================
