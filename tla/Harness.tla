------------------------------- MODULE Harness -------------------------------
(***************************************************************************)
(* The evidence ledger of a task (core/harness.py), the completion gate    *)
(* (core/completion.py) and the drive loop of core/orchestrator.py that    *)
(* plans, runs, settles and re-plans by them, beside a human's decision    *)
(* that resumes a paused task, in this process or in another one, and a    *)
(* cancellation.                                                           *)
(*                                                                         *)
(* A plan is a sequence of steps.  The graph (TaskGraph) runs them in the  *)
(* order of their references; what a step does is its outcome.             *)
(***************************************************************************)
EXTENDS Naturals, Sequences, SequencesExt, FiniteSets

CONSTANTS
  Plans,      \* the plans a planner may return: sequences of steps, which are
              \* a skill, the text of its arguments as spelled, the steps needed
  None,       \* nothing, in a variable that may hold a value
  Digit,      \* the digit in a skill's name, or None
  Mutating,   \* the skills that wait for a decision
  Generated,  \* the synthesized skills: those the approval gate may block
  MaxReplan,  \* Settings.max_replan_attempts
  Reviewers,  \* whether a reviewer may be configured: a set of Booleans
  Resumes     \* bound: decisions on the task

ASSUME HarnessAssumption ==
  /\ MaxReplan \in Nat /\ Resumes \in Nat
  /\ Reviewers \subseteq BOOLEAN /\ Reviewers # {}
  /\ \A skill \in DOMAIN Digit : Digit[skill] \in (0 .. 9) \cup {None}

ASSUME PlansAssumption ==
  \A plan \in Plans :
    /\ plan \in Seq(Range(plan))
    /\ \A i \in DOMAIN plan :
         /\ plan[i].skill \in DOMAIN Digit
         /\ plan[i].needs \subseteq 1 .. i - 1
         /\ \A j \in DOMAIN plan : i # j => plan[i].skill \notin Mutating \/ plan[j].skill \notin Mutating

(* An entry of Orchestrator._contexts, and a Ledger.                       *)
Contexts == [plan : Plans \cup {<<>>}, attempt : Nat]
Verdicts == [step : Nat \cup {None}, verdict : {"confirmed", "refuted", "unresolved"}]
Ledgers ==
  [attempts : Seq([plan : Plans, claims : SUBSET Verdicts, outcome : {"", "completed", "failed"}]),
   stop : {"goal_reached", "stalled", "exhausted", "cannot_replan", "cancelled", "paused", None},
   blocker : Nat \cup {None},
   verification : BOOLEAN \cup {None}]

ASSUME NoneAssumption ==
  None \notin Nat \cup BOOLEAN /\ None # "starved" /\ None \notin Contexts /\ None \notin Ledgers

-----------------------------------------------------------------------------
(* What a plan does.                                                       *)

(* A step returns an output, an empty one, or one that says it failed; it  *)
(* raises; it has a reference without a result; it was refused; it was     *)
(* skipped by a cancellation; the approval gate blocked it; or it still    *)
(* waits for a decision.                                                   *)
HasResult == {"output", "empty", "confessed"}
Outcomes == HasResult \cup {"raised", "starved", "refused", "blocked", "skipped", "waiting"}

(* What step i may do, given what the steps it refers to did, the decision *)
(* on the plan's mutating step, and whether the task was cancelled.  A     *)
(* synthesized skill may be unapproved, now or when the node is run again. *)
Possible(plan, i, before, answer, stopped) ==
  IF stopped THEN {"skipped"}
  ELSE IF \E j \in plan[i].needs : before[j] = "waiting" THEN {"waiting"}
  ELSE IF \E j \in plan[i].needs : before[j] \notin HasResult THEN {"starved"}
  ELSE (IF plan[i].skill \in Generated THEN {"blocked"} ELSE {})
       \cup (IF plan[i].skill \in Mutating /\ answer = None THEN {"waiting"}
             ELSE IF plan[i].skill \in Mutating /\ answer = "no" THEN {"refused"}
             ELSE HasResult \cup {"raised"})

(* The runs of a plan that continue one that got as far as "sofar".        *)
Executions(plan, sofar, answer, stopped) ==
  {run \in [DOMAIN plan -> Outcomes] : \A i \in DOMAIN plan :
     IF sofar[i] = "waiting" THEN run[i] \in Possible(plan, i, run, answer, stopped)
     ELSE run[i] = sofar[i]}

Fresh(plan) == [i \in DOMAIN plan |-> "waiting"]
Pauses(run) == \E i \in DOMAIN run : run[i] = "waiting"

(* The steps' errors: a step has at most one, and they are in the order of *)
(* the steps.  Steps count from zero.                                      *)
Failing == {"raised", "starved", "refused", "blocked"}
Errors(plan, run) ==
  {[step |-> i - 1, skill |-> plan[i].skill, kind |-> run[i]] :
     i \in {i \in DOMAIN plan : run[i] \in Failing}}
GateError == [step |-> None, skill |-> None, kind |-> "gate"]

(* step_status of the graph.                                               *)
Status(outcome) ==
  IF outcome \in HasResult THEN "completed"
  ELSE IF outcome \in {"raised", "starved", "blocked"} THEN "failed"
  ELSE IF outcome \in {"refused", "skipped"} THEN "skipped" ELSE "pending"

-----------------------------------------------------------------------------
(* The ledger.                                                             *)

EmptyLedger == [attempts |-> <<>>, stop |-> None, blocker |-> None, verification |-> None]

(* A mutant: the arguments are compared as they are spelled.               *)
Fingerprint_Literal(plan) == plan

(* plan_fingerprint: _normalize_args takes the spelling away.              *)
Fingerprint(plan) ==
  [i \in DOMAIN plan |-> [skill |-> plan[i].skill, text |-> plan[i].text, needs |-> plan[i].needs]]

NewAttempt(plan) == [plan |-> plan, claims |-> {}, outcome |-> ""]

Refuted(attempt) == \E claim \in attempt.claims : claim.verdict = "refuted"

(* check_retry: refuses the approach of an attempt already refuted.        *)
RetryRefused(ledger, plan) ==
  \E k \in DOMAIN ledger.attempts :
    Refuted(ledger.attempts[k]) /\ Fingerprint(ledger.attempts[k].plan) = Fingerprint(plan)

(* The number that record_outcome reads off the head of an error: all its  *)
(* digits, those of the skill's name too.  What the approval gate says     *)
(* names the skill and no step.                                            *)
Owner(error) ==
  IF error.kind = "gate" THEN None
  ELSE IF error.kind = "blocked" THEN Digit[error.skill]
  ELSE IF Digit[error.skill] = None THEN error.step
  ELSE 10 * error.step + Digit[error.skill]

(* by_step: the first error of each number.                                *)
First(errors, number) ==
  LET owned == {e \in errors : Owner(e) = number}
  IN  CHOOSE first \in owned : \A e \in owned : first.step <= e.step
ByStep(errors, number) ==
  IF \E e \in errors : Owner(e) = number THEN First(errors, number).kind ELSE None

(* An error that by_step does not keep is one about the plan as a whole;   *)
(* the approval gate says the same of every step with that skill.          *)
SameText(e, f) == e = f \/ (e.kind = "blocked" /\ f.kind = "blocked" /\ e.skill = f.skill)
Unattributed(errors) ==
  \E e \in errors : Owner(e) = None \/ ~SameText(e, First(errors, Owner(e)))

StepVerdict(status, error) ==
  IF status = "completed" THEN "confirmed"
  ELSE IF status = "failed" /\ error # "starved" THEN "refuted" ELSE "unresolved"

(* record_outcome.                                                         *)
Claims(plan, run, errors) ==
  {[step |-> i - 1, verdict |-> StepVerdict(Status(run[i]), ByStep(errors, i - 1))] :
     i \in DOMAIN plan}
  \cup (IF Unattributed(errors) THEN {[step |-> None, verdict |-> "refuted"]} ELSE {})

RecordOutcome(ledger, k, run, errors) ==
  [ledger EXCEPT !.attempts[k].claims = @ \cup Claims(ledger.attempts[k].plan, run, errors),
                 !.attempts[k].outcome = IF errors = {} THEN "completed" ELSE "failed"]

(* Ledger.stop, _build_blocker: the blocker says what was tried.           *)
Blocking == {"stalled", "exhausted", "cannot_replan"}
Stop(ledger, cause) ==
  [ledger EXCEPT !.stop = cause,
                 !.blocker = IF cause \in Blocking THEN Len(ledger.attempts) ELSE @]

(* A mutant: the persisted copy is not read.                               *)
FromDict_Fresh(stored) == EmptyLedger

(* Ledger.from_dict.                                                       *)
FromDict(stored) == IF stored = None THEN EmptyLedger ELSE stored

-----------------------------------------------------------------------------
(* A mutant: what a step says of itself is not read.                       *)
MachineRefutes_Trusts(run) == run # <<>> /\ \A i \in DOMAIN run : run[i] = "empty"

(* CompletionGate.verify on a run without errors: it has no output at all, *)
(* or a step says it failed.                                               *)
MachineRefutes(run) ==
  \/ run # <<>> /\ \A i \in DOMAIN run : run[i] = "empty"
  \/ \E i \in DOMAIN run : run[i] = "confessed"

(* Whether the gate accepts.  A reviewer judges if it is there and does    *)
(* not raise; otherwise the machine checks decide.                         *)
GateVerdicts(run, reviewer) ==
  IF MachineRefutes(run) THEN {FALSE} ELSE {TRUE} \cup (IF reviewer THEN BOOLEAN ELSE {})

-----------------------------------------------------------------------------
VARIABLES
  row,      \* the task's row: status, ledger, plan, errors, blocker
  live,     \* the Ledger that drive_task made
  held,     \* _ledgers holds it
  context,  \* _contexts of the driving process: a plan and its attempt
  flagged,  \* context.cancelled
  thread,   \* the checkpointed run, None when the thread was deleted
  at,       \* where the driver and the resumer are
  local,    \* what a run and its settlement know: plan, attempt, run, stored, ...
  tries,    \* _drive_with_ledger: attempt
  prior,    \* _drive_with_ledger: prior_failures
  task,     \* fixed: mode, connector, planner and reviewer
  resumes,  \* bound on Resume
  answer,   \* the decision of the current resumption, and where it was taken
  fates,    \* history: what each attempt's plan did, and the gate's refusals
  early,    \* history: the decisions taken before drive_task had returned,
            \* TRUE for one taken in another process
  lost      \* history: the ledger could not be saved when drive_task stopped

vars == <<row, live, held, context, flagged, thread, at, local, tries, prior,
          task, resumes, answer, fates, early, lost>>

Callers == {"driver", "resumer"}
Terminal == {"completed", "failed", "cancelled"}
NoCall == [plan |-> <<>>, attempt |-> 0, run |-> <<>>, stored |-> None, ledger |-> None, resumed |-> FALSE,
           errors |-> {}]

(* create_task.                                                            *)
Init ==
  /\ row = [status |-> "pending", ledger |-> None, plan |-> <<>>, errors |-> {}, blocker |-> None]
  /\ live = EmptyLedger
  /\ held = TRUE
  /\ context = None
  /\ flagged = FALSE
  /\ thread = None
  /\ at = [driver |-> "start", resumer |-> "idle"]
  /\ local = [c \in Callers |-> NoCall]
  /\ tries = 0
  /\ prior = None
  /\ task \in [mode : {"execute", "plan_only"}, connector : BOOLEAN,
               sees : BOOLEAN, reviewer : Reviewers]
  /\ resumes = 0
  /\ answer = [approved |-> None, elsewhere |-> FALSE]
  /\ fates = <<>>
  /\ early = {}
  /\ lost = FALSE

Go(c, place) == at' = [at EXCEPT ![c] = place]

-----------------------------------------------------------------------------
(* _drive_attempt.                                                         *)

(* The row says planning while the planner is asked.                       *)
StartAttempt ==
  /\ at["driver"] = "start"
  /\ row' = [row EXCEPT !.status = "planning"]
  /\ Go("driver", "plan")
  /\ UNCHANGED <<live, held, context, flagged, thread, local, tries, prior, task,
                 resumes, answer, fates, early, lost>>

(* _fail_task: the result has an error and no list of errors.              *)
Failed == [row EXCEPT !.status = "failed", !.errors = {}, !.blocker = None]

(* The connector cannot be resolved, the planner raises, or compute_levels *)
(* does not take the plan.                                                 *)
PlanningFails ==
  /\ at["driver"] = "plan"
  /\ row' = Failed
  /\ thread' = None /\ context' = None
  /\ Go("driver", "outcome")
  /\ UNCHANGED <<live, held, flagged, local, tries, prior, task, resumes, answer, fates, early, lost>>

(* plan_only: the plan is the deliverable.                                 *)
DeliverPlan(plan) ==
  /\ at["driver"] = "plan" /\ task.connector /\ task.mode = "plan_only"
  /\ row' = [row EXCEPT !.status = "completed", !.plan = plan, !.errors = {}]
  /\ Go("driver", "outcome")
  /\ UNCHANGED <<live, held, context, flagged, thread, local, tries, prior, task,
                 resumes, answer, fates, early, lost>>

RefuseRetry(plan) ==
  /\ at["driver"] = "plan" /\ task.connector /\ task.mode = "execute"
  /\ RetryRefused(live, plan)
  /\ live' = Stop(live, "stalled")
  /\ row' = Failed
  /\ thread' = None /\ context' = None
  /\ Go("driver", "block")
  /\ UNCHANGED <<held, flagged, local, tries, prior, task, resumes, answer, fates, early, lost>>

Admit(plan) ==
  /\ at["driver"] = "plan" /\ task.connector /\ task.mode = "execute"
  /\ ~RetryRefused(live, plan)
  /\ live' = [live EXCEPT !.attempts = Append(@, NewAttempt(plan))]
  /\ row' = [row EXCEPT !.status = "running", !.plan = plan]
  /\ context' = [plan |-> plan, attempt |-> Len(live.attempts) + 1]
  /\ flagged' = FALSE
  /\ thread' = Fresh(plan)
  /\ fates' = Append(fates, [plan |-> plan, run |-> Fresh(plan), refused |-> FALSE])
  /\ local' = [local EXCEPT !["driver"] =
                 [NoCall EXCEPT !.plan = plan, !.attempt = Len(live.attempts) + 1, !.run = Fresh(plan)]]
  /\ Go("driver", "run")
  /\ UNCHANGED <<held, tries, prior, task, resumes, answer, early, lost>>

(* _drive: a plan without steps does not compile into a graph; the call    *)
(* raises out of drive_task.                                               *)
NoEntrypoint ==
  /\ at["driver"] = "run" /\ local["driver"].plan = <<>>
  /\ held' = FALSE
  /\ Go("driver", "raised")
  /\ local' = [local EXCEPT !["driver"] = NoCall]
  /\ UNCHANGED <<row, live, context, flagged, thread, tries, prior, task,
                 resumes, answer, fates, early, lost>>

-----------------------------------------------------------------------------
(* _drive and _settle, by the driver or by a resumption.                   *)

Here(c) == c = "driver" \/ ~answer.elsewhere
Stopped(c) == flagged /\ Here(c)
Return(c) == Go(c, IF c = "driver" THEN "outcome" ELSE "idle")

(* The graph runs until it pauses, or ends; a cancelled run is not settled.*)
Execute(c) ==
  /\ at[c] = "run" /\ local[c].plan # <<>>
  /\ \E run \in Executions(local[c].plan, local[c].run,
                           IF c = "driver" THEN None ELSE answer.approved, Stopped(c)) :
       /\ local' = IF Pauses(run) \/ Stopped(c) THEN [local EXCEPT ![c] = NoCall]
                   ELSE [local EXCEPT ![c].run = run]
       /\ thread' = IF Stopped(c) THEN thread ELSE run
       /\ fates' = [fates EXCEPT ![Len(fates)].run = run]
       /\ row' = IF Pauses(run) THEN [row EXCEPT !.status = "awaiting_approval"] ELSE row
       /\ context' = IF Stopped(c) /\ ~Pauses(run) THEN None ELSE context
       /\ IF Pauses(run) \/ Stopped(c) THEN Return(c)
          ELSE Go(c, IF c = "driver" THEN "gate" ELSE "settle")
  /\ UNCHANGED <<live, held, flagged, tries, prior, task, resumes, answer, early, lost>>

(* _settle reads the row ...  (The driver's ledger is in memory: whatever  *)
(* it reads, it takes that one.)                                           *)
ReadRow(c) ==
  /\ at[c] = "settle"
  /\ local' = [local EXCEPT ![c].stored = row.ledger]
  /\ Go(c, "ledger")
  /\ UNCHANGED <<row, live, held, context, flagged, thread, tries, prior, task,
                 resumes, answer, fates, early, lost>>

(* ... and takes the ledger in memory, or else the one it read.            *)
TakeLedger(c) ==
  /\ at[c] = "ledger"
  /\ LET found == held /\ Here(c)
     IN  local' = [local EXCEPT ![c].resumed = ~found,
                                ![c].ledger = IF found THEN None ELSE FromDict(local[c].stored)]
  /\ Go(c, "gate")
  /\ UNCHANGED <<row, live, held, context, flagged, thread, tries, prior, task,
                 resumes, answer, fates, early, lost>>

(* The gate judges a run without errors.  The outcome is recorded on the   *)
(* attempt of the context, which is one of the live ledger's.              *)
Judge(c) ==
  /\ at[c] = "gate"
  /\ LET plan == local[c].plan
         run == local[c].run
         failed == Errors(plan, run)
     IN \E verdict \in IF failed = {} THEN GateVerdicts(run, task.reviewer) ELSE {None} :
          LET refused == verdict = FALSE
              errors == IF refused THEN failed \cup {GateError} ELSE failed
              Verified(ledger) == [ledger EXCEPT !.verification =
                                     IF verdict = None THEN @ ELSE verdict]
              mine == IF local[c].resumed THEN live ELSE Verified(live)
          IN /\ local' = [local EXCEPT ![c].errors = errors, ![c].ledger = IF local[c].resumed THEN Verified(@) ELSE @]
             /\ live' = IF local[c].attempt = 0 THEN mine
                        ELSE RecordOutcome(mine, local[c].attempt, run, errors)
             /\ fates' = [fates EXCEPT ![Len(fates)].refused = refused]
  /\ Go(c, "write")
  /\ UNCHANGED <<row, held, context, flagged, thread, tries, prior, task, resumes, answer, early, lost>>

(* A resumption has no loop to set its stop cause.                         *)
WriteRow(c) ==
  /\ at[c] = "write"
  /\ LET errors == local[c].errors
         ledger == IF local[c].resumed
                   THEN [local[c].ledger EXCEPT !.stop = IF errors = {} THEN "goal_reached" ELSE None]
                   ELSE live
     IN  row' = [row EXCEPT !.status = IF errors = {} THEN "completed" ELSE "failed",
                            !.errors = errors, !.blocker = None, !.ledger = ledger]
  /\ context' = IF Here(c) THEN None ELSE context
  /\ thread' = None
  /\ local' = [local EXCEPT ![c] = NoCall]
  /\ Return(c)
  /\ UNCHANGED <<live, held, flagged, tries, prior, task, resumes, answer, fates, early, lost>>

-----------------------------------------------------------------------------
(* _drive_with_ledger.                                                     *)

(* failure_text of _outcome: the plan and the errors, if there are any.    *)
FailureText == IF row.errors = {} THEN None ELSE [plan |-> row.plan, errors |-> row.errors]

(* Stops that only save the ledger.                                        *)
Rest ==
  /\ at["driver"] = "outcome" /\ row.status # "failed"
  /\ live' = Stop(live, IF row.status = "completed" THEN "goal_reached"
                        ELSE IF row.status = "cancelled" THEN "cancelled" ELSE "paused")
  /\ Go("driver", "persist")
  /\ UNCHANGED <<row, held, context, flagged, thread, local, tries, prior, task,
                 resumes, answer, fates, early, lost>>

(* Stops that explain themselves.                                          *)
GiveUpCause ==
  IF tries + 1 > MaxReplan THEN "exhausted"
  ELSE IF ~task.sees THEN "cannot_replan"
  ELSE IF FailureText # None /\ FailureText = prior THEN "stalled" ELSE None

GiveUp ==
  /\ at["driver"] = "outcome" /\ row.status = "failed" /\ GiveUpCause # None
  /\ live' = Stop(live, GiveUpCause)
  /\ Go("driver", "block")
  /\ UNCHANGED <<row, held, context, flagged, thread, local, tries, prior, task,
                 resumes, answer, fates, early, lost>>

(* The next attempt starts from nothing.                                   *)
Replan ==
  /\ at["driver"] = "outcome" /\ row.status = "failed" /\ GiveUpCause = None
  /\ tries' = tries + 1
  /\ prior' = FailureText
  /\ thread' = None /\ context' = None
  /\ Go("driver", "start")
  /\ UNCHANGED <<row, live, held, flagged, local, task, resumes, answer, fates, early, lost>>

(* _persist_ledger: a write that fails is passed over.  drive_task drops   *)
(* the ledger and returns.                                                 *)
Persist ==
  /\ at["driver"] = "persist"
  /\ \/ row' = [row EXCEPT !.ledger = live] /\ UNCHANGED lost
     \/ lost' = TRUE /\ UNCHANGED row
  /\ held' = FALSE
  /\ Go("driver", "done")
  /\ tries' = 0 /\ prior' = None
  /\ UNCHANGED <<live, context, flagged, thread, local, task, resumes, answer, fates, early>>

(* _write_blocker: a write that fails raises out of drive_task.            *)
WriteBlocker ==
  /\ at["driver"] = "block"
  /\ \/ /\ row' = [row EXCEPT !.ledger = live, !.blocker = live.blocker]
        /\ Go("driver", "done")
     \/ UNCHANGED row /\ Go("driver", "raised")
  /\ held' = FALSE
  /\ tries' = 0 /\ prior' = None
  /\ UNCHANGED <<live, context, flagged, thread, local, task, resumes, answer, fates, early, lost>>

-----------------------------------------------------------------------------
(* resume_after_approval: here, or in a process that rebuilds the context  *)
(* from the row and knows no attempt.                                      *)
Resume(yes, elsewhere) ==
  /\ resumes < Resumes /\ resumes' = resumes + 1
  /\ at["resumer"] = "idle" /\ row.status = "awaiting_approval" /\ thread # None
  /\ row' = [row EXCEPT !.status = "running"]
  /\ answer' = [approved |-> yes, elsewhere |-> elsewhere]
  /\ LET known == IF elsewhere \/ context = None THEN [plan |-> row.plan, attempt |-> 0]
                  ELSE context
     IN  /\ local' = [local EXCEPT !["resumer"] =
                        [NoCall EXCEPT !.plan = known.plan, !.attempt = known.attempt, !.run = thread]]
         /\ context' = IF elsewhere THEN context ELSE known
  /\ early' = early \cup (IF at["driver"] = "done" THEN {} ELSE {elsewhere})
  /\ Go("resumer", "run")
  /\ UNCHANGED <<live, held, flagged, thread, tries, prior, task, fates, lost>>

(* cancel_task, in the driving process.                                    *)
Cancel ==
  /\ row.status \notin Terminal
  /\ row' = [row EXCEPT !.status = "cancelled", !.errors = {}, !.blocker = None]
  /\ flagged' = (flagged \/ context # None)
  /\ thread' = None /\ context' = None
  /\ UNCHANGED <<live, held, at, local, tries, prior, task, resumes, answer, fates, early, lost>>

-----------------------------------------------------------------------------
Plan == \E plan \in Plans : DeliverPlan(plan) \/ RefuseRetry(plan) \/ Admit(plan)
Run(c) == Execute(c) \/ ReadRow(c) \/ TakeLedger(c) \/ Judge(c) \/ WriteRow(c)
Drive ==
  \/ StartAttempt \/ PlanningFails \/ Plan \/ NoEntrypoint \/ Run("driver")
  \/ Rest \/ GiveUp \/ Replan \/ Persist \/ WriteBlocker

Next ==
  \/ Drive
  \/ Run("resumer")
  \/ \E yes, elsewhere \in BOOLEAN : Resume(IF yes THEN "yes" ELSE "no", elsewhere)
  \/ Cancel

Spec == Init /\ [][Next]_vars

-----------------------------------------------------------------------------
(* Properties.                                                             *)

SamePlan(p, q) ==
  /\ DOMAIN p = DOMAIN q
  /\ \A i \in DOMAIN p : p[i].skill = q[i].skill /\ p[i].text = q[i].text /\ p[i].needs = q[i].needs
Disproved(fate) == fate.refused \/ \E i \in DOMAIN fate.run : fate.run[i] = "raised"

(* A plan that a step of its own or the gate disproved is not run again,   *)
(* however its arguments are spelled (check_retry, open_attempt), unless a *)
(* decision was taken in another process while drive_task went on: that    *)
(* process knows no attempt to record the outcome on.                      *)
NoApproachRepeated ==
  TRUE \notin early =>
    \A i, j \in DOMAIN fates : i < j /\ SamePlan(fates[i].plan, fates[j].plan) => ~Disproved(fates[i])

(* What a claim says of a step is what the step did: refuted if it raised  *)
(* or was blocked, confirmed if it has a result, unresolved if it was      *)
(* starved, refused, skipped or never ran (record_outcome); and the plan   *)
(* as a whole is refuted if the completion gate refused the result or the  *)
(* approval gate blocked a step, and only then.  For plans whose skills    *)
(* have no digits in their names.                                          *)
VerdictsTrue ==
  \A k \in DOMAIN live.attempts :
    LET claims == live.attempts[k].claims
        fate == fates[k]
    IN  (\A i \in DOMAIN fate.plan : Digit[fate.plan[i].skill] = None) /\ claims # {} =>
          /\ (\E claim \in claims : claim.step = None) <=>
               fate.refused \/ \E i \in DOMAIN fate.run : fate.run[i] = "blocked"
          /\ \A claim \in claims : claim.step # None =>
               LET outcome == fate.run[claim.step + 1]
               IN  /\ claim.verdict = "refuted" <=> outcome \in {"raised", "blocked"}
                   /\ claim.verdict = "confirmed" <=> outcome \in HasResult

(* What the ledger says of its verdicts: a step that never ran is not      *)
(* refuted.                                                                *)
(* (The code refutes a step that the approval gate blocked, and its plan:  *)
(* README, "Known disagreements".)                                         *)
UnrunIsUnresolved ==
  \A k \in DOMAIN live.attempts :
    (\A i \in DOMAIN fates[k].plan : Digit[fates[k].plan[i].skill] = None) =>
      \A claim \in live.attempts[k].claims :
        claim.step # None /\ claim.verdict = "refuted" => fates[k].run[claim.step + 1] = "raised"

(* A task that was executed is completed only if the last plan's steps all *)
(* had results, some step an output and none one that says it failed, and  *)
(* no reviewer refuted them (CompletionGate.verify, _settle): whoever      *)
(* settles it, whatever an earlier attempt did and whoever cancels.        *)
CompletedIsVerified ==
  row.status = "completed" /\ task.mode = "execute" =>
    LET fate == Last(fates)
    IN  /\ ~fate.refused
        /\ \A i \in DOMAIN fate.run : fate.run[i] \in {"output", "empty"}
        /\ \E i \in DOMAIN fate.run : fate.run[i] = "output"

(* When drive_task has returned on its own, the row says why it stopped: a *)
(* failed task has a blocker that counts every attempt (Ledger.stop,       *)
(* _write_blocker), a completed one its cause, if the ledger could be      *)
(* saved.                                                                  *)
StopExplained ==
  at["driver"] = "done" /\ resumes = 0 =>
    /\ row.status = "failed" => row.blocker = Len(fates) /\ row.ledger.stop \in Blocking
    /\ row.status # "failed" => row.blocker = None
    /\ row.status = "completed" /\ ~lost => row.ledger.stop = "goal_reached"

(* The row has every attempt.                                              *)
HistoryOnRow ==
  /\ row.ledger # None
  /\ Len(row.ledger.attempts) = Len(fates)
  /\ \A k \in DOMAIN fates : row.ledger.attempts[k].plan = fates[k].plan

(* The attempts made before a pause are still on the row after the task    *)
(* was resumed and settled, in this process or another one (from_dict,     *)
(* _settle), if drive_task had returned before the decision and could save *)
(* the ledger.                                                             *)
HistoryKept == at["driver"] = "done" /\ early = {} /\ ~lost => HistoryOnRow

(* What from_dict is there for: the attempts recorded before a pause are   *)
(* not overwritten by an empty history.                                    *)
(* (They are when drive_task could not save them, which it passes over:    *)
(* README, "Known disagreements".)                                         *)
HistorySurvives ==
  at["driver"] = "done" /\ early = {} /\ row.status \in {"completed", "failed"} => HistoryOnRow

(* The ledger that is persisted with the task tells what happened to it:   *)
(* every verdict, why it stopped, and every attempt it took.               *)
LedgerTrue == VerdictsTrue /\ StopExplained /\ HistoryKept

(* What _settle says it does: every step of a settled task becomes a claim *)
(* in its ledger.                                                          *)
(* (The code does not: README, "Known disagreements".)                     *)
SettledIsRecorded ==
  at["driver"] = "done" /\ early = {} /\ ~lost /\ row.status = "completed" /\ task.mode = "execute" =>
    \A i \in DOMAIN row.plan :
      \E claim \in Last(row.ledger.attempts).claims : claim.step = i - 1

=============================================================================
