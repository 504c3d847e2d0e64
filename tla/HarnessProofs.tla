---------------------------- MODULE HarnessProofs ----------------------------
(***************************************************************************)
(* Proofs about Harness, for any plans a planner may return, any names of  *)
(* skills and any number of re-plans and decisions.                        *)
(***************************************************************************)
EXTENDS Harness, SequenceTheorems, WellFoundedInduction, TLAPS

Places == {"idle", "start", "plan", "run", "settle", "ledger", "gate", "write", "outcome",
           "block", "persist", "done", "raised"}

Faults == SUBSET [step : Nat \cup {None}, skill : DOMAIN Digit \cup {None},
                  kind : Failing \cup {"gate"}]
Fate == [plan : Plans, run : Seq(Outcomes), refused : BOOLEAN]
Fates == Seq(Fate)
Calls == [plan : Plans \cup {<<>>}, attempt : Nat, run : Seq(Outcomes),
          stored : Ledgers \cup {None}, ledger : Ledgers \cup {None}, resumed : BOOLEAN,
          errors : Faults]

(* Shape of the state.                                                     *)
TypeOK ==
  /\ row \in [status : Terminal \cup {"pending", "planning", "running", "awaiting_approval"},
              ledger : Ledgers \cup {None}, plan : Plans \cup {<<>>}, errors : Faults,
              blocker : Nat \cup {None}]
  /\ live \in Ledgers /\ held \in BOOLEAN
  /\ context \in Contexts \cup {None} /\ flagged \in BOOLEAN
  /\ at \in [Callers -> Places]
  /\ local \in [Callers -> Calls]
  /\ tries \in Nat /\ resumes \in Nat
  /\ task \in [mode : {"execute", "plan_only"}, connector : BOOLEAN,
               sees : BOOLEAN, reviewer : BOOLEAN]
  /\ answer \in [approved : {None, "yes", "no"}, elsewhere : BOOLEAN]
  /\ fates \in Fates
  /\ early \in SUBSET BOOLEAN /\ lost \in BOOLEAN

(* A caller has a run of the last plan in hand.                            *)
Working == {"run", "settle", "ledger", "gate", "write"}
Runs(c) == at[c] \in Working

(* The driver and a resumption never have a run in hand at once: a         *)
(* resumption starts from a pause, and the driver leaves the outcome of a  *)
(* pause for good.                                                         *)
Turns ==
  /\ at["driver"] \notin {"idle", "settle", "ledger"}
  /\ at["resumer"] \in Working \cup {"idle"}
  /\ at["driver"] = "start" => row.status \in {"pending", "cancelled", "failed"}
  /\ at["driver"] = "plan" => row.status \in {"planning", "cancelled"}
  /\ at["driver"] \in Working => row.status \in {"running", "cancelled"}
  /\ at["driver"] = "raised" => row.status \in {"running", "cancelled", "failed"}
  /\ at["driver"] = "block" => row.status = "failed"
  /\ Runs("resumer") => /\ at["driver"] \in {"outcome", "persist", "done"}
                        /\ row.status \in {"running", "cancelled"}

(* The ledger in memory has the attempts, and so does a ledger `l`.        *)
Attempts(l) ==
  /\ l \in Ledgers /\ Len(l.attempts) = Len(fates)
  /\ \A k \in DOMAIN fates : l.attempts[k].plan = fates[k].plan

Latest == Len(fates)

(* What one attempt came to, and what record_outcome makes of it.          *)
ErrorsOf(fate) == Errors(fate.plan, fate.run) \cup (IF fate.refused THEN {GateError} ELSE {})
Recorded(k) == live.attempts[k].claims = Claims(fates[k].plan, fates[k].run, ErrorsOf(fates[k]))
Unrecorded(k) == live.attempts[k].claims = {} /\ ~fates[k].refused

(* No step was skipped; and the first step, which refers to none, ran.     *)
Ran(run) == \A i \in DOMAIN run : run[i] # "skipped"
Rooted(run) == 1 \in DOMAIN run => run[1] # "starved"

(* Where the plan of the last attempt is kept.                             *)
OnePlan ==
  /\ Attempts(live)
  /\ task.mode = "plan_only" => Latest = 0
  /\ Latest # 0 => row.plan = fates[Latest].plan
  /\ Latest # 0 /\ context # None => /\ context.plan = fates[Latest].plan
                                       /\ context.attempt \in {0, Latest}
  /\ \A k \in DOMAIN fates : DOMAIN fates[k].run = DOMAIN fates[k].plan /\ Rooted(fates[k].run)

(* A run in hand is the one the last attempt made.                         *)
InHand(c) ==
  Runs(c) =>
    /\ Latest # 0
    /\ local[c].plan = fates[Latest].plan /\ local[c].run = fates[Latest].run
    /\ local[c].attempt \in {0, Latest}
    /\ Ran(local[c].run)
    /\ at[c] # "run" => local[c].plan # <<>> /\ ~Pauses(local[c].run)
    /\ at[c] # "write" => Unrecorded(Latest)
    /\ at[c] = "write" =>
         /\ local[c].errors = ErrorsOf(fates[Latest])
         /\ local[c].errors = {} => ~MachineRefutes(local[c].run)
         /\ local[c].attempt = Latest => Recorded(Latest)

(* A run that pauses is kept by the thread, to be taken up from there.     *)
Paused ==
  row.status = "awaiting_approval" =>
    /\ at["driver"] \in {"outcome", "persist", "done"} /\ at["resumer"] = "idle"
    /\ thread # None =>
         Latest # 0 /\ thread = fates[Latest].run /\ Ran(thread) /\ Unrecorded(Latest)

(* Every claim in the ledger tells what the attempt did.                   *)
ClaimsTrue == \A k \in DOMAIN fates : Recorded(k) \/ live.attempts[k].claims = {}

(* As long as every decision is taken in the driving process the context   *)
(* names the attempt, and an attempt is recorded before the next one.      *)
NowKnown == context # None /\ context.attempt = Latest
Moving == at["driver"] \notin {"done", "raised"}
AllRecorded ==
  TRUE \notin early /\ Moving =>
    /\ Runs("driver") => local["driver"].attempt = Latest
    /\ Runs("resumer") => ~answer.elsewhere /\ local["resumer"].attempt = Latest
    /\ at["driver"] = "run" \/ at["resumer"] = "run" => flagged \/ NowKnown
    /\ row.status = "awaiting_approval" => NowKnown
    /\ \A k \in DOMAIN fates : k # Latest => Recorded(k)
    /\ \/ at["driver"] \in {"start", "plan", "block"}
       \/ at["driver"] = "outcome" /\ row.status = "failed"
       => \A k \in DOMAIN fates : Recorded(k)

(* A completed task is as verified.                                        *)
Verified(fate) ==
  /\ ~fate.refused
  /\ \A i \in DOMAIN fate.run : fate.run[i] \in {"output", "empty"}
  /\ \E i \in DOMAIN fate.run : fate.run[i] = "output"
CompletedAtRest ==
  row.status = "completed" =>
    /\ at["driver"] \in {"outcome", "persist", "done"} /\ at["resumer"] = "idle"
    /\ task.mode = "execute" => Latest # 0 /\ Verified(fates[Latest])

(* Why the loop stops, up to the row that says so.                         *)
Explained ==
  /\ at["driver"] # "done" => row.blocker = None
  /\ resumes = 0 => at["resumer"] = "idle"
  /\ at["driver"] = "block" => live.stop \in Blocking /\ live.blocker = Latest
  /\ at["driver"] = "persist" /\ resumes = 0 =>
       row.status # "failed" /\ (row.status = "completed" => live.stop = "goal_reached")
  /\ StopExplained

(* The attempts on the row, up to the resumption that reads them.          *)
Kept ==
  /\ at["driver"] = "done" => ~held
  /\ early = {} /\ Runs("resumer") => at["driver"] = "done"
  /\ early = {} /\ ~lost /\ at["driver"] = "done" => Attempts(row.ledger)
  /\ early = {} /\ ~lost /\ at["resumer"] = "ledger" => Attempts(local["resumer"].stored)
  /\ early = {} /\ at["resumer"] \in {"gate", "write"} =>
       local["resumer"].resumed /\ (~lost => Attempts(local["resumer"].ledger))
  /\ at["resumer"] \in {"gate", "write"} /\ local["resumer"].resumed =>
       local["resumer"].ledger \in Ledgers
  /\ Runs("driver") => ~local["driver"].resumed

IInv ==
  /\ TypeOK /\ Turns /\ OnePlan /\ InHand("driver") /\ InHand("resumer") /\ Paused /\ ClaimsTrue
  /\ AllRecorded /\ NoApproachRepeated /\ CompletedAtRest /\ Explained /\ Kept

-----------------------------------------------------------------------------
(* The operators.                                                          *)

(* A plan is a sequence of steps that refer to earlier ones.               *)
LEMMA PlanShape ==
  ASSUME NEW plan \in Plans
  PROVE  /\ Len(plan) \in Nat /\ DOMAIN plan = 1 .. Len(plan)
         /\ plan # <<>> => 1 \in DOMAIN plan
         /\ \A i \in DOMAIN plan :
              i \in Nat /\ i - 1 \in Nat /\ i - 1 # None /\ plan[i].skill \in DOMAIN Digit
         /\ 1 \in DOMAIN plan => plan[1].needs = {}
<1>1. plan \in Seq(Range(plan))
      BY PlansAssumption
<1>2. Len(plan) \in Nat /\ DOMAIN plan = 1 .. Len(plan) /\ (plan # <<>> => 1 \in DOMAIN plan)
      BY <1>1, EmptySeq, LenProperties
<1>3. \A i \in DOMAIN plan : plan[i].skill \in DOMAIN Digit /\ plan[i].needs \subseteq 1 .. i - 1
      BY PlansAssumption
<1> QED
    BY <1>2, <1>3, NoneAssumption

(* A run of a plan is a sequence of outcomes, one for each step.           *)
LEMMA RunTyped ==
  ASSUME NEW plan \in Plans, NEW run \in [DOMAIN plan -> Outcomes]
  PROVE  run \in Seq(Outcomes) /\ DOMAIN run = DOMAIN plan /\ Len(run) = Len(plan)
<1>1. Len(plan) \in Nat /\ DOMAIN plan = 1 .. Len(plan)
      BY PlanShape
<1> QED
    BY <1>1

(* What Executions returns continues the run that it is given.             *)
LEMMA RunsOn ==
  ASSUME NEW plan \in Plans, NEW sofar, NEW decided, NEW stopped,
         NEW run \in Executions(plan, sofar, decided, stopped)
  PROVE  /\ run \in [DOMAIN plan -> Outcomes]
         /\ stopped => ~Pauses(run)
         /\ ~stopped /\ DOMAIN sofar = DOMAIN plan /\ Ran(sofar) => Ran(run)
         /\ DOMAIN sofar = DOMAIN plan /\ Rooted(sofar) => Rooted(run)
<1>1. run \in [DOMAIN plan -> Outcomes]
      BY DEF Executions
<1>2. ASSUME NEW i \in DOMAIN plan, sofar[i] = "waiting"
      PROVE  run[i] \in Possible(plan, i, run, decided, stopped)
      BY <1>2 DEF Executions
<1>3. ASSUME NEW i \in DOMAIN plan, sofar[i] # "waiting"
      PROVE  run[i] = sofar[i]
      BY <1>3 DEF Executions
<1>4. ASSUME stopped PROVE ~Pauses(run)
  <2> SUFFICES ASSUME NEW i \in DOMAIN plan PROVE run[i] # "waiting"
      BY <1>1 DEF Pauses
  <2> QED
      BY <1>2, <1>3, <1>4 DEF Possible
<1>5. ASSUME ~stopped, DOMAIN sofar = DOMAIN plan, Ran(sofar) PROVE Ran(run)
  <2> SUFFICES ASSUME NEW i \in DOMAIN plan PROVE run[i] # "skipped"
      BY <1>1 DEF Ran
  <2>1. CASE sofar[i] # "waiting"
        BY <1>3, <1>5, <2>1 DEF Ran
  <2>2. CASE sofar[i] = "waiting"
    <3>1. "skipped" \notin Possible(plan, i, run, decided, stopped)
          BY <1>5 DEF Possible, HasResult
    <3> QED
        BY <1>2, <1>5, <2>2, <3>1
  <2> QED
      BY <2>1, <2>2
<1>6. ASSUME DOMAIN sofar = DOMAIN plan, Rooted(sofar) PROVE Rooted(run)
  <2> SUFFICES ASSUME 1 \in DOMAIN plan PROVE run[1] # "starved"
      BY <1>1 DEF Rooted
  <2>1. CASE sofar[1] # "waiting"
        BY <1>3, <1>6, <2>1 DEF Rooted
  <2>2. CASE sofar[1] = "waiting"
    <3>1. plan[1].needs = {}
          BY PlanShape
    <3>2. "starved" \notin Possible(plan, 1, run, decided, stopped)
          BY <3>1 DEF Possible, HasResult
    <3> QED
        BY <1>2, <2>2, <3>2
  <2> QED
      BY <2>1, <2>2
<1> QED
    BY <1>1, <1>4, <1>5, <1>6

(* The kinds of the errors that a run leaves.                              *)
LEMMA ErrorsTyped ==
  ASSUME NEW plan \in Plans, NEW run \in [DOMAIN plan -> Outcomes]
  PROVE  /\ Errors(plan, run) \subseteq [step : Nat, skill : DOMAIN Digit, kind : Failing]
         /\ Errors(plan, run) = {} => \A i \in DOMAIN plan : run[i] \notin Failing
<1>1. \A i \in DOMAIN plan : i - 1 \in Nat /\ plan[i].skill \in DOMAIN Digit
      BY PlanShape
<1>2. Errors(plan, run) \subseteq [step : Nat, skill : DOMAIN Digit, kind : Failing]
      BY <1>1 DEF Errors
<1>3. ASSUME NEW i \in DOMAIN plan, run[i] \in Failing PROVE Errors(plan, run) # {}
      BY <1>3 DEF Errors
<1> QED
    BY <1>2, <1>3

(* Numbers have a least one.                                               *)
LEMMA LeastNumber ==
  ASSUME NEW S \in SUBSET Nat, S # {}
  PROVE  \E n \in S : \A m \in S : n <= m
<1>1. \E n \in S : \A m \in S : ~(<<m, n>> \in OpToRel(<, Nat))
      BY NatLessThanWellFounded, WFMin
<1>2. \A n, m \in S : ~(<<m, n>> \in OpToRel(<, Nat)) => n <= m
      BY DEF OpToRel
<1> QED
    BY <1>1, <1>2

(* The first error that a number owns is one that it owns.                 *)
LEMMA ByStepIsOwned ==
  ASSUME NEW plan \in Plans, NEW run \in [DOMAIN plan -> Outcomes],
         NEW errors, errors \in {Errors(plan, run), Errors(plan, run) \cup {GateError}},
         NEW number \in Nat, \E e \in errors : Owner(e) = number
  PROVE  \E e \in Errors(plan, run) : Owner(e) = number /\ ByStep(errors, number) = e.kind
<1> DEFINE owned == {e \in errors : Owner(e) = number}
<1>1. Owner(GateError) = None /\ None \notin Nat
      BY NoneAssumption DEF Owner, GateError
<1>2. owned \subseteq Errors(plan, run) /\ owned # {}
      BY <1>1
<1>3. \A e \in owned : e.step \in Nat
      BY <1>2, ErrorsTyped
<1>4. \E first \in owned : \A e \in owned : first.step <= e.step
  <2>1. PICK e \in owned : TRUE
        BY <1>2
  <2> DEFINE numbers == {f.step : f \in owned}
  <2>2. numbers \subseteq Nat /\ numbers # {}
        BY <1>2, <1>3
  <2>3. PICK n \in numbers : \A m \in numbers : n <= m
        BY <2>2, LeastNumber
  <2> QED
      BY <2>3
<1>5. First(errors, number) \in owned
      BY <1>2, <1>4 DEF First
<1>6. ByStep(errors, number) = First(errors, number).kind
      BY DEF ByStep
<1> QED
    BY <1>2, <1>5, <1>6
(* A step whose claim is not its own: its name has a digit, or another's   *)
(* error is taken for it.  Unless one starved, the owner is the step.      *)
LEMMA OwnersClear ==
  ASSUME NEW plan \in Plans, NEW run \in [DOMAIN plan -> Outcomes],
         Rooted(run), NEW e \in Errors(plan, run)
  PROVE  \E i \in DOMAIN plan :
           /\ e.step = i - 1 /\ e.kind = run[i] /\ e.skill = plan[i].skill /\ run[i] \in Failing
           /\ Digit[plan[i].skill] = None => Owner(e) = IF run[i] = "blocked" THEN None ELSE i - 1
           /\ Digit[plan[i].skill] # None /\ run[i] = "starved" => Owner(e) > i - 1
           /\ i \in Nat /\ i >= 1
<1>1. PICK i \in DOMAIN plan :
        e = [step |-> i - 1, skill |-> plan[i].skill, kind |-> run[i]] /\ run[i] \in Failing
      BY DEF Errors
<1>2. Len(plan) \in Nat /\ DOMAIN plan = 1 .. Len(plan) /\ plan[i].skill \in DOMAIN Digit
      BY PlanShape
<1>3. e.step = i - 1 /\ e.skill = plan[i].skill /\ e.kind = run[i] /\ i - 1 \in Nat
      BY <1>1, <1>2
<1>4. e.kind # "gate"
      BY <1>1, <1>3 DEF Failing
<1>5. Digit[plan[i].skill] = None => Owner(e) = IF run[i] = "blocked" THEN None ELSE i - 1
      BY <1>3, <1>4 DEF Owner
<1>6. ASSUME Digit[plan[i].skill] # None, run[i] = "starved" PROVE Owner(e) > i - 1
  <2>1. Digit[plan[i].skill] \in 0 .. 9
        BY <1>2, <1>6, HarnessAssumption
  <2>2. Owner(e) = 10 * (i - 1) + Digit[plan[i].skill]
        BY <1>3, <1>4, <1>6 DEF Owner
  <2>3. i > 1
        BY <1>2, <1>6 DEF Rooted
  <2> QED
      BY <1>2, <2>1, <2>2, <2>3
<1> QED
    BY <1>1, <1>2, <1>3, <1>5, <1>6

(* A run with a step that raised leaves a refuted claim: if by_step names  *)
(* the starving of another step for it, then the first starved step that   *)
(* has a digit in its name is taken for one that failed on its own.        *)
LEMMA RaisedIsRefuted ==
  ASSUME NEW plan \in Plans, NEW run \in [DOMAIN plan -> Outcomes], Rooted(run),
         NEW errors, errors \in {Errors(plan, run), Errors(plan, run) \cup {GateError}},
         NEW i \in DOMAIN plan, run[i] = "raised"
  PROVE  \E claim \in Claims(plan, run, errors) : claim.verdict = "refuted"
<1> DEFINE misnamed == {j \in DOMAIN plan : run[j] = "starved" /\ Digit[plan[j].skill] # None}
<1>1. Len(plan) \in Nat /\ DOMAIN plan = 1 .. Len(plan)
      BY PlanShape
<1>2. PICK j \in DOMAIN plan :
        run[j] \in {"raised", "starved"} /\ ByStep(errors, j - 1) # "starved"
  <2>1. CASE misnamed = {}
    <3>1. SUFFICES ASSUME ByStep(errors, i - 1) = "starved" PROVE FALSE
          OBVIOUS
    <3>2. i - 1 \in Nat /\ \E e \in errors : Owner(e) = i - 1
          BY <1>1, <3>1, NoneAssumption DEF ByStep
    <3>3. PICK e \in Errors(plan, run) : Owner(e) = i - 1 /\ e.kind = "starved"
          BY <3>1, <3>2, ByStepIsOwned
    <3>4. PICK j \in DOMAIN plan : run[j] = "starved" /\ (Digit[plan[j].skill] = None => Owner(e) = j - 1)
          BY <3>3, OwnersClear
    <3>5. j = i
          BY <1>1, <2>1, <3>3, <3>4
    <3> QED
        BY <3>4, <3>5
  <2>2. CASE misnamed # {}
    <3>0. misnamed \in SUBSET Nat
          BY <1>1
    <3>1. PICK j \in misnamed : \A m \in misnamed : j <= m
      <4> HIDE DEF misnamed
      <4> QED
          BY <2>2, <3>0, LeastNumber
    <3>2. SUFFICES ASSUME ByStep(errors, j - 1) = "starved" PROVE FALSE
          BY <3>1
    <3>3. j - 1 \in Nat /\ \E e \in errors : Owner(e) = j - 1
          BY <1>1, <3>2, NoneAssumption DEF ByStep
    <3>4. PICK e \in Errors(plan, run) : Owner(e) = j - 1 /\ e.kind = "starved"
          BY <3>2, <3>3, ByStepIsOwned
    <3>5. PICK m \in DOMAIN plan :
            /\ run[m] = "starved"
            /\ Digit[plan[m].skill] = None => Owner(e) = m - 1
            /\ Digit[plan[m].skill] # None => Owner(e) > m - 1
          BY <3>4, OwnersClear
    <3>6. m # j
          BY <1>1, <3>4, <3>5
    <3>7. Digit[plan[m].skill] # None
          BY <1>1, <3>4, <3>5, <3>6
    <3>8. m \in misnamed /\ m < j
          BY <1>1, <3>4, <3>5, <3>7
    <3> QED
        BY <1>1, <3>1, <3>8
  <2> QED
      BY <2>1, <2>2
<1>3. StepVerdict(Status(run[j]), ByStep(errors, j - 1)) = "refuted"
      BY <1>2 DEF StepVerdict, Status, HasResult
<1>4. [step |-> j - 1, verdict |-> StepVerdict(Status(run[j]), ByStep(errors, j - 1))]
        \in Claims(plan, run, errors)
      BY <1>2 DEF Claims
<1> QED
    BY <1>3, <1>4

(* So does a refusal by the gate.                                          *)
LEMMA GateIsRefuted ==
  ASSUME NEW plan, NEW run, NEW errors, GateError \in errors
  PROVE  \E claim \in Claims(plan, run, errors) : claim.verdict = "refuted"
<1>1. Owner(GateError) = None
      BY DEF Owner, GateError
<1>2. Unattributed(errors)
      BY <1>1 DEF Unattributed
<1>3. [step |-> None, verdict |-> "refuted"] \in Claims(plan, run, errors)
      BY <1>2 DEF Claims
<1> QED
    BY <1>3

(* What record_outcome adds are claims.                                    *)
LEMMA ClaimsTyped ==
  ASSUME NEW plan \in Plans, NEW run, NEW errors
  PROVE  Claims(plan, run, errors) \subseteq Verdicts
<1>1. \A i \in DOMAIN plan : i - 1 \in Nat
      BY PlanShape
<1> QED
    BY <1>1 DEF Claims, Verdicts, StepVerdict

(* Where no name has a digit an error belongs to the step that made it, or *)
(* if the approval gate made it to none.                                   *)
LEMMA OwnErrors ==
  ASSUME NEW plan \in Plans, NEW run \in [DOMAIN plan -> Outcomes],
         \A i \in DOMAIN plan : Digit[plan[i].skill] = None, NEW e \in Errors(plan, run)
  PROVE  \E i \in DOMAIN plan :
           /\ e = [step |-> i - 1, skill |-> plan[i].skill, kind |-> run[i]]
           /\ run[i] = "blocked" => Owner(e) = None
           /\ run[i] # "blocked" => Owner(e) = i - 1
<1>1. PICK i \in DOMAIN plan :
        e = [step |-> i - 1, skill |-> plan[i].skill, kind |-> run[i]] /\ run[i] \in Failing
      BY DEF Errors
<1>2. e.step = i - 1 /\ e.kind = run[i] /\ e.kind # "gate" /\ Digit[e.skill] = None
      BY <1>1 DEF Failing
<1>3. run[i] = "blocked" => Owner(e) = None
      BY <1>2 DEF Owner
<1>4. run[i] # "blocked" => Owner(e) = i - 1
      BY <1>2 DEF Owner
<1> QED
    BY <1>1, <1>3, <1>4

(* So a claim says what its step did, and only the two gates refute the    *)
(* plan as a whole.                                                        *)
LEMMA ClaimsTell ==
  ASSUME NEW plan \in Plans, NEW run \in [DOMAIN plan -> Outcomes], NEW refused \in BOOLEAN,
         \A i \in DOMAIN plan : Digit[plan[i].skill] = None,
         NEW claim \in Claims(plan, run, Errors(plan, run) \cup (IF refused THEN {GateError} ELSE {}))
  PROVE  /\ claim.step = None => refused \/ \E i \in DOMAIN plan : run[i] = "blocked"
         /\ claim.step # None =>
              /\ claim.step + 1 \in DOMAIN plan
              /\ claim.verdict = "refuted" <=> run[claim.step + 1] \in {"raised", "blocked"}
              /\ claim.verdict = "confirmed" <=> run[claim.step + 1] \in HasResult
<1> DEFINE errors == Errors(plan, run) \cup (IF refused THEN {GateError} ELSE {})
<1>1. Len(plan) \in Nat /\ DOMAIN plan = 1 .. Len(plan)
      BY PlanShape
<1>2. errors \in {Errors(plan, run), Errors(plan, run) \cup {GateError}}
      OBVIOUS
<1>3. \A e \in Errors(plan, run) : \E i \in DOMAIN plan :
        /\ e = [step |-> i - 1, skill |-> plan[i].skill, kind |-> run[i]]
        /\ run[i] = "blocked" => Owner(e) = None
        /\ run[i] # "blocked" => Owner(e) = i - 1
      BY OwnErrors
<1>4. ASSUME claim.step = None, ~refused, \A i \in DOMAIN plan : run[i] # "blocked" PROVE FALSE
  <2>1. Unattributed(errors)
        BY <1>1, <1>4, NoneAssumption DEF Claims
  <2>2. errors = Errors(plan, run)
        BY <1>4
  <2>3. PICK e \in Errors(plan, run) :
          Owner(e) = None \/ ~SameText(e, First(errors, Owner(e)))
        BY <2>1, <2>2 DEF Unattributed
  <2>4. PICK i \in DOMAIN plan :
          Owner(e) = i - 1 /\ e = [step |-> i - 1, skill |-> plan[i].skill, kind |-> run[i]]
        BY <1>3, <1>4
  <2>5. Owner(e) # None
        BY <1>1, <2>4, NoneAssumption
  <2>6. \A f \in errors : Owner(f) = Owner(e) => f = e
    <3> SUFFICES ASSUME NEW f \in Errors(plan, run), Owner(f) = Owner(e) PROVE f = e
        BY <2>2
    <3>1. PICK j \in DOMAIN plan :
            Owner(f) = j - 1 /\ f = [step |-> j - 1, skill |-> plan[j].skill, kind |-> run[j]]
          BY <1>3, <1>4
    <3>2. i = j
          BY <1>1, <2>4, <3>1
    <3> QED
        BY <2>4, <3>1, <3>2
  <2>7. {f \in errors : Owner(f) = Owner(e)} = {e}
        BY <2>2, <2>6
  <2>8. e.step = i - 1 /\ i - 1 <= i - 1
        BY <1>1, <2>4
  <2>9. First(errors, Owner(e)) = e
    <3> DEFINE owned == {f \in errors : Owner(f) = Owner(e)}
    <3>1. \E first \in owned : \A f \in owned : first.step <= f.step
          BY <2>7, <2>8
    <3>2. First(errors, Owner(e)) \in owned
          BY <3>1 DEF First
    <3> QED
        BY <2>7, <3>2
  <2> QED
      BY <2>3, <2>5, <2>9 DEF SameText
<1>5. CASE claim.step # None
  <2>1. PICK i \in DOMAIN plan :
          claim = [step |-> i - 1, verdict |-> StepVerdict(Status(run[i]), ByStep(errors, i - 1))]
    <3>1. claim \notin {[step |-> None, verdict |-> "refuted"]}
          BY <1>5
    <3> QED
        BY <3>1 DEF Claims
  <2>2. claim.step + 1 = i /\ claim.verdict = StepVerdict(Status(run[i]), ByStep(errors, i - 1))
        BY <1>1, <2>1
  <2>3. ASSUME run[i] \in Failing
        PROVE  ByStep(errors, i - 1) = "starved" <=> run[i] = "starved"
    <3> DEFINE own == [step |-> i - 1, skill |-> plan[i].skill, kind |-> run[i]]
    <3>1. own \in Errors(plan, run)
          BY <2>3 DEF Errors
    <3>2. run[i] # "blocked" => Owner(own) = i - 1
      <4>1. PICK j \in DOMAIN plan :
              /\ own = [step |-> j - 1, skill |-> plan[j].skill, kind |-> run[j]]
              /\ run[j] # "blocked" => Owner(own) = j - 1
            BY <1>3, <3>1
      <4>2. i - 1 = j - 1
            BY <4>1
      <4>3. i = j
            BY <1>1, <4>2
      <4> QED
          BY <4>1, <4>3
    <3>3. own \in errors /\ i - 1 \in Nat
          BY <1>1, <3>1
    <3> HIDE DEF own
    <3>4. CASE \E e \in errors : Owner(e) = i - 1
      <4>1. PICK e \in Errors(plan, run) : Owner(e) = i - 1 /\ ByStep(errors, i - 1) = e.kind
        <5> HIDE DEF errors
        <5> QED
            BY <1>2, <3>3, <3>4, ByStepIsOwned
      <4>2. PICK j \in DOMAIN plan :
              /\ e = [step |-> j - 1, skill |-> plan[j].skill, kind |-> run[j]]
              /\ run[j] = "blocked" => Owner(e) = None
              /\ run[j] # "blocked" => Owner(e) = j - 1
            BY <1>3
      <4>3. i = j
            BY <1>1, <3>3, <4>1, <4>2, NoneAssumption
      <4> QED
          BY <4>1, <4>2, <4>3
    <3>5. CASE ~\E e \in errors : Owner(e) = i - 1
      <4>1. run[i] = "blocked"
            BY <3>2, <3>3, <3>5
      <4>2. ByStep(errors, i - 1) = None
            BY <3>5 DEF ByStep
      <4> QED
          BY <4>1, <4>2, NoneAssumption
    <3> QED
        BY <3>4, <3>5
  <2>4. run[i] \in Outcomes
        OBVIOUS
  <2>5. claim.verdict = "refuted" <=> run[i] \in {"raised", "blocked"}
    <3> HIDE DEF errors
    <3>1. CASE run[i] \in {"raised", "starved", "blocked"}
      <4>1. Status(run[i]) = "failed" /\ run[i] \in Failing
            BY <3>1 DEF Status, HasResult, Failing
      <4> QED
          BY <2>2, <2>3, <3>1, <4>1 DEF StepVerdict
    <3>2. CASE run[i] \notin {"raised", "starved", "blocked"}
          BY <2>2, <3>2 DEF StepVerdict, Status
    <3> QED
        BY <3>1, <3>2
  <2>6. claim.verdict = "confirmed" <=> run[i] \in HasResult
        BY <2>2, <2>4 DEF StepVerdict, Status, HasResult
  <2> QED
      BY <1>5, <2>2, <2>5, <2>6
<1> QED
    BY <1>4, <1>5

(* They do refute it.                                                      *)
LEMMA GatesRefute ==
  ASSUME NEW plan \in Plans, NEW run \in [DOMAIN plan -> Outcomes], NEW refused \in BOOLEAN,
         \A i \in DOMAIN plan : Digit[plan[i].skill] = None,
         refused \/ \E i \in DOMAIN plan : run[i] = "blocked"
  PROVE  \E claim \in Claims(plan, run, Errors(plan, run) \cup (IF refused THEN {GateError} ELSE {})) :
           claim.step = None
<1> DEFINE errors == Errors(plan, run) \cup (IF refused THEN {GateError} ELSE {})
<1>1. \E e \in errors : Owner(e) = None
  <2>1. CASE refused
    <3>1. Owner(GateError) = None
          BY DEF Owner, GateError
    <3> QED
        BY <2>1, <3>1
  <2>2. CASE ~refused
    <3>1. PICK i \in DOMAIN plan : run[i] = "blocked"
          BY <2>2
    <3> DEFINE own == [step |-> i - 1, skill |-> plan[i].skill, kind |-> run[i]]
    <3>2. own \in Errors(plan, run)
          BY <3>1 DEF Errors, Failing
    <3>3. own.kind = "blocked" /\ Digit[own.skill] = None
          BY <3>1
    <3>4. Owner(own) = None
      <4> HIDE DEF own
      <4> QED
          BY <3>3 DEF Owner
    <3> QED
        BY <3>2, <3>4
  <2> QED
      BY <2>1, <2>2
<1>2. Unattributed(errors)
  <2> HIDE DEF errors
  <2> QED
      BY <1>1 DEF Unattributed
<1>3. [step |-> None, verdict |-> "refuted"] \in Claims(plan, run, errors)
      BY <1>2 DEF Claims
<1> QED
    BY <1>3

(* The machine checks and an error-free run make a verified one.           *)
LEMMA VerifiedRun ==
  ASSUME NEW plan \in Plans, NEW run \in [DOMAIN plan -> Outcomes], plan # <<>>,
         Errors(plan, run) = {}, ~MachineRefutes(run), Ran(run), ~Pauses(run)
  PROVE  /\ \A i \in DOMAIN run : run[i] \in {"output", "empty"}
         /\ \E i \in DOMAIN run : run[i] = "output"
<1>1. \A i \in DOMAIN plan : run[i] \notin Failing
      BY ErrorsTyped
<1>2. \A i \in DOMAIN run : run[i] \in {"output", "empty"}
      BY <1>1 DEF MachineRefutes, Ran, Pauses, Outcomes, HasResult, Failing
<1>3. run # <<>>
  <2>1. 1 \in DOMAIN run
        BY PlanShape
  <2> QED
      BY <2>1
<1>4. \E i \in DOMAIN run : run[i] # "empty"
      BY <1>3 DEF MachineRefutes
<1> QED
    BY <1>2, <1>4

-----------------------------------------------------------------------------
(* Ledgers and histories.                                                  *)

(* The errors of a run are errors.                                         *)
LEMMA FaultsTyped ==
  /\ {} \in Faults
  /\ \A plan \in Plans : \A run \in [DOMAIN plan -> Outcomes] :
       Errors(plan, run) \in Faults /\ Errors(plan, run) \cup {GateError} \in Faults
<1>1. ASSUME NEW plan \in Plans, NEW run \in [DOMAIN plan -> Outcomes]
      PROVE  Errors(plan, run) \in Faults /\ Errors(plan, run) \cup {GateError} \in Faults
      BY <1>1, ErrorsTyped DEF Faults, GateError
<1> QED
    BY <1>1 DEF Faults

(* The attempts of a ledger are counted.                                   *)
LEMMA AttemptsCounted == \A ledger \in Ledgers : Len(ledger.attempts) \in Nat
<1> SUFFICES ASSUME NEW ledger \in Ledgers PROVE Len(ledger.attempts) \in Nat
    OBVIOUS
<1> DEFINE Attempt == [plan : Plans, claims : SUBSET Verdicts, outcome : {"", "completed", "failed"}]
<1>1. ledger.attempts \in Seq(Attempt)
      BY DEF Ledgers
<1> HIDE DEF Attempt
<1> QED
    BY <1>1, LenProperties

Causes == {"goal_reached", "stalled", "exhausted", "cannot_replan", "cancelled", "paused", None}

(* Stopping says why and keeps the attempts.                               *)
LEMMA StopKeeps ==
  ASSUME NEW ledger \in Ledgers, NEW cause \in Causes
  PROVE  /\ Stop(ledger, cause) \in Ledgers
         /\ Stop(ledger, cause).attempts = ledger.attempts
         /\ Stop(ledger, cause).stop = cause
         /\ cause \in Blocking => Stop(ledger, cause).blocker = Len(ledger.attempts)
<1> QED
    BY AttemptsCounted DEF Ledgers, Stop, Causes

(* So do the stop of a resumption and a note of what the gate said.        *)
LEMMA NotesKeep ==
  ASSUME NEW ledger \in Ledgers, NEW cause \in Causes, NEW v \in BOOLEAN \cup {None}
  PROVE  /\ [ledger EXCEPT !.stop = cause] \in Ledgers
         /\ [ledger EXCEPT !.stop = cause].attempts = ledger.attempts
         /\ [ledger EXCEPT !.verification = v] \in Ledgers
         /\ [ledger EXCEPT !.verification = v].attempts = ledger.attempts
<1> QED
    BY DEF Ledgers, Causes

(* A ledger opens an attempt without claims.                               *)
LEMMA OpenKeeps ==
  ASSUME NEW ledger \in Ledgers, NEW plan \in Plans,
         NEW next, next = [ledger EXCEPT !.attempts = Append(@, NewAttempt(plan))]
  PROVE  /\ next \in Ledgers /\ Len(next.attempts) = Len(ledger.attempts) + 1
         /\ Len(ledger.attempts) \in Nat
         /\ \A k \in 1 .. Len(ledger.attempts) : next.attempts[k] = ledger.attempts[k]
         /\ next.attempts[Len(ledger.attempts) + 1].plan = plan
         /\ next.attempts[Len(ledger.attempts) + 1].claims = {}
<1> DEFINE Attempt == [plan : Plans, claims : SUBSET Verdicts, outcome : {"", "completed", "failed"}]
<1>1. /\ NewAttempt(plan) \in Attempt /\ ledger.attempts \in Seq(Attempt)
      /\ NewAttempt(plan).plan = plan /\ NewAttempt(plan).claims = {}
      BY DEF NewAttempt, Ledgers
<1>2. next.attempts = Append(ledger.attempts, NewAttempt(plan))
      BY DEF Ledgers
<1>3. next.attempts \in Seq(Attempt) => next \in Ledgers
      BY <1>2 DEF Ledgers
<1> HIDE DEF Attempt
<1>4. /\ next.attempts \in Seq(Attempt) /\ Len(next.attempts) = Len(ledger.attempts) + 1
      /\ \A k \in 1 .. Len(ledger.attempts) : next.attempts[k] = ledger.attempts[k]
      /\ next.attempts[Len(ledger.attempts) + 1] = NewAttempt(plan)
      BY <1>1, <1>2, AppendProperties
<1>5. Len(ledger.attempts) \in Nat
      BY <1>1, LenProperties
<1> QED
    BY <1>1, <1>3, <1>4, <1>5

(* record_outcome adds the claims to the one attempt.                      *)
LEMMA RecordKeeps ==
  ASSUME NEW ledger \in Ledgers, NEW k \in 1 .. Len(ledger.attempts), NEW run, NEW errors,
         NEW next, next = RecordOutcome(ledger, k, run, errors)
  PROVE  /\ next \in Ledgers /\ Len(next.attempts) = Len(ledger.attempts)
         /\ \A j \in 1 .. Len(ledger.attempts) :
              /\ next.attempts[j].plan = ledger.attempts[j].plan
              /\ j # k => next.attempts[j].claims = ledger.attempts[j].claims
         /\ next.attempts[k].claims =
              ledger.attempts[k].claims \cup Claims(ledger.attempts[k].plan, run, errors)
<1> DEFINE Attempt == [plan : Plans, claims : SUBSET Verdicts, outcome : {"", "completed", "failed"}]
           claims == ledger.attempts[k].claims \cup Claims(ledger.attempts[k].plan, run, errors)
           outcome == IF errors = {} THEN "completed" ELSE "failed"
           entry == [ledger.attempts[k] EXCEPT !.claims = claims, !.outcome = outcome]
<1>1. ledger.attempts \in Seq(Attempt) /\ ledger.attempts[k] \in Attempt
      BY ElementOfSeq DEF Ledgers
<1>2. claims \in SUBSET Verdicts
      BY <1>1, ClaimsTyped
<1>3. entry \in Attempt /\ entry.claims = claims /\ entry.plan = ledger.attempts[k].plan
  <2> HIDE DEF claims
  <2> QED
      BY <1>1, <1>2
<1>4. next.attempts = [ledger.attempts EXCEPT ![k] = entry] /\ next = [ledger EXCEPT !.attempts = next.attempts]
  <2>1. ledger.attempts \in [1 .. Len(ledger.attempts) -> Attempt]
        BY <1>1, LenProperties
  <2> HIDE DEF Attempt
  <2> QED
      BY <2>1 DEF RecordOutcome, Ledgers
<1> HIDE DEF Attempt, entry, claims
<1>5. /\ next.attempts \in Seq(Attempt) /\ Len(next.attempts) = Len(ledger.attempts)
      /\ \A j \in 1 .. Len(ledger.attempts) :
           next.attempts[j] = IF j = k THEN entry ELSE ledger.attempts[j]
      BY <1>1, <1>3, <1>4, ExceptSeq
<1>6. next \in Ledgers
      BY <1>4, <1>5 DEF Ledgers, Attempt
<1> QED
    BY <1>3, <1>5, <1>6 DEF claims

(* What the history is made of.                                            *)
LEMMA FatesTyped ==
  ASSUME NEW tale \in Fates
  PROVE  /\ Len(tale) \in Nat /\ DOMAIN tale = 1 .. Len(tale)
         /\ \A k \in DOMAIN tale : /\ tale[k] \in Fate
                                   /\ tale[k].plan \in Plans /\ tale[k].refused \in BOOLEAN
                                   /\ tale[k].run \in Seq(Outcomes)
<1>1. Len(tale) \in Nat /\ DOMAIN tale = 1 .. Len(tale) /\ tale \in [1 .. Len(tale) -> Fate]
      BY LenProperties DEF Fates
<1>2. \A fate \in Fate :
        fate.plan \in Plans /\ fate.refused \in BOOLEAN /\ fate.run \in Seq(Outcomes)
      BY DEF Fate
<1> QED
    BY <1>1, <1>2

(* What it gains by another attempt, ...                                   *)
LEMMA FatesGrow ==
  ASSUME NEW tale \in Fates, NEW entry \in Fate, NEW next, next = Append(tale, entry)
  PROVE  /\ next \in Fates /\ Len(next) = Len(tale) + 1
         /\ \A k \in DOMAIN tale : next[k] = tale[k]
         /\ next[Len(next)] = entry
<1>1. tale \in Seq(Fate) /\ DOMAIN tale = 1 .. Len(tale)
      BY FatesTyped DEF Fates
<1>2. next \in Seq(Fate) /\ Len(next) = Len(tale) + 1
      BY <1>1, AppendProperties
<1>3. (\A k \in 1 .. Len(tale) : next[k] = tale[k]) /\ next[Len(tale) + 1] = entry
      BY <1>1, AppendProperties
<1> QED
    BY <1>1, <1>2, <1>3 DEF Fates

(* ... by another entry for the last one, ...                              *)
LEMMA FatesEntry ==
  ASSUME NEW tale \in Fates, Len(tale) # 0, NEW entry \in Fate,
         NEW next, next = [tale EXCEPT ![Len(tale)] = entry]
  PROVE  /\ next \in Fates /\ Len(next) = Len(tale)
         /\ \A k \in DOMAIN tale : k # Len(tale) => next[k] = tale[k]
         /\ next[Len(tale)] = entry
<1>1. Len(tale) \in 1 .. Len(tale) /\ tale \in Seq(Fate) /\ DOMAIN tale = 1 .. Len(tale)
      BY FatesTyped DEF Fates
<1>2. /\ next \in Seq(Fate) /\ Len(next) = Len(tale)
      /\ \A k \in 1 .. Len(tale) : next[k] = IF k = Len(tale) THEN entry ELSE tale[k]
      BY <1>1, ExceptSeq
<1> QED
    BY <1>1, <1>2 DEF Fates

(* ... by what the last attempt's plan did ...                             *)
LEMMA FatesRun ==
  ASSUME NEW tale \in Fates, Len(tale) # 0, NEW run \in Seq(Outcomes),
         NEW next, next = [tale EXCEPT ![Len(tale)].run = run]
  PROVE  /\ next \in Fates /\ Len(next) = Len(tale)
         /\ \A k \in DOMAIN tale : k # Len(tale) => next[k] = tale[k]
         /\ next[Len(tale)] = [plan |-> tale[Len(tale)].plan, run |-> run,
                               refused |-> tale[Len(tale)].refused]
<1> DEFINE last == tale[Len(tale)]
           entry == [plan |-> last.plan, run |-> run, refused |-> last.refused]
<1>1. last \in Fate
      BY FatesTyped
<1>2. next = [tale EXCEPT ![Len(tale)] = [last EXCEPT !.run = run]]
      OBVIOUS
<1> HIDE DEF last
<1>3. entry \in Fate /\ [last EXCEPT !.run = run] = entry
      BY <1>1 DEF Fate
<1>4. next = [tale EXCEPT ![Len(tale)] = entry]
      BY <1>2, <1>3
<1> HIDE DEF entry
<1>5. /\ next \in Fates /\ Len(next) = Len(tale) /\ next[Len(tale)] = entry
      /\ \A k \in DOMAIN tale : k # Len(tale) => next[k] = tale[k]
      BY <1>3, <1>4, FatesEntry
<1> QED
    BY <1>5 DEF entry, last

(* ... and by what the gate said of it.                                    *)
LEMMA FatesRefused ==
  ASSUME NEW tale \in Fates, Len(tale) # 0, NEW refused \in BOOLEAN,
         NEW next, next = [tale EXCEPT ![Len(tale)].refused = refused]
  PROVE  /\ next \in Fates /\ Len(next) = Len(tale)
         /\ \A k \in DOMAIN tale : k # Len(tale) => next[k] = tale[k]
         /\ next[Len(tale)] = [plan |-> tale[Len(tale)].plan, run |-> tale[Len(tale)].run,
                               refused |-> refused]
<1> DEFINE last == tale[Len(tale)]
           entry == [plan |-> last.plan, run |-> last.run, refused |-> refused]
<1>1. last \in Fate
      BY FatesTyped
<1>2. next = [tale EXCEPT ![Len(tale)] = [last EXCEPT !.refused = refused]]
      OBVIOUS
<1> HIDE DEF last
<1>3. entry \in Fate /\ [last EXCEPT !.refused = refused] = entry
      BY <1>1 DEF Fate
<1>4. next = [tale EXCEPT ![Len(tale)] = entry]
      BY <1>2, <1>3
<1> HIDE DEF entry
<1>5. /\ next \in Fates /\ Len(next) = Len(tale) /\ next[Len(tale)] = entry
      /\ \A k \in DOMAIN tale : k # Len(tale) => next[k] = tale[k]
      BY <1>3, <1>4, FatesEntry
<1> QED
    BY <1>5 DEF entry, last

(* The locals of a call keep their shape.                                  *)
LEMMA CallsKeep ==
  /\ NoCall \in Calls
  /\ \A call \in Calls : \A ledger \in Ledgers \cup {None} :
       /\ call.stored \in Ledgers \cup {None} /\ call.ledger \in Ledgers \cup {None}
       /\ call.plan \in Plans \cup {<<>>} /\ call.attempt \in Nat /\ call.errors \in Faults
       /\ [call EXCEPT !.stored = ledger] \in Calls
       /\ \A b \in BOOLEAN : [call EXCEPT !.resumed = b, !.ledger = ledger] \in Calls
       /\ \A errors \in Faults : [call EXCEPT !.errors = errors, !.ledger = ledger] \in Calls
       /\ \A run \in Seq(Outcomes) : [call EXCEPT !.run = run] \in Calls
  /\ \A plan \in Plans \cup {<<>>} : \A k \in Nat : \A run \in Seq(Outcomes) :
       [NoCall EXCEPT !.plan = plan, !.attempt = k, !.run = run] \in Calls
<1>1. <<>> \in Seq(Outcomes) /\ {} \in Faults
      BY FaultsTyped, EmptySeq
<1>2. NoCall \in Calls
      BY <1>1 DEF Calls, NoCall
<1> QED
    BY <1>2 DEF Calls

-----------------------------------------------------------------------------
(* The steps that write nothing of the attempts.                           *)

Same == fates' = fates /\ live' \in Ledgers /\ live'.attempts = live.attempts

(* What is said of the attempts stays said while nobody writes of them.    *)
LEMMA SameTale ==
  ASSUME Same
  PROVE  /\ Latest' = Latest /\ (Attempts(live) => Attempts(live)')
         /\ \A k : (Recorded(k)' <=> Recorded(k)) /\ (Unrecorded(k)' <=> Unrecorded(k))
<1> QED
    BY DEF Same, Latest, Attempts, Recorded, Unrecorded

(* The loop gives up for a reason that blocks.                             *)
LEMMA GivesCause == GiveUpCause # None => GiveUpCause \in Blocking /\ GiveUpCause \in Causes
<1> QED
    BY DEF GiveUpCause, Blocking, Causes

(* Asking the planner.                                                     *)
LEMMA StartAttemptKeeps ==
  ASSUME IInv, StartAttempt
  PROVE  IInv'
<1> USE DEF IInv
<1>1. Same
      BY DEF StartAttempt, Same, TypeOK
<1>2. /\ Latest' = Latest /\ Attempts(live)'
      /\ \A k : (Recorded(k)' <=> Recorded(k)) /\ (Unrecorded(k)' <=> Unrecorded(k))
      BY <1>1, SameTale DEF OnePlan
<1>3. TypeOK'
      BY <1>1, FaultsTyped DEF StartAttempt, Same, Places, Terminal, Callers, Go, TypeOK
<1>4. Turns' /\ Paused' /\ CompletedAtRest'
      BY <1>1, <1>2 DEF StartAttempt, Same, TypeOK, Turns, Paused, CompletedAtRest, Runs,
         Working, Terminal, Callers, Go
<1>5. OnePlan' /\ ClaimsTrue' /\ InHand("driver")' /\ InHand("resumer")'
      BY <1>1, <1>2 DEF StartAttempt, Same, TypeOK, Turns, OnePlan, ClaimsTrue, InHand,
         Runs, Working, Callers, Go
<1>6. AllRecorded' /\ NoApproachRepeated'
      BY <1>1, <1>2 DEF StartAttempt, Same, TypeOK, Turns, AllRecorded,
         NoApproachRepeated, Moving, Runs, NowKnown, Working, Callers, Go
<1>7. Explained' /\ Kept'
      BY <1>1, <1>2 DEF StartAttempt, Same, TypeOK, OnePlan, Turns, Explained, Kept,
         StopExplained, Latest, Runs, Working, Attempts, Callers, Go
<1> QED
    BY <1>3, <1>4, <1>5, <1>6, <1>7

(* A failure before there is a plan.                                       *)
LEMMA PlanningFailsKeeps ==
  ASSUME IInv, PlanningFails
  PROVE  IInv'
<1> USE DEF IInv
<1>1. Same
      BY DEF PlanningFails, Same, TypeOK
<1>2. /\ Latest' = Latest /\ Attempts(live)'
      /\ \A k : (Recorded(k)' <=> Recorded(k)) /\ (Unrecorded(k)' <=> Unrecorded(k))
      BY <1>1, SameTale DEF OnePlan
<1>3. TypeOK'
      BY <1>1, FaultsTyped DEF PlanningFails, Same, Places, Terminal, Callers, Go, Failed,
         TypeOK
<1>4. Turns' /\ Paused' /\ CompletedAtRest'
      BY <1>1, <1>2 DEF PlanningFails, Same, TypeOK, Turns, Paused, CompletedAtRest, Runs,
         Working, Terminal, Callers, Go, Failed
<1>5. OnePlan' /\ ClaimsTrue' /\ InHand("driver")' /\ InHand("resumer")'
      BY <1>1, <1>2 DEF PlanningFails, Same, TypeOK, Turns, OnePlan, ClaimsTrue, InHand,
         Runs, Working, Callers, Go, Failed
<1>6. AllRecorded' /\ NoApproachRepeated'
      BY <1>1, <1>2 DEF PlanningFails, Same, TypeOK, Turns, AllRecorded,
         NoApproachRepeated, Moving, Runs, NowKnown, Working, Callers, Go, Failed
<1>7. Explained' /\ Kept'
      BY <1>1, <1>2 DEF PlanningFails, Same, TypeOK, OnePlan, Turns, Explained, Kept,
         StopExplained, Latest, Runs, Working, Attempts, Callers, Go, Failed
<1> QED
    BY <1>3, <1>4, <1>5, <1>6, <1>7

(* A plan that is not to be executed.                                      *)
LEMMA DeliverPlanKeeps ==
  ASSUME IInv, NEW plan \in Plans, DeliverPlan(plan)
  PROVE  IInv'
<1> USE DEF IInv
<1>1. Same
      BY DEF DeliverPlan, Same, TypeOK
<1>2. /\ Latest' = Latest /\ Attempts(live)'
      /\ \A k : (Recorded(k)' <=> Recorded(k)) /\ (Unrecorded(k)' <=> Unrecorded(k))
      BY <1>1, SameTale DEF OnePlan
<1>3. TypeOK'
      BY <1>1, FaultsTyped DEF DeliverPlan, Same, Places, Terminal, Callers, Go, TypeOK
<1>4. Turns' /\ Paused' /\ CompletedAtRest'
      BY <1>1, <1>2 DEF DeliverPlan, Same, TypeOK, Turns, Paused, CompletedAtRest, Runs,
         Working, Terminal, Callers, Go
<1>5. OnePlan' /\ ClaimsTrue' /\ InHand("driver")' /\ InHand("resumer")'
      BY <1>1, <1>2 DEF DeliverPlan, Same, TypeOK, Turns, OnePlan, ClaimsTrue, InHand,
         Runs, Working, Callers, Go
<1>6. AllRecorded' /\ NoApproachRepeated'
      BY <1>1, <1>2 DEF DeliverPlan, Same, TypeOK, Turns, AllRecorded, NoApproachRepeated,
         Moving, Runs, NowKnown, Working, Callers, Go
<1>7. Explained' /\ Kept'
      BY <1>1, <1>2 DEF DeliverPlan, Same, TypeOK, OnePlan, Turns, Explained, Kept,
         StopExplained, Latest, Runs, Working, Attempts, Callers, Go
<1> QED
    BY <1>3, <1>4, <1>5, <1>6, <1>7

(* A plan that is refused.                                                 *)
LEMMA RefuseRetryKeeps ==
  ASSUME IInv, NEW plan \in Plans, RefuseRetry(plan)
  PROVE  IInv'
<1> USE DEF IInv
<1>0. live' = Stop(live, "stalled") /\ "stalled" \in Blocking /\ "stalled" \in Causes
      BY DEF RefuseRetry, Blocking, Causes
<1>a. live \in Ledgers
      BY DEF TypeOK
<1>1. /\ Same /\ live'.stop = "stalled"
      /\ live'.stop \in Blocking /\ live'.blocker = Len(live.attempts)
      BY <1>0, <1>a, StopKeeps DEF RefuseRetry, Same
<1>2. /\ Latest' = Latest /\ Attempts(live)'
      /\ \A k : (Recorded(k)' <=> Recorded(k)) /\ (Unrecorded(k)' <=> Unrecorded(k))
      BY <1>1, SameTale DEF OnePlan
<1>3. TypeOK'
      BY <1>1, FaultsTyped DEF RefuseRetry, Same, Places, Terminal, Callers, Go, Failed,
         TypeOK
<1>4. Turns' /\ Paused' /\ CompletedAtRest'
      BY <1>1, <1>2 DEF RefuseRetry, Same, TypeOK, Turns, Paused, CompletedAtRest, Runs,
         Working, Terminal, Callers, Go, Failed
<1>5. OnePlan' /\ ClaimsTrue' /\ InHand("driver")' /\ InHand("resumer")'
      BY <1>1, <1>2 DEF RefuseRetry, Same, TypeOK, Turns, OnePlan, ClaimsTrue, InHand,
         Runs, Working, Callers, Go, Failed
<1>6. AllRecorded' /\ NoApproachRepeated'
      BY <1>1, <1>2 DEF RefuseRetry, Same, TypeOK, Turns, AllRecorded, NoApproachRepeated,
         Moving, Runs, NowKnown, Working, Callers, Go, Failed
<1>7. Explained' /\ Kept'
      BY <1>1, <1>2 DEF RefuseRetry, Same, TypeOK, OnePlan, Turns, Explained, Kept,
         StopExplained, Latest, Runs, Working, Attempts, Callers, Go, Failed
<1> QED
    BY <1>3, <1>4, <1>5, <1>6, <1>7

(* A plan that does not compile into a graph.                              *)
LEMMA NoEntrypointKeeps ==
  ASSUME IInv, NoEntrypoint
  PROVE  IInv'
<1> USE DEF IInv
<1>1. Same
      BY DEF NoEntrypoint, Same, TypeOK
<1>2. /\ Latest' = Latest /\ Attempts(live)'
      /\ \A k : (Recorded(k)' <=> Recorded(k)) /\ (Unrecorded(k)' <=> Unrecorded(k))
      BY <1>1, SameTale DEF OnePlan
<1>3. TypeOK'
  <2>1. local' \in [Callers -> Calls]
        BY CallsKeep DEF NoEntrypoint, TypeOK
  <2>2. at' \in [Callers -> Places]
        BY DEF NoEntrypoint, TypeOK, Go, Places
  <2>3. /\ UNCHANGED <<row, context, flagged, tries, task, resumes, answer, early, lost>>
        /\ fates' = fates /\ live' \in Ledgers /\ held' \in BOOLEAN
        BY <1>1 DEF NoEntrypoint, Same
  <2> QED
      BY <2>1, <2>2, <2>3 DEF TypeOK
<1>4. Turns' /\ Paused' /\ CompletedAtRest'
      BY <1>1, <1>2 DEF NoEntrypoint, Same, TypeOK, Turns, Paused, CompletedAtRest, Runs,
         Working, Terminal, Callers, Go
<1>5. OnePlan' /\ ClaimsTrue' /\ InHand("driver")' /\ InHand("resumer")'
      BY <1>1, <1>2 DEF NoEntrypoint, Same, TypeOK, Turns, OnePlan, ClaimsTrue, InHand,
         Runs, Working, Callers, Go
<1>6. AllRecorded' /\ NoApproachRepeated'
      BY <1>1, <1>2 DEF NoEntrypoint, Same, TypeOK, Turns, AllRecorded,
         NoApproachRepeated, Moving, Runs, NowKnown, Working, Callers, Go
<1>7. Explained' /\ Kept'
      BY <1>1, <1>2 DEF NoEntrypoint, Same, TypeOK, OnePlan, Turns, Explained, Kept,
         StopExplained, Latest, Runs, Working, Attempts, Callers, Go
<1> QED
    BY <1>3, <1>4, <1>5, <1>6, <1>7

(* The end of the loop without a failure.                                  *)
LEMMA RestKeeps ==
  ASSUME IInv, Rest
  PROVE  IInv'
<1> USE DEF IInv
<1>0. PICK cause \in {"goal_reached", "cancelled", "paused"} :
        live' = Stop(live, cause) /\ (row.status = "completed" => cause = "goal_reached")
      BY DEF Rest
<1>a. live \in Ledgers
      BY DEF TypeOK
<1>b. cause \in Causes
      BY DEF Causes
<1>1. Same /\ live'.stop = cause
      BY <1>0, <1>a, <1>b, StopKeeps DEF Rest, Same
<1>2. /\ Latest' = Latest /\ Attempts(live)'
      /\ \A k : (Recorded(k)' <=> Recorded(k)) /\ (Unrecorded(k)' <=> Unrecorded(k))
      BY <1>1, SameTale DEF OnePlan
<1>3. TypeOK'
      BY <1>1, FaultsTyped DEF Rest, Same, Places, Terminal, Callers, Go, TypeOK
<1>4. Turns' /\ Paused' /\ CompletedAtRest'
      BY <1>1, <1>2 DEF Rest, Same, TypeOK, Turns, Paused, CompletedAtRest, Runs, Working,
         Terminal, Callers, Go
<1>5. OnePlan' /\ ClaimsTrue' /\ InHand("driver")' /\ InHand("resumer")'
      BY <1>1, <1>2 DEF Rest, Same, TypeOK, Turns, OnePlan, ClaimsTrue, InHand, Runs,
         Working, Callers, Go
<1>6. AllRecorded' /\ NoApproachRepeated'
      BY <1>1, <1>2 DEF Rest, Same, TypeOK, Turns, AllRecorded, NoApproachRepeated,
         Moving, Runs, NowKnown, Working, Callers, Go
<1>7. Explained' /\ Kept'
      BY <1>1, <1>2, <1>0 DEF Rest, Same, TypeOK, OnePlan, Turns, Explained, Kept,
         StopExplained, Latest, Runs, Working, Attempts, Callers, Go
<1> QED
    BY <1>3, <1>4, <1>5, <1>6, <1>7

(* The end of the loop with one.                                           *)
LEMMA GiveUpKeeps ==
  ASSUME IInv, GiveUp
  PROVE  IInv'
<1> USE DEF IInv
<1>0. live' = Stop(live, GiveUpCause) /\ GiveUpCause \in Blocking /\ GiveUpCause \in Causes
      BY GivesCause DEF GiveUp
<1>a. live \in Ledgers
      BY DEF TypeOK
<1>1. /\ Same /\ live'.stop = GiveUpCause
      /\ live'.stop \in Blocking /\ live'.blocker = Len(live.attempts)
      BY <1>0, <1>a, StopKeeps DEF GiveUp, Same
<1>2. /\ Latest' = Latest /\ Attempts(live)'
      /\ \A k : (Recorded(k)' <=> Recorded(k)) /\ (Unrecorded(k)' <=> Unrecorded(k))
      BY <1>1, SameTale DEF OnePlan
<1>3. TypeOK'
      BY <1>1, FaultsTyped DEF GiveUp, Same, Places, Terminal, Callers, Go, TypeOK
<1>4. Turns' /\ Paused' /\ CompletedAtRest'
      BY <1>1, <1>2 DEF GiveUp, Same, TypeOK, Turns, Paused, CompletedAtRest, Runs,
         Working, Terminal, Callers, Go
<1>5. OnePlan' /\ ClaimsTrue' /\ InHand("driver")' /\ InHand("resumer")'
      BY <1>1, <1>2 DEF GiveUp, Same, TypeOK, Turns, OnePlan, ClaimsTrue, InHand, Runs,
         Working, Callers, Go
<1>6. AllRecorded' /\ NoApproachRepeated'
      BY <1>1, <1>2 DEF GiveUp, Same, TypeOK, Turns, AllRecorded, NoApproachRepeated,
         Moving, Runs, NowKnown, Working, Callers, Go
<1>7. Explained' /\ Kept'
      BY <1>1, <1>2 DEF GiveUp, Same, TypeOK, OnePlan, Turns, Explained, Kept,
         StopExplained, Latest, Runs, Working, Attempts, Callers, Go
<1> QED
    BY <1>3, <1>4, <1>5, <1>6, <1>7

(* Another attempt.                                                        *)
LEMMA ReplanKeeps ==
  ASSUME IInv, Replan
  PROVE  IInv'
<1> USE DEF IInv
<1>1. Same
      BY DEF Replan, Same, TypeOK
<1>2. /\ Latest' = Latest /\ Attempts(live)'
      /\ \A k : (Recorded(k)' <=> Recorded(k)) /\ (Unrecorded(k)' <=> Unrecorded(k))
      BY <1>1, SameTale DEF OnePlan
<1>3. TypeOK'
      BY <1>1, FaultsTyped DEF Replan, Same, Places, Terminal, Callers, Go, TypeOK
<1>4. Turns' /\ Paused' /\ CompletedAtRest'
      BY <1>1, <1>2 DEF Replan, Same, TypeOK, Turns, Paused, CompletedAtRest, Runs,
         Working, Terminal, Callers, Go
<1>5. OnePlan' /\ ClaimsTrue' /\ InHand("driver")' /\ InHand("resumer")'
      BY <1>1, <1>2 DEF Replan, Same, TypeOK, Turns, OnePlan, ClaimsTrue, InHand, Runs,
         Working, Callers, Go
<1>6. AllRecorded' /\ NoApproachRepeated'
      BY <1>1, <1>2 DEF Replan, Same, TypeOK, Turns, AllRecorded, NoApproachRepeated,
         Moving, Runs, NowKnown, Working, Callers, Go
<1>7. Explained' /\ Kept'
      BY <1>1, <1>2 DEF Replan, Same, TypeOK, OnePlan, Turns, Explained, Kept,
         StopExplained, Latest, Runs, Working, Attempts, Callers, Go
<1> QED
    BY <1>3, <1>4, <1>5, <1>6, <1>7

(* The ledger is saved.                                                    *)
LEMMA PersistKeeps ==
  ASSUME IInv, Persist
  PROVE  IInv'
<1> USE DEF IInv
<1>1. Same
      BY DEF Persist, Same, TypeOK
<1>2. /\ Latest' = Latest /\ Attempts(live)'
      /\ \A k : (Recorded(k)' <=> Recorded(k)) /\ (Unrecorded(k)' <=> Unrecorded(k))
      BY <1>1, SameTale DEF OnePlan
<1>3. TypeOK'
  <2>1. row' \in [status : Terminal \cup {"pending", "planning", "running", "awaiting_approval"},
                   ledger : Ledgers \cup {None}, plan : Plans \cup {<<>>}, errors : Faults,
                   blocker : Nat \cup {None}]
        BY DEF Persist, TypeOK
  <2> QED
      BY <1>1, <2>1 DEF Persist, Same, Places, Callers, Go, TypeOK
<1>r. row'.status = row.status /\ row'.plan = row.plan /\ row'.blocker = row.blocker
      BY DEF Persist, TypeOK
<1>l. ~lost' => row'.ledger = live /\ ~lost
      BY DEF Persist, TypeOK
<1>4. Turns' /\ Paused' /\ CompletedAtRest'
      BY <1>1, <1>2, <1>r DEF Persist, Same, TypeOK, Turns, Paused, CompletedAtRest, Runs,
         Working, Terminal, Callers, Go
<1>5. OnePlan' /\ ClaimsTrue' /\ InHand("driver")' /\ InHand("resumer")'
      BY <1>1, <1>2, <1>r DEF Persist, Same, TypeOK, Turns, OnePlan, ClaimsTrue, InHand, Runs,
         Working, Callers, Go
<1>6. AllRecorded' /\ NoApproachRepeated'
      BY <1>1, <1>2, <1>r DEF Persist, Same, TypeOK, Turns, AllRecorded, NoApproachRepeated,
         Moving, Runs, NowKnown, Working, Callers, Go
<1>7. Explained' /\ Kept'
      BY <1>1, <1>2, <1>r, <1>l DEF Persist, Same, TypeOK, OnePlan, Turns, Explained, Kept,
         StopExplained, Latest, Runs, Working, Attempts, Callers, Go
<1> QED
    BY <1>3, <1>4, <1>5, <1>6, <1>7

(* The ledger is saved with an explanation.                                *)
LEMMA WriteBlockerKeeps ==
  ASSUME IInv, WriteBlocker
  PROVE  IInv'
<1> USE DEF IInv
<1>1. Same
      BY DEF WriteBlocker, Same, TypeOK
<1>b. live.blocker \in Nat \cup {None}
      BY DEF TypeOK, Ledgers
<1>2. /\ Latest' = Latest /\ Attempts(live)'
      /\ \A k : (Recorded(k)' <=> Recorded(k)) /\ (Unrecorded(k)' <=> Unrecorded(k))
      BY <1>1, SameTale DEF OnePlan
<1>w. CASE Go("driver", "done")
  <2>r. row' = [row EXCEPT !.ledger = live, !.blocker = live.blocker]
    <3>1. ~(row' = row /\ Go("driver", "raised"))
          BY <1>w DEF Go, TypeOK, Callers
    <3> QED
        BY <3>1 DEF WriteBlocker
  <2>3. TypeOK'
        BY <1>1, FaultsTyped, <1>b, <1>w, <2>r DEF WriteBlocker, Same, Places, Terminal, Callers, Go,
           TypeOK
  <2>4. Turns' /\ Paused' /\ CompletedAtRest'
        BY <1>1, <1>2, <1>w, <2>r DEF WriteBlocker, Same, TypeOK, Turns, Paused, CompletedAtRest, Runs,
           Working, Terminal, Callers, Go
  <2>5. OnePlan' /\ ClaimsTrue' /\ InHand("driver")' /\ InHand("resumer")'
        BY <1>1, <1>2, <1>w, <2>r DEF WriteBlocker, Same, TypeOK, Turns, OnePlan, ClaimsTrue, InHand,
           Runs, Working, Callers, Go
  <2>6. AllRecorded' /\ NoApproachRepeated'
        BY <1>1, <1>2, <1>w, <2>r DEF WriteBlocker, Same, TypeOK, Turns, AllRecorded,
           NoApproachRepeated, Moving, Runs, NowKnown, Working, Callers, Go
  <2>7. Explained' /\ Kept'
        BY <1>1, <1>2, <1>w, <2>r DEF WriteBlocker, Same, TypeOK, OnePlan, Turns, Explained, Kept,
           StopExplained, Latest, Runs, Working, Attempts, Callers, Go
  <2> QED
      BY <2>3, <2>4, <2>5, <2>6, <2>7
<1>x. CASE row' = row /\ Go("driver", "raised")
  <2>3. TypeOK'
    <3>1. at' \in [Callers -> Places]
          BY <1>x DEF Go, Places, TypeOK
    <3>2. thread' = thread /\ UNCHANGED <<row, context, flagged, local, task, resumes, answer, fates, early, lost>>
          BY <1>x DEF WriteBlocker
    <3>3. live' \in Ledgers /\ held' \in BOOLEAN /\ tries' \in Nat
          BY <1>1 DEF WriteBlocker, Same
    <3> QED
        BY <3>1, <3>2, <3>3 DEF TypeOK
  <2>4. Turns' /\ Paused' /\ CompletedAtRest'
        BY <1>1, <1>2, <1>x DEF WriteBlocker, Same, TypeOK, Turns, Paused, CompletedAtRest, Runs,
           Working, Terminal, Callers, Go
  <2>5. OnePlan' /\ ClaimsTrue' /\ InHand("driver")' /\ InHand("resumer")'
        BY <1>1, <1>2, <1>x DEF WriteBlocker, Same, TypeOK, Turns, OnePlan, ClaimsTrue, InHand,
           Runs, Working, Callers, Go
  <2>6. AllRecorded' /\ NoApproachRepeated'
        BY <1>1, <1>2, <1>x DEF WriteBlocker, Same, TypeOK, Turns, AllRecorded,
           NoApproachRepeated, Moving, Runs, NowKnown, Working, Callers, Go
  <2>7. Explained' /\ Kept'
        BY <1>1, <1>2, <1>x DEF WriteBlocker, Same, TypeOK, OnePlan, Turns, Explained, Kept,
           StopExplained, Latest, Runs, Working, Attempts, Callers, Go
  <2> QED
      BY <2>3, <2>4, <2>5, <2>6, <2>7
<1> QED
    BY <1>w, <1>x DEF WriteBlocker

(* A cancellation.                                                         *)
LEMMA CancelKeeps ==
  ASSUME IInv, Cancel
  PROVE  IInv'
<1> USE DEF IInv
<1>1. Same
      BY DEF Cancel, Same, TypeOK
<1>2. /\ Latest' = Latest /\ Attempts(live)'
      /\ \A k : (Recorded(k)' <=> Recorded(k)) /\ (Unrecorded(k)' <=> Unrecorded(k))
      BY <1>1, SameTale DEF OnePlan
<1>3. TypeOK'
      BY <1>1, FaultsTyped DEF Cancel, Same, Places, Terminal, Callers, Go, TypeOK
<1>4. Turns' /\ Paused' /\ CompletedAtRest'
      BY <1>1, <1>2 DEF Cancel, Same, TypeOK, Turns, Paused, CompletedAtRest, Runs,
         Working, Terminal, Callers, Go
<1>5. OnePlan' /\ ClaimsTrue' /\ InHand("driver")' /\ InHand("resumer")'
      BY <1>1, <1>2 DEF Cancel, Same, TypeOK, Turns, OnePlan, ClaimsTrue, InHand, Runs,
         Working, Callers, Go
<1>6. AllRecorded' /\ NoApproachRepeated'
      BY <1>1, <1>2 DEF Cancel, Same, TypeOK, Turns, AllRecorded, NoApproachRepeated,
         Moving, Runs, NowKnown, Working, Callers, Go
<1>7. Explained' /\ Kept'
      BY <1>1, <1>2 DEF Cancel, Same, TypeOK, OnePlan, Turns, Explained, Kept,
         StopExplained, Latest, Runs, Working, Attempts, Callers, Go
<1> QED
    BY <1>3, <1>4, <1>5, <1>6, <1>7

(* The look at the ledger on the row.                                      *)
LEMMA ReadRowKeeps ==
  ASSUME IInv, NEW c \in Callers, ReadRow(c)
  PROVE  IInv'
<1> USE DEF IInv
<1>0. c = "resumer" /\ at["resumer"] = "settle" /\ at' = [at EXCEPT !["resumer"] = "ledger"]
      BY DEF ReadRow, Turns, Callers, Go
<1>1. Same
      BY DEF ReadRow, Same, TypeOK
<1>2. /\ Latest' = Latest /\ Attempts(live)'
      /\ \A k : (Recorded(k)' <=> Recorded(k)) /\ (Unrecorded(k)' <=> Unrecorded(k))
      BY <1>1, SameTale DEF OnePlan
<1>local. /\ local' \in [Callers -> Calls] /\ local'["driver"] = local["driver"]
          /\ local'["resumer"].stored = row.ledger /\ local'["resumer"].plan = local["resumer"].plan
          /\ local'["resumer"].run = local["resumer"].run
          /\ local'["resumer"].attempt = local["resumer"].attempt
  <2>1. local' = [local EXCEPT !["resumer"] = [@ EXCEPT !.stored = row.ledger]]
        BY <1>0 DEF ReadRow
  <2>2. local["resumer"] \in Calls /\ [local["resumer"] EXCEPT !.stored = row.ledger] \in Calls
        BY CallsKeep DEF TypeOK, Callers
  <2>3. local' \in [Callers -> Calls]
        BY <2>1, <2>2 DEF TypeOK
  <2> QED
      BY <2>1, <2>2, <2>3 DEF TypeOK, Callers, Calls
<1>3. TypeOK'
      BY <1>0, <1>1, <1>local DEF ReadRow, Same, Places, Callers, TypeOK
<1>4. Turns' /\ Paused' /\ CompletedAtRest'
      BY <1>0, <1>1, <1>2 DEF ReadRow, Same, TypeOK, Turns, Paused, CompletedAtRest, Runs,
         Working, Callers
<1>5. OnePlan' /\ ClaimsTrue' /\ InHand("driver")' /\ InHand("resumer")'
      BY <1>0, <1>1, <1>2, <1>local DEF ReadRow, Same, TypeOK, Turns, OnePlan, ClaimsTrue,
         InHand, Runs, Working, Callers
<1>6. AllRecorded' /\ NoApproachRepeated'
      BY <1>0, <1>1, <1>2, <1>local DEF ReadRow, Same, TypeOK, Turns, AllRecorded,
         NoApproachRepeated, Moving, Runs, NowKnown, Working, Callers
<1>7. Explained' /\ Kept'
      BY <1>0, <1>1, <1>2, <1>local DEF ReadRow, Same, TypeOK, OnePlan, Turns, Explained, Kept,
         StopExplained, Latest, Runs, Working, Attempts, Callers
<1> QED
    BY <1>3, <1>4, <1>5, <1>6, <1>7

(* The ledger to settle on.                                                *)
LEMMA TakeLedgerKeeps ==
  ASSUME IInv, NEW c \in Callers, TakeLedger(c)
  PROVE  IInv'
<1> USE DEF IInv
<1> DEFINE found == held /\ Here("resumer")
           taken == IF found THEN None ELSE FromDict(local["resumer"].stored)
<1>0. c = "resumer" /\ at["resumer"] = "ledger" /\ at' = [at EXCEPT !["resumer"] = "gate"]
      BY DEF TakeLedger, Turns, Callers, Go
<1>1. Same
      BY DEF TakeLedger, Same, TypeOK
<1>2. /\ Latest' = Latest /\ Attempts(live)'
      /\ \A k : (Recorded(k)' <=> Recorded(k)) /\ (Unrecorded(k)' <=> Unrecorded(k))
      BY <1>1, SameTale DEF OnePlan
<1>dict. FromDict(local["resumer"].stored) \in Ledgers
  <2>1. EmptyLedger \in Ledgers
        BY EmptySeq DEF EmptyLedger, Ledgers
  <2> QED
      BY <2>1, CallsKeep DEF FromDict, TypeOK, Callers
<1>local. /\ local' \in [Callers -> Calls] /\ local'["driver"] = local["driver"]
          /\ local'["resumer"].resumed = ~found /\ local'["resumer"].ledger = taken
          /\ local'["resumer"].plan = local["resumer"].plan
          /\ local'["resumer"].run = local["resumer"].run
          /\ local'["resumer"].attempt = local["resumer"].attempt
  <2>1. local' = [local EXCEPT !["resumer"] = [@ EXCEPT !.resumed = ~found, !.ledger = taken]]
        BY <1>0 DEF TakeLedger
  <2>2. local["resumer"] \in Calls /\ local["resumer"].stored \in Ledgers \cup {None}
        BY CallsKeep DEF TypeOK, Callers
  <2>3. PICK b \in BOOLEAN : b = (~found)
    <3>1. CASE found
      <4>1. (~found) = FALSE
            BY <3>1, Zenon
      <4> QED
          BY <4>1, Zenon
    <3>2. CASE ~found
      <4>1. (~found) = TRUE
            BY <3>2, Zenon
      <4> QED
          BY <4>1, Zenon
    <3> QED
        BY <3>1, <3>2, Zenon
  <2>4. taken \in Ledgers \cup {None}
        BY <1>dict
  <2> HIDE DEF found, taken
  <2>5. [local["resumer"] EXCEPT !.resumed = b, !.ledger = taken] \in Calls
        BY <2>2, <2>4, CallsKeep
  <2>6. [local["resumer"] EXCEPT !.resumed = ~found, !.ledger = taken] \in Calls
        BY <2>3, <2>5, Zenon
  <2>7. local' \in [Callers -> Calls]
        BY <2>1, <2>6 DEF TypeOK
  <2> QED
      BY <2>1, <2>2, <2>7 DEF TypeOK, Callers, Calls
<1>3. TypeOK'
      BY <1>0, <1>1, <1>local DEF TakeLedger, Same, Places, Callers, TypeOK
<1>4. Turns' /\ Paused' /\ CompletedAtRest'
      BY <1>0, <1>1, <1>2 DEF TakeLedger, Same, TypeOK, Turns, Paused, CompletedAtRest, Runs,
         Working, Callers
<1>5. OnePlan' /\ ClaimsTrue' /\ InHand("driver")' /\ InHand("resumer")'
      BY <1>0, <1>1, <1>2, <1>local DEF TakeLedger, Same, TypeOK, Turns, OnePlan, ClaimsTrue,
         InHand, Runs, Working, Callers
<1>6. AllRecorded' /\ NoApproachRepeated'
      BY <1>0, <1>1, <1>2, <1>local DEF TakeLedger, Same, TypeOK, Turns, AllRecorded,
         NoApproachRepeated, Moving, Runs, NowKnown, Working, Callers
<1>7. Explained' /\ Kept'
  <2>1. early = {} => ~found
        BY <1>0 DEF Kept, Runs, Working
  <2>a. early = {} /\ ~lost => Attempts(local["resumer"].stored)
        BY <1>0 DEF Kept
  <2>2. early = {} /\ ~lost => taken = local["resumer"].stored
    <3> SUFFICES ASSUME early = {}, ~lost PROVE taken = local["resumer"].stored
        OBVIOUS
    <3>1. local["resumer"].stored \in Ledgers
          BY <2>a DEF Attempts
    <3>2. local["resumer"].stored # None
          BY <3>1, NoneAssumption
    <3> QED
        BY <2>1, <3>2 DEF FromDict
  <2>3. early = {} => local'["resumer"].resumed
        BY <1>local, <2>1, Zenon
  <2>4. local'["resumer"].resumed => local'["resumer"].ledger \in Ledgers
    <3>1. FromDict(local["resumer"].stored) \in Ledgers
          BY <1>dict
    <3> QED
        BY <1>local, <3>1, Zenon
  <2> HIDE DEF found, taken
  <2> QED
      BY <1>0, <1>1, <1>2, <1>local, <2>1, <2>2, <2>3, <2>4 DEF TakeLedger, Same, TypeOK, OnePlan, Turns,
         Explained, Kept, StopExplained, Latest, Runs, Working, Attempts, Callers
<1> QED
    BY <1>3, <1>4, <1>5, <1>6, <1>7

(* The verdict on the row.                                                 *)
LEMMA WriteRowKeeps ==
  ASSUME IInv, NEW c \in Callers, WriteRow(c)
  PROVE  IInv'
<1> USE DEF IInv
<1>0. /\ at[c] = "write" /\ Runs(c) /\ InHand(c)
      /\ at' = [at EXCEPT ![c] = IF c = "driver" THEN "outcome" ELSE "idle"]
      /\ c \in {"driver", "resumer"}
      BY DEF WriteRow, Return, Go, Callers, Runs, Working
<1>1. Same
      BY DEF WriteRow, Same, TypeOK
<1>2. /\ Latest' = Latest /\ Attempts(live)'
      /\ \A k : (Recorded(k)' <=> Recorded(k)) /\ (Unrecorded(k)' <=> Unrecorded(k))
      BY <1>1, SameTale DEF OnePlan
<1>local. /\ local' \in [Callers -> Calls]
          /\ \A d \in Callers \ {c} : local'[d] = local[d]
      BY CallsKeep DEF WriteRow, TypeOK
<1>row. PICK ledger \in Ledgers \cup {None} :
          /\ row' = [row EXCEPT !.status = IF local[c].errors = {} THEN "completed" ELSE "failed",
                                !.errors = local[c].errors, !.blocker = None, !.ledger = ledger]
          /\ local[c].resumed /\ Attempts(local[c].ledger) => Attempts(ledger)
          /\ ~local[c].resumed => ledger = live
  <2> DEFINE cause == IF local[c].errors = {} THEN "goal_reached" ELSE None
  <2>1. local[c].ledger \in Ledgers \cup {None} /\ cause \in Causes
        BY CallsKeep DEF TypeOK, Causes
  <2>2. CASE ~local[c].resumed
        BY <2>2 DEF WriteRow, TypeOK
  <2>3. CASE local[c].resumed /\ local[c].ledger # None
    <3>1. /\ [local[c].ledger EXCEPT !.stop = cause] \in Ledgers
          /\ [local[c].ledger EXCEPT !.stop = cause].attempts = local[c].ledger.attempts
          BY <2>1, <2>3, NotesKeep
    <3> QED
        BY <2>3, <3>1 DEF WriteRow, Attempts
  <2> QED
      BY <1>0, <2>2, <2>3, NoneAssumption DEF Kept, Runs, Working
<1>written. row' \in [status : Terminal, ledger : Ledgers \cup {None}, plan : Plans \cup {<<>>},
                      errors : Faults, blocker : {None}]
      BY <1>row, CallsKeep DEF TypeOK, Terminal
<1>3. TypeOK'
      BY <1>0, <1>1, <1>local, <1>written DEF WriteRow, Same, Places, Callers, TypeOK
<1>4. Turns' /\ Paused' /\ CompletedAtRest'
  <2>1. row'.status \in {"completed", "failed"} /\ (row'.status = "completed" => local[c].errors = {})
        BY <1>row DEF TypeOK
  <2>2. ASSUME local[c].errors = {} PROVE Verified(fates[Latest])
    <3> DEFINE fate == fates[Latest]
    <3>1. /\ fate.plan \in Plans /\ fate.run \in Seq(Outcomes) /\ DOMAIN fate.run = DOMAIN fate.plan
          BY <1>0, FatesTyped DEF TypeOK, InHand, OnePlan, Latest
    <3>2. fate.run \in [DOMAIN fate.plan -> Outcomes]
          BY <3>1
    <3>3. /\ Errors(fate.plan, fate.run) = {} /\ ~fate.refused /\ ~MachineRefutes(fate.run)
          /\ Ran(fate.run) /\ ~Pauses(fate.run) /\ fate.plan # <<>>
          BY <1>0, <2>2 DEF InHand, ErrorsOf
    <3> QED
        BY <3>1, <3>2, <3>3, VerifiedRun DEF Verified
  <2> QED
      BY <1>0, <1>1, <1>2, <2>1, <2>2 DEF WriteRow, Same, TypeOK, Turns, Paused, CompletedAtRest,
         InHand, Runs, Working, Callers
<1>5. OnePlan' /\ ClaimsTrue' /\ InHand("driver")' /\ InHand("resumer")'
  <2>1. row'.plan = row.plan
        BY <1>row DEF TypeOK
  <2> QED
      BY <1>0, <1>1, <1>2, <1>local, <2>1 DEF WriteRow, Same, TypeOK, Turns, OnePlan, ClaimsTrue,
         InHand, Runs, Working, Callers
<1>6. AllRecorded' /\ NoApproachRepeated'
  <2>1. row'.status \in {"completed", "failed"}
        BY <1>row DEF TypeOK
  <2>2. ASSUME TRUE \notin early, Moving PROVE \A k \in DOMAIN fates : Recorded(k)
        BY <1>0, <2>2 DEF AllRecorded, InHand
  <2> QED
      BY <1>0, <1>1, <1>2, <1>local, <2>1, <2>2 DEF WriteRow, Same, TypeOK, Turns, AllRecorded,
         NoApproachRepeated, Moving, Runs, NowKnown, Working, Callers
<1>7. Explained' /\ Kept'
  <2>1. row'.status \in {"completed", "failed"} /\ row'.blocker = None /\ row'.ledger = ledger
        BY <1>row DEF TypeOK
  <2> QED
      BY <1>0, <1>1, <1>2, <1>local, <1>row, <2>1 DEF WriteRow, Same, TypeOK, OnePlan, Turns,
         Explained, Kept, StopExplained, Latest, Runs, Working, Attempts, Callers
<1> QED
    BY <1>3, <1>4, <1>5, <1>6, <1>7

(* A decision that takes up a paused run.                                  *)
LEMMA ResumeKeeps ==
  ASSUME IInv, NEW yes \in {"yes", "no"}, NEW elsewhere \in BOOLEAN, Resume(yes, elsewhere)
  PROVE  IInv'
<1> USE DEF IInv
<1> DEFINE known == IF elsewhere \/ context = None THEN [plan |-> row.plan, attempt |-> 0] ELSE context
<1>0. /\ at["driver"] \in {"outcome", "persist", "done"} /\ at["resumer"] = "idle"
      /\ Latest # 0 /\ thread = fates[Latest].run /\ Ran(thread) /\ Unrecorded(Latest)
      /\ at' = [at EXCEPT !["resumer"] = "run"]
      BY DEF Resume, Paused, Go
<1>1. Same
      BY DEF Resume, Same, TypeOK
<1>2. /\ Latest' = Latest /\ Attempts(live)'
      /\ \A k : (Recorded(k)' <=> Recorded(k)) /\ (Unrecorded(k)' <=> Unrecorded(k))
      BY <1>1, SameTale DEF OnePlan
<1>last. /\ Latest \in Nat /\ fates[Latest].plan \in Plans /\ thread \in Seq(Outcomes)
         /\ row.plan = fates[Latest].plan
         /\ fates[Latest] \in Fate
      BY <1>0, FatesTyped DEF TypeOK, OnePlan, Latest
<1>known. /\ known \in Contexts /\ known.plan = fates[Latest].plan /\ known.attempt \in {0, Latest}
          /\ ~elsewhere /\ context # None => known = context
      BY <1>0, <1>last DEF TypeOK, OnePlan, Contexts
<1>local. /\ local' \in [Callers -> Calls] /\ local'["driver"] = local["driver"]
          /\ local'["resumer"].run = thread /\ local'["resumer"].plan = fates[Latest].plan
          /\ local'["resumer"].attempt = known.attempt
  <2> DEFINE call == [NoCall EXCEPT !.plan = known.plan, !.attempt = known.attempt, !.run = thread]
  <2>1. local' = [local EXCEPT !["resumer"] = call]
        BY DEF Resume
  <2>2. known.plan \in Plans \cup {<<>>} /\ known.attempt \in Nat
        BY <1>known, <1>last
  <2>3. call \in Calls /\ call.run = thread /\ call.plan = known.plan /\ call.attempt = known.attempt
    <3> HIDE DEF known
    <3>1. call \in Calls
          BY <1>last, <2>2, CallsKeep
    <3> QED
        BY <3>1 DEF NoCall
  <2> HIDE DEF known, call
  <2> QED
      BY <1>known, <2>1, <2>3 DEF TypeOK, Callers
<1>ctx. context' = IF elsewhere THEN context ELSE known
      BY DEF Resume
<1>rest. /\ row' = [row EXCEPT !.status = "running"] /\ row.status = "awaiting_approval"
         /\ answer' = [approved |-> yes, elsewhere |-> elsewhere]
         /\ early' = early \cup (IF at["driver"] = "done" THEN {} ELSE {elsewhere})
         /\ resumes' = resumes + 1
         /\ UNCHANGED <<live, held, flagged, thread, tries, prior, task, fates, lost>>
      BY DEF Resume
<1> HIDE DEF known
<1>3. TypeOK'
      BY <1>0, <1>1, <1>local, <1>ctx, <1>known, <1>rest DEF Places, Callers, TypeOK
<1>4. Turns' /\ Paused' /\ CompletedAtRest'
      BY <1>0, <1>1, <1>2, <1>rest DEF Same, TypeOK, Turns, Paused, CompletedAtRest, Runs,
         Working, Callers
<1>5. OnePlan' /\ ClaimsTrue' /\ InHand("driver")' /\ InHand("resumer")'
      BY <1>0, <1>1, <1>2, <1>local, <1>ctx, <1>known, <1>rest DEF Same, TypeOK, Turns, OnePlan,
         ClaimsTrue, InHand, Runs, Working, Callers
<1>6. AllRecorded' /\ NoApproachRepeated'
      BY <1>0, <1>1, <1>2, <1>local, <1>ctx, <1>known, <1>rest DEF Same, TypeOK, Turns,
         AllRecorded, NoApproachRepeated, Moving, Runs, NowKnown, Working, Callers
<1>7. Explained' /\ Kept'
  <2>1. row'.status = "running" /\ row'.ledger = row.ledger /\ row'.blocker = row.blocker
        BY <1>rest DEF TypeOK
  <2>2. early' = {} => early = {} /\ at["driver"] = "done"
        BY <1>rest
  <2>3. at'["driver"] = at["driver"] /\ at'["resumer"] = "run"
        BY <1>0 DEF TypeOK, Callers
  <2>4. resumes' # 0
        BY <1>rest DEF TypeOK
  <2>5. live'.stop = live.stop /\ live'.blocker = live.blocker
        BY <1>rest
  <2>6. Explained'
        BY <1>2, <2>1, <2>3, <2>4, <2>5 DEF Explained, StopExplained
  <2>7. Attempts(row.ledger) => Attempts(row.ledger)'
        BY <1>1, <2>1 DEF Attempts, Same
  <2>8. Kept'
        BY <1>local, <1>rest, <2>2, <2>3, <2>7 DEF Kept, Runs, Working
  <2> QED
      BY <2>6, <2>8
<1> QED
    BY <1>3, <1>4, <1>5, <1>6, <1>7

-----------------------------------------------------------------------------
(* The steps that make an attempt, run it and judge it.                    *)

(* A plan that is admitted.                                                *)
LEMMA AdmitKeeps ==
  ASSUME IInv, NEW plan \in Plans, Admit(plan)
  PROVE  IInv'
<1> USE DEF IInv
<1>n0. PICK n : n = Latest + 1
      OBVIOUS
<1>0. /\ at["driver"] = "plan" /\ at["resumer"] = "idle" /\ at' = [at EXCEPT !["driver"] = "run"]
      /\ row.status \in {"planning", "cancelled"} /\ task.mode = "execute"
      BY DEF Admit, Turns, Go, Runs
<1>fresh. /\ Fresh(plan) \in Seq(Outcomes) /\ DOMAIN Fresh(plan) = DOMAIN plan
          /\ Ran(Fresh(plan)) /\ Rooted(Fresh(plan))
  <2>1. Fresh(plan) \in [DOMAIN plan -> Outcomes]
        BY DEF Fresh, Outcomes
  <2> QED
      BY <2>1, RunTyped DEF Fresh, Ran, Rooted
<1>fates. /\ fates' \in Fates /\ Latest' = n /\ Latest \in Nat /\ DOMAIN fates' = 1 .. n
          /\ DOMAIN fates = 1 .. Latest
          /\ \A k \in DOMAIN fates : fates'[k] = fates[k]
          /\ fates'[n] = [plan |-> plan, run |-> Fresh(plan), refused |-> FALSE]
  <2> DEFINE entry == [plan |-> plan, run |-> Fresh(plan), refused |-> FALSE]
  <2>1. fates' = Append(fates, entry) /\ fates \in Fates
        BY DEF Admit, TypeOK
  <2>2. entry \in Fate
        BY <1>fresh DEF Fate
  <2>3. /\ fates' \in Fates /\ Len(fates') = Len(fates) + 1
        /\ (\A k \in DOMAIN fates : fates'[k] = fates[k]) /\ fates'[Len(fates')] = entry
    <3> HIDE DEF entry, IInv
    <3> QED
        BY <2>1, <2>2, FatesGrow DEF Fates
  <2>4. DOMAIN fates' = 1 .. Len(fates') /\ DOMAIN fates = 1 .. Len(fates) /\ Len(fates) \in Nat
        BY <2>1, <2>3, FatesTyped
  <2> QED
      BY <1>n0, <2>3, <2>4 DEF Latest
<1>live. /\ live' \in Ledgers /\ Len(live'.attempts) = n
         /\ \A k \in DOMAIN fates : live'.attempts[k] = live.attempts[k]
         /\ live'.attempts[n].plan = plan /\ live'.attempts[n].claims = {}
         /\ Len(live.attempts) = Latest
  <2>1. live' = [live EXCEPT !.attempts = Append(@, NewAttempt(plan))] /\ live \in Ledgers
        BY DEF Admit, TypeOK
  <2>2. Len(live.attempts) = Latest
        BY DEF OnePlan, Attempts, Latest
  <2>3. DOMAIN fates = 1 .. Len(live.attempts)
        BY <1>fates, <2>2
  <2> QED
      BY <1>n0, <2>1, <2>2, <2>3, OpenKeeps
<1>local. /\ local' \in [Callers -> Calls] /\ local'["resumer"] = local["resumer"]
          /\ local'["driver"].run = Fresh(plan) /\ local'["driver"].plan = plan
          /\ local'["driver"].attempt = n /\ ~local'["driver"].resumed
  <2> DEFINE call == [NoCall EXCEPT !.plan = plan, !.attempt = n, !.run = Fresh(plan)]
  <2>1. local' = [local EXCEPT !["driver"] = call]
        BY <1>live, <1>n0 DEF Admit
  <2>2. call \in Calls
    <3>1. n \in Nat /\ plan \in Plans \cup {<<>>} /\ Fresh(plan) \in Seq(Outcomes)
          BY <1>n0, <1>fresh, <1>fates
    <3> QED
        BY <3>1, CallsKeep
  <2>3. call.run = Fresh(plan) /\ call.plan = plan /\ call.attempt = n /\ ~call.resumed
        BY DEF NoCall
  <2> HIDE DEF call
  <2> QED
      BY <2>1, <2>2, <2>3 DEF TypeOK, Callers
<1>rest. /\ row' = [row EXCEPT !.status = "running", !.plan = plan]
         /\ context' = [plan |-> plan, attempt |-> n] /\ context' \in Contexts /\ context' # None
         /\ flagged' = FALSE
         /\ UNCHANGED <<held, tries, prior, task, resumes, answer, early, lost>>
      BY <1>n0, <1>live, <1>fates, NoneAssumption DEF Admit, Contexts
<1>said. /\ Attempts(live)'
         /\ \A k \in DOMAIN fates : (Recorded(k)' <=> Recorded(k)) /\ (Unrecorded(k)' <=> Unrecorded(k))
         /\ Unrecorded(n)'
  <2>1. Attempts(live)'
    <3>1. \A k \in DOMAIN fates' : live'.attempts[k].plan = fates'[k].plan
      <4> SUFFICES ASSUME NEW k \in DOMAIN fates' PROVE live'.attempts[k].plan = fates'[k].plan
          OBVIOUS
      <4>1. CASE k = n
            BY <1>fates, <1>live, <4>1
      <4>2. CASE k \in DOMAIN fates
            BY <1>fates, <1>live, <4>2 DEF Attempts, OnePlan
      <4> QED
          BY <1>n0, <1>fates, <4>1, <4>2
    <3> QED
        BY <1>fates, <1>live, <3>1 DEF Attempts, Latest
  <2>2. \A k \in DOMAIN fates : (Recorded(k)' <=> Recorded(k)) /\ (Unrecorded(k)' <=> Unrecorded(k))
    <3> SUFFICES ASSUME NEW k \in DOMAIN fates
                 PROVE  (Recorded(k)' <=> Recorded(k)) /\ (Unrecorded(k)' <=> Unrecorded(k))
        OBVIOUS
    <3>1. fates'[k] = fates[k] /\ live'.attempts[k] = live.attempts[k]
          BY <1>fates, <1>live
    <3> QED
        BY <3>1 DEF Recorded, Unrecorded, ErrorsOf
  <2>3. Unrecorded(n)'
        BY <1>fates, <1>live DEF Unrecorded
  <2> QED
      BY <2>1, <2>2, <2>3
<1>n. n \in Nat /\ n = Latest + 1 /\ n # 0 /\ n \notin DOMAIN fates /\ DOMAIN fates' = DOMAIN fates \cup {n}
      BY <1>n0, <1>fates
<1>3. TypeOK'
      BY <1>0, <1>fates, <1>live, <1>local, <1>rest DEF Places, Callers, TypeOK
<1>4. Turns' /\ Paused' /\ CompletedAtRest'
      BY <1>0, <1>rest DEF TypeOK, Turns, Paused, CompletedAtRest, Runs, Working, Callers
<1>5. OnePlan' /\ ClaimsTrue' /\ InHand("driver")' /\ InHand("resumer")'
  <2>1. OnePlan'
    <3>1. /\ fates'[n].plan = plan /\ fates'[n].run = Fresh(plan)
          /\ context'.plan = plan /\ context'.attempt = n /\ row'.plan = plan /\ task'.mode = "execute"
          BY <1>0, <1>fates, <1>rest DEF TypeOK
    <3>2. \A k \in DOMAIN fates' : DOMAIN fates'[k].run = DOMAIN fates'[k].plan /\ Rooted(fates'[k].run)
          BY <1>fates, <1>fresh, <1>n, <3>1 DEF OnePlan
    <3> QED
        BY <1>fates, <1>said, <3>1, <3>2 DEF OnePlan
  <2>2. ClaimsTrue'
    <3> SUFFICES ASSUME NEW k \in DOMAIN fates'
                 PROVE  Recorded(k)' \/ live'.attempts[k].claims = {}
        BY DEF ClaimsTrue
    <3>1. CASE k \in DOMAIN fates
          BY <1>said, <1>live, <3>1 DEF ClaimsTrue
    <3>2. CASE k = n
          BY <1>live, <3>2
    <3> QED
        BY <1>n, <3>1, <3>2
  <2>3. InHand("driver")' /\ InHand("resumer")'
    <3>1. at'["driver"] = "run" /\ at'["resumer"] = "idle"
          BY <1>0 DEF TypeOK, Callers
    <3>2. fates'[n].plan = plan /\ fates'[n].run = Fresh(plan)
          BY <1>fates
    <3> QED
        BY <1>fates, <1>fresh, <1>local, <1>said, <1>n, <3>1, <3>2 DEF InHand, Runs, Working
  <2> QED
      BY <2>1, <2>2, <2>3
<1>6. AllRecorded'
      BY <1>0, <1>fates, <1>local, <1>rest, <1>said, <1>n DEF TypeOK, AllRecorded, Moving, Runs,
         NowKnown, Working, Callers
<1>7. NoApproachRepeated'
  <2>1. SUFFICES ASSUME TRUE \notin early, NEW i \in DOMAIN fates, SamePlan(fates[i].plan, plan)
                 PROVE  ~Disproved(fates[i])
    <3>0. early' = early
          BY <1>rest
    <3>1. SUFFICES ASSUME TRUE \notin early, NEW i \in DOMAIN fates', NEW j \in DOMAIN fates',
                          i < j, SamePlan(fates'[i].plan, fates'[j].plan)
                   PROVE  ~Disproved(fates'[i])
          BY <3>0 DEF NoApproachRepeated, SamePlan, Disproved
    <3>2. i \in DOMAIN fates /\ fates'[i] = fates[i]
          BY <1>fates, <1>n, <3>1
    <3>3. CASE j \in DOMAIN fates
          BY <1>fates, <3>1, <3>2, <3>3 DEF NoApproachRepeated
    <3>4. CASE j = n
      <4>1. fates'[j].plan = plan
            BY <1>fates, <3>4
      <4> QED
          BY <2>1, <3>1, <3>2, <4>1
    <3> QED
        BY <1>n, <3>3, <3>4
  <2>2. Recorded(i)
        BY <1>0, <2>1 DEF AllRecorded, Moving
  <2>3. Refuted(live.attempts[i]) => ~(Fingerprint(live.attempts[i].plan) = Fingerprint(plan))
        BY <1>live, <1>fates DEF Admit, RetryRefused
  <2>4. live.attempts[i].plan = fates[i].plan
        BY DEF OnePlan, Attempts
  <2>5. Fingerprint(fates[i].plan) = Fingerprint(plan)
        BY <2>1 DEF SamePlan, Fingerprint
  <2>6. ~Refuted(live.attempts[i])
        BY <2>3, <2>4, <2>5
  <2>7. ~(\E claim \in Claims(fates[i].plan, fates[i].run, ErrorsOf(fates[i])) : claim.verdict = "refuted")
        BY <2>2, <2>6 DEF Recorded, Refuted
  <2>8. fates[i].plan \in Plans /\ fates[i].run \in [DOMAIN fates[i].plan -> Outcomes] /\ Rooted(fates[i].run)
    <3>1. fates[i].plan \in Plans /\ fates[i].run \in Seq(Outcomes)
          BY FatesTyped DEF TypeOK
    <3> QED
        BY <3>1 DEF OnePlan
  <2>9. ~fates[i].refused
        BY <2>7, GateIsRefuted DEF ErrorsOf
  <2>10. \A j \in DOMAIN fates[i].plan : fates[i].run[j] # "raised"
        BY <2>7, <2>8, RaisedIsRefuted DEF ErrorsOf
  <2> QED
      BY <2>8, <2>9, <2>10 DEF Disproved
<1>8. Explained' /\ Kept'
      BY <1>0, <1>live, <1>fates, <1>local, <1>rest DEF TypeOK, Turns, Explained, Kept,
         StopExplained, Runs, Working, Callers
<1> QED
    BY <1>3, <1>4, <1>5, <1>6, <1>7, <1>8

(* A caller that has the last attempt's run in hand is the only one.       *)
LEMMA InTurn ==
  ASSUME IInv, NEW c \in Callers, Runs(c)
  PROVE  /\ Latest \in Nat /\ Latest # 0 /\ DOMAIN fates = 1 .. Latest /\ fates \in Fates
         /\ fates[Latest].plan \in Plans /\ fates[Latest].run \in [DOMAIN fates[Latest].plan -> Outcomes]
         /\ Rooted(fates[Latest].run)
         /\ local[c] \in Calls
         /\ local[c].plan = fates[Latest].plan /\ local[c].run = fates[Latest].run
         /\ local[c].attempt \in {0, Latest} /\ Ran(local[c].run)
         /\ row.status \in {"running", "cancelled"}
         /\ c = "driver" => at["resumer"] = "idle"
         /\ c = "resumer" => at["driver"] \in {"outcome", "persist", "done"} /\ resumes # 0
<1> USE DEF IInv
<1>1. /\ Latest # 0 /\ local[c].plan = fates[Latest].plan /\ local[c].run = fates[Latest].run
      /\ local[c].attempt \in {0, Latest} /\ Ran(local[c].run)
      BY DEF InHand, Callers
<1>2. Latest \in Nat /\ DOMAIN fates = 1 .. Latest /\ fates \in Fates
      BY FatesTyped DEF TypeOK, Latest
<1>3. /\ fates[Latest].plan \in Plans /\ fates[Latest].run \in Seq(Outcomes)
      /\ DOMAIN fates[Latest].run = DOMAIN fates[Latest].plan /\ Rooted(fates[Latest].run)
  <2>1. Latest \in DOMAIN fates
        BY <1>1, <1>2
  <2> QED
      BY <1>2, <2>1, FatesTyped DEF OnePlan
<1>4. fates[Latest].run \in [DOMAIN fates[Latest].plan -> Outcomes]
      BY <1>3
<1>5. /\ row.status \in {"running", "cancelled"} /\ (c = "driver" => at["resumer"] = "idle")
      /\ c = "resumer" => at["driver"] \in {"outcome", "persist", "done"} /\ resumes # 0
      BY DEF Turns, Explained, Runs, Working, Callers, TypeOK
<1>6. local[c] \in Calls
      BY DEF TypeOK
<1> QED
    BY <1>1, <1>2, <1>3, <1>4, <1>5, <1>6

(* What the last attempt comes to repeats no approach.                     *)
LEMMA NoneRepeated ==
  ASSUME NoApproachRepeated, early' = early, NEW last \in Nat,
         DOMAIN fates = 1 .. last, DOMAIN fates' = 1 .. last,
         \A k \in 1 .. last : k # last => fates'[k] = fates[k],
         fates'[last].plan = fates[last].plan
  PROVE  NoApproachRepeated'
<1>1. SUFFICES ASSUME TRUE \notin early, NEW i \in 1 .. last, NEW j \in 1 .. last,
                      i < j, SamePlan(fates'[i].plan, fates'[j].plan)
               PROVE  ~Disproved(fates'[i])
      BY DEF NoApproachRepeated, SamePlan, Disproved
<1>2. fates'[i] = fates[i] /\ fates'[j].plan = fates[j].plan
      BY <1>1
<1> QED
    BY <1>1, <1>2 DEF NoApproachRepeated

(* The graph runs.                                                         *)
LEMMA ExecuteKeeps ==
  ASSUME IInv, NEW c \in Callers, Execute(c)
  PROVE  IInv'
<1> USE DEF IInv
<1>c. c \in {"driver", "resumer"}
      BY DEF Callers
<1>0. at[c] = "run" /\ Runs(c) /\ local[c].plan # <<>> /\ Unrecorded(Latest)
      BY <1>c DEF Execute, Runs, Working, InHand
<1>1. PICK last : last = Latest
      OBVIOUS
<1>2. PICK plan : plan = local[c].plan
      OBVIOUS
<1>t. /\ last \in Nat /\ last # 0 /\ DOMAIN fates = 1 .. last /\ fates \in Fates
      /\ fates[last].plan = plan /\ plan \in Plans
      /\ fates[last].run \in [DOMAIN plan -> Outcomes] /\ Rooted(fates[last].run)
      /\ local[c] \in Calls /\ local[c].plan = plan /\ local[c].run = fates[last].run
      /\ local[c].attempt \in {0, last} /\ Ran(local[c].run)
      /\ row.status \in {"running", "cancelled"}
      /\ c = "driver" => at["resumer"] = "idle"
      /\ c = "resumer" => at["driver"] \in {"outcome", "persist", "done"} /\ resumes # 0
      BY <1>0, <1>1, <1>2, InTurn
<1>3. PICK run \in Executions(plan, local[c].run, IF c = "driver" THEN None ELSE answer.approved, Stopped(c)) :
       /\ local' = IF Pauses(run) \/ Stopped(c) THEN [local EXCEPT ![c] = NoCall]
                   ELSE [local EXCEPT ![c].run = run]
       /\ thread' = IF Stopped(c) THEN thread ELSE run
       /\ fates' = [fates EXCEPT ![Len(fates)].run = run]
       /\ row' = IF Pauses(run) THEN [row EXCEPT !.status = "awaiting_approval"] ELSE row
       /\ context' = IF Stopped(c) /\ ~Pauses(run) THEN None ELSE context
       /\ IF Pauses(run) \/ Stopped(c) THEN Return(c)
          ELSE Go(c, IF c = "driver" THEN "gate" ELSE "settle")
      BY <1>2 DEF Execute
<1>u. UNCHANGED <<live, held, flagged, tries, prior, task, resumes, answer, early, lost>>
      BY DEF Execute
<1>run. /\ run \in Seq(Outcomes) /\ DOMAIN run = DOMAIN plan /\ Rooted(run)
        /\ (Stopped(c) => ~Pauses(run)) /\ (~Stopped(c) => Ran(run))
  <2>1. DOMAIN local[c].run = DOMAIN plan
        BY <1>t
  <2>2. run \in [DOMAIN plan -> Outcomes]
        BY <1>t, RunsOn
  <2>3. run \in Seq(Outcomes)
        BY <1>t, <2>2, RunTyped
  <2>4. Stopped(c) => ~Pauses(run)
        BY <1>t, RunsOn
  <2>5. ~Stopped(c) => Ran(run)
        BY <1>t, <2>1, RunsOn
  <2>6. Rooted(run)
        BY <1>t, <2>1, RunsOn
  <2> QED
      BY <2>2, <2>3, <2>4, <2>5, <2>6
<1>fates. /\ fates' \in Fates /\ Latest' = last /\ DOMAIN fates' = 1 .. last
          /\ \A k \in 1 .. last : k # last => fates'[k] = fates[k]
          /\ fates'[last].plan = plan /\ fates'[last].run = run
          /\ fates'[last].refused = fates[last].refused
  <2>1. fates' = [fates EXCEPT ![Len(fates)].run = run] /\ Len(fates) = last
        BY <1>1, <1>3 DEF Latest
  <2>2. /\ fates' \in Fates /\ Len(fates') = Len(fates)
        /\ \A k \in DOMAIN fates : k # Len(fates) => fates'[k] = fates[k]
        /\ fates'[Len(fates)] = [plan |-> fates[Len(fates)].plan, run |-> run,
                                 refused |-> fates[Len(fates)].refused]
    <3> HIDE DEF IInv
    <3>1. Len(fates) # 0 /\ fates \in Fates /\ run \in Seq(Outcomes)
          BY <1>t, <1>run, <2>1
    <3> QED
        BY <2>1, <3>1, FatesRun, Zenon
  <2>3. DOMAIN fates' = 1 .. Len(fates')
        BY <2>2, FatesTyped
  <2> QED
      BY <1>t, <2>1, <2>2, <2>3 DEF Latest
<1>said. /\ Attempts(live)' /\ Unrecorded(last)'
         /\ \A k \in 1 .. last : k # last => (Recorded(k)' <=> Recorded(k))
  <2>1. live' = live
        BY <1>u
  <2>2. \A k \in 1 .. last : fates'[k].plan = fates[k].plan
        BY <1>t, <1>fates
  <2>3. Attempts(live)'
        BY <1>1, <1>t, <1>fates, <2>1, <2>2 DEF OnePlan, Attempts, Latest
  <2>4. Unrecorded(last)'
        BY <1>0, <1>1, <1>fates, <2>1 DEF Unrecorded
  <2>5. \A k \in 1 .. last : k # last => (Recorded(k)' <=> Recorded(k))
        BY <1>fates, <2>1 DEF Recorded, ErrorsOf
  <2> QED
      BY <2>3, <2>4, <2>5
<1>at. /\ at' \in [Callers -> Places] /\ \A d \in Callers : d # c => at'[d] = at[d]
       /\ at'[c] = IF ~Pauses(run) /\ ~Stopped(c) THEN IF c = "driver" THEN "gate" ELSE "settle"
                  ELSE IF c = "driver" THEN "outcome" ELSE "idle"
      BY <1>c, <1>3 DEF TypeOK, Go, Return, Callers, Places
<1>local. /\ local' \in [Callers -> Calls] /\ \A d \in Callers : d # c => local'[d] = local[d]
          /\ ~Pauses(run) /\ ~Stopped(c) =>
               /\ local'[c].plan = plan /\ local'[c].run = run
               /\ local'[c].attempt = local[c].attempt /\ local'[c].resumed = local[c].resumed
  <2>1. CASE ~Pauses(run) /\ ~Stopped(c)
    <3> DEFINE call == [local[c] EXCEPT !.run = run]
    <3>1. local' = [local EXCEPT ![c] = call]
          BY <1>3, <2>1
    <3>2. call \in Calls
          BY <1>t, <1>run, CallsKeep
    <3>3. /\ call.plan = plan /\ call.run = run
          /\ call.attempt = local[c].attempt /\ call.resumed = local[c].resumed
          BY <1>t DEF Calls
    <3> HIDE DEF call
    <3> QED
        BY <3>1, <3>2, <3>3 DEF TypeOK
  <2>2. CASE Pauses(run) \/ Stopped(c)
        BY <1>3, <2>2, CallsKeep DEF TypeOK
  <2> QED
      BY <2>1, <2>2
<1>row. /\ row'.status = (IF Pauses(run) THEN "awaiting_approval" ELSE row.status)
        /\ row'.plan = row.plan /\ row'.ledger = row.ledger /\ row'.blocker = row.blocker
        /\ row'.errors = row.errors
        /\ row' \in [status : Terminal \cup {"pending", "planning", "running", "awaiting_approval"},
                     ledger : Ledgers \cup {None}, plan : Plans \cup {<<>>}, errors : Faults,
                     blocker : Nat \cup {None}]
      BY <1>3 DEF TypeOK
<1>rest. /\ thread' = (IF Stopped(c) THEN thread ELSE run)
         /\ context' = (IF Stopped(c) /\ ~Pauses(run) THEN None ELSE context)
      BY <1>3
<1>3a. TypeOK'
      BY <1>u, <1>fates, <1>at, <1>local, <1>row, <1>rest DEF TypeOK
<1>4. Turns' /\ CompletedAtRest'
      BY <1>c, <1>u, <1>t, <1>at, <1>row DEF Turns, CompletedAtRest, Runs, Working, Callers
<1>5. Paused'
      BY <1>c, <1>t, <1>at, <1>row, <1>rest, <1>run, <1>fates, <1>said DEF Paused, Callers
<1>6. OnePlan' /\ ClaimsTrue'
  <2>1. \A k \in 1 .. last : DOMAIN fates'[k].run = DOMAIN fates'[k].plan /\ Rooted(fates'[k].run)
        BY <1>t, <1>run, <1>fates DEF OnePlan
  <2>2. row'.plan = plan /\ (context' # None => context' = context)
        BY <1>1, <1>t, <1>row, <1>rest DEF OnePlan
  <2>3. OnePlan'
        BY <1>1, <1>t, <1>u, <1>fates, <1>said, <2>1, <2>2 DEF OnePlan
  <2>4. ClaimsTrue'
        BY <1>t, <1>u, <1>fates, <1>said DEF ClaimsTrue, Unrecorded
  <2> QED
      BY <2>3, <2>4
<1>7. InHand("driver")' /\ InHand("resumer")'
  <2> SUFFICES ASSUME NEW d \in Callers PROVE InHand(d)'
      BY DEF Callers
  <2>1. CASE d # c
        BY <1>c, <1>t, <1>at, <2>1 DEF InHand, Runs, Working, Callers
  <2>2. CASE d = c
    <3>1. SUFFICES ASSUME Runs(c)' PROVE InHand(c)'
          BY <2>2 DEF InHand
    <3>2. ~Pauses(run) /\ ~Stopped(c)
          BY <1>c, <1>at, <3>1 DEF Runs, Working
    <3>3. /\ at'[c] \in {"gate", "settle"} /\ local'[c].plan = plan /\ local'[c].run = run
          /\ local'[c].attempt \in {0, last} /\ local'[c].plan # <<>>
          BY <1>0, <1>2, <1>t, <1>at, <1>local, <3>2
    <3> QED
        BY <1>t, <1>run, <1>fates, <1>said, <3>2, <3>3 DEF InHand
  <2> QED
      BY <2>1, <2>2
<1>8. AllRecorded'
  <2>1. SUFFICES ASSUME TRUE \notin early, Moving' PROVE AllRecorded'
        BY <1>u DEF AllRecorded
  <2>2. Moving
        BY <1>c, <1>0, <1>at, <2>1 DEF Moving, Callers
  <2>3. /\ local[c].attempt = last /\ (c = "resumer" => ~answer.elsewhere) /\ (flagged \/ NowKnown)
        /\ \A k \in 1 .. last : k # last => Recorded(k)
        BY <1>c, <1>0, <1>1, <1>t, <2>1, <2>2 DEF AllRecorded
  <2>4. ~Stopped(c) => NowKnown
        BY <1>c, <2>3, Zenon DEF Stopped, Here
  <2>5. Pauses(run) => NowKnown'
        BY <1>1, <1>run, <1>fates, <1>rest, <2>4 DEF NowKnown
  <2>6. \A k \in 1 .. last : k # last => Recorded(k)'
        BY <1>said, <2>3
  <2>7. \A d \in Callers : Runs(d)' => d = c /\ local'[c].attempt = last
        BY <1>c, <1>t, <1>at, <1>local, <2>3 DEF Runs, Working, Callers
  <2>8. /\ row'.status # "failed" /\ (row'.status = "awaiting_approval" => Pauses(run))
        /\ at'["driver"] \notin {"run", "start", "plan", "block"} /\ at'["resumer"] # "run"
        BY <1>c, <1>t, <1>at, <1>row DEF Callers
  <2> QED
      BY <1>u, <1>fates, <2>3, <2>5, <2>6, <2>7, <2>8 DEF AllRecorded, Callers
<1>9. NoApproachRepeated'
      BY <1>t, <1>u, <1>fates, NoneRepeated
<1>10. Explained'
      BY <1>c, <1>0, <1>t, <1>u, <1>at, <1>row DEF Explained, StopExplained, Callers
<1>11. Kept'
  <2>1. \A l : Attempts(l) => Attempts(l)'
        BY <1>1, <1>t, <1>fates DEF Attempts, Latest
  <2>2. Attempts(row.ledger) => Attempts(row.ledger)'
        BY <1>1, <1>t, <1>fates, <1>row DEF Attempts, Latest
  <2>3. at'["resumer"] \in {"settle", "idle"}
        BY <1>c, <1>t, <1>at DEF Callers
  <2>4. Runs("resumer")' => c = "resumer"
        BY <1>c, <1>t, <1>at DEF Callers, Runs, Working
  <2>5. Runs("driver")' => c = "driver" /\ ~local'["driver"].resumed
        BY <1>c, <1>0, <1>t, <1>at, <1>local DEF Callers, Runs, Working, Kept
  <2>6. at'["driver"] = "done" => at["driver"] = "done"
        BY <1>c, <1>t, <1>at DEF Callers
  <2>7. c = "resumer" => at'["driver"] = at["driver"]
        BY <1>at DEF Callers
  <2> QED
      BY <1>0, <1>u, <2>2, <2>3, <2>4, <2>5, <2>6, <2>7 DEF Kept
<1> QED
    BY <1>3a, <1>4, <1>5, <1>6, <1>7, <1>8, <1>9, <1>10, <1>11

(* The gate judges, and the outcome is recorded.                           *)
LEMMA JudgeKeeps ==
  ASSUME IInv, NEW c \in Callers, Judge(c)
  PROVE  IInv'
<1> USE DEF IInv
<1>c. c \in {"driver", "resumer"}
      BY DEF Callers
<1>0. /\ at[c] = "gate" /\ Runs(c) /\ local[c].plan # <<>> /\ Unrecorded(Latest)
      /\ ~Pauses(local[c].run)
      BY <1>c DEF Judge, Runs, Working, InHand
<1>1. PICK last : last = Latest
      OBVIOUS
<1>2. PICK plan, run : plan = local[c].plan /\ run = local[c].run
      OBVIOUS
<1>t. /\ last \in Nat /\ last # 0 /\ DOMAIN fates = 1 .. last /\ fates \in Fates
      /\ fates[last].plan = plan /\ plan \in Plans /\ fates[last].run = run
      /\ run \in [DOMAIN plan -> Outcomes] /\ Rooted(run)
      /\ local[c] \in Calls /\ local[c].plan = plan /\ local[c].run = run
      /\ local[c].attempt \in {0, last} /\ Ran(run)
      /\ row.status \in {"running", "cancelled"}
      /\ c = "driver" => at["resumer"] = "idle"
      /\ c = "resumer" => at["driver"] \in {"outcome", "persist", "done"} /\ resumes # 0
      BY <1>0, <1>1, <1>2, InTurn
<1> DEFINE failed == Errors(plan, run)
<1>3. PICK verdict \in IF failed = {} THEN GateVerdicts(run, task.reviewer) ELSE {None} :
        LET refused == verdict = FALSE
            errors == IF refused THEN failed \cup {GateError} ELSE failed
            Verify(ledger) == [ledger EXCEPT !.verification = IF verdict = None THEN @ ELSE verdict]
            mine == IF local[c].resumed THEN live ELSE Verify(live)
        IN /\ local' = [local EXCEPT ![c].errors = errors, ![c].ledger = IF local[c].resumed THEN Verify(@) ELSE @]
           /\ live' = IF local[c].attempt = 0 THEN mine
                      ELSE RecordOutcome(mine, local[c].attempt, run, errors)
           /\ fates' = [fates EXCEPT ![Len(fates)].refused = refused]
      BY <1>2 DEF Judge
<1>v. /\ verdict \in BOOLEAN \cup {None}
      /\ verdict # FALSE /\ failed = {} => ~MachineRefutes(run)
  <2>1. CASE failed = {}
        BY <2>1, <1>3, Zenon DEF GateVerdicts
  <2>2. CASE failed # {}
        BY <2>2, <1>3
  <2> QED
      BY <2>1, <2>2
<1>4. PICK refused \in BOOLEAN : refused = (verdict = FALSE)
  <2>1. CASE verdict = FALSE
        BY <2>1, Zenon
  <2>2. CASE verdict # FALSE
        BY <2>2, Zenon
  <2> QED
      BY <2>1, <2>2
<1>5. PICK errors : errors = IF refused THEN failed \cup {GateError} ELSE failed
      OBVIOUS
<1>u. UNCHANGED <<row, held, context, flagged, thread, tries, prior, task, resumes, answer, early, lost>>
      BY DEF Judge
<1>errors. /\ errors \in Faults /\ (errors = {} => ~refused /\ failed = {} /\ ~MachineRefutes(run))
           /\ errors = Errors(plan, run) \cup (IF refused THEN {GateError} ELSE {})
  <2>1. errors \in Faults
        BY <1>t, <1>5, FaultsTyped
  <2>2. errors = {} => ~refused /\ failed = {}
        BY <1>5
  <2> QED
      BY <1>v, <1>4, <1>5, <2>1, <2>2
<1> HIDE DEF failed
<1>fates. /\ fates' \in Fates /\ Latest' = last /\ DOMAIN fates' = 1 .. last
          /\ \A k \in 1 .. last : k # last => fates'[k] = fates[k]
          /\ fates'[last].plan = plan /\ fates'[last].run = run /\ fates'[last].refused = refused
  <2>1. fates' = [fates EXCEPT ![Len(fates)].refused = refused] /\ Len(fates) = last
        BY <1>1, <1>3, <1>4, Zenon DEF Latest
  <2>2. /\ fates' \in Fates /\ Len(fates') = Len(fates)
        /\ \A k \in DOMAIN fates : k # Len(fates) => fates'[k] = fates[k]
        /\ fates'[Len(fates)] = [plan |-> fates[Len(fates)].plan, run |-> fates[Len(fates)].run,
                                 refused |-> refused]
    <3> HIDE DEF IInv
    <3>1. Len(fates) # 0 /\ fates \in Fates
          BY <1>t, <2>1
    <3>2. fates' = [fates EXCEPT ![Len(fates)].refused = refused]
          BY <2>1
    <3>3. \A b \in BOOLEAN : \A next : next = [fates EXCEPT ![Len(fates)].refused = b] =>
            /\ next \in Fates /\ Len(next) = Len(fates)
            /\ \A k \in DOMAIN fates : k # Len(fates) => next[k] = fates[k]
            /\ next[Len(fates)] = [plan |-> fates[Len(fates)].plan, run |-> fates[Len(fates)].run,
                                   refused |-> b]
          BY <3>1, FatesRefused, Zenon
    <3>4. refused \in BOOLEAN
          OBVIOUS
    <3> QED
        BY <3>2, <3>3, <3>4, Zenon
  <2>3. DOMAIN fates' = 1 .. Len(fates')
        BY <2>2, FatesTyped
  <2> QED
      BY <1>t, <2>1, <2>2, <2>3 DEF Latest
<1>told. ErrorsOf(fates'[last]) = errors
      BY <1>fates, <1>errors DEF ErrorsOf
<1>noted. \A ledger \in Ledgers :
            /\ [ledger EXCEPT !.verification = IF verdict = None THEN @ ELSE verdict] \in Ledgers
            /\ [ledger EXCEPT !.verification = IF verdict = None THEN @ ELSE verdict].attempts = ledger.attempts
  <2> SUFFICES ASSUME NEW ledger \in Ledgers
               PROVE  /\ [ledger EXCEPT !.verification = IF verdict = None THEN @ ELSE verdict] \in Ledgers
                      /\ [ledger EXCEPT !.verification = IF verdict = None THEN @ ELSE verdict].attempts = ledger.attempts
      OBVIOUS
  <2>1. ledger.verification \in BOOLEAN \cup {None}
        BY DEF Ledgers
  <2>2. PICK v : v = IF verdict = None THEN ledger.verification ELSE verdict
        OBVIOUS
  <2>3. v \in BOOLEAN \cup {None}
        BY <1>v, <2>1, <2>2
  <2>4. [ledger EXCEPT !.verification = IF verdict = None THEN @ ELSE verdict] = [ledger EXCEPT !.verification = v]
        BY <2>2
  <2>5. None \in Causes
        BY DEF Causes
  <2> QED
      BY <2>3, <2>4, <2>5, NotesKeep
<1>mine. PICK mine \in Ledgers :
           /\ mine.attempts = live.attempts
           /\ live' = IF local[c].attempt = 0 THEN mine
                      ELSE RecordOutcome(mine, local[c].attempt, run, errors)
  <2>1. live \in Ledgers
        BY DEF TypeOK
  <2> DEFINE noted == [live EXCEPT !.verification = IF verdict = None THEN @ ELSE verdict]
  <2>2. noted \in Ledgers /\ noted.attempts = live.attempts
        BY <1>noted, <2>1
  <2>3. live' = IF local[c].attempt = 0 THEN IF local[c].resumed THEN live ELSE noted
                ELSE RecordOutcome(IF local[c].resumed THEN live ELSE noted, local[c].attempt, run, errors)
        BY <1>3, <1>4, <1>5, Zenon
  <2> HIDE DEF noted
  <2>4. CASE local[c].resumed
        BY <2>1, <2>3, <2>4
  <2>5. CASE ~local[c].resumed
        BY <2>2, <2>3, <2>5
  <2> QED
      BY <2>4, <2>5
<1>old. /\ Len(live.attempts) = last /\ last \in 1 .. Len(live.attempts)
        /\ \A k \in 1 .. last : live.attempts[k].plan = fates[k].plan
        /\ live.attempts[last].claims = {}
      BY <1>0, <1>1, <1>t DEF OnePlan, Attempts, Unrecorded, Latest
<1>live. /\ live' \in Ledgers /\ Len(live'.attempts) = last
         /\ \A k \in 1 .. last : /\ live'.attempts[k].plan = live.attempts[k].plan
                                 /\ k # last => live'.attempts[k].claims = live.attempts[k].claims
         /\ local[c].attempt = last => live'.attempts[last].claims = Claims(plan, run, errors)
         /\ local[c].attempt = 0 => live'.attempts[last].claims = {}
  <2>1. CASE local[c].attempt = 0
        BY <1>t, <1>mine, <1>old, <2>1
  <2>2. CASE local[c].attempt = last
    <3>1. live' = RecordOutcome(mine, last, run, errors) /\ last \in 1 .. Len(mine.attempts)
          BY <1>t, <1>mine, <1>old, <2>2
    <3>2. /\ live' \in Ledgers /\ Len(live'.attempts) = Len(mine.attempts)
          /\ \A j \in 1 .. Len(mine.attempts) :
               /\ live'.attempts[j].plan = mine.attempts[j].plan
               /\ j # last => live'.attempts[j].claims = mine.attempts[j].claims
          /\ live'.attempts[last].claims =
               mine.attempts[last].claims \cup Claims(mine.attempts[last].plan, run, errors)
          BY <1>mine, <3>1, RecordKeeps
    <3>3. mine.attempts[last].claims = {} /\ mine.attempts[last].plan = plan
          BY <1>t, <1>mine, <1>old
    <3> QED
        BY <1>t, <1>mine, <1>old, <2>2, <3>2, <3>3
  <2> QED
      BY <1>t, <2>1, <2>2
<1>said. /\ Attempts(live)'
         /\ \A k \in 1 .. last : k # last => (Recorded(k)' <=> Recorded(k))
         /\ local[c].attempt = last => Recorded(last)'
         /\ local[c].attempt = 0 => live'.attempts[last].claims = {}
  <2>1. \A k \in 1 .. last : fates'[k].plan = fates[k].plan
        BY <1>t, <1>fates
  <2>2. Attempts(live)'
        BY <1>fates, <1>live, <1>old, <2>1 DEF Attempts, Latest
  <2>3. \A k \in 1 .. last : k # last => (Recorded(k)' <=> Recorded(k))
        BY <1>fates, <1>live DEF Recorded, ErrorsOf
  <2>4. local[c].attempt = last => Recorded(last)'
    <3>1. Recorded(last)' <=> live'.attempts[last].claims =
                                Claims(fates'[last].plan, fates'[last].run, ErrorsOf(fates'[last]))
          BY DEF Recorded, ErrorsOf
    <3> QED
        BY <1>fates, <1>live, <1>told, <3>1
  <2> QED
      BY <1>live, <2>2, <2>3, <2>4
<1>at. /\ at' \in [Callers -> Places] /\ (\A d \in Callers : d # c => at'[d] = at[d])
       /\ at'[c] = "write"
      BY <1>c DEF Judge, TypeOK, Go, Places
<1>local. /\ local' \in [Callers -> Calls] /\ (\A d \in Callers : d # c => local'[d] = local[d])
          /\ local'[c].plan = plan /\ local'[c].run = run /\ local'[c].errors = errors
          /\ local'[c].attempt = local[c].attempt /\ local'[c].resumed = local[c].resumed
          /\ local[c].resumed => local'[c].ledger \in Ledgers /\ local'[c].ledger.attempts = local[c].ledger.attempts
  <2> DEFINE taken == IF local[c].resumed
                      THEN [local[c].ledger EXCEPT !.verification = IF verdict = None THEN @ ELSE verdict]
                      ELSE local[c].ledger
             call == [local[c] EXCEPT !.errors = errors, !.ledger = taken]
  <2>1. local' = [local EXCEPT ![c] = call]
        BY <1>3, <1>4, <1>5, Zenon
  <2>2. local[c].ledger \in Ledgers \cup {None} /\ (local[c].resumed => local[c].ledger \in Ledgers)
        BY <1>c, <1>0, <1>t, CallsKeep DEF Kept
  <2>3. /\ taken \in Ledgers \cup {None}
        /\ local[c].resumed => taken \in Ledgers /\ taken.attempts = local[c].ledger.attempts
        BY <1>noted, <2>2
  <2> HIDE DEF taken
  <2>4. call \in Calls
        BY <1>t, <1>errors, <2>3, CallsKeep
  <2>5. /\ call.plan = plan /\ call.run = run /\ call.errors = errors /\ call.ledger = taken
        /\ call.attempt = local[c].attempt /\ call.resumed = local[c].resumed
        BY <1>t DEF Calls
  <2> HIDE DEF call
  <2> QED
      BY <2>1, <2>3, <2>4, <2>5 DEF TypeOK
<1>6. TypeOK'
      BY <1>u, <1>fates, <1>live, <1>at, <1>local DEF TypeOK
<1>7. Turns' /\ CompletedAtRest' /\ Paused'
      BY <1>c, <1>0, <1>u, <1>t, <1>at DEF Turns, CompletedAtRest, Paused, Runs, Working, Callers
<1>8. OnePlan' /\ ClaimsTrue'
  <2>1. \A k \in 1 .. last : DOMAIN fates'[k].run = DOMAIN fates'[k].plan /\ Rooted(fates'[k].run)
        BY <1>t, <1>fates DEF OnePlan
  <2>2. OnePlan'
        BY <1>1, <1>t, <1>u, <1>fates, <1>said, <2>1 DEF OnePlan
  <2>3. ClaimsTrue'
    <3> SUFFICES ASSUME NEW k \in 1 .. last PROVE Recorded(k)' \/ live'.attempts[k].claims = {}
        BY <1>fates DEF ClaimsTrue
    <3>1. CASE k # last
          BY <1>t, <1>live, <1>said, <3>1 DEF ClaimsTrue
    <3>2. CASE k = last
          BY <1>t, <1>said, <3>2
    <3> QED
        BY <3>1, <3>2
  <2> QED
      BY <2>2, <2>3
<1>9. InHand("driver")' /\ InHand("resumer")'
  <2> SUFFICES ASSUME NEW d \in Callers PROVE InHand(d)'
      BY DEF Callers
  <2>1. CASE d # c
        BY <1>c, <1>t, <1>at, <2>1 DEF InHand, Runs, Working, Callers
  <2>2. CASE d = c
    <3>1. ErrorsOf(fates[Latest])' = errors
          BY <1>fates, <1>told DEF ErrorsOf
    <3>2. MachineRefutes(local[c].run)' <=> MachineRefutes(run)
          BY <1>local DEF MachineRefutes
    <3>3. local[c].attempt = last => Recorded(Latest)'
          BY <1>fates, <1>said DEF Recorded, ErrorsOf
    <3>4. /\ Latest' # 0 /\ local'[c].plan = fates'[Latest'].plan
          /\ local'[c].run = fates'[Latest'].run /\ local'[c].attempt \in {0, Latest'}
          /\ Ran(local[c].run)' /\ local'[c].plan # <<>> /\ ~Pauses(local[c].run)'
          BY <1>0, <1>2, <1>t, <1>fates, <1>local DEF Ran, Pauses
    <3>5. /\ local'[c].errors = ErrorsOf(fates[Latest])'
          /\ local'[c].errors = {} => ~MachineRefutes(local[c].run)'
          /\ local'[c].attempt = Latest' => Recorded(Latest)'
          BY <1>errors, <1>fates, <1>local, <3>1, <3>2, <3>3
    <3> QED
        BY <1>at, <2>2, <3>4, <3>5 DEF InHand
  <2> QED
      BY <2>1, <2>2
<1>10. AllRecorded'
  <2>1. SUFFICES ASSUME TRUE \notin early, Moving' PROVE AllRecorded'
        BY <1>u DEF AllRecorded
  <2>2. Moving
        BY <1>c, <1>0, <1>at, <2>1 DEF Moving, Callers
  <2>3. /\ local[c].attempt = last /\ (c = "resumer" => ~answer.elsewhere)
        /\ \A k \in 1 .. last : k # last => Recorded(k)
        BY <1>c, <1>0, <1>1, <1>t, <2>1, <2>2 DEF AllRecorded
  <2>4. \A k \in 1 .. last : k # last => Recorded(k)'
        BY <1>said, <2>3
  <2>5. \A d \in Callers : Runs(d)' => d = c /\ local'[c].attempt = last
        BY <1>c, <1>t, <1>at, <1>local, <2>3 DEF Runs, Working, Callers
  <2>6. /\ row'.status \in {"running", "cancelled"}
        /\ at'["driver"] \notin {"run", "start", "plan", "block"} /\ at'["resumer"] # "run"
        BY <1>c, <1>t, <1>u, <1>at DEF Callers
  <2> QED
      BY <1>u, <1>fates, <2>3, <2>4, <2>5, <2>6 DEF AllRecorded, Callers
<1>11. NoApproachRepeated'
      BY <1>t, <1>u, <1>fates, NoneRepeated
<1>12. Explained'
      BY <1>c, <1>0, <1>t, <1>u, <1>at DEF Explained, StopExplained, Callers
<1>13. Kept'
  <2>1. \A k \in 1 .. last : fates'[k].plan = fates[k].plan
        BY <1>t, <1>fates
  <2>2. Attempts(row.ledger) => Attempts(row.ledger)'
        BY <1>1, <1>t, <1>fates, <1>u, <2>1 DEF Attempts, Latest
  <2>3. CASE c = "driver"
    <3>1. at'["driver"] = "write" /\ at'["resumer"] = "idle" /\ ~local'["driver"].resumed
          BY <1>0, <1>t, <1>at, <1>local, <2>3 DEF Kept, Callers
    <3> QED
        BY <3>1 DEF Kept, Runs, Working
  <2>4. CASE c = "resumer"
    <3>1. at'["resumer"] = "write" /\ at'["driver"] = at["driver"] /\ at["resumer"] = "gate"
          BY <1>0, <1>t, <1>at, <2>4 DEF Callers
    <3>2. early = {} => /\ local'["resumer"].resumed /\ at["driver"] = "done"
                        /\ (~lost => Attempts(local["resumer"].ledger))
          BY <1>0, <1>local, <2>4, <3>1 DEF Kept
    <3>3. early = {} /\ ~lost => Attempts(local["resumer"].ledger)'
          BY <1>1, <1>t, <1>fates, <1>local, <2>1, <2>4, <3>2 DEF Attempts, Latest
    <3>4. ~Runs("driver")'
          BY <1>t, <2>4, <3>1 DEF Runs, Working
    <3>5. local'["resumer"].resumed => local'["resumer"].ledger \in Ledgers
          BY <1>local, <2>4
    <3> QED
        BY <1>u, <2>2, <3>1, <3>2, <3>3, <3>4, <3>5 DEF Kept
  <2> QED
      BY <1>c, <2>3, <2>4
<1> QED
    BY <1>6, <1>7, <1>8, <1>9, <1>10, <1>11, <1>12, <1>13

-----------------------------------------------------------------------------
(* The theorems.                                                           *)

(* An empty ledger, and nothing done.                                      *)
LEMMA InvInit == Init => IInv
<1> SUFFICES ASSUME Init PROVE IInv
    OBVIOUS
<1>1. EmptyLedger \in Ledgers /\ EmptyLedger.attempts = <<>> /\ NoCall \in Calls /\ {} \in Faults
  <2> DEFINE Attempt == [plan : Plans, claims : SUBSET Verdicts, outcome : {"", "completed", "failed"}]
  <2>1. <<>> \in Seq(Attempt)
        BY EmptySeq
  <2>2. EmptyLedger \in Ledgers
        BY <2>1 DEF EmptyLedger, Ledgers
  <2> QED
      BY <2>2, CallsKeep, FaultsTyped DEF EmptyLedger
<1>2. fates = <<>> /\ fates \in Fates /\ Latest = 0 /\ DOMAIN fates = {}
      BY DEF Init, Latest, Fates
<1>3. task \in [mode : {"execute", "plan_only"}, connector : BOOLEAN, sees : BOOLEAN, reviewer : BOOLEAN]
      BY HarnessAssumption DEF Init
<1>4. TypeOK
  <2>1. row \in [status : Terminal \cup {"pending", "planning", "running", "awaiting_approval"},
                 ledger : Ledgers \cup {None}, plan : Plans \cup {<<>>}, errors : Faults,
                 blocker : Nat \cup {None}]
        BY <1>1 DEF Init
  <2>2. at \in [Callers -> Places] /\ local \in [Callers -> Calls]
        BY <1>1 DEF Init, Callers, Places
  <2>3. answer \in [approved : {None, "yes", "no"}, elsewhere : BOOLEAN]
        BY DEF Init
  <2>4. live \in Ledgers /\ held \in BOOLEAN /\ context = None /\ flagged \in BOOLEAN
        BY <1>1 DEF Init
  <2>5. tries \in Nat /\ resumes \in Nat /\ early \in SUBSET BOOLEAN /\ lost \in BOOLEAN
        BY DEF Init
  <2> QED
      BY <1>2, <1>3, <2>1, <2>2, <2>3, <2>4, <2>5 DEF TypeOK
<1>5. Turns /\ OnePlan /\ InHand("driver") /\ InHand("resumer") /\ Paused /\ ClaimsTrue
      BY <1>1, <1>2 DEF Init, Turns, OnePlan, Attempts, InHand, Paused, ClaimsTrue, Runs, Working, Callers
<1>6. AllRecorded /\ NoApproachRepeated /\ CompletedAtRest /\ Explained /\ Kept
      BY <1>1, <1>2 DEF Init, AllRecorded, NoApproachRepeated, CompletedAtRest, Explained,
         StopExplained, Kept, Runs, Working, Callers
<1> QED
    BY <1>4, <1>5, <1>6 DEF IInv

(* Every step keeps the invariant.                                         *)
LEMMA InvNext == IInv /\ [Next]_vars => IInv'
<1> SUFFICES ASSUME IInv, [Next]_vars PROVE IInv'
    OBVIOUS
<1>1. CASE StartAttempt
      BY <1>1, StartAttemptKeeps
<1>2. CASE PlanningFails
      BY <1>2, PlanningFailsKeeps
<1>3. ASSUME NEW plan \in Plans, DeliverPlan(plan) PROVE IInv'
      BY <1>3, DeliverPlanKeeps
<1>4. ASSUME NEW plan \in Plans, RefuseRetry(plan) PROVE IInv'
      BY <1>4, RefuseRetryKeeps
<1>5. ASSUME NEW plan \in Plans, Admit(plan) PROVE IInv'
      BY <1>5, AdmitKeeps
<1>6. CASE NoEntrypoint
      BY <1>6, NoEntrypointKeeps
<1>7. ASSUME NEW c \in Callers, Run(c) PROVE IInv'
      BY <1>7, ExecuteKeeps, ReadRowKeeps, TakeLedgerKeeps, JudgeKeeps, WriteRowKeeps DEF Run
<1>8. CASE Rest
      BY <1>8, RestKeeps
<1>9. CASE GiveUp
      BY <1>9, GiveUpKeeps
<1>10. CASE Replan
      BY <1>10, ReplanKeeps
<1>11. CASE Persist
      BY <1>11, PersistKeeps
<1>12. CASE WriteBlocker
      BY <1>12, WriteBlockerKeeps
<1>13. ASSUME NEW yes \in BOOLEAN, NEW elsewhere \in BOOLEAN,
              Resume(IF yes THEN "yes" ELSE "no", elsewhere)
       PROVE  IInv'
  <2>1. (IF yes THEN "yes" ELSE "no") \in {"yes", "no"}
        OBVIOUS
  <2> QED
      BY <1>13, <2>1, ResumeKeeps
<1>14. CASE Cancel
      BY <1>14, CancelKeeps
<1>15. CASE UNCHANGED vars
  <2>1. UNCHANGED <<row, live, held, context, flagged, thread, at, local, tries, prior,
                    task, resumes, answer, fates, early, lost>>
        BY <1>15 DEF vars
  <2>2. TypeOK'
        BY <2>1 DEF IInv, TypeOK
  <2>3. Turns' /\ Paused' /\ CompletedAtRest'
        BY <2>1 DEF IInv, Turns, Paused, CompletedAtRest, Runs, Latest, Unrecorded
  <2>4. OnePlan' /\ ClaimsTrue'
        BY <2>1 DEF IInv, OnePlan, ClaimsTrue, Attempts, Latest, Recorded, ErrorsOf
  <2>5. InHand("driver")' /\ InHand("resumer")'
        BY <2>1 DEF IInv, InHand, Runs, Latest, Recorded, Unrecorded, ErrorsOf
  <2>6. AllRecorded' /\ NoApproachRepeated'
        BY <2>1 DEF IInv, AllRecorded, NoApproachRepeated, Moving, Runs, NowKnown, Latest, Recorded, ErrorsOf
  <2>7. Explained' /\ Kept'
        BY <2>1 DEF IInv, Explained, Kept, StopExplained, Runs, Latest, Attempts
  <2> QED
      BY <2>2, <2>3, <2>4, <2>5, <2>6, <2>7 DEF IInv
<1>16. CASE Drive
  <2>1. "driver" \in Callers
        BY DEF Callers
  <2> QED
      BY <1>1, <1>2, <1>3, <1>4, <1>5, <1>6, <1>7, <1>8, <1>9, <1>10, <1>11, <1>12, <1>16, <2>1
      DEF Drive, Plan
<1>17. CASE Run("resumer")
      BY <1>7, <1>17 DEF Callers
<1> QED
    BY <1>13, <1>14, <1>15, <1>16, <1>17 DEF Next

(* The ledger, the row and the locals keep their shape.                    *)
THEOREM TypeCorrect == Spec => []TypeOK
<1>1. IInv => TypeOK
      BY DEF IInv
<1> QED
    BY <1>1, InvInit, InvNext, PTL DEF Spec

(* A plan that a step of its own or the gate disproved is not run again,   *)
(* while every decision is taken in the driving process: each attempt is   *)
(* recorded before the next plan is asked for (AllRecorded), and a claim   *)
(* of a disproved one is refuted, whatever digits there are in the names   *)
(* of its skills (RaisedIsRefuted).                                        *)
THEOREM ApproachesAreNotRepeated == Spec => []NoApproachRepeated
<1>1. IInv => NoApproachRepeated
      BY DEF IInv
<1> QED
    BY <1>1, InvInit, InvNext, PTL DEF Spec

(* A completed task was verified, whoever settled it: what is settled is   *)
(* the run of the last attempt (InHand), which the gate has seen.          *)
THEOREM CompletionIsVerified == Spec => []CompletedIsVerified
<1>1. IInv => CompletedIsVerified
  <2>1. Latest # 0 => Last(fates) = fates[Latest]
        BY DEF Last, Latest
  <2> QED
      BY <2>1 DEF IInv, CompletedIsVerified, CompletedAtRest, Verified
<1> QED
    BY <1>1, InvInit, InvNext, PTL DEF Spec

(* The claims of the ledger, the cause that it gives for the stop and the  *)
(* attempts that it holds are what happened to the task.                   *)
THEOREM LedgerIsTrue == Spec => []LedgerTrue
<1>1. IInv => VerdictsTrue
  <2> SUFFICES ASSUME IInv, NEW k \in DOMAIN live.attempts,
                      \A i \in DOMAIN fates[k].plan : Digit[fates[k].plan[i].skill] = None,
                      live.attempts[k].claims # {}
               PROVE  /\ (\E claim \in live.attempts[k].claims : claim.step = None) <=>
                           fates[k].refused \/ \E i \in DOMAIN fates[k].run : fates[k].run[i] = "blocked"
                      /\ \A claim \in live.attempts[k].claims : claim.step # None =>
                           LET outcome == fates[k].run[claim.step + 1]
                           IN  /\ claim.verdict = "refuted" <=> outcome \in {"raised", "blocked"}
                               /\ claim.verdict = "confirmed" <=> outcome \in HasResult
      BY DEF VerdictsTrue
  <2>1. k \in DOMAIN fates /\ fates \in Fates
    <3> DEFINE Attempt == [plan : Plans, claims : SUBSET Verdicts, outcome : {"", "completed", "failed"}]
    <3>1. live.attempts \in Seq(Attempt)
          BY DEF IInv, TypeOK, Ledgers
    <3>2. DOMAIN live.attempts = 1 .. Len(live.attempts)
      <4> HIDE DEF Attempt
      <4> QED
          BY <3>1, LenProperties
    <3> QED
        BY <3>2, FatesTyped DEF IInv, TypeOK, OnePlan, Attempts
  <2>2. /\ fates[k].plan \in Plans /\ fates[k].refused \in BOOLEAN
        /\ fates[k].run \in [DOMAIN fates[k].plan -> Outcomes]
        /\ DOMAIN fates[k].run = DOMAIN fates[k].plan
    <3>1. fates[k].plan \in Plans /\ fates[k].refused \in BOOLEAN /\ fates[k].run \in Seq(Outcomes)
          BY <2>1, FatesTyped
    <3> QED
        BY <2>1, <3>1 DEF IInv, OnePlan
  <2>3. live.attempts[k].claims =
          Claims(fates[k].plan, fates[k].run,
                 Errors(fates[k].plan, fates[k].run) \cup (IF fates[k].refused THEN {GateError} ELSE {}))
        BY <2>1 DEF IInv, ClaimsTrue, Recorded, ErrorsOf
  <2> QED
      BY <2>2, <2>3, ClaimsTell, GatesRefute
<1>2. IInv => StopExplained
      BY DEF IInv, Explained
<1>3. IInv => HistoryKept
      BY NoneAssumption DEF IInv, Kept, Attempts, HistoryKept, HistoryOnRow
<1>4. IInv => LedgerTrue
      BY <1>1, <1>2, <1>3 DEF LedgerTrue
<1> QED
    BY <1>4, InvInit, InvNext, PTL DEF Spec
=============================================================================
