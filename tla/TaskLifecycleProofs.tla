-------------------------- MODULE TaskLifecycleProofs --------------------------
(***************************************************************************)
(* Proofs about TaskLifecycle, for any number of steps, requests and       *)
(* re-plans and any number of crashes.                                     *)
(***************************************************************************)
EXTENDS TaskLifecycle, TLAPS, WellFoundedInduction

(* The limits of the driver's loop and of a chain of steps, which the      *)
(* types of `attempts` and `at` rest on.                                   *)
WithinPlan ==
  /\ At(Driver, "new") => attempts <= MaxReplans
  /\ \A d \in Drives : At(d, "asked") \/ At(d, "exec") => drive[d].at < NSteps

(* Until it acts on an answer a call has run nothing; an answer is a yes   *)
(* only if it was granted; and a call that still decides was not.          *)
AnswersGranted ==
  \A d \in Drives :
    /\ At(d, "idle") \/ At(d, "deciding") => ran[d] = 0 /\ d \notin granted
    /\ drive[d].answer = "yes" => d \in granted
    /\ drive[d].answer = "yes" /\ ~At(d, "exec") => ran[d] = 0

IInv == TypeOK /\ WithinPlan /\ AnswersGranted /\ ExecutionsPaid

------------------------------------------------------------------------------

(* The step _paused_index names is one of the plan.                        *)
LEMMA PausedInPlan ==
  ASSUME awaiting \in SUBSET Steps
  PROVE  PausedIndex \in Steps
<1>1. CASE awaiting = {}
      BY <1>1, NStepsAssumption DEF PausedIndex, Steps
<1>2. CASE awaiting # {}
  <2> DEFINE R == {p \in Nat \X Nat : p[1] < p[2]}
  <2>1. awaiting \subseteq Nat
        BY NStepsAssumption DEF Steps
  <2>2. \E s \in awaiting : \A t \in awaiting : ~ (<<t, s>> \in R)
    <3> HIDE DEF R
    <3>1. IsWellFoundedOn(R, Nat)
          BY NatLessThanWellFounded DEF R, OpToRel
    <3> QED
        BY <1>2, <2>1, <3>1, WFMin
  <2>3. \E s \in awaiting : \A t \in awaiting : s <= t
    <3>1. \A s, t \in Nat : t < s => <<t, s>> \in R
          OBVIOUS
    <3> HIDE DEF R
    <3>2. \A s, t \in Nat : ~ (t < s) => s <= t
          OBVIOUS
    <3> QED
        BY <2>1, <2>2, <3>1, <3>2
  <2> QED
      BY <1>2, <2>3 DEF PausedIndex
<1> QED
    BY <1>1, <1>2
(* The ways a step changes the locals of a call keep their shape.          *)
Typed == drive \in [Drives -> Call]

(* The locals of a call that has just started are typed.                   *)
LEMMA BlankCall ==
  ASSUME NEW p \in {"new", "outcome", "idle", "done", "node", "decided"}
  PROVE  /\ In(p) \in Call
         /\ \A c \in Drives : [In(p) EXCEPT !.ctx = c] \in Call
         /\ \A a \in {"yes", "no"} : [In(p) EXCEPT !.answer = a] \in Call
<1>1. 0 \in 0 .. NSteps
      BY NStepsAssumption
<1>3. In(p) \in Call
      BY <1>1 DEF Call, In
<1>4. ASSUME NEW c \in Drives PROVE [In(p) EXCEPT !.ctx = c] \in Call
      BY <1>3 DEF Call
<1>5. ASSUME NEW a \in {"yes", "no"} PROVE [In(p) EXCEPT !.answer = a] \in Call
      BY <1>3 DEF Call
<1> QED
    BY <1>3, <1>4, <1>5

(* Moving a call to another point keeps the types.                         *)
LEMMA GotoTyped ==
  ASSUME Typed, NEW d \in Drives,
         NEW p \in {"new", "planning", "admitted", "outcome", "asked", "exec", "settling", "done"},
         Goto(d, p)
  PROVE  Typed'
<1>1. [drive[d] EXCEPT !.pc = p] \in Call
      BY DEF Typed, Call
<1>2. drive' = [drive EXCEPT ![d] = [drive[d] EXCEPT !.pc = p]]
      BY DEF Goto, Typed
<1> QED
    BY <1>1, <1>2 DEF Typed

(* Ending a drive keeps the types.                                         *)
LEMMA LeaveTyped == ASSUME Typed, NEW d \in Drives, Leave(d) PROVE Typed'
<1>1. In("outcome") \in Call /\ In("done") \in Call
      BY BlankCall
<1> QED
    BY <1>1 DEF Leave, Typed

(* Going on to the next step keeps the types.                              *)
LEMMA AdvanceTyped ==
  ASSUME Typed, NEW d \in Drives, NEW failed \in BOOLEAN, drive[d].at < NSteps,
         Advance(d, failed)
  PROVE  Typed' /\ thread' \in [exists : BOOLEAN, at : 0 .. NSteps, erred : BOOLEAN]
<1>0. drive[d] \in Call
      BY DEF Typed
<1>1. PICK e \in BOOLEAN : e = (drive[d].erred \/ failed)
      BY <1>0 DEF Call
<1>2. drive[d].at + 1 \in 0 .. NSteps
      BY <1>0, NStepsAssumption DEF Call
<1>3. [drive[d] EXCEPT !.pc = "node", !.at = drive[d].at + 1, !.erred = e, !.answer = "none"]
        \in Call
      BY <1>0, <1>1, <1>2 DEF Call
<1>4. drive' = [drive EXCEPT ![d] = [drive[d] EXCEPT !.pc = "node", !.at = drive[d].at + 1,
                                                    !.erred = e, !.answer = "none"]]
      BY <1>0, <1>1 DEF Advance, Typed
<1>5. thread' = Thread(drive[d].at + 1, e)
      BY <1>1 DEF Advance
<1> QED
    BY <1>2, <1>3, <1>4, <1>5 DEF Typed, Thread

(* The initial states satisfy the invariant.                               *)
LEMMA InvInit == Init => IInv
<1> SUFFICES ASSUME Init PROVE IInv
    OBVIOUS
<1>1. Driver \in Drives /\ Operators \subseteq Drives
      BY DEF Drives
<1>2. \A d \in Drives : drive[d] = (IF d = Driver THEN In("new") ELSE Idle)
      BY DEF Init
<1>3. TypeOK
  <2>1. Typed
        BY <1>1, <1>2, BlankCall DEF Init, Typed, Idle
  <2>3. NoThread \in [exists : BOOLEAN, at : 0 .. NSteps, erred : BOOLEAN]
        BY NStepsAssumption DEF NoThread
  <2>4. attempts \in 0 .. (MaxReplans + 1)
        BY BoundsAssumption DEF Init
  <2>2. canceller \in {"idle", "done"} /\ sweeper \in {"idle", "done"}
        BY StopsAssumption DEF Init
  <2> QED
      BY <1>1, <2>1, <2>2, <2>3, <2>4 DEF Init, TypeOK, Typed, Terminal
<1>4. WithinPlan
      BY <1>1, <1>2, BoundsAssumption DEF Init, WithinPlan, At, In, Idle
<1>5. AnswersGranted
      BY <1>1, <1>2 DEF Init, AnswersGranted, At, In, Idle
<1>6. ExecutionsPaid
      BY DEF Init, ExecutionsPaid
<1> QED
    BY <1>3, <1>4, <1>5, <1>6 DEF IInv

(* The rest of TypeOK.                                                     *)
ThreadTyped == thread \in [exists : BOOLEAN, at : 0 .. NSteps, erred : BOOLEAN]

RestTyped ==
  /\ mode \in {"execute", "plan_only"} /\ mutating \in Plans
  /\ row \in Terminal \cup {"pending", "planning", "running", "awaiting_approval"}
  /\ awaiting \in SUBSET Steps
  /\ record \in [Steps -> {"none", "pending", "approved", "rejected"}]
  /\ contexts \in Drives \cup {NoOne} /\ flagged \in SUBSET Drives
  /\ attempts \in 0 .. (MaxReplans + 1)
  /\ canceller \in {"idle", "loaded", "committed", "done"}
  /\ sweeper \in {"idle", "selected", "done"}
  /\ execs \in [Steps -> Nat] /\ ran \in [Drives -> Nat] /\ granted \in SUBSET Operators
  /\ overlapped \in BOOLEAN /\ raised \in BOOLEAN /\ crashes \in Nat

(* Every step of drive_task keeps the shape of the state.                  *)
LEMMA TypeDriveTask == TypeOK /\ WithinPlan /\ DriveTask => TypeOK'
<1> SUFFICES ASSUME Typed, ThreadTyped, RestTyped, WithinPlan, DriveTask
             PROVE  Typed' /\ ThreadTyped' /\ RestTyped'
    BY DEF TypeOK, Typed, ThreadTyped, RestTyped
<1>0. Driver \in Drives
      BY DEF Drives
<1>1. CASE Begin
  <2>1. Typed'
        BY <1>0, <1>1, GotoTyped DEF Begin
  <2>2. attempts' \in 0 .. (MaxReplans + 1)
        BY <1>1, BoundsAssumption DEF Begin, WithinPlan, At, RestTyped
  <2> QED
      BY <1>1, <2>1, <2>2 DEF Begin, ThreadTyped, RestTyped, taskVars, contextVars, othersVars,
         history
<1>2. CASE PlanningFails
  <2>1. Typed'
        BY <1>0, <1>2, GotoTyped DEF PlanningFails
  <2> QED
      BY <1>2, <2>1 DEF PlanningFails, ThreadTyped, RestTyped, Terminal, taskVars, othersVars,
         history
<1>3. CASE PlanOnly
  <2>1. Typed'
        BY <1>0, <1>3, GotoTyped DEF PlanOnly
  <2> QED
      BY <1>3, <2>1 DEF PlanOnly, ThreadTyped, RestTyped, Terminal, taskVars, contextVars,
         othersVars, history
<1>4. CASE Admit
  <2>1. Typed'
        BY <1>0, <1>4, GotoTyped DEF Admit
  <2> QED
      BY <1>4, <2>1 DEF Admit, ThreadTyped, RestTyped, Terminal, taskVars, contextVars,
         othersVars, history
<1>5. CASE Launch
  <2>1. Typed'
        BY <1>0, <1>5, BlankCall DEF Launch, Typed
  <2>2. ThreadTyped'
        BY <1>5, NStepsAssumption DEF Launch, ThreadTyped, Thread
  <2> QED
      BY <1>0, <1>5, <2>1, <2>2 DEF Launch, RestTyped, taskVars, rowVars, othersVars, history
<1>6. CASE Outcome
  <2>1. Typed'
        BY <1>0, <1>6, GotoTyped DEF Outcome
  <2>2. ThreadTyped'
    <3>1. NoThread \in [exists : BOOLEAN, at : 0 .. NSteps, erred : BOOLEAN]
          BY NStepsAssumption DEF NoThread
    <3> QED
        BY <1>6, <3>1 DEF Outcome, ThreadTyped
  <2> QED
      BY <1>6, <2>1, <2>2 DEF Outcome, RestTyped, taskVars, rowVars, othersVars, history
<1> QED
    BY <1>1, <1>2, <1>3, <1>4, <1>5, <1>6 DEF DriveTask

(* Every step of a drive of the graph keeps the shape of the state.        *)
LEMMA TypeDriveNext ==
  ASSUME NEW d \in Drives
  PROVE  TypeOK /\ WithinPlan /\ DriveNext(d) => TypeOK'
<1> SUFFICES ASSUME Typed, ThreadTyped, RestTyped, WithinPlan, DriveNext(d)
             PROVE  Typed' /\ ThreadTyped' /\ RestTyped'
    BY DEF TypeOK, Typed, ThreadTyped, RestTyped
<1>0. drive[d] \in Call
      BY DEF Typed
<1>at. drive[d].at \in 0 .. NSteps /\ drive[d].erred \in BOOLEAN
      BY <1>0 DEF Call
<1>step. drive[d].at < NSteps => drive[d].at \in Steps
      BY <1>at, NStepsAssumption DEF Steps
<1>1. CASE SkipRest(d)
  <2>1. Typed'
        BY <1>0, <1>1, NStepsAssumption DEF SkipRest, Typed, Call
  <2>2. ThreadTyped'
        BY <1>at, <1>1, NStepsAssumption DEF SkipRest, ThreadTyped, Thread
  <2> QED
      BY <1>1, <2>1, <2>2 DEF SkipRest, RestTyped, taskVars, rowVars, contextVars, othersVars,
         history
<1>2. CASE Refuse(d)
  <2>1. Typed' /\ ThreadTyped'
        BY <1>2, AdvanceTyped DEF Refuse, Working, ThreadTyped
  <2> QED
      BY <1>2, <2>1 DEF Refuse, RestTyped, taskVars, contextVars, othersVars, history
<1>3. CASE Read(d)
  <2>1. Typed'
        BY <1>3, GotoTyped DEF Read
  <2> QED
      BY <1>3, <2>1 DEF Read, ThreadTyped, RestTyped, taskVars, rowVars, contextVars,
         othersVars, history
<1>4. CASE AskApproval(d)
  <2>1. Typed'
        BY <1>4, GotoTyped DEF AskApproval
  <2>2. drive[d].at \in Steps
        BY <1>4, <1>step DEF AskApproval, Working
  <2> QED
      BY <1>4, <2>1, <2>2 DEF AskApproval, ThreadTyped, RestTyped, taskVars, contextVars,
         othersVars, history
<1>5. CASE Interrupt(d)
  <2>1. drive[d].at < NSteps /\ drive[d].at \in Steps
        BY <1>5, <1>step DEF Interrupt, WithinPlan
  <2>2. Typed' /\ ThreadTyped'
    <3>1. CASE drive[d].answer = "none"
      <4>1. Leave(d) /\ UNCHANGED thread
            BY <1>5, <3>1 DEF Interrupt, Approves
      <4> QED
          BY <4>1, LeaveTyped DEF ThreadTyped
    <3>2. CASE Approves(drive[d].answer)
      <4>1. Goto(d, "exec") /\ UNCHANGED thread
            BY <1>5, <3>2 DEF Interrupt, Approves
      <4> QED
          BY <4>1, GotoTyped DEF ThreadTyped
    <3>3. CASE drive[d].answer # "none" /\ ~Approves(drive[d].answer)
      <4>1. Advance(d, TRUE)
            BY <1>5, <3>3 DEF Interrupt
      <4> QED
          BY <2>1, <4>1, AdvanceTyped DEF ThreadTyped
    <3> QED
        BY <3>1, <3>2, <3>3
  <2>3. awaiting' \in SUBSET Steps
        BY <1>5 DEF Interrupt, RestTyped
  <2>4. execs' \in [Steps -> Nat] /\ ran' \in [Drives -> Nat]
    <3>1. [execs EXCEPT ![drive[d].at] = @ + 1] \in [Steps -> Nat]
          BY <2>1 DEF RestTyped
    <3>2. [ran EXCEPT ![d] = @ + 1] \in [Drives -> Nat]
          BY DEF RestTyped
    <3> QED
        BY <1>5, <3>1, <3>2 DEF Interrupt, RestTyped
  <2> QED
      BY <1>5, <2>2, <2>3, <2>4 DEF Interrupt, RestTyped, taskVars, contextVars, othersVars
<1>6. CASE SkillReturns(d)
  <2>1. Typed' /\ ThreadTyped'
        BY <1>6, AdvanceTyped DEF SkillReturns, ThreadTyped, WithinPlan
  <2> QED
      BY <1>6, <2>1 DEF SkillReturns, RestTyped, taskVars, rowVars, contextVars, othersVars,
         history
<1>7. CASE End(d)
  <2>1. Typed'
        BY <1>7, LeaveTyped, GotoTyped DEF End
  <2> QED
      BY <1>7, <2>1 DEF End, ThreadTyped, RestTyped, taskVars, rowVars, othersVars, history
<1>8. CASE Settle(d)
  <2>1. Typed'
        BY <1>8, LeaveTyped DEF Settle
  <2> QED
      BY <1>8, <2>1 DEF Settle, ThreadTyped, RestTyped, Terminal, taskVars, othersVars, history
<1>9. CASE NodeCrashed(d)
  <2>1. drive[d].at < NSteps
        BY <1>9 DEF NodeCrashed, Working, WithinPlan
  <2>2. Typed' /\ ThreadTyped'
        BY <1>9, <2>1, AdvanceTyped DEF NodeCrashed, ThreadTyped
  <2> QED
      BY <1>9, <2>2 DEF NodeCrashed, RestTyped, taskVars, rowVars, contextVars, othersVars
<1> QED
    BY <1>1, <1>2, <1>3, <1>4, <1>5, <1>6, <1>7, <1>8, <1>9 DEF DriveNext

(* Every step of a request keeps the shape of the state.                   *)
LEMMA TypeRequest ==
  ASSUME NEW o \in Operators
  PROVE  TypeOK /\ Request(o) => TypeOK'
<1> SUFFICES ASSUME Typed, ThreadTyped, RestTyped, Request(o)
             PROVE  Typed' /\ ThreadTyped' /\ RestTyped'
    BY DEF TypeOK, Typed, ThreadTyped, RestTyped
<1>0. o \in Drives /\ drive[o] \in Call
      BY DEF Drives, Typed
<1>1. CASE LoadDecision(o)
  <2>1. PausedIndex \in Steps
        BY PausedInPlan DEF RestTyped
  <2>2. PausedIndex \in 0 .. NSteps
        BY <2>1, NStepsAssumption DEF Steps
  <2>3. record[PausedIndex] \in {"none", "pending", "approved", "rejected"}
        BY <2>1 DEF RestTyped
  <2>4. [drive[o] EXCEPT !.pc = "deciding", !.at = PausedIndex, !.saw = record[PausedIndex]]
          \in Call
        BY <1>0, <2>2, <2>3 DEF Call
  <2>5. Typed'
        BY <1>0, <1>1, <2>4 DEF LoadDecision, Typed
  <2> QED
      BY <1>1, <2>5 DEF LoadDecision, Loads, ThreadTyped, RestTyped, taskVars, rowVars,
         contextVars, othersVars
<1>2. CASE Resume(o)
  <2> DEFINE mine == IF contexts = NoOne THEN o ELSE contexts
  <2>1. mine \in Drives
        BY <1>0 DEF RestTyped
  <2>2. thread.at \in 0 .. NSteps /\ thread.erred \in BOOLEAN
        BY DEF ThreadTyped
  <2>3. [drive[o] EXCEPT !.pc = "node", !.ctx = mine, !.at = thread.at, !.erred = thread.erred]
          \in Call
    <3> HIDE DEF mine
    <3> QED
        BY <1>0, <2>1, <2>2 DEF Call
  <2>4. Typed'
        BY <1>0, <1>2, <2>3, BlankCall DEF Resume, Typed
  <2> QED
      BY <1>0, <1>2, <2>1, <2>4 DEF Resume, ThreadTyped, RestTyped, taskVars, rowVars,
         othersVars, history
<1>3. ASSUME NEW approved \in BOOLEAN, Decide(o, approved)
      PROVE  Typed' /\ ThreadTyped' /\ RestTyped'
  <2>1. Typed'
        BY <1>0, <1>3, BlankCall DEF Decide, Typed
  <2>2. record' \in [Steps -> {"none", "pending", "approved", "rejected"}]
        BY <1>3 DEF Decide, RestTyped
  <2> QED
      BY <1>3, <2>1, <2>2 DEF Decide, ThreadTyped, RestTyped, taskVars, contextVars, othersVars
<1> QED
    BY <1>1, <1>2, <1>3 DEF Request

(* Every step keeps the shape of the state.                                *)
LEMMA TypeNext == TypeOK /\ WithinPlan /\ [Next]_vars => TypeOK'
<1> SUFFICES ASSUME TypeOK, WithinPlan, [Next]_vars PROVE TypeOK'
    OBVIOUS
<1>1. CASE CancelTask \/ Sweep
      BY <1>1 DEF CancelTask, Sweep, CancelLoads, CancelCommits, CancelReleases,
         SweepSelects, SweepCommits, Loads, TypeOK, Terminal, taskVars, rowVars, contextVars,
         history
<1>2. CASE Crash
  <2>1. drive' \in [Drives -> Call]
        BY <1>2, BlankCall DEF Crash, TypeOK
  <2> QED
      BY <1>2, <2>1 DEF Crash, TypeOK, taskVars, rowVars
<1>3. CASE UNCHANGED vars
      BY <1>3 DEF vars, TypeOK, taskVars, rowVars, contextVars, othersVars, history
<1> QED
    BY <1>1, <1>2, <1>3, TypeDriveTask, TypeDriveNext, TypeRequest DEF Next

------------------------------------------------------------------------------

(* What the ledger of answers is about: where a call stands, the answer it *)
(* holds, whether it was granted and what it ran.  A step that changes     *)
(* none of these, or takes a call without an answer elsewhere, keeps it.   *)
Ledger == AnswersGranted /\ ExecutionsPaid

(* An operation that leaves the calls' accounts alone keeps them balanced. *)
LEMMA LedgerKept ==
  ASSUME Ledger, UNCHANGED <<ran, granted>>,
         \A d \in Drives :
           /\ drive'[d].answer = "yes" => drive[d].answer = "yes"
           /\ drive'[d].answer = "yes" /\ drive'[d].pc # "exec" => drive[d].pc # "exec"
           /\ drive'[d].pc \in {"idle", "deciding"} => drive[d].pc \in {"idle", "deciding"}
  PROVE  Ledger'
<1>1. ran' = ran /\ granted' = granted
      OBVIOUS
<1>2. ExecutionsPaid'
      BY <1>1 DEF Ledger, ExecutionsPaid
<1>3. AnswersGranted'
  <2> SUFFICES ASSUME NEW d \in Drives
               PROVE  /\ drive'[d].pc \in {"idle", "deciding"} => ran[d] = 0 /\ d \notin granted
                      /\ drive'[d].answer = "yes" => d \in granted
                      /\ drive'[d].answer = "yes" /\ drive'[d].pc # "exec" => ran[d] = 0
      BY <1>1 DEF AnswersGranted, At
  <2>1. /\ drive[d].pc \in {"idle", "deciding"} => ran[d] = 0 /\ d \notin granted
        /\ drive[d].answer = "yes" => d \in granted
        /\ drive[d].answer = "yes" /\ drive[d].pc # "exec" => ran[d] = 0
        BY DEF Ledger, AnswersGranted, At
  <2> QED
      BY <2>1
<1> QED
    BY <1>2, <1>3 DEF Ledger

(* Goto, Leave and Advance change the locals of one call.                  *)
LEMMA GotoOnly ==
  ASSUME Typed, NEW d \in Drives, NEW p, Goto(d, p)
  PROVE  /\ drive'[d].pc = p /\ drive'[d].answer = drive[d].answer /\ drive'[d].at = drive[d].at
         /\ \A e \in Drives \ {d} : drive'[e] = drive[e]
<1>1. drive' = [drive EXCEPT ![d] = [drive[d] EXCEPT !.pc = p]]
      BY DEF Goto
<1>2. drive'[d] = [drive[d] EXCEPT !.pc = p]
      BY <1>1 DEF Typed
<1>3. drive[d] \in Call
      BY DEF Typed
<1> QED
    BY <1>1, <1>2, <1>3 DEF Typed, Call

(* Ending a drive changes that drive alone.                                *)
LEMMA LeaveOnly ==
  ASSUME Typed, NEW d \in Drives, Leave(d)
  PROVE  /\ drive'[d].pc \in {"outcome", "done"} /\ drive'[d].answer = "none"
         /\ \A e \in Drives \ {d} : drive'[e] = drive[e]
  BY DEF Leave, Typed, In

(* Going on to the next step changes that drive alone.                     *)
LEMMA AdvanceOnly ==
  ASSUME Typed, NEW d \in Drives, NEW failed \in BOOLEAN, Advance(d, failed)
  PROVE  /\ drive'[d].pc = "node" /\ drive'[d].answer = "none"
         /\ \A e \in Drives \ {d} : drive'[e] = drive[e]
<1>1. drive[d] \in Call
      BY DEF Typed
<1>2. drive'[d] = [drive[d] EXCEPT !.pc = "node", !.at = drive[d].at + 1,
                                   !.erred = (drive[d].erred \/ failed), !.answer = "none"]
      BY DEF Advance, Typed
<1>3. \A e \in Drives \ {d} : drive'[e] = drive[e]
      BY DEF Advance, Typed
<1> QED
    BY <1>1, <1>2, <1>3 DEF Call

(* Whatever drive_task does, its own call holds no answer.                 *)
LEMMA LedgerDriveTask == TypeOK /\ Ledger /\ DriveTask => Ledger'
<1> SUFFICES ASSUME Typed, Ledger, DriveTask PROVE Ledger'
    BY DEF TypeOK, Typed
<1>0. Driver \in Drives
      BY DEF Drives
<1>1. UNCHANGED <<ran, granted>>
      BY DEF DriveTask, Begin, PlanningFails, PlanOnly, Admit, Launch, Outcome, history
<1>2. CASE \E p \in {"new", "planning", "admitted", "outcome", "done"} : Goto(Driver, p)
  <2>1. PICK p \in {"new", "planning", "admitted", "outcome", "done"} : Goto(Driver, p)
        BY <1>2
  <2>2. drive[Driver].pc # "exec"
        BY DEF DriveTask, Begin, PlanningFails, PlanOnly, Admit, Launch, Outcome
  <2>3. /\ drive'[Driver].pc = p /\ drive'[Driver].answer = drive[Driver].answer
        /\ \A e \in Drives \ {Driver} : drive'[e] = drive[e]
        BY <1>0, <2>1, GotoOnly
  <2> QED
      BY <1>1, <2>2, <2>3, LedgerKept
<1>3. CASE Launch
  <2>1. /\ drive'[Driver].pc = "node" /\ drive'[Driver].answer = "none"
        /\ \A e \in Drives \ {Driver} : drive'[e] = drive[e]
        BY <1>0, <1>3 DEF Launch, Typed, In
  <2> QED
      BY <1>1, <2>1, LedgerKept
<1>4. Launch \/ \E p \in {"new", "planning", "admitted", "outcome", "done"} : Goto(Driver, p)
      BY DEF DriveTask, Begin, PlanningFails, PlanOnly, Admit, Outcome
<1> QED
    BY <1>2, <1>3, <1>4

(* A drive of the graph runs a mutating skill on a yes, which it forgets   *)
(* when the skill returns.                                                 *)
LEMMA LedgerDriveNext ==
  ASSUME NEW d \in Drives
  PROVE  TypeOK /\ WithinPlan /\ Ledger /\ DriveNext(d) => Ledger'
<1> SUFFICES ASSUME Typed, RestTyped, Ledger, DriveNext(d) PROVE Ledger'
    BY DEF TypeOK, Typed, RestTyped
<1>0. drive[d] \in Call
      BY DEF Typed
<1>1. ASSUME UNCHANGED <<ran, granted>>, drive'[d].pc \notin {"idle", "deciding"},
             drive'[d].answer # "yes", \A e \in Drives \ {d} : drive'[e] = drive[e]
      PROVE  Ledger'
      BY <1>1, LedgerKept
<1>2. ASSUME UNCHANGED <<ran, granted>>, drive[d].pc \notin {"exec"},
             NEW p \in {"exec", "asked", "settling"}, Goto(d, p)
      PROVE  Ledger'
  <2>1. /\ drive'[d].pc = p /\ drive'[d].answer = drive[d].answer
        /\ \A e \in Drives \ {d} : drive'[e] = drive[e]
        BY <1>2, GotoOnly
  <2> QED
      BY <1>2, <2>1, LedgerKept
<1>3. ASSUME UNCHANGED <<ran, granted>>, Leave(d)
      PROVE  Ledger'
      BY <1>1, <1>3, LeaveOnly
<1>4. ASSUME UNCHANGED <<ran, granted>>, NEW failed \in BOOLEAN, Advance(d, failed)
      PROVE  Ledger'
      BY <1>1, <1>4, AdvanceOnly
<1>5. CASE SkipRest(d)
  <2>1. /\ drive'[d].pc = drive[d].pc /\ drive'[d].answer = drive[d].answer
        /\ \A e \in Drives \ {d} : drive'[e] = drive[e]
        BY <1>0, <1>5 DEF SkipRest, Typed, Call
  <2> QED
      BY <1>5, <2>1, LedgerKept DEF SkipRest, history
<1>6. CASE Refuse(d)
      BY <1>4, <1>6 DEF Refuse, history
<1>7. CASE Read(d)
      BY <1>2, <1>7 DEF Read, Working, At, history
<1>8. CASE AskApproval(d)
      BY <1>2, <1>8 DEF AskApproval, Working, At, history
<1>9. CASE Interrupt(d)
  <2>1. CASE drive[d].answer = "none"
        BY <1>3, <1>9, <2>1 DEF Interrupt, Approves
  <2>2. CASE Approves(drive[d].answer)
    <3>1. /\ Goto(d, "exec") /\ ran' = [ran EXCEPT ![d] = @ + 1] /\ granted' = granted
          /\ drive[d].pc = "asked" /\ drive[d].answer = "yes"
          BY <1>9, <2>2 DEF Interrupt, Approves, At
    <3>2. /\ drive'[d].pc = "exec" /\ drive'[d].answer = "yes"
          /\ \A e \in Drives \ {d} : drive'[e] = drive[e]
          BY <3>1, GotoOnly
    <3>3. d \in granted /\ ran[d] = 0
          BY <3>1 DEF Ledger, AnswersGranted, At
    <3>4. /\ ran'[d] = 1
          /\ \A e \in Drives \ {d} : ran'[e] = ran[e]
          BY <3>1, <3>3 DEF RestTyped
    <3>5. ExecutionsPaid'
          BY <3>1, <3>3, <3>4 DEF Ledger, ExecutionsPaid
    <3>6. ASSUME NEW e \in Drives
          PROVE  /\ drive'[e].pc \in {"idle", "deciding"} => ran'[e] = 0 /\ e \notin granted
                 /\ drive'[e].answer = "yes" => e \in granted
                 /\ drive'[e].answer = "yes" /\ drive'[e].pc # "exec" => ran'[e] = 0
      <4>1. CASE e = d
            BY <3>2, <3>3, <4>1
      <4>2. CASE e # d
            BY <3>2, <3>4, <4>2 DEF Ledger, AnswersGranted, At
      <4> QED
          BY <4>1, <4>2
    <3> QED
        BY <3>1, <3>5, <3>6 DEF Ledger, AnswersGranted, At
  <2>3. CASE drive[d].answer # "none" /\ ~Approves(drive[d].answer)
        BY <1>4, <1>9, <2>3 DEF Interrupt
  <2> QED
      BY <2>1, <2>2, <2>3
<1>10. CASE SkillReturns(d)
       BY <1>4, <1>10 DEF SkillReturns, history
<1>11. CASE End(d)
  <2>1. UNCHANGED <<ran, granted>> /\ drive[d].pc = "node"
        BY <1>11 DEF End, At, history
  <2>2. Leave(d) \/ Goto(d, "settling")
        BY <1>11 DEF End
  <2> QED
      BY <1>2, <1>3, <2>1, <2>2
<1>12. CASE Settle(d)
       BY <1>3, <1>12 DEF Settle, history
<1>13. CASE NodeCrashed(d)
       BY <1>4, <1>13 DEF NodeCrashed
<1> QED
    BY <1>5, <1>6, <1>7, <1>8, <1>9, <1>10, <1>11, <1>12, <1>13 DEF DriveNext

(* A request holds the answer it was granted, before it runs anything.     *)
LEMMA LedgerRequest ==
  ASSUME NEW o \in Operators
  PROVE  TypeOK /\ Ledger /\ Request(o) => Ledger'
<1> SUFFICES ASSUME Typed, RestTyped, Ledger, Request(o) PROVE Ledger'
    BY DEF TypeOK, Typed, RestTyped
<1>0. o \in Drives /\ drive[o] \in Call
      BY DEF Drives, Typed
<1>1. CASE LoadDecision(o)
  <2>1. /\ drive[o].pc = "idle" /\ drive'[o].pc = "deciding"
        /\ drive'[o].answer = drive[o].answer
        /\ \A e \in Drives \ {o} : drive'[e] = drive[e]
        BY <1>0, <1>1 DEF LoadDecision, At, Typed, Call
  <2> QED
      BY <1>1, <2>1, LedgerKept DEF LoadDecision, Loads
<1>2. CASE Resume(o)
  <2>1. drive[o].pc = "decided"
        BY <1>2 DEF Resume, At
  <2>2. /\ drive'[o].pc \in {"node", "done"}
        /\ drive'[o].answer = "yes" => drive[o].answer = "yes"
        /\ \A e \in Drives \ {o} : drive'[e] = drive[e]
        BY <1>0, <1>2 DEF Resume, Typed, Call, In
  <2> QED
      BY <1>2, <2>1, <2>2, LedgerKept DEF Resume, history
<1>3. ASSUME NEW approved \in BOOLEAN, Decide(o, approved) PROVE Ledger'
  <2>1. drive[o].pc = "deciding" /\ ran[o] = 0 /\ ran' = ran
        BY <1>0, <1>3 DEF Decide, At, Ledger, AnswersGranted
  <2>2. /\ drive'[o].pc = "decided"
        /\ drive'[o].answer = IF approved THEN "yes" ELSE "no"
        /\ \A e \in Drives \ {o} : drive'[e] = drive[e]
        BY <1>0, <1>3 DEF Decide, Typed, In
  <2>3. granted' = IF approved THEN granted \cup {o} ELSE granted
        BY <1>3 DEF Decide
  <2>4. ExecutionsPaid'
        BY <2>1, <2>3 DEF Ledger, ExecutionsPaid
  <2>5. ASSUME NEW e \in Drives
        PROVE  /\ drive'[e].pc \in {"idle", "deciding"} => ran[e] = 0 /\ e \notin granted'
               /\ drive'[e].answer = "yes" => e \in granted'
               /\ drive'[e].answer = "yes" /\ drive'[e].pc # "exec" => ran[e] = 0
    <3>1. CASE e = o
          BY <2>1, <2>2, <2>3, <3>1
    <3>2. CASE e # o
          BY <2>2, <2>3, <3>2 DEF Ledger, AnswersGranted, At
    <3> QED
        BY <3>1, <3>2
  <2> QED
      BY <2>1, <2>4, <2>5 DEF Ledger, AnswersGranted, At
<1> QED
    BY <1>1, <1>2, <1>3 DEF Request

(* Every step keeps the ledger of answers.                                 *)
LEMMA LedgerNext == TypeOK /\ WithinPlan /\ Ledger /\ [Next]_vars => Ledger'
<1> SUFFICES ASSUME TypeOK, WithinPlan, Ledger, [Next]_vars PROVE Ledger'
    OBVIOUS
<1>1. CASE CancelTask \/ Sweep \/ UNCHANGED vars
  <2>1. UNCHANGED <<drive, ran, granted>>
        BY <1>1 DEF CancelTask, Sweep, CancelLoads, CancelCommits, CancelReleases, SweepSelects,
           SweepCommits, Loads, vars, history
  <2> QED
      BY <2>1, LedgerKept
<1>2. CASE Crash
  <2>1. \A d \in Drives : drive'[d] = IF d \in Active THEN In("done") ELSE drive[d]
        BY <1>2 DEF Crash
  <2>2. In("done").pc = "done" /\ In("done").answer = "none"
        BY DEF In
  <2> QED
      BY <1>2, <2>1, <2>2, LedgerKept DEF Crash
<1> QED
    BY <1>1, <1>2, LedgerDriveTask, LedgerDriveNext, LedgerRequest DEF Next

(* Every step keeps the limits: a re-plan is only begun within the limit,  *)
(* and a step only asks or runs if it is one of the plan.                  *)
LEMMA LimitsKept ==
  ASSUME WithinPlan, NEW d \in Drives, UNCHANGED attempts,
         \A e \in Drives \ {d} : drive'[e] = drive[e],
         d = Driver /\ drive'[d].pc = "new" => attempts <= MaxReplans,
         drive'[d].pc \in {"asked", "exec"} => drive'[d].at < NSteps
  PROVE  WithinPlan'
<1>1. attempts' = attempts
      OBVIOUS
<1>2. At(Driver, "new")' => attempts' <= MaxReplans
      BY <1>1 DEF WithinPlan, At, Drives
<1>3. ASSUME NEW e \in Drives, At(e, "asked")' \/ At(e, "exec")' PROVE drive'[e].at < NSteps
  <2>1. CASE e = d
        BY <1>3, <2>1 DEF At
  <2>2. CASE e # d
        BY <1>3, <2>2 DEF WithinPlan, At
  <2> QED
      BY <2>1, <2>2
<1> QED
    BY <1>2, <1>3 DEF WithinPlan

(* drive_task never points past the end of the plan.                       *)
LEMMA LimitsDriveTask == TypeOK /\ WithinPlan /\ DriveTask => WithinPlan'
<1> SUFFICES ASSUME Typed, WithinPlan, DriveTask PROVE WithinPlan'
    BY DEF TypeOK, Typed
<1>0. Driver \in Drives
      BY DEF Drives
<1>1. CASE Begin
  <2>1. /\ drive'[Driver].pc = "planning"
        /\ \A e \in Drives \ {Driver} : drive'[e] = drive[e]
        BY <1>0, <1>1, GotoOnly DEF Begin
  <2> QED
      BY <2>1 DEF WithinPlan, At
<1>2. CASE Launch
  <2>1. /\ drive'[Driver].pc = "node"
        /\ \A e \in Drives \ {Driver} : drive'[e] = drive[e]
        BY <1>0, <1>2 DEF Launch, Typed, In
  <2> QED
      BY <1>0, <1>2, <2>1, LimitsKept DEF Launch
<1>3. CASE PlanningFails \/ PlanOnly \/ Admit \/ Outcome
  <2>1. PICK p \in {"new", "admitted", "outcome", "done"} :
          Goto(Driver, p) /\ (p = "new" => attempts <= MaxReplans)
        BY <1>3 DEF PlanningFails, PlanOnly, Admit, Outcome
  <2>2. /\ drive'[Driver].pc = p
        /\ \A e \in Drives \ {Driver} : drive'[e] = drive[e]
        BY <1>0, <2>1, GotoOnly
  <2>3. UNCHANGED attempts
        BY <1>3 DEF PlanningFails, PlanOnly, Admit, Outcome
  <2> QED
      BY <1>0, <2>1, <2>2, <2>3, LimitsKept
<1> QED
    BY <1>1, <1>2, <1>3 DEF DriveTask

(* A drive of the graph never points past the end of the plan.             *)
LEMMA LimitsDriveNext ==
  ASSUME NEW d \in Drives
  PROVE  TypeOK /\ WithinPlan /\ DriveNext(d) => WithinPlan'
<1> SUFFICES ASSUME Typed, WithinPlan, DriveNext(d) PROVE WithinPlan'
    BY DEF TypeOK, Typed
<1>0. drive[d] \in Call
      BY DEF Typed
<1>1. UNCHANGED attempts
      BY DEF DriveNext, SkipRest, Refuse, Read, AskApproval, Interrupt, SkillReturns, NodeCrashed, End,
             Settle
<1>2. ASSUME drive'[d].pc \in {"node", "settling", "outcome", "done"},
             \A e \in Drives \ {d} : drive'[e] = drive[e]
      PROVE  WithinPlan'
      BY <1>1, <1>2, LimitsKept
<1>3. ASSUME drive[d].at < NSteps, NEW p \in {"exec", "asked"}, Goto(d, p)
      PROVE  WithinPlan'
  <2>1. /\ drive'[d].pc = p /\ drive'[d].at = drive[d].at
        /\ \A e \in Drives \ {d} : drive'[e] = drive[e]
        BY <1>3, GotoOnly
  <2> QED
      BY <1>1, <1>3, <2>1, LimitsKept
<1>4. ASSUME Leave(d) PROVE WithinPlan'
      BY <1>2, <1>4, LeaveOnly
<1>5. ASSUME NEW failed \in BOOLEAN, Advance(d, failed) PROVE WithinPlan'
      BY <1>2, <1>5, AdvanceOnly
<1>6. CASE SkipRest(d)
  <2>1. /\ drive'[d].pc = "node"
        /\ \A e \in Drives \ {d} : drive'[e] = drive[e]
        BY <1>0, <1>6 DEF SkipRest, At, Typed, Call
  <2> QED
      BY <1>2, <2>1
<1>7. CASE Refuse(d)
      BY <1>5, <1>7 DEF Refuse
<1>8. CASE Read(d) \/ AskApproval(d)
      BY <1>3, <1>8 DEF Read, AskApproval, Working
<1>9. CASE Interrupt(d)
  <2>1. drive[d].at < NSteps
        BY <1>9 DEF Interrupt, WithinPlan
  <2>2. CASE drive[d].answer = "none"
        BY <1>4, <1>9, <2>2 DEF Interrupt, Approves
  <2>3. CASE Approves(drive[d].answer)
        BY <1>3, <1>9, <2>1, <2>3 DEF Interrupt, Approves
  <2>4. CASE drive[d].answer # "none" /\ ~Approves(drive[d].answer)
        BY <1>5, <1>9, <2>4 DEF Interrupt
  <2> QED
      BY <2>2, <2>3, <2>4
<1>10. CASE SkillReturns(d) \/ NodeCrashed(d)
       BY <1>5, <1>10 DEF SkillReturns, NodeCrashed
<1>11. CASE End(d) /\ Goto(d, "settling")
  <2>1. /\ drive'[d].pc = "settling"
        /\ \A e \in Drives \ {d} : drive'[e] = drive[e]
        BY <1>11, GotoOnly
  <2> QED
      BY <1>2, <2>1
<1>12. CASE (End(d) \/ Settle(d)) /\ Leave(d)
       BY <1>4, <1>12
<1>13. End(d) \/ Settle(d) => Leave(d) \/ (End(d) /\ Goto(d, "settling"))
       BY DEF End, Settle
<1> QED
    BY <1>6, <1>7, <1>8, <1>9, <1>10, <1>11, <1>12, <1>13 DEF DriveNext

(* A request never points past the end of the plan.                        *)
LEMMA LimitsRequest ==
  ASSUME NEW o \in Operators
  PROVE  TypeOK /\ WithinPlan /\ Request(o) => WithinPlan'
<1> SUFFICES ASSUME Typed, WithinPlan, Request(o) PROVE WithinPlan'
    BY DEF TypeOK, Typed
<1>0. o \in Drives /\ drive[o] \in Call
      BY DEF Drives, Typed
<1>1. drive'[o].pc \in {"deciding", "decided", "node", "done"}
  <2>1. CASE LoadDecision(o)
        BY <1>0, <2>1 DEF LoadDecision, Typed, Call
  <2>2. CASE Resume(o)
        BY <1>0, <2>2 DEF Resume, Typed, Call, In
  <2>3. ASSUME NEW approved \in BOOLEAN, Decide(o, approved)
        PROVE  drive'[o].pc = "decided"
        BY <1>0, <2>3 DEF Decide, Typed, In
  <2> QED
      BY <2>1, <2>2, <2>3 DEF Request
<1>2. \A e \in Drives \ {o} : drive'[e] = drive[e]
      BY DEF Request, LoadDecision, Resume, Decide, Typed
<1>3. UNCHANGED attempts
      BY DEF Request, LoadDecision, Resume, Decide
<1> QED
    BY <1>0, <1>1, <1>2, <1>3, LimitsKept

(* No operation at all points past the end of the plan.                    *)
LEMMA LimitsNext == TypeOK /\ WithinPlan /\ [Next]_vars => WithinPlan'
<1> SUFFICES ASSUME TypeOK, WithinPlan, [Next]_vars PROVE WithinPlan'
    OBVIOUS
<1>1. CASE CancelTask \/ Sweep \/ UNCHANGED vars
      BY <1>1 DEF CancelTask, Sweep, CancelLoads, CancelCommits, CancelReleases, SweepSelects,
         SweepCommits, vars, WithinPlan, At
<1>2. CASE Crash
  <2>1. \A d \in Drives : drive'[d] = IF d \in Active THEN In("done") ELSE drive[d]
        BY <1>2 DEF Crash
  <2>2. In("done").pc = "done" /\ Driver \in Drives
        BY DEF In, Drives
  <2> QED
      BY <1>2, <2>1, <2>2 DEF Crash, WithinPlan, At
<1> QED
    BY <1>1, <1>2, LimitsDriveTask, LimitsDriveNext, LimitsRequest DEF Next

------------------------------------------------------------------------------

(* The invariant holds in every reachable state.                           *)
THEOREM InvHolds == Spec => []IInv
<1>1. IInv /\ [Next]_vars => IInv'
      BY TypeNext, LimitsNext, LedgerNext DEF IInv, Ledger
<1> QED
    BY <1>1, InvInit, PTL DEF Spec

(* The row, the checklist, the approval records, the checkpoint and the    *)
(* locals of every call keep their types, whoever writes them in whatever  *)
(* order, and drive_task never exceeds max_replan_attempts.                *)
THEOREM TypeCorrect == Spec => []TypeOK
<1>1. IInv => TypeOK
      BY DEF IInv
<1> QED
    BY <1>1, InvHolds, PTL

(* No call runs a mutating skill without a decision that approved it, or   *)
(* two on one decision (orchestrator._await_approval and                   *)
(* resume_after_approval), for any number of steps, requests, re-plans and *)
(* crashes.                                                                *)
THEOREM ApprovalsArePaid == Spec => []ExecutionsPaid
<1>1. IInv => ExecutionsPaid
      BY DEF IInv
<1> QED
    BY <1>1, InvHolds, PTL

------------------------------------------------------------------------------

(* A task that is orderly after a step was orderly before it.              *)
LEMMA OrderlyBefore ==
  ASSUME TypeOK, [Next]_vars, Orderly'
  PROVE  Orderly
<1>1. crashes' = 0 /\ ~overlapped' /\ crashes \in Nat /\ overlapped \in BOOLEAN
      BY DEF Orderly, TypeOK
<1>2. CASE DriveTask \/ UNCHANGED vars
      BY <1>1, <1>2 DEF Orderly, DriveTask, Begin, PlanningFails, PlanOnly, Admit, Launch,
         Outcome, vars, history
<1>3. ASSUME NEW d \in Drives, DriveNext(d) PROVE Orderly
  <2>1. overlapped' = overlapped /\ crashes' = crashes
        BY <1>3 DEF DriveNext, SkipRest, Refuse, Read, AskApproval, Interrupt, SkillReturns,
           NodeCrashed, End, Settle, history
  <2> QED
      BY <1>1, <2>1 DEF Orderly
<1>loads. ASSUME NEW self, Loads(self) PROVE Orderly
  <2>1. ~overlapped
        BY <1>1, <1>loads, Zenon DEF Loads
  <2>2. crashes' = crashes
        BY <1>loads DEF Loads
  <2> QED
      BY <1>1, <2>1, <2>2 DEF Orderly
<1>same. ASSUME overlapped' = overlapped, crashes' = crashes PROVE Orderly
      BY <1>1, <1>same DEF Orderly
<1>4. ASSUME NEW o \in Operators, Request(o) PROVE Orderly
  <2>1. Loads(o) \/ (overlapped' = overlapped /\ crashes' = crashes)
        BY <1>4 DEF Request, LoadDecision, Resume, Decide, history
  <2> QED
      BY <2>1, <1>loads, <1>same
<1>5. CASE CancelTask \/ Sweep
  <2>1. \/ Loads("canceller") \/ Loads("sweeper")
        \/ overlapped' = overlapped /\ crashes' = crashes
        BY <1>5 DEF CancelTask, Sweep, CancelLoads, CancelCommits, CancelReleases,
           SweepSelects, SweepCommits, history
  <2> QED
      BY <2>1, <1>loads, <1>same
<1>6. CASE Crash
      BY <1>1, <1>6 DEF Crash
<1> QED
    BY <1>2, <1>3, <1>4, <1>5, <1>6 DEF Next

------------------------------------------------------------------------------
(* What follows is about an undisturbed task: nobody looks at the row      *)
(* while a call is under way, no node raises and the process lives.        *)

(* No step after step k has been asked for.                                *)
Ahead(k) == \A s \in Steps : s > k => record[s] = "none"
Untouched == \A s \in Steps : record[s] = "none"

(* The task is paused at the step its thread stands at.                    *)
Paused ==
  /\ row = "awaiting_approval" /\ flagged = {}
  /\ thread.exists /\ thread.at \in Steps
  /\ awaiting = {thread.at} /\ record[thread.at] = "pending" /\ Ahead(thread.at)

(* What a drive of the graph may leave behind.                             *)
Rested ==
  /\ row \in Terminal \cup {"awaiting_approval"}
  /\ row \in {"completed", "cancelled"} => contexts = NoOne
  /\ row = "awaiting_approval" => Paused

(* Step k has just been decided on, and call d holds the decision.         *)
Verdict(answer) == IF answer = "yes" THEN "approved" ELSE "rejected"
Answers(d, k) ==
  /\ k \in Steps /\ awaiting = {k} /\ execs[k] = 0 /\ Ahead(k)
  /\ drive[d].answer # "none" /\ record[k] = Verdict(drive[d].answer)

(* The thread is at the step of call d.                                    *)
OnThread(d) == thread.exists /\ thread.at = drive[d].at

(* One clause for each place of drive_task ...                             *)
Planning(d) ==
  /\ drive[d].pc \in {"new", "planning", "admitted"} => Untouched /\ contexts = NoOne
  /\ drive[d].pc = "admitted" => awaiting = {}
  /\ drive[d].pc = "outcome" => Rested /\ (row = "failed" => Untouched)

(* ... of a request ...                                                    *)
Requesting(d) ==
  /\ drive[d].pc = "deciding" => Paused /\ drive[d].at = thread.at /\ drive[d].saw = "pending"
  /\ drive[d].pc = "decided" => thread.exists /\ Answers(d, thread.at)

(* ... and of a drive of the graph.                                        *)
Stepping(d) ==
  /\ drive[d].pc \in {"node", "asked", "exec"} => OnThread(d)
  /\ drive[d].pc = "node" =>
       IF drive[d].answer = "none" THEN awaiting = {} /\ Ahead(drive[d].at - 1)
       ELSE Answers(d, drive[d].at)
  /\ drive[d].pc = "asked" =>
       /\ row = "awaiting_approval" /\ awaiting = {drive[d].at} /\ Ahead(drive[d].at)
       /\ IF drive[d].answer = "none" THEN record[drive[d].at] = "pending"
          ELSE Answers(d, drive[d].at)
  /\ drive[d].pc = "exec" => awaiting = {} /\ Ahead(drive[d].at)

(* drive_task itself never gets past a step that asks.                     *)
DriverAsksOnly ==
  /\ drive[Driver].pc \in {"node", "exec", "settling"} => Untouched
  /\ drive[Driver].pc \in {"node", "asked", "exec"} => drive[Driver].answer = "none"

(* One at a time: a call, cancel_task or the sweep.                        *)
OneActor ==
  /\ \A d, e \in Active : d = e
  /\ Midway(canceller) \/ Midway(sweeper) => Active = {}
  /\ ~(Midway(canceller) /\ Midway(sweeper))
  /\ Active # {} => flagged = {}
  /\ canceller = "committed" => row = "cancelled"

RunsOnRecord == \A s \in Steps : execs[s] <= IF record[s] = "approved" THEN 1 ELSE 0

Tame ==
  /\ OneActor /\ RunsOnRecord /\ awaiting \subseteq mutating
  /\ \A d \in Drives : Planning(d) /\ Requesting(d) /\ Stepping(d)
  /\ DriverAsksOnly
  /\ AtRest => Rested

TameInv == Undisturbed => Tame

(* Nobody but call d is under way.                                         *)
Sole(d) ==
  /\ \A e \in Drives \ {d} : ~Midway(drive[e].pc)
  /\ ~Midway(canceller) /\ ~Midway(sweeper)

(* A call that is under way is alone.                                      *)
LEMMA ActiveIsSole ==
  ASSUME OneActor, NEW d \in Drives, Midway(drive[d].pc)
  PROVE  Sole(d) /\ flagged = {}
<1>1. d \in Active
      BY DEF Active
<1>2. \A e \in Drives : Midway(drive[e].pc) => e = d
      BY <1>1 DEF Active, OneActor
<1> QED
    BY <1>1, <1>2 DEF OneActor, Sole

(* What a step of the only call has to show.                               *)
LEMMA TameAfter ==
  ASSUME Undisturbed, Tame, NEW d \in Drives, Sole(d),
         \A e \in Drives \ {d} : drive'[e] = drive[e],
         UNCHANGED othersVars, flagged' = {},
         RunsOnRecord', (awaiting \subseteq mutating)',
         Planning(d)', Requesting(d)', Stepping(d)',
         d = Driver => DriverAsksOnly',
         ~Midway(drive'[d].pc) => Rested'
  PROVE  Tame'
<1>1. \A e \in Drives \ {d} : ~Midway(drive'[e].pc)
      BY DEF Sole
<1>2. ~Midway(canceller)' /\ ~Midway(sweeper)'
      BY DEF Sole, othersVars, Midway
<1>3. OneActor'
      BY <1>1, <1>2 DEF OneActor, Active, Midway
<1>4. ASSUME NEW e \in Drives PROVE Planning(e)' /\ Requesting(e)' /\ Stepping(e)'
      BY <1>1, <1>4 DEF Planning, Requesting, Stepping, Midway
<1>5. DriverAsksOnly'
  <2>1. CASE d # Driver
    <3>1. Driver \in Drives \ {d}
          BY <2>1 DEF Drives
    <3> QED
        BY <1>1, <3>1 DEF DriverAsksOnly, Midway
  <2> QED
      BY <2>1
<1>6. AtRest' => Rested'
  <2>1. AtRest' => d \notin Active'
        BY ActorsAssumption DEF AtRest, Alone, Drives
  <2>2. d \notin Active' => ~Midway(drive'[d].pc)
        BY DEF Active
  <2> QED
      BY <2>1, <2>2
<1> QED
    BY <1>3, <1>4, <1>5, <1>6 DEF Tame

(* While nothing is asked for, nothing has run; what has run, has a record *)
(* that approved it.                                                       *)
LEMMA RanOnRecord ==
  ASSUME TypeOK, RunsOnRecord, NEW s \in Steps, record[s] # "approved"
  PROVE  execs[s] = 0
BY DEF TypeOK, RunsOnRecord

(* Every step of drive_task keeps an undisturbed task tame.                    *)
LEMMA TameDriveTask ==
  ASSUME TypeOK, Undisturbed, Tame, DriveTask
  PROVE  Tame'
<1>0. Driver \in Drives /\ drive[Driver] \in Call
      BY DEF Drives, TypeOK
<1>1. drive[Driver].pc \in {"new", "planning", "admitted", "outcome"}
      BY DEF DriveTask, Begin, PlanningFails, PlanOnly, Admit, Launch, Outcome
<1>2. Sole(Driver) /\ flagged = {}
      BY <1>0, <1>1, ActiveIsSole DEF Tame, Midway
<1>3. Typed /\ Planning(Driver) /\ RunsOnRecord /\ awaiting \subseteq mutating
      BY <1>0 DEF TypeOK, Tame, Typed
<1>4. UNCHANGED <<mutating, record, execs, othersVars>>
      BY DEF DriveTask, Begin, PlanningFails, PlanOnly, Admit, Launch, Outcome, history, taskVars,
         othersVars
<1>5. RunsOnRecord' /\ flagged' = {}
  <2>1. flagged' = {}
        BY <1>2 DEF DriveTask, Begin, PlanningFails, PlanOnly, Admit, Launch, Outcome, contextVars
  <2> QED
      BY <1>3, <1>4, <2>1 DEF RunsOnRecord
<1>6. (awaiting \subseteq mutating)'
      BY <1>3, <1>4 DEF DriveTask, Begin, PlanningFails, PlanOnly, Admit, Launch, Outcome, rowVars
<1>7. ASSUME NEW p \in {"new", "planning", "admitted", "outcome", "done"}, Goto(Driver, p),
             Planning(Driver)', p = "done" => Rested'
      PROVE  Tame'
  <2>1. /\ drive'[Driver].pc = p
        /\ \A e \in Drives \ {Driver} : drive'[e] = drive[e]
        BY <1>0, <1>3, <1>7, GotoOnly
  <2>2. Requesting(Driver)' /\ Stepping(Driver)' /\ DriverAsksOnly'
        BY <2>1 DEF Requesting, Stepping, DriverAsksOnly
  <2> QED
      BY <1>0, <1>2, <1>4, <1>5, <1>6, <1>7, <2>1, <2>2, TameAfter DEF Midway
<1>goto. ASSUME NEW p, Goto(Driver, p) PROVE drive'[Driver].pc = p
      BY <1>0, <1>3, <1>goto, GotoOnly
<1>8. CASE Begin
  <2>1. Goto(Driver, "planning") /\ UNCHANGED contexts /\ drive[Driver].pc = "new"
        BY <1>8 DEF Begin, contextVars
  <2>2. Planning(Driver)'
        BY <1>3, <1>4, <1>goto, <2>1 DEF Planning, Untouched
  <2> QED
      BY <1>7, <2>1, <2>2
<1>9. CASE PlanningFails
  <2>1. Untouched /\ row' = "failed" /\ contexts' = NoOne
        BY <1>3, <1>9 DEF PlanningFails, Planning
  <2>2. Rested' /\ Untouched'
        BY <1>4, <2>1 DEF Rested, Terminal, Untouched
  <2>3. CASE Goto(Driver, "outcome")
        BY <1>7, <1>goto, <2>2, <2>3 DEF Planning
  <2>4. CASE Goto(Driver, "done")
        BY <1>7, <1>goto, <2>2, <2>4 DEF Planning
  <2> QED
      BY <1>9, <2>3, <2>4 DEF PlanningFails
<1>10. CASE PlanOnly
  <2>1. Goto(Driver, "outcome") /\ row' = "completed" /\ contexts' = NoOne
        BY <1>3, <1>10 DEF PlanOnly, Planning, contextVars
  <2>2. Planning(Driver)'
        BY <1>goto, <2>1 DEF Planning, Rested, Terminal
  <2> QED
      BY <1>7, <2>1, <2>2
<1>11. CASE Admit
  <2>1. Goto(Driver, "admitted") /\ UNCHANGED contexts /\ drive[Driver].pc = "planning" /\ awaiting' = {}
        BY <1>11 DEF Admit, contextVars
  <2>2. Planning(Driver)'
        BY <1>3, <1>4, <1>goto, <2>1 DEF Planning, Untouched
  <2> QED
      BY <1>7, <2>1, <2>2
<1>12. CASE Launch
  <2>1. /\ drive'[Driver].pc = "node" /\ drive'[Driver].answer = "none" /\ drive'[Driver].at = 0
        /\ \A e \in Drives \ {Driver} : drive'[e] = drive[e]
        BY <1>0, <1>12 DEF Launch, TypeOK, In
  <2>2. thread' = Thread(0, FALSE) /\ awaiting' = {} /\ Untouched'
        BY <1>3, <1>4, <1>12 DEF Launch, Planning, Untouched, rowVars
  <2>3. Stepping(Driver)'
        BY <2>1, <2>2 DEF Stepping, OnThread, Thread, Ahead, Untouched
  <2>4. Planning(Driver)' /\ Requesting(Driver)' /\ DriverAsksOnly'
        BY <2>1, <2>2 DEF Planning, Requesting, DriverAsksOnly
  <2> QED
      BY <1>0, <1>2, <1>4, <1>5, <1>6, <2>1, <2>3, <2>4, TameAfter DEF Midway
<1>13. CASE Outcome
  <2>1. Rested /\ (row = "failed" => Untouched) /\ UNCHANGED <<row, awaiting, record>>
        BY <1>3, <1>13 DEF Outcome, Planning, rowVars
  <2>2. CASE Goto(Driver, "done") /\ UNCHANGED <<thread, contexts>>
    <3>1. Rested'
          BY <1>2, <1>5, <2>1, <2>2 DEF Rested, Paused, Ahead
    <3> QED
        BY <1>7, <1>goto, <2>2, <3>1 DEF Planning
  <2>3. CASE row = "failed" /\ Goto(Driver, "new") /\ contexts' = NoOne
    <3>1. Untouched'
          BY <2>1, <2>3 DEF Untouched
    <3> QED
        BY <1>7, <1>goto, <2>3, <3>1 DEF Planning
  <2> QED
      BY <1>13, <2>2, <2>3 DEF Outcome
<1> QED
    BY <1>8, <1>9, <1>10, <1>11, <1>12, <1>13 DEF DriveTask

(* Every step of a drive of the graph keeps an undisturbed task tame.          *)
LEMMA TameDriveNext ==
  ASSUME TypeOK, WithinPlan, Undisturbed, Undisturbed', Tame, NEW d \in Drives, DriveNext(d)
  PROVE  Tame'
<1>0. drive[d] \in Call /\ Typed
      BY DEF TypeOK, Typed
<1>calm. ~NodeCrashed(d)
      BY DEF NodeCrashed, Undisturbed
<1>1. drive[d].pc \in {"node", "asked", "exec", "settling"}
      BY <1>calm DEF DriveNext, SkipRest, Refuse, Read, AskApproval, Interrupt, SkillReturns, End, Settle,
         Working, At
<1>2. Sole(d) /\ flagged = {}
      BY <1>1, ActiveIsSole DEF Tame, Midway
<1>3. Stepping(d) /\ RunsOnRecord /\ awaiting \subseteq mutating /\ DriverAsksOnly
      BY DEF Tame
<1>4. UNCHANGED <<mutating, flagged, othersVars>>
      BY <1>calm DEF DriveNext, SkipRest, Refuse, Read, AskApproval, Interrupt, SkillReturns, End, Settle,
         contextVars, taskVars, othersVars
<1>5. drive[d].at \in 0 .. NSteps /\ (drive[d].at < NSteps => drive[d].at \in Steps)
      BY <1>0, NStepsAssumption DEF Call, Steps
<1>goto. ASSUME NEW p, Goto(d, p)
         PROVE  /\ drive'[d].pc = p /\ drive'[d].answer = drive[d].answer
                /\ drive'[d].at = drive[d].at
                /\ \A e \in Drives \ {d} : drive'[e] = drive[e]
      BY <1>0, <1>goto, GotoOnly
(* A step that is over: the next one is asked without an answer.           *)
<1>6. ASSUME NEW failed \in BOOLEAN, Advance(d, failed), awaiting' = {}, Ahead(drive[d].at),
             UNCHANGED <<record, execs>>, d = Driver => Untouched
      PROVE  Tame'
  <2>1. /\ drive'[d].pc = "node" /\ drive'[d].answer = "none"
        /\ \A e \in Drives \ {d} : drive'[e] = drive[e]
        BY <1>0, <1>6, AdvanceOnly
  <2>2. drive'[d].at = drive[d].at + 1
        BY <1>0, <1>6 DEF Advance, Typed, Call
  <2>3. thread' = Thread(drive[d].at + 1, drive[d].erred \/ failed)
        BY <1>6 DEF Advance
  <2>4. Ahead(drive[d].at)'
        BY <1>6, <2>2, <1>5 DEF Ahead, Steps
  <2>5. \A s \in Steps : s > drive'[d].at - 1 => record'[s] = "none"
        BY <1>5, <1>6, <2>2, NStepsAssumption DEF Ahead, Steps
  <2>6. Stepping(d)'
        BY <1>6, <2>1, <2>2, <2>3, <2>5 DEF Stepping, OnThread, Thread, Ahead
  <2>7. RunsOnRecord' /\ (d = Driver => DriverAsksOnly')
        BY <1>3, <1>6, <2>1 DEF RunsOnRecord, DriverAsksOnly, Untouched
  <2>8. Planning(d)' /\ Requesting(d)'
        BY <2>1 DEF Planning, Requesting
  <2> QED
      BY <1>2, <1>4, <1>6, <2>1, <2>6, <2>7, <2>8, TameAfter DEF Midway
(* A drive that is over.                                                   *)
<1>7. ASSUME Leave(d), UNCHANGED <<awaiting, record, execs>>, Rested',
             d = Driver /\ row' = "failed" => Untouched
      PROVE  Tame'
  <2>1. /\ drive'[d].pc = IF d = Driver THEN "outcome" ELSE "done"
        /\ \A e \in Drives \ {d} : drive'[e] = drive[e]
        BY <1>0, <1>7 DEF Leave, Typed, In
  <2>2. Planning(d)'
        BY <1>7, <2>1 DEF Planning, Untouched
  <2>3. Requesting(d)' /\ Stepping(d)' /\ (d = Driver => DriverAsksOnly')
        BY <2>1 DEF Requesting, Stepping, DriverAsksOnly
  <2>4. RunsOnRecord' /\ (awaiting \subseteq mutating)'
        BY <1>3, <1>4, <1>7 DEF RunsOnRecord
  <2> QED
      BY <1>2, <1>4, <1>7, <2>1, <2>2, <2>3, <2>4, TameAfter DEF Midway
<1>8. ~SkipRest(d)
      BY <1>2 DEF SkipRest, Cancelled
<1>9. CASE Refuse(d)
  <2>1. /\ drive[d].pc = "node" /\ Advance(d, TRUE) /\ awaiting' = awaiting \ {drive[d].at}
        /\ UNCHANGED <<record, execs>>
        BY <1>9 DEF Refuse, Working, At, history
  <2>2. awaiting' = {} /\ Ahead(drive[d].at)
        BY <1>3, <1>5, <2>1 DEF Stepping, Answers, Ahead, Steps
  <2>3. d = Driver => Untouched
        BY <1>3, <2>1 DEF DriverAsksOnly
  <2> QED
      BY <1>6, <2>1, <2>2, <2>3
<1>10. CASE Read(d)
  <2>1. /\ drive[d].pc = "node" /\ drive[d].at \notin mutating /\ Goto(d, "exec")
        /\ UNCHANGED <<awaiting, record, execs, thread>>
        BY <1>10 DEF Read, Working, At, history, rowVars
  <2>2. awaiting = {} /\ Ahead(drive[d].at)
        BY <1>3, <1>5, <2>1 DEF Stepping, Answers, Ahead, Steps
  <2>3. Stepping(d)'
        BY <1>3, <1>goto, <2>1, <2>2 DEF Stepping, OnThread, Ahead
  <2>4. Planning(d)' /\ Requesting(d)' /\ (d = Driver => DriverAsksOnly')
        BY <1>3, <1>goto, <2>1 DEF Planning, Requesting, DriverAsksOnly, Untouched
  <2>5. RunsOnRecord' /\ (awaiting \subseteq mutating)'
        BY <1>3, <1>4, <2>1 DEF RunsOnRecord
  <2> QED
      BY <1>2, <1>4, <1>goto, <2>1, <2>3, <2>4, <2>5, TameAfter DEF Midway
<1>11. CASE AskApproval(d)
  <2> DEFINE k == drive[d].at
  <2>1. /\ drive[d].pc = "node" /\ k \in mutating /\ k \in Steps /\ Goto(d, "asked")
        /\ record' = [record EXCEPT ![k] = IF @ = "none" THEN "pending" ELSE @]
        /\ row' = "awaiting_approval" /\ awaiting' = awaiting \cup {k}
        /\ UNCHANGED <<execs, thread>>
        BY <1>5, <1>11 DEF AskApproval, Working, At, history
  <2>2. awaiting' = {k} /\ Ahead(k)
        BY <1>3, <1>5, <2>1 DEF Stepping, Answers, Ahead, Steps
  <2>3. /\ record'[k] = IF record[k] = "none" THEN "pending" ELSE record[k]
        /\ \A s \in Steps \ {k} : record'[s] = record[s]
        BY <2>1 DEF TypeOK
  <2>4. Ahead(k)'
        BY <1>goto, <2>1, <2>2, <2>3 DEF Ahead, Steps
  <2>5. drive[d].answer = "none" => record[k] = "none"
        BY <1>3, <2>1, NStepsAssumption DEF Stepping, Ahead, Steps
  <2>6. Stepping(d)'
    <3>1. CASE drive[d].answer = "none"
          BY <1>3, <1>goto, <2>1, <2>2, <2>3, <2>4, <2>5, <3>1 DEF Stepping, OnThread
    <3>2. CASE drive[d].answer # "none"
      <4>1. Answers(d, k) /\ record[k] # "none"
            BY <1>3, <2>1, <3>2 DEF Stepping, Answers, Verdict
      <4>2. Answers(d, k)'
            BY <1>goto, <2>1, <2>2, <2>3, <2>4, <4>1 DEF Answers, Verdict
      <4> QED
          BY <1>3, <1>goto, <2>1, <2>2, <2>4, <3>2, <4>2 DEF Stepping, OnThread
    <3> QED
        BY <3>1, <3>2
  <2>7. Planning(d)' /\ Requesting(d)' /\ (d = Driver => DriverAsksOnly')
        BY <1>3, <1>goto, <2>1 DEF Planning, Requesting, DriverAsksOnly
  <2>8. RunsOnRecord' /\ (awaiting \subseteq mutating)'
        BY <1>3, <1>4, <2>1, <2>3 DEF RunsOnRecord
  <2> QED
      BY <1>2, <1>4, <1>goto, <2>1, <2>6, <2>7, <2>8, TameAfter DEF Midway
<1>12. CASE Interrupt(d)
  <2> DEFINE k == drive[d].at
  <2>1. /\ drive[d].pc = "asked" /\ UNCHANGED <<row, record>> /\ k \in Steps
        /\ row = "awaiting_approval" /\ awaiting = {k} /\ Ahead(k) /\ OnThread(d)
        BY <1>3, <1>5, <1>12 DEF Interrupt, At, Stepping, WithinPlan
  <2>2. CASE drive[d].answer = "none"
    <3>1. Leave(d) /\ UNCHANGED <<awaiting, thread, execs>>
          BY <1>12, <2>2 DEF Interrupt, Approves
    <3>2. record[k] = "pending"
          BY <1>3, <2>1, <2>2 DEF Stepping
    <3>3. Rested'
          BY <1>2, <1>4, <2>1, <3>1, <3>2 DEF Rested, Paused, OnThread, Ahead, Terminal
    <3> QED
        BY <1>7, <2>1, <3>1, <3>3
  <2>3. CASE Approves(drive[d].answer)
    <3>1. /\ Goto(d, "exec") /\ awaiting' = awaiting \ {k} /\ UNCHANGED thread
          /\ execs' = [execs EXCEPT ![k] = @ + 1] /\ drive[d].answer = "yes"
          BY <1>12, <2>3 DEF Interrupt, Approves
    <3>2. Answers(d, k) /\ d # Driver
          BY <1>3, <2>1, <3>1 DEF Stepping, DriverAsksOnly
    <3>3. execs'[k] = 1 /\ record[k] = "approved" /\ \A s \in Steps \ {k} : execs'[s] = execs[s]
          BY <2>1, <3>1, <3>2 DEF Answers, Verdict, TypeOK
    <3>4. RunsOnRecord'
          BY <1>3, <2>1, <3>3 DEF RunsOnRecord
    <3>5. Stepping(d)' /\ Planning(d)' /\ Requesting(d)'
          BY <1>goto, <2>1, <3>1 DEF Stepping, OnThread, Planning, Requesting, Ahead
    <3>6. (awaiting \subseteq mutating)'
          BY <1>3, <1>4, <3>1
    <3> QED
        BY <1>2, <1>4, <1>goto, <3>1, <3>2, <3>4, <3>5, <3>6, TameAfter DEF Midway
  <2>4. CASE drive[d].answer # "none" /\ ~Approves(drive[d].answer)
    <3>1. Advance(d, TRUE) /\ awaiting' = awaiting \ {k} /\ UNCHANGED execs
          BY <1>12, <2>4 DEF Interrupt
    <3>2. d # Driver
          BY <1>3, <2>1, <2>4 DEF DriverAsksOnly
    <3> QED
        BY <1>6, <2>1, <3>1, <3>2
  <2> QED
      BY <2>2, <2>3, <2>4
<1>13. CASE SkillReturns(d)
  <2>1. PICK failed \in BOOLEAN : Advance(d, failed)
        BY <1>13 DEF SkillReturns
  <2>2. drive[d].pc = "exec" /\ UNCHANGED <<awaiting, record, execs>>
        BY <1>13 DEF SkillReturns, At, rowVars, history
  <2>3. awaiting = {} /\ Ahead(drive[d].at) /\ (d = Driver => Untouched)
        BY <1>3, <2>2 DEF Stepping, DriverAsksOnly
  <2> QED
      BY <1>6, <2>1, <2>2, <2>3
<1>14. CASE End(d)
  <2>1. /\ drive[d].pc = "node" /\ Goto(d, "settling")
        /\ UNCHANGED <<awaiting, record, execs, thread>>
        BY <1>2, <1>14 DEF End, At, Cancelled, rowVars, history
  <2>2. /\ Stepping(d)' /\ Planning(d)' /\ Requesting(d)'
        /\ (d = Driver => DriverAsksOnly')
        BY <1>3, <1>goto, <2>1 DEF Stepping, Planning, Requesting, DriverAsksOnly, Untouched
  <2>3. RunsOnRecord' /\ (awaiting \subseteq mutating)'
        BY <1>3, <1>4, <2>1 DEF RunsOnRecord
  <2> QED
      BY <1>2, <1>4, <1>goto, <2>1, <2>2, <2>3, TameAfter DEF Midway
<1>15. CASE Settle(d)
  <2>1. /\ drive[d].pc = "settling" /\ Leave(d) /\ contexts' = NoOne
        /\ row' \in {"failed", "completed"} /\ UNCHANGED <<awaiting, record, execs>>
        BY <1>15 DEF Settle, At, history
  <2>2. Rested' /\ (d = Driver => Untouched)
        BY <1>3, <2>1 DEF Rested, Terminal, DriverAsksOnly
  <2> QED
      BY <1>7, <2>1, <2>2
<1> QED
    BY <1>calm, <1>8, <1>9, <1>10, <1>11, <1>12, <1>13, <1>14, <1>15 DEF DriveNext

(* Every step of a request keeps an undisturbed task tame.                     *)
LEMMA TameRequest ==
  ASSUME TypeOK, Undisturbed, Undisturbed', Tame, NEW o \in Operators, Request(o)
  PROVE  Tame'
<1>0. o \in Drives /\ o # Driver /\ drive[o] \in Call /\ Typed
      BY ActorsAssumption DEF Drives, TypeOK, Typed
<1>1. RunsOnRecord /\ awaiting \subseteq mutating
      BY DEF Tame
<1>2. CASE LoadDecision(o)
  <2>1. Alone(o) /\ drive[o].pc = "idle"
        BY <1>2 DEF LoadDecision, Loads, Undisturbed, Orderly, At
  <2>2. Sole(o) /\ AtRest
        BY <1>0, <2>1, ActorsAssumption DEF Alone, AtRest, Sole, Active, Midway, Drives
  <2>3. Paused
        BY <1>2, <2>2 DEF Tame, Rested, LoadDecision
  <2>4. PausedIndex = thread.at
        BY <2>3 DEF Paused, PausedIndex, Steps
  <2>5. /\ drive'[o].pc = "deciding" /\ drive'[o].at = thread.at /\ drive'[o].saw = "pending"
        /\ \A e \in Drives \ {o} : drive'[e] = drive[e]
        BY <1>0, <1>2, <2>3, <2>4 DEF LoadDecision, Typed, Call, Paused
  <2>6. /\ UNCHANGED <<row, awaiting, thread, record, flagged, mutating, othersVars, execs>>
        BY <1>2 DEF LoadDecision, Loads, rowVars, contextVars, taskVars
  <2>7. Paused'
        BY <2>3, <2>6 DEF Paused, Ahead
  <2>8. Planning(o)' /\ Requesting(o)' /\ Stepping(o)'
        BY <2>5, <2>6, <2>7 DEF Planning, Requesting, Stepping
  <2>9. RunsOnRecord' /\ (awaiting \subseteq mutating)' /\ flagged' = {}
        BY <1>1, <2>6, <2>7 DEF RunsOnRecord, Paused
  <2> QED
      BY <1>0, <2>2, <2>5, <2>6, <2>8, <2>9, TameAfter DEF Midway
<1>3. CASE Resume(o)
  <2>1. drive[o].pc = "decided" /\ UNCHANGED <<awaiting, record, thread, flagged, mutating,
                                               othersVars, execs>>
        BY <1>3 DEF Resume, At, rowVars, taskVars, history
  <2>2. Sole(o) /\ flagged = {} /\ thread.exists /\ Answers(o, thread.at)
        BY <1>0, <2>1, ActiveIsSole DEF Tame, Midway, Requesting
  <2>3. /\ drive'[o].pc = "node" /\ drive'[o].at = thread.at /\ drive'[o].answer = drive[o].answer
        /\ \A e \in Drives \ {o} : drive'[e] = drive[e]
        BY <1>0, <1>3, <2>2 DEF Resume, Typed, Call
  <2>4. Answers(o, thread.at)'
        BY <2>1, <2>2, <2>3 DEF Answers, Ahead
  <2>5. Planning(o)' /\ Requesting(o)' /\ Stepping(o)'
        BY <2>1, <2>2, <2>3, <2>4 DEF Planning, Requesting, Stepping, OnThread, Answers
  <2>6. RunsOnRecord' /\ (awaiting \subseteq mutating)'
        BY <1>1, <2>1 DEF RunsOnRecord
  <2> QED
      BY <1>0, <2>1, <2>2, <2>3, <2>5, <2>6, TameAfter DEF Midway
<1>4. ASSUME NEW approved \in BOOLEAN, Decide(o, approved)
      PROVE  Tame'
  <2> DEFINE k == thread.at
  <2>1. drive[o].pc = "deciding" /\ UNCHANGED <<awaiting, thread, flagged, mutating, othersVars,
                                                execs>>
        BY <1>4 DEF Decide, At, contextVars, taskVars
  <2>2. Sole(o) /\ Paused /\ drive[o].at = k /\ drive[o].saw = "pending"
        BY <1>0, <2>1, ActiveIsSole DEF Tame, Midway, Requesting
  <2>3. /\ drive'[o].pc = "decided" /\ drive'[o].answer = IF approved THEN "yes" ELSE "no"
        /\ \A e \in Drives \ {o} : drive'[e] = drive[e]
        BY <1>0, <1>4 DEF Decide, Typed, In
  <2>4. /\ record'[k] = IF approved THEN "approved" ELSE "rejected"
        /\ \A s \in Steps \ {k} : record'[s] = record[s]
        BY <1>4, <2>2 DEF Decide, TypeOK, Paused
  <2>5. execs[k] = 0
        BY <1>1, <2>2, RanOnRecord DEF Paused
  <2>6. Answers(o, k)' /\ thread'.exists
        BY <2>1, <2>2, <2>3, <2>4, <2>5 DEF Answers, Paused, Ahead, Verdict, Steps
  <2>7. Planning(o)' /\ Requesting(o)' /\ Stepping(o)'
        BY <2>1, <2>3, <2>6 DEF Planning, Requesting, Stepping
  <2>8. RunsOnRecord' /\ (awaiting \subseteq mutating)' /\ flagged' = {}
        BY <1>1, <2>1, <2>2, <2>4, <2>5 DEF RunsOnRecord, Paused
  <2> QED
      BY <1>0, <2>1, <2>2, <2>3, <2>7, <2>8, TameAfter DEF Midway
<1> QED
    BY <1>2, <1>3, <1>4 DEF Request

(* cancel_task and the sweep find an undisturbed task at rest.                 *)
LEMMA TameQuiet ==
  ASSUME Tame, Active = {}, UNCHANGED <<drive, record, execs, mutating>>,
         awaiting' \subseteq awaiting,
         ~(Midway(canceller') /\ Midway(sweeper')),
         canceller' = "committed" => row' = "cancelled",
         AtRest' => Rested'
  PROVE  Tame'
<1>1. Active' = {} /\ \A d \in Drives : ~Midway(drive'[d].pc)
      BY DEF Active
<1>2. OneActor'
      BY <1>1 DEF OneActor
<1>3. ASSUME NEW d \in Drives PROVE Planning(d)' /\ Requesting(d)' /\ Stepping(d)'
      BY <1>1, <1>3 DEF Planning, Requesting, Stepping, Midway
<1>4. DriverAsksOnly'
      BY <1>1 DEF DriverAsksOnly, Midway, Drives
<1>5. RunsOnRecord' /\ (awaiting \subseteq mutating)'
      BY DEF Tame, RunsOnRecord
<1> QED
    BY <1>2, <1>3, <1>4, <1>5 DEF Tame

(* So do the cancellation and the sweep, step by step.                     *)
LEMMA TameOthers ==
  ASSUME Undisturbed, Undisturbed', Tame, CancelTask \/ Sweep
  PROVE  Tame'
<1>1. OneActor
      BY DEF Tame
<1>rest. AtRest => ~Midway(canceller) /\ ~Midway(sweeper)
      BY ActorsAssumption DEF AtRest, Alone
<1>next. AtRest' => ~Midway(canceller') /\ ~Midway(sweeper')
      BY ActorsAssumption DEF AtRest, Alone
<1>2. UNCHANGED <<drive, record, execs, mutating>>
      BY DEF CancelTask, Sweep, CancelLoads, CancelCommits, CancelReleases, SweepSelects,
         SweepCommits, Loads, taskVars, history
<1>3. CASE CancelLoads
  <2>1. Alone("canceller")
        BY <1>3 DEF CancelLoads, Loads, Undisturbed, Orderly
  <2>2. Active = {} /\ ~Midway(sweeper)
        BY <2>1, ActorsAssumption DEF Alone, Active, Drives
  <2>3. canceller' = "loaded" /\ sweeper' = sweeper /\ awaiting' = awaiting
        BY <1>3 DEF CancelLoads, rowVars
  <2> QED
      BY <1>2, <1>next, <2>2, <2>3, TameQuiet DEF Midway
<1>4. CASE CancelCommits \/ CancelReleases
  <2>1. Midway(canceller)
        BY <1>4 DEF CancelCommits, CancelReleases, Midway
  <2>2. Active = {} /\ ~Midway(sweeper)
        BY <1>1, <2>1 DEF OneActor
  <2>3. sweeper' = sweeper /\ awaiting' \subseteq awaiting
        BY <1>4 DEF CancelCommits, CancelReleases, rowVars
  <2>4. CASE CancelCommits
        BY <1>2, <1>next, <2>2, <2>3, <2>4, TameQuiet DEF CancelCommits, Midway
  <2>5. CASE CancelReleases
    <3>1. canceller' = "done" /\ row' = "cancelled" /\ contexts' = NoOne
          BY <1>1, <2>5 DEF CancelReleases, OneActor, rowVars
    <3>2. Rested'
          BY <3>1 DEF Rested, Terminal
    <3> QED
        BY <1>2, <2>2, <2>3, <3>1, <3>2, TameQuiet DEF Midway
  <2> QED
      BY <1>4, <2>4, <2>5
<1>5. CASE SweepSelects
  <2>1. Alone("sweeper")
        BY <1>5 DEF SweepSelects, Loads, Undisturbed, Orderly
  <2>2. Active = {} /\ ~Midway(canceller)
        BY <2>1, ActorsAssumption DEF Alone, Active, Drives
  <2>3. sweeper' = "selected" /\ canceller' = canceller /\ awaiting' = awaiting
        BY <1>5 DEF SweepSelects, rowVars
  <2> QED
      BY <1>2, <1>next, <2>2, <2>3, TameQuiet DEF Midway
<1>6. CASE SweepCommits
  <2>1. Midway(sweeper) /\ sweeper' = "done" /\ canceller' = canceller
        BY <1>6 DEF SweepCommits, Midway
  <2>2. Active = {} /\ ~Midway(canceller)
        BY <1>1, <2>1 DEF OneActor
  <2>3. row' = "failed" /\ awaiting' = awaiting
        BY <1>6 DEF SweepCommits
  <2>4. Rested'
        BY <2>3 DEF Rested, Terminal
  <2> QED
      BY <1>2, <2>1, <2>2, <2>3, <2>4, TameQuiet DEF Midway
<1> QED
    BY <1>3, <1>4, <1>5, <1>6 DEF CancelTask, Sweep

(* A task that has just been created is tame.                              *)
LEMMA TameInit == Init => Tame
<1> SUFFICES ASSUME Init PROVE Tame
    OBVIOUS
<1>1. Driver \in Drives /\ Operators \subseteq Drives
      BY DEF Drives
<1>2. drive[Driver].pc = "new" /\ \A d \in Drives \ {Driver} : drive[d].pc = "idle"
      BY <1>1 DEF Init, In, Idle
<1>3. Active = {Driver}
      BY <1>1, <1>2 DEF Active, Midway
<1>4. ~Midway(canceller) /\ ~Midway(sweeper) /\ canceller # "committed"
      BY StopsAssumption DEF Init, Midway
<1>5. OneActor
      BY <1>3, <1>4 DEF OneActor, Init
<1>6. RunsOnRecord /\ awaiting \subseteq mutating /\ Untouched /\ contexts = NoOne
      BY DEF Init, RunsOnRecord, Untouched
<1>7. ASSUME NEW d \in Drives PROVE Planning(d) /\ Requesting(d) /\ Stepping(d)
  <2>1. drive[d].pc \in {"new", "idle"}
        BY <1>2, <1>7
  <2> QED
      BY <1>6, <2>1 DEF Planning, Requesting, Stepping
<1>8. DriverAsksOnly
      BY <1>2 DEF DriverAsksOnly
<1>9. ~AtRest
      BY <1>1, <1>3, ActorsAssumption DEF AtRest, Alone
<1> QED
    BY <1>5, <1>6, <1>7, <1>8, <1>9 DEF Tame

(* A task that is undisturbed after a step was undisturbed before it.      *)
LEMMA UndisturbedBefore ==
  ASSUME TypeOK, [Next]_vars, Undisturbed'
  PROVE  Undisturbed
<1>1. Orderly
      BY OrderlyBefore DEF Undisturbed
<1>2. raised' = raised \/ raised' = TRUE
  <2>1. ASSUME NEW d \in Drives, DriveNext(d) PROVE raised' = raised \/ raised' = TRUE
        BY <2>1 DEF DriveNext, SkipRest, Refuse, Read, AskApproval, Interrupt, SkillReturns,
           NodeCrashed, End, Settle, history
  <2>2. ASSUME NEW o \in Operators, Request(o) PROVE raised' = raised
        BY <2>2 DEF Request, LoadDecision, Resume, Decide, Loads, history
  <2>3. CASE CancelTask \/ Sweep
        BY <2>3 DEF CancelTask, Sweep, CancelLoads, CancelCommits, CancelReleases,
           SweepSelects, SweepCommits, Loads, history
  <2>4. CASE DriveTask \/ Crash \/ UNCHANGED vars
        BY <2>4 DEF DriveTask, Begin, PlanningFails, PlanOnly, Admit, Launch, Outcome, Crash,
           vars, history
  <2> QED
      BY <2>1, <2>2, <2>3, <2>4 DEF Next
<1>3. ~raised' /\ raised \in BOOLEAN
      BY DEF Undisturbed, TypeOK
<1>4. ~raised
      BY <1>2, <1>3
<1> QED
    BY <1>1, <1>4 DEF Undisturbed

(* Every step keeps an undisturbed task tame.                                  *)
LEMMA TameNext ==
  ASSUME TypeOK, WithinPlan, TameInv, [Next]_vars
  PROVE  TameInv'
<1> SUFFICES ASSUME Undisturbed' PROVE Tame'
    BY DEF TameInv
<1>1. Undisturbed
      BY UndisturbedBefore
<1>2. Tame
      BY <1>1 DEF TameInv
<1>3. CASE Crash
      BY <1>3 DEF Crash, Undisturbed, Orderly, TypeOK
<1>4. CASE UNCHANGED vars
  <2>1. /\ UNCHANGED <<mutating, row, awaiting, record, thread, contexts, flagged, drive,
                       canceller, sweeper, execs>>
        BY <1>4 DEF vars, taskVars, rowVars, contextVars, othersVars, history
  <2> QED
      BY <1>2, <2>1 DEF Tame, OneActor, Active, RunsOnRecord, Planning, Requesting, Stepping,
         DriverAsksOnly, AtRest, Alone, Rested, Paused, Ahead, Untouched, Answers, OnThread
<1>5. CASE CancelTask \/ Sweep
      BY <1>1, <1>2, <1>5, TameOthers
<1>6. CASE DriveTask
      BY <1>1, <1>2, <1>6, TameDriveTask
<1>7. CASE \E d \in Drives : DriveNext(d)
      BY <1>1, <1>2, <1>7, TameDriveNext
<1>8. CASE \E o \in Operators : Request(o)
      BY <1>1, <1>2, <1>8, TameRequest
<1> QED
    BY <1>3, <1>4, <1>5, <1>6, <1>7, <1>8 DEF Next

(* An undisturbed task is tame in every reachable state.                       *)
THEOREM UndisturbedIsTame == Spec => []TameInv
<1>1. Init => TameInv
      BY TameInit DEF TameInv
<1>2. IInv => TypeOK /\ WithinPlan
      BY DEF IInv
<1>3. TypeOK /\ WithinPlan /\ TameInv /\ [Next]_vars => TameInv'
      BY TameNext
<1> QED
    BY <1>1, <1>2, <1>3, InvHolds, PTL DEF Spec

(* A mutating skill runs at most once and only on its own record's word,   *)
(* whatever is rejected, re-planned, cancelled or swept in between, as     *)
(* long as requests do not overlap, no node raises and the process lives   *)
(* (_await_approval, decide_approval), for any number of steps, requests   *)
(* and re-plans.                                                           *)
THEOREM OwnDecisionsOnly == Spec => []OwnDecision
<1>1. TameInv => OwnDecision
      BY DEF TameInv, Tame, RunsOnRecord, OwnDecision
<1> QED
    BY <1>1, UndisturbedIsTame, PTL

(* A task that rests saying awaiting_approval has the thread, the step and *)
(* the pending record that an answer needs (resume_after_approval).        *)
THEOREM PausesAreAnswerable == Spec => []PausedIsAnswerable
<1>1. TameInv => PausedIsAnswerable
  <2> SUFFICES ASSUME TameInv, Undisturbed, AtRest, row = "awaiting_approval"
               PROVE  /\ thread.exists /\ thread.at = PausedIndex /\ PausedIndex \in awaiting
                      /\ record[PausedIndex] = "pending"
      BY DEF PausedIsAnswerable
  <2>1. Paused
        BY DEF TameInv, Tame, Rested
  <2>2. PausedIndex = thread.at
        BY <2>1 DEF Paused, PausedIndex, Steps
  <2> QED
      BY <2>1, <2>2 DEF Paused
<1> QED
    BY <1>1, UndisturbedIsTame, PTL

------------------------------------------------------------------------------
(* Last, an orderly task: nobody looks at the row while a call is under    *)
(* way and the process lives, but any node may raise.                      *)

(* The row of a task nothing works on: paused on a thread that is there,   *)
(* or over.                                                                *)
Left ==
  /\ row \in Terminal \cup {"awaiting_approval"}
  /\ row \in {"completed", "cancelled"} => contexts = NoOne
  /\ row = "awaiting_approval" => flagged = {} /\ thread.exists

(* What each place of a call holds of the row, the thread and the context. *)
Placed(d) ==
  /\ drive[d].pc \in {"new", "planning", "admitted"} => contexts = NoOne
  /\ drive[d].pc = "outcome" => Left
  /\ drive[d].pc \in {"deciding", "decided", "node", "asked", "exec"} => thread.exists
  /\ drive[d].pc = "asked" => row = "awaiting_approval"

Kept ==
  /\ OneActor
  /\ \A d \in Drives : Placed(d)
  /\ AtRest => Left

KeptInv == Orderly => Kept

(* What a step of the only call has to show.                               *)
LEMMA KeptAfter ==
  ASSUME Kept, NEW d \in Drives, Sole(d),
         \A e \in Drives \ {d} : drive'[e] = drive[e],
         UNCHANGED othersVars, flagged' = {},
         Placed(d)', ~Midway(drive'[d].pc) => Left'
  PROVE  Kept'
<1>1. \A e \in Drives \ {d} : ~Midway(drive'[e].pc)
      BY DEF Sole
<1>2. ~Midway(canceller)' /\ ~Midway(sweeper)'
      BY DEF Sole, othersVars, Midway
<1>3. OneActor'
      BY <1>1, <1>2 DEF OneActor, Active, Midway
<1>4. ASSUME NEW e \in Drives PROVE Placed(e)'
      BY <1>1, <1>4 DEF Placed, Midway
<1>5. AtRest' => Left'
  <2>1. AtRest' => d \notin Active'
        BY ActorsAssumption DEF AtRest, Alone, Drives
  <2>2. d \notin Active' => ~Midway(drive'[d].pc)
        BY DEF Active
  <2> QED
      BY <2>1, <2>2
<1> QED
    BY <1>3, <1>4, <1>5 DEF Kept

(* drive_task keeps no context while it plans, and reads back a row that   *)
(* was left as it should.                                                  *)
LEMMA KeptDriveTask == ASSUME TypeOK, Kept, DriveTask PROVE Kept'
<1>0. Driver \in Drives /\ drive[Driver] \in Call /\ Typed
      BY DEF Drives, TypeOK, Typed
<1>1. drive[Driver].pc \in {"new", "planning", "admitted", "outcome"}
      BY DEF DriveTask, Begin, PlanningFails, PlanOnly, Admit, Launch, Outcome
<1>2. Sole(Driver) /\ flagged = {} /\ Placed(Driver)
      BY <1>0, <1>1, ActiveIsSole DEF Kept, Midway
<1>3. UNCHANGED othersVars /\ flagged' = {}
      BY <1>2 DEF DriveTask, Begin, PlanningFails, PlanOnly, Admit, Launch, Outcome, contextVars
<1>4. ASSUME NEW p \in {"new", "planning", "admitted", "outcome", "done"}, Goto(Driver, p),
             p \in {"new", "planning", "admitted"} => contexts' = NoOne,
             p \in {"outcome", "done"} => Left'
      PROVE  Kept'
  <2>1. /\ drive'[Driver].pc = p
        /\ \A e \in Drives \ {Driver} : drive'[e] = drive[e]
        BY <1>0, <1>4, GotoOnly
  <2>2. Placed(Driver)'
        BY <1>4, <2>1 DEF Placed
  <2> QED
      BY <1>0, <1>2, <1>3, <1>4, <2>1, <2>2, KeptAfter DEF Midway
<1>5. CASE Begin
      BY <1>2, <1>4, <1>5 DEF Begin, Placed, contextVars
<1>6. CASE PlanningFails
  <2>1. Left'
        BY <1>6 DEF PlanningFails, Left, Terminal
  <2> QED
      BY <1>4, <1>6, <2>1 DEF PlanningFails
<1>7. CASE PlanOnly
  <2>1. Left'
        BY <1>2, <1>7 DEF PlanOnly, Left, Placed, Terminal, contextVars
  <2> QED
      BY <1>4, <1>7, <2>1 DEF PlanOnly
<1>8. CASE Admit
      BY <1>2, <1>4, <1>8 DEF Admit, Placed, contextVars
<1>9. CASE Launch
  <2>1. /\ drive'[Driver].pc = "node"
        /\ \A e \in Drives \ {Driver} : drive'[e] = drive[e]
        BY <1>0, <1>9 DEF Launch, Typed, In
  <2>2. Placed(Driver)'
        BY <1>9, <2>1 DEF Launch, Placed, Thread
  <2> QED
      BY <1>0, <1>2, <1>3, <2>1, <2>2, KeptAfter DEF Midway
<1>10. CASE Outcome
  <2>1. CASE Goto(Driver, "done") /\ UNCHANGED <<thread, contexts>>
    <3>1. Left'
          BY <1>2, <1>3, <1>10, <2>1 DEF Outcome, Left, Placed, rowVars
    <3> QED
        BY <1>4, <2>1, <3>1
  <2>2. CASE Goto(Driver, "new") /\ contexts' = NoOne
        BY <1>4, <2>2
  <2> QED
      BY <1>10, <2>1, <2>2 DEF Outcome
<1> QED
    BY <1>5, <1>6, <1>7, <1>8, <1>9, <1>10 DEF DriveTask

(* A drive of the graph leaves a paused row or settles it, whichever nodes *)
(* raise on the way.                                                       *)
LEMMA KeptDriveNext ==
  ASSUME TypeOK, Kept, NEW d \in Drives, DriveNext(d) PROVE Kept'
<1>0. drive[d] \in Call /\ Typed
      BY DEF TypeOK, Typed
<1>1. drive[d].pc \in {"node", "asked", "exec", "settling"}
      BY DEF DriveNext, SkipRest, Refuse, Read, AskApproval, Interrupt, SkillReturns, NodeCrashed,
         End, Settle, Working, At
<1>2. Sole(d) /\ flagged = {} /\ Placed(d)
      BY <1>1, ActiveIsSole DEF Kept, Midway
<1>3. UNCHANGED othersVars /\ flagged' = {}
      BY <1>2 DEF DriveNext, SkipRest, Refuse, Read, AskApproval, Interrupt, SkillReturns,
         NodeCrashed, End, Settle, contextVars
<1>4. ASSUME NEW p \in {"asked", "exec", "settling"}, Goto(d, p), thread'.exists,
             p = "asked" => row' = "awaiting_approval"
      PROVE  Kept'
  <2>1. drive'[d].pc = p /\ \A e \in Drives \ {d} : drive'[e] = drive[e]
        BY <1>0, <1>4, GotoOnly
  <2>2. Placed(d)'
        BY <1>4, <2>1 DEF Placed
  <2> QED
      BY <1>2, <1>3, <1>4, <2>1, <2>2, KeptAfter DEF Midway
<1>5. ASSUME NEW failed \in BOOLEAN, Advance(d, failed) PROVE Kept'
  <2>1. drive'[d].pc = "node" /\ \A e \in Drives \ {d} : drive'[e] = drive[e]
        BY <1>0, <1>5, AdvanceOnly
  <2>2. Placed(d)'
        BY <1>5, <2>1 DEF Placed, Advance, Thread
  <2> QED
      BY <1>2, <1>3, <2>1, <2>2, KeptAfter DEF Midway
<1>6. ASSUME Leave(d), Left' PROVE Kept'
  <2>1. drive'[d].pc \in {"outcome", "done"} /\ \A e \in Drives \ {d} : drive'[e] = drive[e]
        BY <1>0, <1>6, LeaveOnly
  <2>2. Placed(d)'
        BY <1>6, <2>1 DEF Placed
  <2> QED
      BY <1>2, <1>3, <1>6, <2>1, <2>2, KeptAfter
<1>7. CASE SkipRest(d)
      BY <1>2, <1>7 DEF SkipRest, Cancelled
<1>8. CASE Refuse(d) \/ SkillReturns(d) \/ NodeCrashed(d)
      BY <1>5, <1>8 DEF Refuse, SkillReturns, NodeCrashed
<1>9. CASE Read(d)
      BY <1>2, <1>4, <1>9 DEF Read, Working, At, Placed
<1>10. CASE AskApproval(d)
      BY <1>2, <1>4, <1>10 DEF AskApproval, Working, At, Placed
<1>11. CASE Interrupt(d)
  <2>1. thread.exists /\ row = "awaiting_approval" /\ row' = row
        BY <1>2, <1>11 DEF Interrupt, At, Placed
  <2>2. CASE drive[d].answer = "none"
    <3>1. Leave(d) /\ UNCHANGED thread
          BY <1>11, <2>2 DEF Interrupt, Approves
    <3>2. Left'
          BY <1>3, <2>1, <3>1 DEF Left, Terminal
    <3> QED
        BY <1>6, <3>1, <3>2
  <2>3. CASE Approves(drive[d].answer)
        BY <1>4, <1>11, <2>1, <2>3 DEF Interrupt, Approves
  <2>4. CASE drive[d].answer # "none" /\ ~Approves(drive[d].answer)
        BY <1>5, <1>11, <2>4 DEF Interrupt
  <2> QED
      BY <2>2, <2>3, <2>4
<1>12. CASE End(d)
  <2>1. Goto(d, "settling") /\ UNCHANGED thread /\ thread.exists
        BY <1>2, <1>12 DEF End, Cancelled, At, Placed
  <2> QED
      BY <1>4, <2>1
<1>13. CASE Settle(d)
  <2>1. Left'
        BY <1>13 DEF Settle, Left, Terminal
  <2> QED
      BY <1>6, <1>13, <2>1 DEF Settle
<1> QED
    BY <1>7, <1>8, <1>9, <1>10, <1>11, <1>12, <1>13 DEF DriveNext

(* A request finds the thread of the pause it answers.                     *)
LEMMA KeptRequest ==
  ASSUME TypeOK, Orderly', Kept, NEW o \in Operators, Request(o) PROVE Kept'
<1>0. o \in Drives /\ drive[o] \in Call /\ Typed
      BY DEF Drives, TypeOK, Typed
<1>1. UNCHANGED <<othersVars, thread, flagged>>
      BY DEF Request, LoadDecision, Resume, Decide, contextVars
<1>2. ASSUME NEW p \in {"deciding", "decided", "node"}, drive'[o].pc = p,
             \A e \in Drives \ {o} : drive'[e] = drive[e], Sole(o), flagged = {}, thread.exists
      PROVE  Kept'
  <2>1. Placed(o)'
        BY <1>1, <1>2 DEF Placed
  <2> QED
      BY <1>0, <1>1, <1>2, <2>1, KeptAfter DEF Midway
<1>3. CASE LoadDecision(o)
  <2>1. Alone(o) /\ drive[o].pc = "idle" /\ row = "awaiting_approval"
        BY <1>3 DEF LoadDecision, Loads, Orderly, At
  <2>2. Sole(o) /\ AtRest
        BY <1>0, <2>1, ActorsAssumption DEF Alone, AtRest, Sole, Active, Midway, Drives
  <2>3. flagged = {} /\ thread.exists
        BY <2>1, <2>2 DEF Kept, Left
  <2>4. drive'[o].pc = "deciding" /\ \A e \in Drives \ {o} : drive'[e] = drive[e]
        BY <1>0, <1>3 DEF LoadDecision, Typed, Call
  <2> QED
      BY <1>2, <2>2, <2>3, <2>4
<1>4. CASE ~LoadDecision(o)
  <2>1. drive[o].pc \in {"deciding", "decided"}
        BY <1>4 DEF Request, Resume, Decide, At
  <2>2. Sole(o) /\ flagged = {} /\ thread.exists
        BY <1>0, <2>1, ActiveIsSole DEF Kept, Placed, Midway
  <2>3. drive'[o].pc \in {"decided", "node"} /\ \A e \in Drives \ {o} : drive'[e] = drive[e]
    <3>1. CASE Resume(o)
          BY <1>0, <2>2, <3>1 DEF Resume, Typed, Call
    <3>2. ASSUME NEW approved \in BOOLEAN, Decide(o, approved)
          PROVE  drive'[o].pc = "decided" /\ \A e \in Drives \ {o} : drive'[e] = drive[e]
          BY <1>0, <3>2 DEF Decide, Typed, In
    <3> QED
        BY <1>4, <3>1, <3>2 DEF Request
  <2> QED
      BY <1>2, <2>2, <2>3
<1> QED
    BY <1>3, <1>4

(* cancel_task and the sweep end the row they find.                        *)
LEMMA KeptQuiet ==
  ASSUME Kept, Active = {}, UNCHANGED drive,
         ~(Midway(canceller') /\ Midway(sweeper')),
         canceller' = "committed" => row' = "cancelled",
         AtRest' => Left'
  PROVE  Kept'
<1>1. Active' = {} /\ \A d \in Drives : ~Midway(drive'[d].pc)
      BY DEF Active
<1>2. OneActor'
      BY <1>1 DEF OneActor
<1>3. ASSUME NEW d \in Drives PROVE Placed(d)'
      BY <1>1, <1>3 DEF Placed, Midway
<1> QED
    BY <1>2, <1>3 DEF Kept

(* So do the cancellation and the sweep, step by step.                     *)
LEMMA KeptOthers ==
  ASSUME Orderly', Kept, CancelTask \/ Sweep PROVE Kept'
<1>1. OneActor /\ UNCHANGED drive
      BY DEF Kept, CancelTask, Sweep, CancelLoads, CancelCommits, CancelReleases, SweepSelects,
         SweepCommits
<1>next. AtRest' => ~Midway(canceller') /\ ~Midway(sweeper')
      BY ActorsAssumption DEF AtRest, Alone
<1>2. CASE CancelLoads
  <2>1. Alone("canceller") /\ canceller' = "loaded" /\ sweeper' = sweeper
        BY <1>2 DEF CancelLoads, Loads, Orderly
  <2>2. Active = {} /\ ~Midway(sweeper)
        BY <2>1, ActorsAssumption DEF Alone, Active, Drives
  <2> QED
      BY <1>1, <1>next, <2>1, <2>2, KeptQuiet DEF Midway
<1>3. CASE CancelCommits \/ CancelReleases
  <2>1. Midway(canceller) /\ sweeper' = sweeper
        BY <1>3 DEF CancelCommits, CancelReleases, Midway
  <2>2. Active = {} /\ ~Midway(sweeper)
        BY <1>1, <2>1 DEF OneActor
  <2>3. CASE CancelCommits
        BY <1>1, <1>next, <2>1, <2>2, <2>3, KeptQuiet DEF CancelCommits, Midway
  <2>4. CASE CancelReleases
    <3>1. canceller' = "done" /\ row' = "cancelled" /\ contexts' = NoOne
          BY <1>1, <2>4 DEF CancelReleases, OneActor, rowVars
    <3>2. Left'
          BY <3>1 DEF Left, Terminal
    <3> QED
        BY <1>1, <2>1, <2>2, <3>1, <3>2, KeptQuiet DEF Midway
  <2> QED
      BY <1>3, <2>3, <2>4
<1>4. CASE SweepSelects
  <2>1. Alone("sweeper") /\ sweeper' = "selected" /\ canceller' = canceller
        BY <1>4 DEF SweepSelects, Loads, Orderly
  <2>2. Active = {} /\ ~Midway(canceller)
        BY <2>1, ActorsAssumption DEF Alone, Active, Drives
  <2> QED
      BY <1>1, <1>next, <2>1, <2>2, KeptQuiet DEF Midway
<1>5. CASE SweepCommits
  <2>1. Midway(sweeper) /\ sweeper' = "done" /\ canceller' = canceller /\ row' = "failed"
        BY <1>5 DEF SweepCommits, Midway
  <2>2. Active = {} /\ ~Midway(canceller)
        BY <1>1, <2>1 DEF OneActor
  <2>3. Left'
        BY <2>1 DEF Left, Terminal
  <2> QED
      BY <1>1, <2>1, <2>2, <2>3, KeptQuiet DEF Midway
<1> QED
    BY <1>2, <1>3, <1>4, <1>5 DEF CancelTask, Sweep

(* A task that has just been created is kept.                              *)
LEMMA KeptInit == Init => Kept
<1> SUFFICES ASSUME Init PROVE Kept
    OBVIOUS
<1>1. Driver \in Drives
      BY DEF Drives
<1>2. OneActor /\ contexts = NoOne /\ ~AtRest
  <2>1. Driver \in Active
        BY <1>1 DEF Init, In, Idle, Active, Midway
  <2>2. ~AtRest
        BY <1>1, <2>1, ActorsAssumption DEF AtRest, Alone
  <2> QED
      BY <2>2, TameInit DEF Tame, Init
<1>3. ASSUME NEW d \in Drives PROVE Placed(d)
  <2>1. drive[d].pc \in {"new", "idle"}
        BY DEF Init, In, Idle
  <2> QED
      BY <1>2, <2>1 DEF Placed
<1> QED
    BY <1>2, <1>3 DEF Kept

(* Every step of an orderly task keeps it.                                 *)
LEMMA KeptNext == ASSUME TypeOK, KeptInv, [Next]_vars PROVE KeptInv'
<1> SUFFICES ASSUME Orderly' PROVE Kept'
    BY DEF KeptInv
<1>1. Orderly /\ Kept
      BY OrderlyBefore DEF KeptInv
<1>2. CASE Crash
      BY <1>2 DEF Crash, Orderly, TypeOK
<1>3. CASE UNCHANGED vars
  <2>1. UNCHANGED <<row, thread, contexts, flagged, drive, canceller, sweeper>>
        BY <1>3 DEF vars, rowVars, contextVars, othersVars
  <2> QED
      BY <1>1, <2>1 DEF Kept, OneActor, Active, Placed, AtRest, Alone, Left
<1>4. CASE CancelTask \/ Sweep
      BY <1>1, <1>4, KeptOthers
<1>5. CASE DriveTask
      BY <1>1, <1>5, KeptDriveTask
<1>6. CASE \E d \in Drives : DriveNext(d)
      BY <1>1, <1>6, KeptDriveNext
<1>7. CASE \E o \in Operators : Request(o)
      BY <1>1, <1>7, KeptRequest
<1> QED
    BY <1>2, <1>3, <1>4, <1>5, <1>6, <1>7 DEF Next

(* Whichever nodes raise, a task nobody works on is paused or over, and    *)
(* has no context if it completed or was cancelled (_settle, _fail_task,   *)
(* cancel_task).                                                           *)
THEOREM TasksAreNotStranded == Spec => []NeverStranded
<1>1. KeptInv => NeverStranded
      BY DEF KeptInv, Kept, Left, NeverStranded
<1>2. Init => KeptInv
      BY KeptInit DEF KeptInv
<1>3. IInv => TypeOK
      BY DEF IInv
<1>4. TypeOK /\ KeptInv /\ [Next]_vars => KeptInv'
      BY KeptNext
<1> QED
    BY <1>1, <1>2, <1>3, <1>4, InvHolds, PTL DEF Spec

==============================================================================
