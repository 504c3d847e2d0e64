--------------------------- MODULE TaskGraphProofs ---------------------------
(***************************************************************************)
(* Proofs about TaskGraph, for every number of steps, every set of plans   *)
(* and any number of crashes.                                              *)
(*                                                                         *)
(* The results about scheduling hold of the even steps of every plan that  *)
(* compute_levels accepts: an edge of the compiled graph triggers its      *)
(* target by itself, so one that skips a level starts a step before its    *)
(* dependencies (TaskGraph, AllDependenciesFirst).                         *)
(***************************************************************************)
EXTENDS TaskGraph, ComputeLevels, WellFoundedInduction, FiniteSetTheorems, TLAPS

(* The open superstep is exactly one level of the even steps, however they *)
(* are levelled, and everything below it is closed.                        *)
Front(n) ==
  \A S \in SUBSET Steps, lvl \in [Steps -> Steps] :
    EvenBy(lvl, S, plan.deps) =>
      \A i \in S : /\ pc[i] # "idle" <=> lvl[i] = n
                   /\ status[i] # "none" <=> lvl[i] < n

WrittenHasOutcome == \A i \in Steps : pc[i] = "written" => out[i] # "none"

(* An even step that is running or has run accounts for one call, every    *)
(* crash for at most one more.                                             *)
Counted(i) ==
  execs[i] <= crashes + (IF pc[i] \in {"executing", "written"} \/ status[i] # "none"
                         THEN 1 ELSE 0)
CallsCounted == \A i \in EvenSteps : Counted(i)

IInv == /\ TypeOK
        /\ \E n \in Nat : Front(n)
        /\ WrittenHasOutcome
        /\ CallsCounted

------------------------------------------------------------------------------

(* What makes a step even; the steps it depends on are even with it.       *)
LEMMA EvenStep ==
  ASSUME plan \in Plans, NEW i \in EvenSteps
  PROVE  /\ i \in Steps
         /\ \E S \in SUBSET Steps : \E lvl \in [Steps -> Steps] :
              /\ i \in S /\ EvenBy(lvl, S, plan.deps) /\ S \subseteq EvenSteps
<1>1. EvenSteps = Even(plan)
      BY DEF EvenSteps, EvenOf
<1>2. PICK S \in SUBSET Steps, lvl \in [Steps -> Steps] : i \in S /\ EvenBy(lvl, S, plan.deps)
      BY <1>1 DEF Even
<1>3. S \subseteq EvenSteps
      BY <1>1, <1>2 DEF Even
<1> QED
    BY <1>2, <1>3

(* Which steps are even is a matter of the plan.                           *)
LEMMA EvenStays == ASSUME plan' = plan PROVE EvenSteps' = EvenSteps
BY DEF EvenSteps

(* The dependencies of a step of a plan are steps.                         *)
LEMMA PlanDeps == ASSUME NEW p \in Plans, NEW i \in Steps
                  PROVE  p.deps[i] \in SUBSET Steps
BY PlansAssumption DEF PlanType

(* TaskGraph's state keeps its shape.                                      *)
LEMMA TypeInit == Init => TypeOK
<1> SUFFICES ASSUME Init PROVE TypeOK
    OBVIOUS
<1>1. pc \in [Steps -> {"ready", "idle"}]
      BY DEF Init
<1>2. QED
      BY <1>1 DEF Init, TypeOK, StepStatus, Decisions

(* Every operation keeps the types.                                        *)
LEMMA TypeNext == TypeOK /\ [Next]_vars => TypeOK'
<1> SUFFICES ASSUME TypeOK, [Next]_vars PROVE TypeOK'
    OBVIOUS
<1> USE DEF TypeOK, StepStatus, Decisions
<1>1. ASSUME NEW i \in Steps, Start(i) PROVE TypeOK'
      BY <1>1 DEF Start, Return, gateVars, rowVars, history
<1>2. ASSUME NEW i \in Steps, Refuse(i) PROVE TypeOK'
      BY <1>2 DEF Refuse, Return, Mark, gateVars, history
<1>3. ASSUME NEW i \in Steps, Simulate(i) PROVE TypeOK'
      BY <1>3 DEF Simulate, Return, Mark, gateVars, history
<1>4. ASSUME NEW i \in Steps, AwaitApproval(i) PROVE TypeOK'
      BY <1>4 DEF AwaitApproval, Return, Mark, history
<1>5. ASSUME NEW i \in Steps, Reuse(i) PROVE TypeOK'
      BY <1>5 DEF Reuse, Return, Mark, gateVars, history
<1>6. ASSUME NEW i \in Steps, Execute(i) PROVE TypeOK'
      BY <1>6 DEF Execute, Mark, gateVars
<1>7. ASSUME NEW i \in Steps, Finish(i) PROVE TypeOK'
      BY <1>7 DEF Finish, Return, Mark, gateVars, history
<1>8. ASSUME NEW i \in Steps, NodeCrashed(i) PROVE TypeOK'
      BY <1>8 DEF NodeCrashed, Return, gateVars, rowVars, history
<1>9. CASE EndSuperstep
      BY <1>9 DEF EndSuperstep, Merged, rowVars, history
<1>10. CASE Pause
      BY <1>10 DEF Pause, graphVars, gateVars, rowVars, history
<1>11. CASE Settle
      BY <1>11 DEF Settle, graphVars, gateVars, history
<1>12. ASSUME NEW approved \in BOOLEAN, Decide(approved) PROVE TypeOK'
      BY <1>12 DEF Decide, Rerun, Parked, history
<1>13. CASE Cancel
      BY <1>13 DEF Cancel, graphVars, gateVars
<1>14. CASE Crash
  <2>1. PICK saved \in SUBSET Written :
          /\ pc' = [i \in Steps |-> IF i \in Triggered \ saved THEN "ready" ELSE pc[i]]
          /\ out' = [i \in Steps |-> IF i \in saved THEN out[i] ELSE "none"]
          /\ errors' = errors \ (Written \ saved)
        BY <1>14 DEF Crash, Rerun
  <2>2. pc' \in [Steps -> {"idle", "ready", "resolved", "parked", "granted",
                          "executing", "written"}]
        BY <2>1
  <2>3. out' \in [Steps -> StepStatus \cup {"none"}] /\ errors' \in SUBSET Steps
        BY <2>1
  <2>a. /\ grant' = [i \in Steps |-> "none"] /\ bare' = "none"
        /\ cancelled' = FALSE /\ phase' = "down" /\ crashes' = crashes + 1
        BY <1>14 DEF Crash, Rerun
  <2>b. grant' \in [Steps -> Decisions] /\ bare' \in Decisions
        BY <2>a
  <2>c. cancelled' \in BOOLEAN
        BY <2>a
  <2>d. crashes' \in Nat
        BY <2>a
  <2>4. /\ grant' \in [Steps -> Decisions] /\ bare' \in Decisions
        /\ cancelled' \in BOOLEAN /\ phase' = "down" /\ crashes' \in Nat
        BY <2>a, <2>b, <2>c, <2>d
  <2>5. UNCHANGED <<plan, mode, status, interrupted, record, checklist, row, execs,
                    everCancelled, faults>>
        BY <1>14 DEF Crash, Rerun, rowVars
  <2>6. QED
        BY <2>2, <2>3, <2>4, <2>5
<1>15. CASE UNCHANGED vars
      BY <1>15 DEF vars, graphVars, gateVars, rowVars, history
<1>16. QED
      BY <1>1, <1>2, <1>3, <1>4, <1>5, <1>6, <1>7, <1>8, <1>9, <1>10, <1>11,
         <1>12, <1>13, <1>14, <1>15 DEF Next, Engine, StepNext

(* Every variable keeps its type, from Init on.                            *)
THEOREM TypeCorrect == Spec => []TypeOK
BY TypeInit, TypeNext, PTL DEF Spec

------------------------------------------------------------------------------

(* At the start the front is level 0.                                      *)
LEMMA InvInit == Init => IInv
<1> SUFFICES ASSUME Init PROVE IInv
    OBVIOUS
<1>1. TypeOK
      BY TypeInit
<1>2. Front(0)
  <2> SUFFICES ASSUME NEW S \in SUBSET Steps, NEW lvl \in [Steps -> Steps],
                      EvenBy(lvl, S, plan.deps), NEW i \in S
      PROVE /\ pc[i] # "idle" <=> lvl[i] = 0
            /\ status[i] # "none" <=> lvl[i] < 0
      BY DEF Front
  <2>1. \A j \in Steps : lvl[j] \in Nat
        BY NAssumption DEF Steps
  <2>2. plan.deps[i] = {} <=> lvl[i] = 0
    <3>1. CASE plan.deps[i] = {}
          BY <3>1 DEF EvenBy
    <3>2. CASE plan.deps[i] # {}
      <4>1. PICK d \in plan.deps[i] : d \in S /\ lvl[i] = lvl[d] + 1
            BY <3>2 DEF EvenBy
      <4>2. lvl[d] \in Nat
            BY <2>1, <4>1
      <4>3. QED
            BY <3>2, <4>1, <4>2
    <3>3. QED
          BY <3>1, <3>2
  <2>3. QED
        BY <2>1, <2>2 DEF Init
<1>3. WrittenHasOutcome
      BY DEF Init, WrittenHasOutcome
<1>4. CallsCounted
      BY <1>1, EvenStep DEF Init, CallsCounted, Counted, TypeOK
<1>5. QED
      BY <1>1, <1>2, <1>3, <1>4 DEF IInv

(* A step that moves no node in or out of the open superstep and closes    *)
(* none leaves the front where it is.                                      *)
LEMMA FrontKept ==
  ASSUME IInv, UNCHANGED <<plan, status>>,
         \A i \in Steps : pc'[i] = "idle" <=> pc[i] = "idle"
  PROVE  \E n \in Nat : Front(n)'
<1>1. PICK n \in Nat : Front(n)
      BY DEF IInv
<1>2. Front(n)'
      BY <1>1 DEF Front
<1>3. QED
      BY <1>2

(* The superstep closes: the next front is the level above.                *)
LEMMA FrontAdvances ==
  ASSUME IInv, EndSuperstep
  PROVE  \E n \in Nat : Front(n)'
<1>1. PICK n \in Nat : Front(n)
      BY DEF IInv
<1>2. plan' = plan
      BY DEF EndSuperstep
<1>3. SUFFICES ASSUME NEW S \in SUBSET Steps, NEW L \in [Steps -> Steps],
                      EvenBy(L, S, plan.deps), NEW i \in S
               PROVE  /\ pc'[i] # "idle" <=> L[i] = n + 1
                      /\ status'[i] # "none" <=> L[i] < n + 1
  <2>1. Front(n + 1)'
        BY <1>2, <1>3 DEF Front
  <2> QED
      BY <2>1
<1>4. \A j \in S : j \in Written <=> L[j] = n
  <2>1. \A j \in S : pc[j] # "idle" <=> L[j] = n
        BY <1>1, <1>3 DEF Front
  <2> QED
      BY <2>1 DEF EndSuperstep, SuperstepDone, Triggered, Written
<1>5. \A j \in Steps : L[j] \in Nat
      BY NAssumption DEF Steps
<1>6. /\ pc'[i] # "idle" <=> i \in Successors(Written)
      /\ status'[i] # "none" <=> (i \in Written \/ status[i] # "none")
  <2>1. \A j \in Written : out[j] # "none"
        BY DEF IInv, WrittenHasOutcome, Written
  <2>2. QED
        BY <2>1 DEF EndSuperstep, Merged
<1>7. status'[i] # "none" <=> L[i] < n + 1
  <2>1. status[i] # "none" <=> L[i] < n
        BY <1>1, <1>3 DEF Front
  <2>2. L[i] < n + 1 <=> (L[i] = n \/ L[i] < n)
        BY <1>5
  <2>3. QED
        BY <1>4, <1>6, <2>1, <2>2
<1>8. i \in Successors(Written) <=> L[i] = n + 1
  <2>1. plan.deps[i] \subseteq S
        BY <1>3 DEF EvenBy
  <2>2. ASSUME NEW d \in plan.deps[i], d \in Written PROVE L[i] = n + 1
        BY <1>3, <1>4, <2>1, <2>2 DEF EvenBy
  <2>3. ASSUME L[i] = n + 1 PROVE plan.deps[i] \cap Written # {}
    <3>1. L[i] # 0
          BY <1>1, <2>3
    <3>2. PICK d \in plan.deps[i] : L[i] = L[d] + 1
          BY <1>3, <3>1 DEF EvenBy
    <3>3. d \in S /\ L[d] = n
          BY <1>5, <2>1, <2>3, <3>2
    <3>4. QED
          BY <1>4, <3>3
  <2>4. QED
        BY <2>2, <2>3 DEF Successors
<1>9. QED
      BY <1>6, <1>7, <1>8

------------------------------------------------------------------------------

(* The nodes move only inside the open superstep, except when it closes.   *)
LEMMA NodesStay ==
  ASSUME IInv, [Next]_vars, ~EndSuperstep
  PROVE  /\ UNCHANGED <<plan, status>>
         /\ \A i \in Steps : pc'[i] = "idle" <=> pc[i] = "idle"
<1> USE DEF IInv, TypeOK
<1>1. ASSUME NEW i \in Steps, StepNext(i)
      PROVE  /\ UNCHANGED <<plan, status>>
             /\ \A j \in Steps : pc'[j] = "idle" <=> pc[j] = "idle"
  <2>1. CASE Start(i)
        BY <2>1 DEF Start, Return
  <2>2. CASE Refuse(i)
        BY <2>2 DEF Refuse, Return
  <2>3. CASE Simulate(i)
        BY <2>3 DEF Simulate, Return
  <2>4. CASE AwaitApproval(i)
        BY <2>4 DEF AwaitApproval, Return
  <2>5. CASE Reuse(i)
        BY <2>5 DEF Reuse, Return
  <2>6. CASE Execute(i)
        BY <2>6 DEF Execute
  <2>7. CASE Finish(i)
        BY <2>7 DEF Finish, Return
  <2>8. CASE NodeCrashed(i)
        BY <2>8 DEF NodeCrashed, Return
  <2>9. QED
        BY <1>1, <2>1, <2>2, <2>3, <2>4, <2>5, <2>6, <2>7, <2>8 DEF StepNext
<1>2. CASE Pause
      BY <1>2 DEF Pause, graphVars
<1>3. CASE Settle
      BY <1>3 DEF Settle, graphVars
<1>4. ASSUME NEW approved \in BOOLEAN, Decide(approved)
      PROVE  /\ UNCHANGED <<plan, status>>
             /\ \A j \in Steps : pc'[j] = "idle" <=> pc[j] = "idle"
  <2>1. pc' = [i \in Steps |-> IF pc[i] = "parked" THEN "ready" ELSE pc[i]]
        BY <1>4 DEF Decide, Rerun, Parked
  <2>2. QED
        BY <1>4, <2>1 DEF Decide, Rerun, Parked
<1>5. CASE Cancel
      BY <1>5 DEF Cancel, graphVars
<1>6. CASE Crash
  <2>1. PICK saved \in SUBSET Written :
          pc' = [i \in Steps |-> IF i \in Triggered \ saved THEN "ready" ELSE pc[i]]
        BY <1>6 DEF Crash, Rerun
  <2>2. \A j \in Steps : pc'[j] = "idle" <=> pc[j] = "idle"
        BY <2>1 DEF Triggered
  <2>3. QED
        BY <1>6, <2>2 DEF Crash, Rerun
<1>7. CASE UNCHANGED vars
      BY <1>7 DEF vars, graphVars
<1>8. QED
      BY <1>1, <1>2, <1>3, <1>4, <1>5, <1>6, <1>7 DEF Next, Engine

(* A node that has written has an outcome for the barrier to merge.        *)
LEMMA OutcomeNext ==
  ASSUME IInv, [Next]_vars PROVE WrittenHasOutcome'
<1> USE DEF IInv, TypeOK, WrittenHasOutcome
<1>1. ASSUME NEW i \in Steps, StepNext(i) PROVE WrittenHasOutcome'
  <2>1. CASE Start(i)
        BY <1>1, <2>1 DEF Start, Return
  <2>2. CASE Refuse(i)
        BY <2>2 DEF Refuse, Return
  <2>3. CASE Simulate(i)
        BY <2>3 DEF Simulate, Return
  <2>4. CASE AwaitApproval(i)
        BY <2>4 DEF AwaitApproval, Return
  <2>5. CASE Reuse(i)
        BY <2>5 DEF Reuse, Return
  <2>6. CASE Execute(i)
        BY <2>6 DEF Execute
  <2>7. CASE Finish(i)
        BY <2>7 DEF Finish, Return
  <2>8. CASE NodeCrashed(i)
        BY <2>8 DEF NodeCrashed, Return
  <2>9. QED
        BY <1>1, <2>1, <2>2, <2>3, <2>4, <2>5, <2>6, <2>7, <2>8 DEF StepNext
<1>2. CASE EndSuperstep
      BY <1>2 DEF EndSuperstep, Merged
<1>3. CASE Pause
      BY <1>3 DEF Pause, graphVars
<1>4. CASE Settle
      BY <1>4 DEF Settle, graphVars
<1>5. ASSUME NEW approved \in BOOLEAN, Decide(approved) PROVE WrittenHasOutcome'
  <2>1. /\ pc' = [i \in Steps |-> IF pc[i] = "parked" THEN "ready" ELSE pc[i]]
        /\ out' = out
        BY <1>5 DEF Decide, Rerun, Parked
  <2>2. QED
        BY <2>1
<1>6. CASE Cancel
      BY <1>6 DEF Cancel, graphVars
<1>7. CASE Crash
  <2>1. PICK saved \in SUBSET Written :
          /\ pc' = [i \in Steps |-> IF i \in Triggered \ saved THEN "ready" ELSE pc[i]]
          /\ out' = [i \in Steps |-> IF i \in saved THEN out[i] ELSE "none"]
        BY <1>7 DEF Crash, Rerun
  <2>2. QED
        BY <2>1 DEF Triggered, Written
<1>8. CASE UNCHANGED vars
      BY <1>8 DEF vars, graphVars
<1>9. QED
      BY <1>1, <1>2, <1>3, <1>4, <1>5, <1>6, <1>7, <1>8 DEF Next, Engine

(* An even node that is about to call its skill has not run before in this *)
(* process: the front has not passed it.                                   *)
LEMMA OpenIsUnclosed ==
  ASSUME IInv, NEW i \in EvenSteps, pc[i] # "idle" PROVE status[i] = "none"
<1>1. PICK n \in Nat : Front(n)
      BY DEF IInv
<1>2. PICK S \in SUBSET Steps, lvl \in [Steps -> Steps] : i \in S /\ EvenBy(lvl, S, plan.deps)
      BY EvenStep DEF IInv, TypeOK
<1>3. lvl[i] = n
      BY <1>1, <1>2 DEF Front
<1>4. ~(lvl[i] < n)
      BY <1>3
<1>5. QED
      BY <1>1, <1>2, <1>4 DEF Front

(* The calls counted for a step are those its place in the graph accounts  *)
(* for.                                                                    *)
LEMMA CallsNext ==
  ASSUME IInv, [Next]_vars PROVE CallsCounted'
<1>1. /\ pc \in [Steps -> {"idle", "ready", "resolved", "parked", "granted",
                          "executing", "written"}]
      /\ execs \in [Steps -> Nat] /\ crashes \in Nat
      /\ status \in [Steps -> StepStatus \cup {"none"}]
      /\ CallsCounted /\ plan \in Plans
      BY DEF IInv, TypeOK
<1>a. plan' = plan
      BY NodesStay DEF EndSuperstep
<1>b. SUFFICES ASSUME NEW j \in EvenSteps PROVE Counted(j)'
      BY <1>a, EvenStays DEF CallsCounted
<1>c. j \in Steps /\ Counted(j)
      BY <1>1, EvenStep DEF CallsCounted
<1> USE DEF Counted
<1>2. ASSUME NEW i \in Steps, StepNext(i) PROVE Counted(j)'
  <2>1. CASE Start(i)
        BY <1>1, <1>c, <2>1 DEF Start, Return, history
  <2>2. CASE Refuse(i)
        BY <1>1, <1>c, <2>2 DEF Refuse, Return, history
  <2>3. CASE Simulate(i)
        BY <1>1, <1>c, <2>3 DEF Simulate, Return, history
  <2>4. CASE AwaitApproval(i)
        BY <1>1, <1>c, <2>4 DEF AwaitApproval, Return, history
  <2>5. CASE Reuse(i)
        BY <1>1, <1>c, <2>5 DEF Reuse, Return, history
  <2>6. CASE Execute(i)
    <3>1. /\ execs' = [execs EXCEPT ![i] = @ + 1]
          /\ pc' = [pc EXCEPT ![i] = "executing"]
          /\ pc[i] # "idle" /\ pc[i] \notin {"executing", "written"}
          /\ UNCHANGED <<status, crashes>>
          BY <2>6 DEF Execute
    <3>2. CASE i = j
      <4>1. status[j] = "none"
            BY <3>1, <3>2, OpenIsUnclosed
      <4>2. execs[j] <= crashes
            BY <1>1, <1>c, <3>1, <3>2, <4>1
      <4>3. QED
            BY <1>1, <1>c, <3>1, <3>2, <4>2
    <3>3. CASE i # j
          BY <1>1, <1>c, <3>1, <3>3
    <3>4. QED
          BY <3>2, <3>3
  <2>7. CASE Finish(i)
        BY <1>1, <1>c, <2>7 DEF Finish, Return, history
  <2>8. CASE NodeCrashed(i)
        BY <1>1, <1>c, <2>8 DEF NodeCrashed, Return, history
  <2>9. QED
        BY <1>2, <2>1, <2>2, <2>3, <2>4, <2>5, <2>6, <2>7, <2>8 DEF StepNext
<1>3. CASE EndSuperstep
  <2>1. UNCHANGED <<execs, crashes>>
        BY <1>3 DEF EndSuperstep, Merged, history
  <2>2. ASSUME pc[j] \in {"executing", "written"} \/ status[j] # "none"
        PROVE  status'[j] # "none"
    <3>1. pc[j] # "executing"
          BY <1>3, <1>c DEF EndSuperstep, Merged, SuperstepDone, Triggered
    <3>2. pc[j] = "written" => out[j] # "none"
          BY <1>c DEF IInv, WrittenHasOutcome
    <3>3. status'[j] = IF j \in Written THEN out[j] ELSE status[j]
          BY <1>3, <1>c DEF EndSuperstep, Merged
    <3>4. j \in Written <=> pc[j] = "written"
          BY <1>c DEF Written
    <3>5. CASE j \in Written
          BY <3>2, <3>3, <3>4, <3>5
    <3>6. CASE j \notin Written
          BY <2>2, <3>1, <3>3, <3>4, <3>6
    <3>7. QED
          BY <3>5, <3>6
  <2>3. QED
        BY <1>1, <1>c, <2>1, <2>2
<1>4. CASE Pause
      BY <1>1, <1>c, <1>4 DEF Pause, graphVars, history
<1>5. CASE Settle
      BY <1>1, <1>c, <1>5 DEF Settle, graphVars, history
<1>6. ASSUME NEW approved \in BOOLEAN, Decide(approved) PROVE Counted(j)'
  <2>1. /\ pc' = [i \in Steps |-> IF pc[i] = "parked" THEN "ready" ELSE pc[i]]
        /\ UNCHANGED <<status, execs, crashes>>
        BY <1>6 DEF Decide, Rerun, Parked, history
  <2>2. QED
        BY <1>1, <1>c, <2>1
<1>7. CASE Cancel
      BY <1>1, <1>c, <1>7 DEF Cancel, graphVars
<1>8. CASE Crash
  <2>1. PICK saved \in SUBSET Written :
          pc' = [i \in Steps |-> IF i \in Triggered \ saved THEN "ready" ELSE pc[i]]
        BY <1>8 DEF Crash, Rerun
  <2>2. crashes' = crashes + 1 /\ UNCHANGED <<status, execs>>
        BY <1>8 DEF Crash, Rerun
  <2>3. execs[j] <= crashes + 1
        BY <1>1, <1>c
  <2>4. QED
        BY <1>1, <1>c, <2>2, <2>3
<1>9. CASE UNCHANGED vars
      BY <1>1, <1>c, <1>9 DEF vars, graphVars, history
<1>10. QED
      BY <1>2, <1>3, <1>4, <1>5, <1>6, <1>7, <1>8, <1>9 DEF Next, Engine

(* The invariant is inductive.                                             *)
LEMMA InvNext == IInv /\ [Next]_vars => IInv'
<1> SUFFICES ASSUME IInv, [Next]_vars PROVE IInv'
    OBVIOUS
<1>1. TypeOK'
      BY TypeNext DEF IInv
<1>2. \E n \in Nat : Front(n)'
  <2>1. CASE EndSuperstep
        BY <2>1, FrontAdvances
  <2>2. CASE ~EndSuperstep
        BY <2>2, NodesStay, FrontKept
  <2>3. QED
        BY <2>1, <2>2
<1>3. WrittenHasOutcome' /\ CallsCounted'
      BY OutcomeNext, CallsNext
<1>4. QED
      BY <1>1, <1>2, <1>3 DEF IInv

(* The inductive invariant holds of every reachable state.                 *)
THEOREM InvHolds == Spec => []IInv
BY InvInit, InvNext, PTL DEF Spec

------------------------------------------------------------------------------

(* What the invariant says of an even step that has started: everything it *)
(* depends on is closed, and even.                                         *)
LEMMA FrontDependencies ==
  ASSUME IInv, NEW i \in EvenSteps, pc[i] # "idle", NEW d \in plan.deps[i]
  PROVE  d \in EvenSteps /\ d \in Steps /\ status[d] # "none"
<1>1. PICK n \in Nat : Front(n)
      BY DEF IInv
<1>2. PICK S \in SUBSET Steps, lvl \in [Steps -> Steps] :
        i \in S /\ EvenBy(lvl, S, plan.deps) /\ S \subseteq EvenSteps
      BY EvenStep DEF IInv, TypeOK
<1>3. d \in S /\ lvl[i] = lvl[d] + 1
      BY <1>2 DEF EvenBy
<1>4. lvl[i] = n
      BY <1>1, <1>2 DEF Front
<1>5. lvl[d] < n
  <2>1. lvl[d] \in Steps
        BY <1>2, <1>3
  <2> QED
      BY <1>3, <1>4, <2>1, NAssumption DEF Steps
<1>6. d \in Steps /\ status[d] # "none"
      BY <1>1, <1>2, <1>3, <1>5 DEF Front
<1> QED
    BY <1>2, <1>3, <1>6

(* PlanStep's contract, for the even steps of any plan: no node is started *)
(* before every step it depends on has run to its end, whatever pauses,    *)
(* cancellations and crashes happen on the way.                            *)
THEOREM DependenciesRunFirst == Spec => []DependenciesFirst
<1>1. IInv => DependenciesFirst
      BY FrontDependencies DEF DependenciesFirst, Triggered
<1> QED
    BY <1>1, InvHolds, PTL

(* The count the invariant keeps bounds the executions of a step.          *)
LEMMA CountedOnce == ASSUME IInv PROVE ExecutesOnce
<1> SUFFICES ASSUME NEW i \in EvenSteps PROVE execs[i] <= 1 + crashes
    BY DEF ExecutesOnce
<1>1. execs[i] \in Nat /\ crashes \in Nat
      BY EvenStep DEF IInv, TypeOK
<1>2. execs[i] <= crashes + 1 \/ execs[i] <= crashes + 0
      BY DEF IInv, CallsCounted, Counted
<1>3. QED
      BY <1>1, <1>2

(* Of any plan, an even step's skill is called at most once per life of    *)
(* the process: neither a pause and its replay nor a resume calls it again. *)
THEOREM StepsExecuteOnce == Spec => []ExecutesOnce
BY InvHolds, CountedOnce, PTL

------------------------------------------------------------------------------

(* The even steps of the closing superstep are steps none of which had     *)
(* closed, all of whose inputs had.                                        *)
LEMMA CloseIsFinish ==
  ASSUME IInv, EndSuperstep
  PROVE  /\ Written \cap Done = {}
         /\ \A i \in Written \cap EvenSteps : plan.deps[i] \subseteq Done
         /\ Done' = Done \cup (Written \cap EvenSteps)
         /\ \A i \in EvenSteps : status[i] # "none" => status'[i] = status[i]
<1>0. EvenSteps \subseteq Steps /\ EvenSteps' = EvenSteps
      BY EvenStep, EvenStays DEF IInv, TypeOK, EndSuperstep
<1>1. ASSUME NEW i \in Written \cap EvenSteps PROVE status[i] = "none" /\ out[i] # "none"
      BY <1>1, OpenIsUnclosed DEF Written, IInv, WrittenHasOutcome
<1>2. ASSUME NEW i \in Written \cap EvenSteps, NEW d \in plan.deps[i]
      PROVE  d \in Done
      BY <1>2, FrontDependencies DEF Done, Written
<1>3. \A i \in Steps : status'[i] = IF i \in Written THEN out[i] ELSE status[i]
      BY DEF EndSuperstep, Merged
<1>4. Done' = Done \cup (Written \cap EvenSteps)
      BY <1>0, <1>1, <1>3 DEF Done, Written
<1>5. QED
      BY <1>0, <1>1, <1>2, <1>3, <1>4 DEF Done

(* No single step takes a recorded outcome back.                           *)
LEMMA OutcomesStandStep ==
  ASSUME IInv, [Next]_vars
  PROVE  [\A i \in EvenSteps : status[i] # "none" => status'[i] = status[i]]_vars
<1>1. CASE EndSuperstep
      BY <1>1, CloseIsFinish
<1>2. CASE ~EndSuperstep
      BY <1>2, NodesStay
<1>3. QED
      BY <1>1, <1>2

(* Of any plan, an even step's outcome that is in the checkpoint is never  *)
(* changed.                                                                *)
THEOREM OutcomesStand == Spec => ResultsStand
BY InvHolds, OutcomesStandStep, PTL DEF Spec, ResultsStand

(* At the start no step is done, as the abstract specification has it.     *)
LEMMA RefineInit == Init => PE!Init
BY PlansAssumption, EvenStep DEF Init, PE!Init, Done, PlanType, PE!PlanType, Steps, PE!Steps

(* Every step completes a set of ready steps or changes nothing abstract.  *)
LEMMA RefineNext ==
  ASSUME IInv, [Next]_vars PROVE [PE!Next]_(PE!vars)
<1> DEFINE W == Written \cap EvenSteps
<1>1. CASE EndSuperstep
  <2>1. plan' = plan /\ Done' = Done \cup W /\ W \cap Done = {} /\ \A i \in W : plan.deps[i] \subseteq Done
        BY <1>1, CloseIsFinish DEF EndSuperstep
  <2>2. W \in SUBSET (PE!Steps \ Done)
        BY <2>1 DEF Written, Steps, PE!Steps
  <2>3. CASE W = {}
        BY <2>1, <2>3 DEF PE!vars
  <2>4. CASE W # {}
    <3>1. PE!Finish(W)
          BY <2>1, <2>4 DEF PE!Finish
    <3>2. QED
          BY <2>2, <3>1 DEF PE!Next
  <2>5. QED
        BY <2>3, <2>4
<1>2. CASE ~EndSuperstep
  <2>1. plan' = plan /\ status' = status
        BY <1>2, NodesStay
  <2>2. Done' = Done
        BY <2>1, EvenStays DEF Done
  <2>3. QED
        BY <2>1, <2>2 DEF PE!vars
<1>3. QED
      BY <1>1, <1>2

(* TaskGraph implements PlanExecution: with the even steps of the          *)
(* step_status channel as what is done, every step of the engine is a      *)
(* PlanExecution step or leaves it unchanged.                              *)
THEOREM ImplementsPlanExecution == Spec => InDependencyOrder
BY InvHolds, RefineInit, RefineNext, PTL DEF Spec, InDependencyOrder, PE!Spec

------------------------------------------------------------------------------
(* Approvals.  That a step executes on its own decision is not inductive:  *)
(* a decision is in flight between decide_approval and interrupt(), either *)
(* addressed to a step or to whoever interrupts next.  An uneven step may  *)
(* share every superstep, and may pause again with its record decided.     *)

(* The nodes that have something left to do.                               *)
Open == {i \in Steps : pc[i] \notin {"idle", "written"}}
Rerunning(i) == pc[i] \in {"ready", "resolved"}
Decided(i) == record[i] \in {"approved", "rejected"}

(* An even step that executes, or is about to, was approved, and so was    *)
(* one that was told so.  A decision that goes to nobody finds one node    *)
(* open.                                                                   *)
Authorised ==
  /\ \A i \in EvenSteps :
       /\ i \in plan.mutating /\ (execs[i] > 0 \/ pc[i] = "granted") => record[i] = "approved"
       /\ grant[i] = "yes" => record[i] = "approved"
       /\ bare = "yes" /\ i \in Open => record[i] = "approved"
  /\ bare # "none" => \A i, j \in Open : i = j

(* A parked step awaits its decision and shows it; an even step decided on *)
(* has it at hand when it runs again.                                      *)
Waiting ==
  \A i \in Steps :
    /\ pc[i] = "parked" => record[i] # "none" /\ i \in Awaiting /\ i \in interrupted
    /\ pc[i] = "parked" /\ i \in EvenSteps => record[i] = "pending"
    /\ pc[i] \in {"parked", "granted"} => i \in plan.mutating
    /\ i \in interrupted => pc[i] # "idle"
    /\ i \in Awaiting => i \in Open /\ pc[i] # "executing" /\ record[i] # "none"
    /\ i \in Awaiting \/ pc[i] = "resolved" => \A r \in plan.refs[i] : HasResult(r)
    /\ Rerunning(i) /\ Decided(i) /\ i \in EvenSteps => Decision(i) # "none"
    /\ record[i] # "none" => pc[i] # "idle" \/ status[i] # "none"

(* A paused graph has parked every node that is open.                      *)
AtPause == phase = "paused" => Parked # {} /\ Open = Parked

(* Together: the gate of a task nothing disturbs.                          *)
Gated ==
  /\ ~cancelled /\ phase # "down"
  /\ Authorised /\ Waiting /\ AtPause

UInv == Undisturbed => Gated

(* No decision has been asked for at first.                                *)
LEMMA GatedInit == Init => UInv
<1> SUFFICES ASSUME Init PROVE Gated
    BY DEF UInv
<1> USE DEF Init
<1>0. EvenSteps \subseteq Steps
      BY EvenStep
<1>1. Authorised
      BY <1>0 DEF Authorised
<1>2. Waiting
      BY <1>0 DEF Waiting, Awaiting, Decided, Rerunning
<1>3. AtPause /\ ~cancelled /\ phase # "down"
      BY DEF AtPause
<1> QED
    BY <1>1, <1>2, <1>3 DEF Gated

(* A step that awaits its decision finds its references again.             *)
LEMMA StartGated ==
  ASSUME TypeOK, Gated, crashes = 0, NEW i \in Steps, Start(i) PROVE Gated'
<1> USE DEF Gated, TypeOK, Return, Start, gateVars, rowVars, history
<1>0. EvenSteps' = EvenSteps /\ EvenSteps \subseteq Steps
      BY EvenStays, EvenStep
<1>1. Authorised'
      BY <1>0 DEF Authorised, Waiting, Open, Decision
<1>2. Waiting'
      BY <1>0 DEF Authorised, Waiting, Awaiting, Open, Rerunning, Decided, Decision, HasResult
<1>3. ~cancelled' /\ phase' = "running"
      OBVIOUS
<1> QED
    BY <1>1, <1>2, <1>3 DEF AtPause

(* A step refused after its pause no longer shows one.                     *)
LEMMA RefuseGated ==
  ASSUME TypeOK, Gated, crashes = 0, NEW i \in Steps, Refuse(i) PROVE Gated'
<1> USE DEF Gated, TypeOK, Return, Mark, Refuse, gateVars, history
<1>0. EvenSteps' = EvenSteps /\ EvenSteps \subseteq Steps
      BY EvenStays, EvenStep
<1>1. Authorised'
      BY <1>0 DEF Authorised, Waiting, Open, Decision
<1>2. Waiting'
      BY <1>0 DEF Authorised, Waiting, Awaiting, Open, Rerunning, Decided, Decision, HasResult
<1>3. ~cancelled' /\ phase' = "running"
      OBVIOUS
<1> QED
    BY <1>1, <1>2, <1>3 DEF AtPause

(* A simulated step has nothing to decide.                                 *)
LEMMA SimulateGated ==
  ASSUME TypeOK, Gated, crashes = 0, NEW i \in Steps, Simulate(i) PROVE Gated'
<1> USE DEF Gated, TypeOK, Return, Mark, Simulate, gateVars, history
<1>0. EvenSteps' = EvenSteps /\ EvenSteps \subseteq Steps
      BY EvenStays, EvenStep
<1>1. Authorised'
      BY <1>0 DEF Authorised, Waiting, Open, Decision
<1>2. Waiting'
      BY <1>0 DEF Authorised, Waiting, Awaiting, Open, Rerunning, Decided, Decision, HasResult
<1>3. ~cancelled' /\ phase' = "running"
      OBVIOUS
<1> QED
    BY <1>1, <1>2, <1>3 DEF AtPause

(* A step parks with a pending record, or goes on with the decision that   *)
(* is its own.                                                             *)
LEMMA AwaitApprovalGated ==
  ASSUME TypeOK, Gated, crashes = 0, NEW i \in Steps, AwaitApproval(i) PROVE Gated'
<1> USE DEF Gated, TypeOK, Return, Mark, AwaitApproval, NeedsApproval, history
<1>0. EvenSteps' = EvenSteps /\ EvenSteps \subseteq Steps
      BY EvenStays, EvenStep
<1>1. Authorised'
      BY <1>0 DEF Authorised, Waiting, Open, Decision
<1>2. /\ pc[i] = "resolved" /\ i \in plan.mutating
      /\ record' = IF record[i] = "none" THEN [record EXCEPT ![i] = "pending"] ELSE record
      /\ UNCHANGED <<plan, status, grant>>
      OBVIOUS
<1>3. \A j \in Steps \ {i} : Rerunning(j) => bare' = bare
      BY <1>2 DEF Authorised, Open, Rerunning
<1>4. ASSUME NEW j \in Steps \ {i}
      PROVE  /\ pc'[j] = pc[j] /\ record'[j] = record[j] /\ checklist'[j] = checklist[j]
             /\ j \in interrupted' <=> j \in interrupted
             /\ Rerunning(j) => Decision(j)' = Decision(j)
      BY <1>2, <1>3 DEF Decision, Rerunning
<1>5. /\ i \in interrupted' => pc'[i] # "idle"
      /\ pc'[i] = "parked" => /\ i \in EvenSteps => record'[i] = "pending"
                              /\ i \in interrupted'
                              /\ checklist'[i] = "awaiting_approval"
      /\ pc'[i] \in {"parked", "granted", "written"} /\ record'[i] # "none"
      /\ pc'[i] = "written" => checklist'[i] = "skipped"
  <2>1. CASE Decision(i) = "none"
    <3>1. i \in EvenSteps => record[i] \in {"none", "pending"}
          BY <1>2, <2>1 DEF Waiting, Rerunning, Decided
    <3> QED
        BY <1>2, <2>1, <3>1
  <2>2. CASE Decision(i) = "yes"
        BY <1>2, <2>2
  <2>3. CASE Decision(i) = "no"
        BY <1>2, <2>3
  <2> QED
      BY <2>1, <2>2, <2>3 DEF Decision, Decisions
<1>6. \A r \in plan.refs[i] : HasResult(r)
      BY <1>2 DEF Waiting
<1>7. Waiting'
      BY <1>0, <1>2, <1>4, <1>5, <1>6 DEF Waiting, Awaiting, Open, Rerunning, Decided, HasResult
<1>8. ~cancelled' /\ phase' = "running"
      OBVIOUS
<1> QED
    BY <1>1, <1>7, <1>8 DEF AtPause

(* A step answered by an identical call changes nothing.                   *)
LEMMA ReuseGated ==
  ASSUME TypeOK, Gated, crashes = 0, NEW i \in Steps, Reuse(i) PROVE Gated'
<1> USE DEF Gated, TypeOK, Return, Mark, Reuse, gateVars, history
<1>0. EvenSteps' = EvenSteps /\ EvenSteps \subseteq Steps
      BY EvenStays, EvenStep
<1>1. Authorised'
      BY <1>0 DEF Authorised, Waiting, Open, Decision
<1>2. Waiting'
      BY <1>0 DEF Authorised, Waiting, Awaiting, Open, Rerunning, Decided, Decision, HasResult
<1>3. ~cancelled' /\ phase' = "running"
      OBVIOUS
<1> QED
    BY <1>1, <1>2, <1>3 DEF AtPause

(* A mutating step executes from its grant only.                           *)
LEMMA ExecuteGated ==
  ASSUME TypeOK, Gated, crashes = 0, NEW i \in Steps, Execute(i) PROVE Gated'
<1> USE DEF Gated, TypeOK, Mark, Execute, gateVars
<1>0. EvenSteps' = EvenSteps /\ EvenSteps \subseteq Steps
      BY EvenStays, EvenStep
<1>1. Authorised'
      BY <1>0 DEF Authorised, Waiting, Open, Decision
<1>2. Waiting'
      BY <1>0 DEF Authorised, Waiting, Awaiting, Open, Rerunning, Decided, Decision, HasResult
<1>3. ~cancelled' /\ phase' = "running"
      OBVIOUS
<1> QED
    BY <1>1, <1>2, <1>3 DEF AtPause

(* An executed step ends.                                                  *)
LEMMA FinishGated ==
  ASSUME TypeOK, Gated, crashes = 0, NEW i \in Steps, Finish(i) PROVE Gated'
<1> USE DEF Gated, TypeOK, Return, Mark, Finish, gateVars, history
<1>0. EvenSteps' = EvenSteps /\ EvenSteps \subseteq Steps
      BY EvenStays, EvenStep
<1>1. Authorised'
      BY <1>0 DEF Authorised, Waiting, Open, Decision
<1>2. Waiting'
      BY <1>0 DEF Authorised, Waiting, Awaiting, Open, Rerunning, Decided, Decision, HasResult
<1>3. ~cancelled' /\ phase' = "running"
      OBVIOUS
<1> QED
    BY <1>1, <1>2, <1>3 DEF AtPause

(* A set of steps has a first.                                             *)
LEMMA FirstStep ==
  ASSUME NEW S \in SUBSET Steps, S # {}
  PROVE  (CHOOSE i \in S : \A j \in S : i <= j) \in S
<1>1. S \subseteq Nat
      BY NAssumption DEF Steps
<1>2. \E i \in S : \A j \in S : ~(<<j, i>> \in OpToRel(<, Nat))
      BY <1>1, NatLessThanWellFounded, WFMin
<1>3. \A i, j \in S : ~(<<j, i>> \in OpToRel(<, Nat)) => i <= j
      BY <1>1 DEF OpToRel
<1>4. \E i \in S : \A j \in S : i <= j
      BY <1>2, <1>3
<1> QED
    BY <1>4

(* A set of at most one step has no two.                                   *)
LEMMA AtMostOne ==
  ASSUME NEW S \in SUBSET Steps, ~(Cardinality(S) > 1), NEW i \in S, NEW j \in S
  PROVE  i = j
<1> SUFFICES ASSUME i # j PROVE FALSE
    OBVIOUS
<1>1. IsFiniteSet(Steps)
      BY NAssumption, FS_Interval DEF Steps
<1>2. IsFiniteSet(S) /\ Cardinality(S) \in Nat
      BY <1>1, FS_Subset, FS_CardinalityType
<1>3. IsFiniteSet({i}) /\ Cardinality({i}) = 1
      BY FS_Singleton
<1>4. Cardinality({i} \cup {j}) = 2
  <2>1. Cardinality({i} \cup {j}) = Cardinality({i}) + 1
        BY <1>3, FS_AddElement
  <2> QED
      BY <1>3, <2>1
<1>5. Cardinality({i} \cup {j}) <= Cardinality(S)
      BY <1>2, FS_Subset
<1> QED
    BY <1>2, <1>4, <1>5

(* A pause finds every open node parked.                                   *)
LEMMA PauseGated == ASSUME TypeOK, Gated, Pause PROVE Gated'
<1> USE DEF Gated, TypeOK, Pause, graphVars, gateVars, rowVars, history
<1>0. EvenSteps' = EvenSteps
      BY EvenStays
<1>1. Authorised' /\ Waiting'
      BY <1>0 DEF Authorised, Waiting, Awaiting, Open, Rerunning, Decided, Decision, HasResult
<1>2. AtPause'
      BY DEF AtPause, Open, Parked, Triggered
<1> QED
    BY <1>1, <1>2

(* The end of the drive decides nothing.                                   *)
LEMMA SettleGated == ASSUME TypeOK, Gated, Settle PROVE Gated'
<1> USE DEF Gated, TypeOK, Settle, graphVars, gateVars, rowVars, history
<1>0. EvenSteps' = EvenSteps
      BY EvenStays
<1>1. Authorised' /\ Waiting'
      BY <1>0 DEF Authorised, Waiting, Awaiting, Open, Rerunning, Decided, Decision, HasResult
<1>2. AtPause'
      BY DEF AtPause
<1> QED
    BY <1>1, <1>2

(* A superstep closes on no open node, and its successors are new.         *)
LEMMA EndGated == ASSUME IInv, IInv', Gated, EndSuperstep PROVE Gated'
<1> USE DEF Gated, EndSuperstep, rowVars, history
<1>0. EvenSteps' = EvenSteps /\ EvenSteps \subseteq Steps
      BY EvenStays, EvenStep DEF IInv, TypeOK
<1>1. TypeOK
      BY DEF IInv
<1>2. Open = {} /\ Awaiting = {}
      BY DEF SuperstepDone, Open, Triggered, Waiting, Awaiting
<1>3. ASSUME NEW i \in Steps
      PROVE  /\ pc'[i] # "idle" => pc'[i] = "ready"
             /\ i \in EvenSteps /\ pc'[i] # "idle" => record[i] = "none"
             /\ record[i] # "none" => status'[i] # "none"
  <2>1. pc[i] \in {"idle", "written"}
        BY <1>2 DEF Open
  <2>2. pc[i] = "written" => out[i] # "none"
        BY DEF IInv, WrittenHasOutcome
  <2>3. status'[i] = IF pc[i] = "written" THEN out[i] ELSE status[i]
        BY DEF Merged, Written
  <2>4. record[i] # "none" => status'[i] # "none"
        BY <2>1, <2>2, <2>3 DEF Waiting
  <2>5. \E n \in Nat : Front(n)'
        BY DEF IInv
  <2>6. i \in EvenSteps /\ pc'[i] # "idle" => status'[i] = "none"
    <3>1. PICK n \in Nat : Front(n)'
          BY <2>5
    <3> SUFFICES ASSUME i \in EvenSteps PROVE pc'[i] # "idle" => status'[i] = "none"
        OBVIOUS
    <3>2. plan \in Plans /\ plan' = plan
          BY <1>1 DEF TypeOK
    <3>3. PICK S \in SUBSET Steps, lvl \in [Steps -> Steps] :
                 i \in S /\ EvenBy(lvl, S, plan.deps)
          BY <3>2, EvenStep
    <3>4. /\ pc'[i] # "idle" <=> lvl[i] = n
          /\ status'[i] # "none" <=> lvl[i] < n
          BY <3>1, <3>2, <3>3 DEF Front
    <3> QED
        BY <3>3, <3>4, NAssumption DEF Steps
  <2> QED
      BY <2>4, <2>6
<1>4. Authorised'
      BY <1>0, <1>1, <1>3 DEF Authorised, TypeOK, Open
<1>5. Waiting'
      BY <1>0, <1>1, <1>2, <1>3 DEF Waiting, TypeOK, Open, Awaiting, Rerunning, Decided
<1>6. AtPause' /\ ~cancelled' /\ phase' # "down"
      BY DEF AtPause
<1> QED
    BY <1>4, <1>5, <1>6

(* A decision reaches the first parked step, whose record was pending.     *)
LEMMA DecideGated ==
  ASSUME TypeOK, Gated, NEW approved \in BOOLEAN, Decide(approved) PROVE Gated'
<1> DEFINE k == PausedIndex
           pending == {i \in interrupted : pc[i] # "written"}
           answer == IF approved THEN "yes" ELSE "no"
           several == Cardinality(pending) > 1
<1> USE DEF Gated
<1>0. EvenSteps' = EvenSteps /\ EvenSteps \subseteq Steps
      BY EvenStays, EvenStep DEF Decide, TypeOK
<1>1. phase = "paused" /\ Parked # {} /\ Open = Parked
      BY DEF Decide, AtPause
<1>2. pending = Parked /\ Awaiting = Parked
  <2>1. \A i \in Steps : i \in pending => i \in Open
        BY DEF Waiting, Open
  <2>2. \A i \in Steps : i \in Parked => i \in pending /\ i \in Awaiting
        BY DEF Waiting, Parked
  <2>3. Awaiting \subseteq Open /\ pending \subseteq Steps
        BY DEF Waiting, Awaiting, TypeOK
  <2> QED
      BY <1>1, <2>1, <2>2, <2>3 DEF Parked
<1>3. k \in Parked
      BY <1>1, <1>2, FirstStep DEF PausedIndex, Parked
<1>4. k \in Steps /\ record[k] # "none" /\ (k \in EvenSteps => record[k] = "pending")
      BY <1>3 DEF Parked, Waiting
<1>5. /\ record' = IF record[k] = "pending"
                   THEN [record EXCEPT ![k] = IF approved THEN "approved" ELSE "rejected"]
                   ELSE record
      /\ grant' = [i \in Steps |-> IF several /\ i = k THEN answer ELSE "none"]
      /\ bare' = IF several THEN "none" ELSE answer
      /\ pc' = [i \in Steps |-> IF i \in Parked THEN "ready" ELSE pc[i]]
      /\ phase' = "running" /\ cancelled' = FALSE
      /\ UNCHANGED <<plan, mode, out, status, interrupted, checklist, execs>>
      BY <1>4 DEF Decide, Rerun, history
<1>6. ~several => \A i, j \in Parked : i = j
      BY <1>2, AtMostOne DEF Parked
<1> HIDE DEF k, pending, several
<1>7. /\ \A i \in Steps : i \in Open' <=> i \in Parked
      /\ \A i \in Steps : pc'[i] # "parked" /\ pc'[i] # "granted" /\ pc'[i] # "resolved"
      /\ \A i \in Steps : record'[i] = "none" <=> record[i] = "none"
      /\ \A i \in EvenSteps : i \in Parked =>
           record'[i] = IF i # k THEN "pending"
                        ELSE IF approved THEN "approved" ELSE "rejected"
  <2>1. \A i \in Steps : pc[i] \in {"idle", "written"} \/ i \in Parked
        BY <1>1 DEF Open, TypeOK
  <2> QED
      BY <1>0, <1>4, <1>5, <2>1 DEF Open, Waiting, TypeOK, Parked
<1>8. Authorised'
      BY <1>0, <1>3, <1>4, <1>5, <1>6, <1>7 DEF Authorised, TypeOK, Open
<1>9. Waiting'
      BY <1>0, <1>2, <1>3, <1>4, <1>5, <1>6, <1>7
         DEF Waiting, TypeOK, Awaiting, Open, Rerunning, Decided, Decision, HasResult, Parked
<1> QED
    BY <1>5, <1>8, <1>9 DEF AtPause

(* What disturbs a task is not undone.                                     *)
LEMMA StaysDisturbed ==
  ASSUME TypeOK, Undisturbed', [Next]_vars
  PROVE  /\ Undisturbed /\ ~Cancel /\ ~Crash
         /\ \A i \in Steps : ~NodeCrashed(i)
<1> USE DEF Undisturbed, TypeOK
<1>1. ~Cancel
      BY DEF Cancel
<1>2. ~Crash
      BY DEF Crash
<1>3. ASSUME NEW i \in Steps, NodeCrashed(i) PROVE FALSE
  <2>1. faults' = faults + 1 /\ faults \in Nat /\ faults' = 0
        BY <1>3 DEF NodeCrashed
  <2> QED
      BY <2>1
<1>4. UNCHANGED <<everCancelled, faults, crashes>>
      BY <1>1, <1>2, <1>3
         DEF Next, Engine, StepNext, Start, Refuse, Simulate, AwaitApproval, Reuse,
             Execute, Finish, EndSuperstep, Pause, Settle, Decide, history, vars
<1> QED
    BY <1>1, <1>2, <1>3, <1>4

(* As long as nothing disturbs the task, every step keeps the gate.        *)
LEMMA GatedNext == ASSUME IInv, IInv', UInv, [Next]_vars PROVE UInv'
<1> SUFFICES ASSUME Undisturbed' PROVE Gated'
    BY DEF UInv
<1>1. /\ TypeOK /\ Undisturbed /\ Gated /\ crashes = 0
      /\ ~Cancel /\ ~Crash /\ \A i \in Steps : ~NodeCrashed(i)
      BY StaysDisturbed DEF IInv, UInv, Undisturbed
<1>2. ASSUME NEW i \in Steps, StepNext(i) PROVE Gated'
      BY <1>1, <1>2, StartGated, RefuseGated, SimulateGated, AwaitApprovalGated,
         ReuseGated, ExecuteGated, FinishGated DEF StepNext
<1>3. CASE EndSuperstep
      BY <1>1, <1>3, EndGated
<1>4. CASE Pause
      BY <1>1, <1>4, PauseGated
<1>5. CASE Settle
      BY <1>1, <1>5, SettleGated
<1>6. ASSUME NEW approved \in BOOLEAN, Decide(approved) PROVE Gated'
      BY <1>1, <1>6, DecideGated
<1>7. CASE UNCHANGED vars
      BY <1>1, <1>7
         DEF vars, graphVars, gateVars, rowVars, history, EvenSteps, Gated, Authorised, Waiting,
             AtPause, Open, Parked, Awaiting, Rerunning, Decided, Decision, HasResult
<1> QED
    BY <1>1, <1>2, <1>3, <1>4, <1>5, <1>6, <1>7 DEF Next, Engine

(* For any plan and whatever mutating siblings, even or not, share a       *)
(* superstep: unless the task is cancelled, a node crashes or the process  *)
(* dies, an even step's mutating skill is called only if that step's own   *)
(* record was approved (_await_approval, _resume_payload, decide_approval). *)
THEOREM StepsAreApproved == Spec => []OwnDecisionUndisturbed
<1>1. UInv /\ IInv => OwnDecisionUndisturbed
  <2> SUFFICES ASSUME Gated, IInv, NEW i \in plan.mutating \cap EvenSteps, execs[i] > 0
               PROVE  record[i] = "approved"
      BY DEF UInv, OwnDecisionUndisturbed, OwnDecision
  <2>1. i \in Steps
        BY PlansAssumption DEF IInv, TypeOK, PlanType
  <2> QED
      BY <2>1 DEF Gated, Authorised
<1>2. IInv /\ IInv' /\ UInv /\ [Next]_vars => UInv'
      BY GatedNext
<1> QED
    BY <1>1, <1>2, InvHolds, GatedInit, PTL DEF Spec

------------------------------------------------------------------------------
(* compute_levels decides, for plans of any number of steps, whether they  *)
(* can run at all: it returns an order when there is one, and raises about *)
(* a cycle only when there is one.                                         *)
(*                                                                         *)
(* That it raises only on a cycle is seen when it raises: the steps that   *)
(* remain each wait for one that remains.  That it never returns on one    *)
(* has to be carried along: no step of a cycle is ever resolved.           *)

(* Every step of S depends on one of S.                                    *)
WaitingSet(S) == \A i \in S : deps[i] \cap S # {}

LevelsShape ==
  /\ deps \in Deps /\ levels \in Nat /\ level \in [Steps -> Int]
  /\ resolved \subseteq Steps /\ remaining = Steps \ resolved
  /\ outcome \in {"start", "running", "ok", "invalid", "cycle"}

(* The resolved steps have a level, past the levels of all they wait for,  *)
(* which are resolved too; none of them is in a cycle.                     *)
Ordered ==
  \A i \in resolved :
    /\ level[i] \in 0 .. (levels - 1)
    /\ \A d \in deps[i] : d \in resolved /\ level[d] < level[i]

NoCycleResolved == \A S \in SUBSET Steps : WaitingSet(S) => S \cap resolved = {}

(* What the outcome says is true of the plan and of what is left.          *)
Judged ==
  /\ outcome \in {"running", "ok", "cycle"} => ~BadIndex(deps)
  /\ outcome = "invalid" => BadIndex(deps)
  /\ outcome = "ok" => remaining = {}
  /\ outcome = "cycle" => Cyclic(deps)

LInv == LevelsShape /\ Ordered /\ NoCycleResolved /\ Judged

(* Nothing is resolved at first.                                           *)
LEMMA LInvInit == LevelsInit => LInv
BY InputsAssumption DEF LevelsInit, LInv, LevelsShape, Ordered, NoCycleResolved, Judged

(* When no step is ready, those that remain wait for one another.          *)
LEMMA StuckMeansCyclic ==
  ASSUME LevelsShape, ~BadIndex(deps), remaining # {},
         ReadySteps(deps, remaining, resolved) = {}
  PROVE  Cyclic(deps)
<1>1. ASSUME NEW i \in remaining PROVE deps[i] \cap remaining # {}
  <2>1. PICK d \in deps[i] : d \notin resolved
        BY DEF ReadySteps
  <2>2. d \in Steps
        BY DEF BadIndex, LevelsShape
  <2> QED
      BY <2>1, <2>2 DEF LevelsShape
<1> QED
    BY <1>1 DEF Cyclic, LevelsShape

(* One turn of the loop: the ready steps go after the resolved ones, and a *)
(* step of a cycle is not ready.                                           *)
LEMMA TurnKeeps == ASSUME LInv, AppendLevel PROVE LInv'
<1> DEFINE ready == ReadySteps(deps, remaining, resolved)
<1>1. /\ ready \subseteq remaining /\ \A i \in ready : deps[i] \subseteq resolved
      BY DEF ReadySteps
<1>2. /\ levels' = levels + 1 /\ resolved' = resolved \cup ready
      /\ remaining' = remaining \ ready /\ deps' = deps /\ outcome' = outcome
      /\ level' = [i \in Steps |-> IF i \in ready THEN levels ELSE level[i]]
      /\ outcome = "running"
      BY DEF AppendLevel
<1> HIDE DEF ready
<1>3. LevelsShape'
      BY <1>1, <1>2 DEF LInv, LevelsShape
<1>4. Ordered'
  <2> SUFFICES ASSUME NEW i \in resolved'
               PROVE  /\ level'[i] \in 0 .. (levels' - 1)
                      /\ \A d \in deps[i] : d \in resolved' /\ level'[d] < level'[i]
      BY <1>2 DEF Ordered
  <2>1. \A d \in resolved : level'[d] = level[d] /\ level[d] \in 0 .. (levels - 1)
        BY <1>1, <1>2 DEF LInv, LevelsShape, Ordered
  <2>2. CASE i \in resolved
        BY <1>2, <2>1, <2>2 DEF LInv, LevelsShape, Ordered
  <2>3. CASE i \in ready
    <3>1. level'[i] = levels
          BY <1>1, <1>2, <2>3 DEF LInv, LevelsShape
    <3> QED
        BY <1>1, <1>2, <2>1, <2>3, <3>1 DEF LInv, LevelsShape
  <2> QED
      BY <1>2, <2>2, <2>3
<1>5. NoCycleResolved'
  <2> SUFFICES ASSUME NEW S \in SUBSET Steps, \A i \in S : deps[i] \cap S # {},
                      NEW i \in S, i \in ready
               PROVE  FALSE
      BY <1>2 DEF LInv, NoCycleResolved, WaitingSet
  <2>1. deps[i] \cap S # {} /\ deps[i] \subseteq resolved
        BY <1>1
  <2>2. S \cap resolved = {}
        BY DEF LInv, NoCycleResolved, WaitingSet
  <2> QED
      BY <2>1, <2>2
<1>6. Judged'
      BY <1>2 DEF LInv, Judged
<1> QED
    BY <1>3, <1>4, <1>5, <1>6 DEF LInv

(* The invariant is inductive.                                             *)
LEMMA LInvNext == LInv /\ [LevelsNext]_levelsVars => LInv'
<1> SUFFICES ASSUME LInv, [LevelsNext]_levelsVars PROVE LInv'
    OBVIOUS
<1>1. ASSUME UNCHANGED <<deps, resolved, remaining, levels, level>>,
             outcome' \in {"start", "running", "ok", "invalid", "cycle"}, Judged'
      PROVE  LInv'
      BY <1>1 DEF LInv, LevelsShape, Ordered, NoCycleResolved, WaitingSet
<1>2. CASE CheckIndices
  <2>1. Judged'
        BY <1>2 DEF CheckIndices, Judged, BadIndex
  <2> QED
      BY <1>1, <1>2, <2>1 DEF CheckIndices
<1>3. CASE AppendLevel
      BY <1>3, TurnKeeps
<1>4. CASE Stuck
  <2>1. Cyclic(deps)
        BY <1>4, StuckMeansCyclic DEF Stuck, LInv, Judged
  <2>2. Judged'
        BY <1>4, <2>1 DEF Stuck, LInv, Judged
  <2> QED
      BY <1>1, <1>4, <2>2 DEF Stuck
<1>5. CASE ReturnLevels
  <2>1. Judged'
        BY <1>5 DEF ReturnLevels, LInv, Judged
  <2> QED
      BY <1>1, <1>5, <2>1 DEF ReturnLevels
<1>6. CASE UNCHANGED levelsVars
  <2>1. Judged'
        BY <1>6 DEF levelsVars, LInv, Judged
  <2> QED
      BY <1>1, <1>6, <2>1 DEF levelsVars, LInv, LevelsShape
<1> QED
    BY <1>2, <1>3, <1>4, <1>5, <1>6 DEF LevelsNext

(* For any number of steps and any depends_on lists, compute_levels        *)
(* returns only an order of all the steps, of a plan without a cycle, and  *)
(* raises a ValueError only for what it says.                              *)
THEOREM VerdictIsRight == LevelsSpec => []VerdictMatchesReference
<1>1. LInv => VerdictMatchesReference
  <2> SUFFICES ASSUME LInv PROVE VerdictMatchesReference
      OBVIOUS
  <2>1. ASSUME outcome = "ok"
        PROVE  /\ ~BadIndex(deps) /\ ~Cyclic(deps)
               /\ \A i \in Steps : level[i] \in 0 .. (levels - 1)
               /\ Orders(level, deps)
    <3>1. resolved = Steps
          BY <2>1 DEF LInv, LevelsShape, Judged
    <3>2. ~Cyclic(deps)
          BY <3>1 DEF LInv, NoCycleResolved, WaitingSet, Cyclic
    <3> QED
        BY <2>1, <3>1, <3>2 DEF LInv, Ordered, Judged, Orders
  <2> QED
      BY <2>1 DEF LInv, Judged, VerdictMatchesReference
<1>2. LevelsSpec => []LInv
      BY LInvInit, LInvNext, PTL DEF LevelsSpec
<1> QED
    BY <1>1, <1>2, PTL

(* No more levels than resolved steps: no level is empty.                  *)
LevelsCounted == levels <= Cardinality(resolved)

(* A turn of the loop keeps the count.                                     *)
LEMMA LevelsCountedNext == LInv /\ LevelsCounted /\ [LevelsNext]_levelsVars => LevelsCounted'
<1> SUFFICES ASSUME LInv, LevelsCounted, [LevelsNext]_levelsVars PROVE LevelsCounted'
    OBVIOUS
<1>1. CASE AppendLevel
  <2> DEFINE ready == ReadySteps(deps, remaining, resolved)
  <2>1. ready \subseteq remaining /\ ready # {} /\ levels' = levels + 1 /\ resolved' = resolved \cup ready
        BY <1>1 DEF AppendLevel, ReadySteps
  <2>2. PICK i \in ready : i \in Steps /\ i \notin resolved
        BY <2>1 DEF LInv, LevelsShape
  <2> HIDE DEF ready
  <2>3. IsFiniteSet(resolved) /\ IsFiniteSet(resolved')
    <3>1. IsFiniteSet(Steps)
          BY FS_Interval, NAssumption DEF Steps
    <3>2. resolved \subseteq Steps /\ resolved' \subseteq Steps
          BY <2>1 DEF LInv, LevelsShape
    <3> QED
        BY <3>1, <3>2, FS_Subset
  <2>4. Cardinality(resolved \cup {i}) = Cardinality(resolved) + 1 /\ IsFiniteSet(resolved \cup {i})
        BY <2>2, <2>3, FS_AddElement
  <2>5. Cardinality(resolved \cup {i}) <= Cardinality(resolved')
        BY <2>1, <2>2, <2>3, FS_Subset
  <2>6. Cardinality(resolved) \in Nat /\ Cardinality(resolved') \in Nat /\ levels \in Nat
        BY <2>3, FS_CardinalityType DEF LInv, LevelsShape
  <2> QED
      BY <2>1, <2>4, <2>5, <2>6 DEF LevelsCounted
<1>2. CASE levels' = levels /\ resolved' = resolved
      BY <1>2 DEF LevelsCounted
<1>3. AppendLevel \/ (levels' = levels /\ resolved' = resolved)
      BY DEF LevelsNext, levelsVars, CheckIndices, Stuck, ReturnLevels
<1> QED
    BY <1>1, <1>2, <1>3

(* What compute_levels returns for is what TaskGraph assumes of its plans  *)
(* (PlansAccepted): the steps have levels within the plan, each above the  *)
(* levels of what it depends on.                                           *)
THEOREM ReturnedPlansAreAccepted ==
  LevelsSpec => [](outcome = "ok" => ~BadIndex(deps) /\ Accepted([deps |-> deps]))
<1>1. LevelsInit => LevelsCounted
      BY FS_EmptySet DEF LevelsInit, LevelsCounted
<1>2. LInv /\ LevelsCounted => (outcome = "ok" => ~BadIndex(deps) /\ Accepted([deps |-> deps]))
  <2> SUFFICES ASSUME LInv, LevelsCounted, outcome = "ok"
               PROVE  ~BadIndex(deps) /\ Accepted([deps |-> deps])
      OBVIOUS
  <2>1. resolved = Steps /\ ~BadIndex(deps)
        BY DEF LInv, LevelsShape, Judged
  <2>2. Cardinality(Steps) = N
        BY FS_Interval, NAssumption DEF Steps
  <2>3. levels <= N /\ levels \in Nat
        BY <2>1, <2>2 DEF LevelsCounted, LInv, LevelsShape
  <2>4. level \in [Steps -> Steps]
    <3>1. \A i \in Steps : level[i] \in Steps
          BY <2>1, <2>3, NAssumption DEF LInv, Ordered, Steps
    <3> QED
        BY <3>1 DEF LInv, LevelsShape
  <2>5. Orders(level, deps)
        BY <2>1 DEF LInv, Ordered, Orders
  <2>6. [deps |-> deps].deps = deps
        OBVIOUS
  <2> QED
      BY <2>1, <2>4, <2>5, <2>6 DEF Accepted
<1>3. LevelsSpec => []LInv
      BY LInvInit, LInvNext, PTL DEF LevelsSpec
<1>4. LevelsSpec => []LevelsCounted
      BY <1>1, <1>3, LevelsCountedNext, PTL DEF LevelsSpec
<1> QED
    BY <1>2, <1>3, <1>4, PTL

==============================================================================
