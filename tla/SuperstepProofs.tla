---------------------------- MODULE SuperstepProofs ----------------------------
(***************************************************************************)
(* Proofs about Superstep, for any nodes, keys and supersteps: identical   *)
(* read-only calls are made once and shared truthfully, whatever sessions  *)
(* raise, and a pause shows in the row.  Then about Delegation: what       *)
(* sibling steps and an investigation do through specialists.  Last about  *)
(* Conversation: replies and waiting streams tell the row as it stands.    *)
(***************************************************************************)
EXTENDS Superstep, Delegation, Conversation, Integers, FiniteSetTheorems, SequenceTheorems,
        WellFoundedInduction, TLAPS

InSession(i) == pc[i] \in {"load", "commit"}

(* Where a node stands once the session it has open is over.               *)
Heading(i) == IF InSession(i) THEN todo[i].then ELSE pc[i]

(* A session has something to write and leads on to a stage.  Only         *)
(* mutating steps ask for approval; a reader that has not begun left no    *)
(* trace.                                                                  *)
Placed ==
  \A i \in Nodes :
    /\ InSession(i) => /\ todo[i].status \in ItemStatus
                       /\ todo[i].then \in {"calling", "interrupt", "returned"}
    /\ Heading(i) \in {"interrupt", "parked"} => ~ReadOnly(i)
    /\ pc[i] = "start" /\ ReadOnly(i) =>
         future[i] = None /\ joined[i] = NoNode /\ wrote[i] = "pending"

(* A reader that is to call holds the future of its key; the future a key  *)
(* maps to is pending and its call has not succeeded; a key has a result   *)
(* when its call succeeded, once.                                          *)
Led ==
  /\ \A i \in Nodes : ReadOnly(i) /\ Heading(i) = "calling" => inFlight[call[i]] = i
  /\ \A k \in Keys : inFlight[k] # NoNode =>
       call[inFlight[k]] = k /\ future[inFlight[k]] = "pending" /\ k \notin cache
  /\ \A k \in Keys : calls[k] = IF k \in cache THEN 1 ELSE 0

Told(f) == IF f = "result" THEN "completed" ELSE "failed"

(* A node that joined a future is waiting for it, is about to report what  *)
(* it told, has reported it, or gave up before it reported anything.       *)
Shared ==
  \A i \in Nodes : joined[i] # NoNode =>
    /\ ReadOnly(i) /\ Heading(i) \in {"joined", "returned"}
    /\ future[joined[i]] # None
    /\ InSession(i) => /\ future[joined[i]] # "pending"
                       /\ todo[i].status = Told(future[joined[i]])
    /\ wrote[i] # "pending" => /\ future[joined[i]] # "pending"
                               /\ wrote[i] = Told(future[joined[i]])

(* The superstep is over only when its nodes are at rest; one that         *)
(* interrupts, or has, said so in the row since the last decision.         *)
Shown ==
  /\ phase # "running" => AtRest
  /\ phase = "paused" => Parked # {}
  /\ \A i \in Nodes :
       /\ InSession(i) /\ todo[i].then = "interrupt" => todo[i].status = "awaiting_approval"
       /\ pc[i] \in {"interrupt", "parked"} =>
            rowStatus = "awaiting_approval" /\ record[i] # None

IInv == TypeOK /\ Placed /\ Led /\ Shared /\ Shown

(* It holds at first.                                                      *)
LEMMA InitIInv == Init => IInv
<1> SUFFICES ASSUME Init PROVE IInv
    OBVIOUS
<1> USE DEF Init, None
<1>1. TypeOK
      BY DEF TypeOK, ItemStatus, NodePc
<1>2. Placed
      BY DEF Placed, InSession, Heading
<1>3. Led
      BY DEF Led, InSession, Heading
<1>4. Shared
      BY DEF Shared
<1>5. Shown
      BY DEF Shown, InSession
<1> QED
    BY <1>1, <1>2, <1>3, <1>4, <1>5 DEF IInv

------------------------------------------------------------------------------
(* A reader calls a key.                                                   *)
LEMMA ReaderCallsKey ==
  ASSUME TypeOK, NEW i \in Nodes PROVE call[i] \in Keys \cup {Mutating}
BY MixesAssumption DEF TypeOK

(* A session loads the row: the node heads where it did.                   *)
LEMMA LoadKeeps == ASSUME IInv, NEW i \in Nodes, Load(i) PROVE IInv'
<1> USE DEF IInv, None, ReadOnly
<1>1. TypeOK'
      BY DEF TypeOK, ItemStatus, NodePc, Placed, InSession, Load, rowVars, callVars
<1>2. Placed'
      BY DEF TypeOK, ItemStatus, NodePc, Placed, InSession, Heading, Led, Load,
             rowVars, callVars
<1>3. Led'
      BY NoNodeAssumption
         DEF TypeOK, Placed, InSession, Heading, Led, Load, rowVars, callVars
<1>4. Shared'
      BY NoNodeAssumption
         DEF TypeOK, Placed, InSession, Heading, Led, Shared, Told, Load,
             rowVars, callVars
<1>5. Shown'
      BY DEF TypeOK, Placed, InSession, Shown, AtRest, Parked, Load, rowVars,
             callVars
<1> QED
    BY <1>1, <1>2, <1>3, <1>4, <1>5

(* A session commits: what it wrote is what a joined future told.          *)
LEMMA CommitKeeps == ASSUME IInv, NEW i \in Nodes, Commit(i) PROVE IInv'
<1> USE DEF IInv, None, ReadOnly
<1>1. TypeOK'
      BY DEF TypeOK, ItemStatus, NodePc, Placed, InSession, Commit, rowVars,
             callVars, MergedChecklist
<1>2. Placed'
      BY DEF TypeOK, ItemStatus, NodePc, Placed, InSession, Heading, Led,
             Commit, rowVars, callVars, MergedChecklist
<1>3. Led'
      BY NoNodeAssumption
         DEF TypeOK, Placed, InSession, Heading, Led, Commit, rowVars, callVars,
             MergedChecklist
<1>4. Shared'
      BY NoNodeAssumption
         DEF TypeOK, Placed, InSession, Heading, Led, Shared, Told, Commit,
             rowVars, callVars, MergedChecklist
<1>5. Shown'
      BY DEF TypeOK, Placed, InSession, Shown, AtRest, Parked, Commit, rowVars,
             callVars, MergedChecklist
<1> QED
    BY <1>1, <1>2, <1>3, <1>4, <1>5

(* A session raises: its node returns and writes nothing, its future stays *)
(* pending.                                                                *)
LEMMA RaiseKeeps == ASSUME IInv, NEW i \in Nodes, Raise(i) PROVE IInv'
<1> USE DEF IInv, None, ReadOnly
<1>1. TypeOK'
      BY DEF TypeOK, ItemStatus, NodePc, Placed, InSession, Raise, rowVars, callVars
<1>2. Placed'
      BY DEF TypeOK, ItemStatus, NodePc, Placed, InSession, Heading, Led, Raise,
             rowVars, callVars
<1>3. Led'
      BY NoNodeAssumption
         DEF TypeOK, Placed, InSession, Heading, Led, Raise, rowVars, callVars
<1>4. Shared'
      BY NoNodeAssumption
         DEF TypeOK, Placed, InSession, Heading, Led, Shared, Told, Raise,
             rowVars, callVars
<1>5. Shown'
      BY DEF TypeOK, Placed, InSession, Shown, AtRest, Parked, Raise, rowVars,
             callVars
<1> QED
    BY <1>1, <1>2, <1>3, <1>4, <1>5

(* A result in the cache is reported.                                      *)
LEMMA HitKeeps == ASSUME IInv, NEW i \in Nodes, Hit(i) PROVE IInv'
<1> USE DEF IInv, None, ReadOnly
<1>1. TypeOK'
      BY DEF TypeOK, ItemStatus, NodePc, Placed, InSession, Hit, StartUpdate,
             rowVars, callVars
<1>2. Placed'
      BY DEF TypeOK, ItemStatus, NodePc, Placed, InSession, Heading, Led, Hit,
             StartUpdate, rowVars, callVars
<1>3. Led'
      BY NoNodeAssumption
         DEF TypeOK, Placed, InSession, Heading, Led, Hit, StartUpdate, rowVars,
             callVars
<1>4. Shared'
      BY NoNodeAssumption
         DEF TypeOK, Placed, InSession, Heading, Led, Shared, Told, Hit,
             StartUpdate, rowVars, callVars
<1>5. Shown'
      BY DEF TypeOK, Placed, InSession, Shown, AtRest, Parked, Hit, StartUpdate,
             rowVars, callVars
<1> QED
    BY <1>1, <1>2, <1>3, <1>4, <1>5

(* A reader joins the pending future of its key.                           *)
LEMMA JoinKeeps == ASSUME IInv, NEW i \in Nodes, Join(i) PROVE IInv'
<1> USE DEF IInv, None, ReadOnly
<1>1. TypeOK'
      BY ReaderCallsKey, SMTT(60)
         DEF TypeOK, ItemStatus, NodePc, Placed, InSession, Join, rowVars,
             callVars
<1>2. Placed'
      BY DEF TypeOK, ItemStatus, NodePc, Placed, InSession, Heading, Led, Join,
             rowVars, callVars
<1>3. Led'
      BY NoNodeAssumption, ReaderCallsKey, SMTT(60)
         DEF TypeOK, Placed, InSession, Heading, Led, Join, rowVars, callVars
<1>4. Shared'
      BY NoNodeAssumption, ReaderCallsKey, SMTT(60)
         DEF TypeOK, Placed, InSession, Heading, Led, Shared, Told, Join,
             rowVars, callVars
<1>5. Shown'
      BY DEF TypeOK, Placed, InSession, Shown, AtRest, Parked, Join, rowVars,
             callVars
<1> QED
    BY <1>1, <1>2, <1>3, <1>4, <1>5

(* A reader registers a future for a key that has none.                    *)
LEMMA LeadKeeps == ASSUME IInv, NEW i \in Nodes, Lead(i) PROVE IInv'
<1> USE DEF IInv, None, ReadOnly
<1>1. TypeOK'
      BY ReaderCallsKey, SMTT(60)
         DEF TypeOK, ItemStatus, NodePc, Placed, InSession, Lead, StartUpdate,
             rowVars, callVars
<1>2. Placed'
      BY DEF TypeOK, ItemStatus, NodePc, Placed, InSession, Heading, Led, Lead,
             StartUpdate, rowVars, callVars
<1>3. Led'
      BY NoNodeAssumption, ReaderCallsKey, SMTT(60)
         DEF TypeOK, Placed, InSession, Heading, Led, Lead, StartUpdate,
             rowVars, callVars
<1>4. Shared'
      BY NoNodeAssumption, ReaderCallsKey, SMTT(60)
         DEF TypeOK, Placed, InSession, Heading, Led, Shared, Told, Lead,
             StartUpdate, rowVars, callVars
<1>5. Shown'
      BY DEF TypeOK, Placed, InSession, Shown, AtRest, Parked, Lead,
             StartUpdate, rowVars, callVars
<1> QED
    BY <1>1, <1>2, <1>3, <1>4, <1>5

(* A call succeeds: the future its key maps to is its own.                 *)
LEMMA SucceedKeeps == ASSUME IInv, NEW i \in Nodes, Succeed(i) PROVE IInv'
<1> USE DEF IInv, None, ReadOnly
<1>1. TypeOK'
  <2> USE DEF TypeOK, Succeed, StartUpdate, SettleInFlight, rowVars, callVars
  <2>1. /\ pc' \in [Nodes -> NodePc]
        /\ todo' \in [Nodes -> [status : ItemStatus \cup {None}, then : NodePc \cup {None}]]
        BY DEF ItemStatus, NodePc
  <2>2. CASE ReadOnly(i)
    <3>1. call[i] \in Keys
          BY <2>2, ReaderCallsKey
    <3>2. calls' = [calls EXCEPT ![call[i]] = calls[call[i]] + 1]
          BY <2>2
    <3>3. calls' \in [Keys -> Nat]
          BY <3>1, <3>2
    <3>4. inFlight' \in [Keys -> Nodes \cup {NoNode}]
          BY <2>2
    <3>5. future' \in [Nodes -> {None, "pending", "result", "error"}]
          BY <2>2
    <3>6. cache' = cache \cup {call[i]}
          BY <2>2
    <3>7. cache' \in SUBSET Keys
          BY <3>1, <3>6
    <3> QED
        BY <2>1, <3>3, <3>4, <3>5, <3>7
  <2>3. CASE ~ReadOnly(i)
        BY <2>1, <2>3
  <2> QED
      BY <2>2, <2>3
<1>2. Placed'
      BY DEF TypeOK, ItemStatus, NodePc, Placed, InSession, Heading, Led,
             Succeed, StartUpdate, SettleInFlight, rowVars, callVars
<1>3. Led'
  <2>1. /\ \A j \in Nodes \ {i} : Heading(j)' = Heading(j)
        /\ Heading(i)' = "returned" /\ Heading(i) = "calling" /\ call' = call
        BY DEF TypeOK, Heading, InSession, Succeed, StartUpdate
  <2>2. CASE ReadOnly(i)
    <3>1. /\ call[i] \in Keys /\ inFlight[call[i]] = i
          /\ inFlight' = [inFlight EXCEPT ![call[i]] = NoNode]
          /\ \A j \in Nodes \ {i} : future'[j] = future[j]
          BY <2>1, <2>2, ReaderCallsKey DEF TypeOK, Led, Succeed, SettleInFlight
    <3>2. cache' = cache \cup {call[i]} /\ calls' = [k \in Keys |-> IF k = call[i] THEN calls[k] + 1 ELSE calls[k]]
          BY <2>2, <3>1 DEF TypeOK, Led, Succeed, SettleInFlight
    <3>3. \A j \in Nodes : call[j] # Mutating /\ Heading(j)' = "calling" =>
                          j # i /\ call[j] # call[i] /\ call[j] \in Keys
          BY <2>1, <3>1, ReaderCallsKey DEF Led
    <3> QED
        BY <2>1, <3>1, <3>2, <3>3, NoNodeAssumption DEF TypeOK, Led
  <2>3. CASE ~ReadOnly(i)
    <3>1. UNCHANGED <<cache, inFlight, future, calls>>
          BY <2>3 DEF Succeed
    <3> QED
        BY <2>1, <2>3, <3>1 DEF Led
  <2> QED
      BY <2>2, <2>3
<1>4. Shared'
      BY NoNodeAssumption, ReaderCallsKey, SMTT(60)
         DEF TypeOK, Placed, InSession, Heading, Led, Shared, Told, Succeed,
             StartUpdate, SettleInFlight, rowVars, callVars
<1>5. Shown'
      BY DEF TypeOK, Placed, InSession, Shown, AtRest, Parked, Succeed,
             StartUpdate, SettleInFlight, rowVars, callVars
<1> QED
    BY <1>1, <1>2, <1>3, <1>4, <1>5

(* A call fails: its future tells of an error and its key is free again.   *)
LEMMA FailKeeps == ASSUME IInv, NEW i \in Nodes, Fail(i) PROVE IInv'
<1> USE DEF IInv, None, ReadOnly
<1>1. TypeOK'
      BY DEF TypeOK, ItemStatus, NodePc, Placed, InSession, Fail, StartUpdate,
             SettleInFlight, rowVars, callVars
<1>2. Placed'
      BY DEF TypeOK, ItemStatus, NodePc, Placed, InSession, Heading, Led, Fail,
             StartUpdate, SettleInFlight, rowVars, callVars
<1>3. Led'
  <2>1. /\ \A j \in Nodes \ {i} : Heading(j)' = Heading(j)
        /\ Heading(i)' = "returned" /\ Heading(i) = "calling" /\ call' = call
        BY DEF TypeOK, Heading, InSession, Fail, StartUpdate
  <2>2. CASE ReadOnly(i)
    <3>1. /\ call[i] \in Keys /\ inFlight[call[i]] = i
          /\ inFlight' = [inFlight EXCEPT ![call[i]] = NoNode]
          /\ \A j \in Nodes \ {i} : future'[j] = future[j]
          BY <2>1, <2>2, ReaderCallsKey DEF TypeOK, Led, Fail, SettleInFlight
    <3>2. cache' = cache /\ calls' = calls
          BY <2>2, <3>1 DEF TypeOK, Led, Fail, SettleInFlight
    <3>3. \A j \in Nodes : call[j] # Mutating /\ Heading(j)' = "calling" =>
                          j # i /\ call[j] # call[i] /\ call[j] \in Keys
          BY <2>1, <3>1, ReaderCallsKey DEF Led
    <3> QED
        BY <2>1, <3>1, <3>2, <3>3, NoNodeAssumption DEF TypeOK, Led
  <2>3. CASE ~ReadOnly(i)
    <3>1. UNCHANGED <<cache, inFlight, future, calls>>
          BY <2>3 DEF Fail
    <3> QED
        BY <2>1, <2>3, <3>1 DEF Led
  <2> QED
      BY <2>2, <2>3
<1>4. Shared'
      BY NoNodeAssumption, ReaderCallsKey, SMTT(60)
         DEF TypeOK, Placed, InSession, Heading, Led, Shared, Told, Fail,
             StartUpdate, SettleInFlight, rowVars, callVars
<1>5. Shown'
      BY DEF TypeOK, Placed, InSession, Shown, AtRest, Parked, Fail,
             StartUpdate, SettleInFlight, rowVars, callVars
<1> QED
    BY <1>1, <1>2, <1>3, <1>4, <1>5

(* A joined future has resolved: its outcome is reported.                  *)
LEMMA ShareKeeps == ASSUME IInv, NEW i \in Nodes, Share(i) PROVE IInv'
<1> USE DEF IInv, None, ReadOnly
<1>1. TypeOK'
      BY DEF TypeOK, ItemStatus, NodePc, Placed, InSession, Share, StartUpdate,
             rowVars, callVars
<1>2. Placed'
      BY DEF TypeOK, ItemStatus, NodePc, Placed, InSession, Heading, Led, Share,
             StartUpdate, rowVars, callVars
<1>3. Led'
      BY NoNodeAssumption
         DEF TypeOK, Placed, InSession, Heading, Led, Share, StartUpdate,
             rowVars, callVars
<1>4. Shared'
      BY NoNodeAssumption
         DEF TypeOK, Placed, InSession, Heading, Led, Shared, Told, Share,
             StartUpdate, rowVars, callVars
<1>5. Shown'
      BY DEF TypeOK, Placed, InSession, Shown, AtRest, Parked, Share,
             StartUpdate, rowVars, callVars
<1> QED
    BY <1>1, <1>2, <1>3, <1>4, <1>5

(* A mutating step asks for approval, again on every replay.               *)
LEMMA AskApprovalKeeps == ASSUME IInv, NEW i \in Nodes, AskApproval(i) PROVE IInv'
<1> USE DEF IInv, None, ReadOnly
<1>1. TypeOK'
      BY DEF TypeOK, ItemStatus, NodePc, Placed, InSession, AskApproval,
             StartUpdate, rowVars, callVars
<1>2. Placed'
      BY DEF TypeOK, ItemStatus, NodePc, Placed, InSession, Heading, Led,
             AskApproval, StartUpdate, rowVars, callVars
<1>3. Led'
      BY NoNodeAssumption
         DEF TypeOK, Placed, InSession, Heading, Led, AskApproval, StartUpdate,
             rowVars, callVars
<1>4. Shared'
      BY NoNodeAssumption
         DEF TypeOK, Placed, InSession, Heading, Led, Shared, Told, AskApproval,
             StartUpdate, rowVars, callVars
<1>5. Shown'
      BY DEF TypeOK, Placed, InSession, Shown, AtRest, Parked, AskApproval,
             StartUpdate, rowVars, callVars
<1> QED
    BY <1>1, <1>2, <1>3, <1>4, <1>5

(* A node interrupts or has its answer.                                    *)
LEMMA InterruptKeeps == ASSUME IInv, NEW i \in Nodes, Interrupt(i) PROVE IInv'
<1> USE DEF IInv, None, ReadOnly
<1>1. TypeOK'
  <2>1. pc' \in [Nodes -> NodePc]
    <3>1. \/ pc' = [pc EXCEPT ![i] = "parked"]
          \/ pc' = [pc EXCEPT ![i] = "load"]
          BY DEF Interrupt, StartUpdate
    <3> QED
        BY <3>1 DEF TypeOK, NodePc
  <2>2. todo' \in [Nodes -> [status : ItemStatus \cup {None}, then : NodePc \cup {None}]]
        BY DEF TypeOK, ItemStatus, NodePc, Interrupt, StartUpdate
  <2> QED
      BY <2>1, <2>2 DEF TypeOK, Interrupt, rowVars, callVars
<1>2. Placed'
      BY DEF TypeOK, ItemStatus, NodePc, Placed, InSession, Heading, Led,
             Interrupt, StartUpdate, rowVars, callVars
<1>3. Led'
      BY NoNodeAssumption, ReaderCallsKey, SMTT(60)
         DEF TypeOK, Placed, InSession, Heading, Led, Interrupt, StartUpdate,
             rowVars, callVars
<1>4. Shared'
      BY NoNodeAssumption, ReaderCallsKey, SMTT(60)
         DEF TypeOK, Placed, InSession, Heading, Led, Shared, Told, Interrupt,
             StartUpdate, rowVars, callVars
<1>5. Shown'
      BY DEF TypeOK, Placed, InSession, Shown, AtRest, Parked, Interrupt,
             StartUpdate, rowVars, callVars
<1> QED
    BY <1>1, <1>2, <1>3, <1>4, <1>5

(* A superstep ends when its nodes are at rest; it pauses if one is        *)
(* parked.                                                                 *)
LEMMA EndKeeps == ASSUME IInv, EndSuperstep PROVE IInv'
<1> USE DEF IInv, ReadOnly, EndSuperstep, rowVars, callVars
<1>1. TypeOK'
      BY DEF TypeOK
<1>2. Placed' /\ Led'
      BY DEF Placed, Led, InSession, Heading
<1>3. Shared'
      BY DEF Shared, InSession, Heading
<1>4. Shown'
      BY DEF Shown, AtRest, Parked, InSession
<1> QED
    BY <1>1, <1>2, <1>3, <1>4

(* A decision sends every parked node back to its start: only mutating     *)
(* steps park.                                                             *)
LEMMA DecideKeeps == ASSUME IInv, NEW approved \in BOOLEAN, Decide(approved) PROVE IInv'
<1> USE DEF IInv, ReadOnly, None
<1>1. pc' = [i \in Nodes |-> IF pc[i] = "parked" THEN "start" ELSE pc[i]]
      BY DEF Decide, Parked
<1>2. /\ UNCHANGED <<call, todo, seen, checklist, cache, inFlight, future, joined, calls, wrote, raised>>
      /\ rowStatus' = "running" /\ phase' = "running" /\ phase = "paused"
      BY DEF Decide, callVars
<1>3. TypeOK'
  <2>1. pc' \in [Nodes -> NodePc]
        BY <1>1 DEF TypeOK, NodePc
  <2>2. record' \in [Nodes -> {None, "pending", "approved", "rejected"}]
        BY DEF TypeOK, Decide
  <2>3. decision' \in [Nodes -> {None, "yes", "no"}]
        BY DEF Decide
  <2> QED
      BY <1>2, <2>1, <2>2, <2>3 DEF TypeOK
<1>4. Placed'
      BY <1>1, <1>2 DEF Placed, InSession, Heading
<1>5. Led' /\ Shared'
      BY <1>1, <1>2 DEF Led, Shared, InSession, Heading
<1>6. Shown'
      BY <1>1, <1>2 DEF Shown, AtRest, Parked, InSession
<1> QED
    BY <1>3, <1>4, <1>5, <1>6

(* A step that changes nothing keeps the invariant.                        *)
LEMMA StutterKeeps == ASSUME IInv, UNCHANGED vars PROVE IInv'
<1> USE DEF IInv, ReadOnly, vars, rowVars, callVars
<1>1. TypeOK' /\ Placed' /\ Led'
      BY DEF TypeOK, Placed, Led, InSession, Heading
<1>2. Shared' /\ Shown'
      BY DEF Shared, Shown, AtRest, Parked, InSession, Heading
<1> QED
    BY <1>1, <1>2

(* The invariant is inductive.                                             *)
LEMMA NextIInv == IInv /\ [Next]_vars => IInv'
<1> SUFFICES ASSUME IInv, [Next]_vars PROVE IInv'
    OBVIOUS
<1>1. ASSUME NEW i \in Nodes, NodeNext(i) \/ Raise(i) PROVE IInv'
      BY <1>1, LoadKeeps, CommitKeeps, RaiseKeeps, HitKeeps, JoinKeeps, LeadKeeps,
         SucceedKeeps, FailKeeps, ShareKeeps, AskApprovalKeeps, InterruptKeeps
         DEF NodeNext
<1>2. CASE EndSuperstep
      BY <1>2, EndKeeps
<1>3. CASE \E approved \in BOOLEAN : Decide(approved)
      BY <1>3, DecideKeeps
<1>4. CASE UNCHANGED vars
      BY <1>4, StutterKeeps
<1> QED
    BY <1>1, <1>2, <1>3, <1>4 DEF Next

(* Where every node heads, whose future every key maps to and what every   *)
(* joiner reports, in every reachable state.                               *)
THEOREM SuperstepInvariant == Spec => []IInv
BY InitIInv, NextIInv, PTL DEF Spec

------------------------------------------------------------------------------
(* Every state has the shape the module says.                              *)
THEOREM TypeCorrect == Spec => []TypeOK
<1>1. IInv => TypeOK
      BY DEF IInv
<1> QED
    BY <1>1, SuperstepInvariant, PTL

(* The nodes calling for one key are at most one: each of them is the node *)
(* the key's future belongs to.                                            *)
LEMMA OneCaller ==
  ASSUME IInv, NEW k \in Keys
  PROVE  Cardinality({i \in Nodes : pc[i] = "calling" /\ call[i] = k}) <= 1
<1> DEFINE callers == {i \in Nodes : pc[i] = "calling" /\ call[i] = k}
<1>1. callers \subseteq {inFlight[k]}
      BY KeysAssumption DEF IInv, Led, Heading, InSession, ReadOnly
<1>2. CASE callers = {}
      BY <1>2, FS_EmptySet
<1>3. CASE callers # {}
  <2>1. callers = {inFlight[k]}
        BY <1>1, <1>3
  <2>2. Cardinality(callers) = 1
        BY <2>1, FS_Singleton
  <2> QED
      BY <2>2
<1> QED
    BY <1>2, <1>3

(* An identical read-only call is made by one node at a time and succeeds  *)
(* once; a node that joined it reports what it told (run_step).            *)
THEOREM CallsFlyOnce == Spec => []SingleFlight
<1>1. IInv => SingleFlight
  <2> SUFFICES ASSUME IInv PROVE SingleFlight
      OBVIOUS
  <2>1. \A k \in Keys : calls[k] <= 1
        BY DEF IInv, Led
  <2>2. JoinersAgree
        BY DEF IInv, TypeOK, Shared, Told, JoinersAgree, None
  <2> QED
      BY <2>1, <2>2, OneCaller DEF SingleFlight
<1> QED
    BY <1>1, SuperstepInvariant, PTL

(* A paused graph is awaiting_approval in its row, and every parked step   *)
(* has a record to decide (_await_approval, resume_after_approval).        *)
THEOREM PausesAreVisible == Spec => []PauseIsVisible
<1>1. IInv => PauseIsVisible
  <2> SUFFICES ASSUME IInv, phase = "paused"
               PROVE  rowStatus = "awaiting_approval" /\ \A i \in Parked : record[i] # None
      BY DEF PauseIsVisible
  <2> QED
      BY DEF IInv, Shown, Parked
<1> QED
    BY <1>1, SuperstepInvariant, PTL


-----------------------------------------------------------------------------
(***************************************************************************)
(* Sibling steps that delegate, and the investigation (Delegation).        *)
(***************************************************************************)
Fingerprints == Observations \cup {"refused"}
Reasons == {"stalled", "max_iterations", "budget_exhausted", "goal_reached", "failed"}

(* Shape of the state.                                                     *)
Delegations == [pc : {"idle", "queued", "running", "reviewing", "done", "failed"},
                tree : Trees \cup {NoTree}, tools : SUBSET Tools, succeeded : BOOLEAN]

TreeShape ==
  /\ attempt \in 0 .. MaxAttempts /\ cancelled \in BOOLEAN /\ admitted \in Nat
  /\ current \in TaskTrees \cup {NoTree} /\ made \in 0 .. MaxTrees /\ strays \in BOOLEAN
  /\ tree \in [Trees -> [children : Nat, holders : SUBSET Callers]]
  /\ del \in [Callers -> Delegations]

LoopShape ==
  /\ ceiling \in Nat /\ spent \in Nat /\ unmetered \in Nat
  /\ trace \in Seq(Fingerprints)
  /\ loop \in {"deciding", "thinking", "acting", "returned", "raised"}
  /\ result \in Reasons \cup {"none"}

(* What a caller's specialist was granted it may read.                     *)
GrantsRead == \A c \in Callers : del[c].tools \subseteq ReadOnlyTools

(* A step delegates in a tree of the task; until the task is cancelled     *)
(* there is no other than the newest, which has admitted them all.         *)
Open(c) == del[c].pc \in {"queued", "running"}
AllIn(t) ==
  /\ t = made /\ admitted = tree[t].children
  /\ \A c \in Steps : Open(c) => del[c].tree = t
NoneIn == admitted = 0 /\ \A c \in Steps : ~Open(c)
OneTree ==
  /\ \A c \in Steps : Open(c) => del[c].tree \in TaskTrees
  /\ Open(Loop) => del[Loop].tree \in {LoopTree, StrayTree}
  /\ current <= made /\ \A t \in TaskTrees : t > made => tree[t].children = 0
  /\ ~cancelled => \/ current = NoTree /\ NoneIn
                   \/ current \in TaskTrees /\ AllIn(current)

(* Those who run in a tree hold its semaphore, but for the loop's own      *)
(* delegations, and no tree has too many of them or of children.           *)
Slots ==
  \A t \in Trees :
    /\ t # LoopTree => \A c \in Callers : del[c].pc = "running" /\ del[c].tree = t => c \in tree[t].holders
    /\ Cardinality(tree[t].holders) <= MaxConcurrency
    /\ tree[t].children <= MaxChildren

TreeInv == TreeShape /\ GrantsRead /\ OneTree /\ Slots

(* While the loop goes on it has neither gone round in circles nor run out *)
(* of anything, and it delegates only while it acts.                       *)
Below == \A x \in Fingerprints : Repeats(trace, x) < StallThreshold
Looping ==
  /\ spent <= ceiling
  /\ loop = "thinking" => spent + 1 <= ceiling
  /\ loop \notin {"returned", "raised"} => result = "none" /\ Len(trace) < MaxIterations /\ Below
  /\ loop # "acting" => del[Loop].pc = "idle"

(* Why it stopped.                                                         *)
Stopped ==
  /\ result = "stalled" => \E x \in Fingerprints : Repeats(trace, x) >= StallThreshold
  /\ result # "stalled" => Below
  /\ result = "max_iterations" => Len(trace) = MaxIterations
  /\ result = "budget_exhausted" => spent = ceiling
  /\ Len(trace) <= MaxIterations

LoopInv == LoopShape /\ Looping /\ Stopped

DInv == TreeInv /\ LoopInv /\ misjudged = FALSE

-----------------------------------------------------------------------------
(* The trees.                                                              *)

(* The callers are finitely many, so are those who hold a semaphore.       *)
LEMMA HoldersFinite ==
  ASSUME NEW S \in SUBSET Callers
  PROVE  IsFiniteSet(S) /\ Cardinality(S) \in Nat
<1>1. IsFiniteSet(Callers)
      BY CallersAssumption, FS_AddElement DEF Callers
<1> QED
    BY <1>1, FS_Subset, FS_CardinalityType

(* One more of them is at most one more.                                   *)
LEMMA OneMoreHolder ==
  ASSUME NEW S \in SUBSET Callers, NEW c \in Callers
  PROVE  Cardinality(S \cup {c}) \in Nat /\ Cardinality(S \cup {c}) <= Cardinality(S) + 1
<1>1. IsFiniteSet(S) /\ Cardinality(S) \in Nat /\ Cardinality(S \cup {c}) \in Nat
      BY HoldersFinite
<1>2. CASE c \in S
  <2>1. S \cup {c} = S
        BY <1>2
  <2>2. Cardinality(S \cup {c}) = Cardinality(S)
        BY <2>1
  <2> QED
      BY <1>1, <2>2
<1>3. CASE c \notin S
  <2>1. Cardinality(S \cup {c}) = Cardinality(S) + 1
        BY <1>1, <1>3, FS_AddElement
  <2> QED
      BY <1>1, <2>1
<1> QED
    BY <1>2, <1>3

(* Whoever waits or works does so in some tree.                            *)
LEMMA InSomeTree ==
  ASSUME TreeInv, NEW c \in Callers, Open(c)
  PROVE  del[c].tree \in Trees
  BY DEF TreeInv, OneTree, Callers, Trees

(* Where a step's call goes: to the newest tree, which has admitted every  *)
(* delegation of the attempt.                                              *)
CallGoes ==
  /\ TreeFor \in TaskTrees /\ current' = TreeFor
  /\ made' = IF TreeFor > made THEN TreeFor ELSE made

LEMMA CallsGoToTheTree ==
  ASSUME TreeInv, CallGoes
  PROVE  /\ current' \in TaskTrees /\ made' \in 0 .. MaxTrees /\ current' <= made' /\ made <= made'
         /\ TreeFor \in Trees /\ TreeFor # LoopTree /\ TreeFor # StrayTree
         /\ \A t \in TaskTrees : t > made' => tree[t].children = 0
         /\ ~cancelled => /\ TreeFor = made' /\ admitted = tree[TreeFor].children
                          /\ \A c \in Steps : Open(c) => del[c].tree = TreeFor
<1>1. /\ MaxTrees \in Nat \ {0} /\ TaskTrees = 1 .. MaxTrees /\ made \in 0 .. MaxTrees
      /\ current \in TaskTrees \cup {NoTree} /\ current <= made
      /\ \A t \in TaskTrees : t > made => tree[t].children = 0
      BY LimitsAssumption DEF TaskTrees, TreeInv, TreeShape, OneTree
<1>2. TreeFor \in TaskTrees /\ current' = TreeFor /\ made' = IF TreeFor > made THEN TreeFor ELSE made
      BY DEF CallGoes
<1>3. CASE current = NoTree
  <2>1. TreeFor = made + 1 /\ made' = made + 1
        BY <1>1, <1>2, <1>3 DEF TreeFor
  <2>2. ~cancelled => NoneIn
        BY <1>3 DEF TreeInv, OneTree, TaskTrees, NoTree
  <2> QED
      BY <1>1, <1>2, <2>1, <2>2 DEF NoneIn, Trees, LoopTree, StrayTree
<1>4. CASE current # NoTree
  <2>1. TreeFor = current /\ made' = made
        BY <1>1, <1>2, <1>4 DEF TreeFor
  <2>2. ~cancelled => AllIn(current)
        BY <1>4 DEF TreeInv, OneTree
  <2> QED
      BY <1>1, <1>2, <2>1, <2>2 DEF AllIn, Trees, LoopTree, StrayTree
<1> QED
    BY <1>3, <1>4

(* A caller that neither waits nor works: nothing changes in the trees.    *)
LEMMA StandsAside ==
  ASSUME TreeInv, NEW c \in Callers, NEW d \in Delegations, d.tools \subseteq ReadOnlyTools,
         d.pc \notin {"queued", "running"}, del' = [del EXCEPT ![c] = d],
         UNCHANGED <<attempt, cancelled, admitted, strays, tree>>,
         CallGoes \/ UNCHANGED <<current, made>>
  PROVE  TreeInv'
<1>1. del' \in [Callers -> Delegations] /\ del'[c] = d /\ \A b \in Callers \ {c} : del'[b] = del[b]
      BY DEF TreeInv, TreeShape
<1>2. GrantsRead'
      BY <1>1 DEF TreeInv, GrantsRead
<1>3. \A b \in Callers : Open(b)' => Open(b) /\ del'[b] = del[b]
      BY <1>1 DEF Open
<1>4. TreeShape' /\ OneTree'
  <2>1. CASE CallGoes
    <3>1. /\ current' \in TaskTrees /\ made' \in 0 .. MaxTrees /\ current' <= made' /\ current' = TreeFor
          /\ \A t \in TaskTrees : t > made' => tree[t].children = 0
          /\ ~cancelled => /\ current' = made' /\ admitted = tree[current'].children
                           /\ \A b \in Steps : Open(b) => del[b].tree = current'
          BY <2>1, CallsGoToTheTree DEF CallGoes
    <3>2. TreeShape'
          BY <1>1, <3>1 DEF TreeInv, TreeShape
    <3>3. ~cancelled => AllIn(current)'
          BY <1>3, <3>1 DEF AllIn, Callers
    <3>4. OneTree'
          BY <1>3, <3>1, <3>3 DEF TreeInv, OneTree, Callers
    <3> QED
        BY <3>2, <3>4
  <2>2. CASE UNCHANGED <<current, made>>
    <3>1. TreeShape'
          BY <1>1, <2>2 DEF TreeInv, TreeShape
    <3>2. OneTree'
          BY <1>3, <2>2 DEF TreeInv, OneTree, AllIn, NoneIn, Callers
    <3> QED
        BY <3>1, <3>2
  <2> QED
      BY <2>1, <2>2
<1>5. Slots'
      BY <1>1 DEF TreeInv, Slots
<1> QED
    BY <1>2, <1>4, <1>5 DEF TreeInv

(* Nothing happens in the trees.                                           *)
LEMMA TreesUntouched ==
  ASSUME TreeInv, UNCHANGED <<treeVars, del>>
  PROVE  TreeInv'
<1>1. /\ attempt' = attempt /\ cancelled' = cancelled /\ current' = current /\ made' = made
      /\ admitted' = admitted /\ strays' = strays
      /\ tree' = tree /\ del' = del
      BY DEF treeVars
<1> QED
    BY <1>1 DEF TreeInv, TreeShape, GrantsRead, OneTree, AllIn, NoneIn, Open, Slots

(* A specialist leaves, and its slot is free.                              *)
LEMMA LeavesSlot ==
  ASSUME TreeInv, NEW c \in Callers, NEW d \in Delegations, d.tools \subseteq ReadOnlyTools,
         d.pc \notin {"queued", "running"}, del' = [del EXCEPT ![c] = d],
         del[c].tree \in Trees, ReleaseSlot(c), UNCHANGED <<attempt, cancelled, current, made, admitted, strays>>
  PROVE  TreeInv'
<1> DEFINE s == del[c].tree
<1>1. del' \in [Callers -> Delegations] /\ del'[c] = d /\ \A b \in Callers \ {c} : del'[b] = del[b]
      BY DEF TreeInv, TreeShape
<1>2. /\ tree' \in [Trees -> [children : Nat, holders : SUBSET Callers]]
      /\ \A t \in Trees \ {s} : tree'[t] = tree[t]
      /\ tree'[s].children = tree[s].children /\ tree'[s].holders = tree[s].holders \ {c}
  <2> DEFINE left == [tree[s] EXCEPT !.holders = @ \ {c}]
  <2>1. tree' = [tree EXCEPT ![s] = left]
        BY Zenon DEF ReleaseSlot
  <2>2. tree[s] \in [children : Nat, holders : SUBSET Callers]
        BY DEF TreeInv, TreeShape
  <2>3. /\ left \in [children : Nat, holders : SUBSET Callers]
        /\ left.children = tree[s].children /\ left.holders = tree[s].holders \ {c}
        BY <2>2
  <2> HIDE DEF left
  <2> QED
      BY <2>1, <2>3 DEF TreeInv, TreeShape
<1>3. TreeShape'
      BY <1>1, <1>2 DEF TreeInv, TreeShape
<1>4. GrantsRead'
      BY <1>1 DEF TreeInv, GrantsRead
<1>5. \A b \in Callers : Open(b)' => Open(b) /\ del'[b] = del[b]
      BY <1>1 DEF Open
<1>6. OneTree'
      BY <1>2, <1>5 DEF TreeInv, OneTree, AllIn, NoneIn, Callers, Trees
<1>7. Slots'
  <2>1. tree[s].holders \subseteq Callers
        BY DEF TreeInv, TreeShape
  <2>2. Cardinality(tree'[s].holders) <= Cardinality(tree[s].holders)
        BY <1>2, <2>1, HoldersFinite, FS_Subset
  <2>3. Cardinality(tree[s].holders) \in Nat /\ Cardinality(tree'[s].holders) \in Nat
        BY <1>2, <2>1, HoldersFinite
  <2>4. ASSUME NEW t \in Trees
        PROVE  /\ t # LoopTree => \A b \in Callers : del'[b].pc = "running" /\ del'[b].tree = t => b \in tree'[t].holders
               /\ Cardinality(tree'[t].holders) <= MaxConcurrency
               /\ tree'[t].children <= MaxChildren
    <3>1. MaxConcurrency \in Nat
          BY LimitsAssumption
    <3>2. CASE t = s
      <4>1. /\ s # LoopTree => \A b \in Callers : del[b].pc = "running" /\ del[b].tree = s => b \in tree[s].holders
            /\ Cardinality(tree[s].holders) <= MaxConcurrency
            /\ tree[s].children <= MaxChildren
            BY DEF TreeInv, Slots
      <4> HIDE DEF s
      <4>2. ASSUME s # LoopTree, NEW b \in Callers, del'[b].pc = "running", del'[b].tree = s
            PROVE  b \in tree'[s].holders
        <5>1. b # c
              BY <1>1, <4>2
        <5> QED
            BY <1>1, <1>2, <4>1, <4>2, <5>1
      <4>3. Cardinality(tree'[s].holders) <= MaxConcurrency
            BY <2>2, <2>3, <3>1, <4>1
      <4> QED
          BY <1>2, <3>2, <4>1, <4>2, <4>3
    <3>3. CASE t # s
          BY <1>1, <1>2, <3>3 DEF TreeInv, Slots
    <3> QED
        BY <3>2, <3>3
  <2> QED
      BY <2>4 DEF Slots
<1> QED
    BY <1>3, <1>4, <1>6, <1>7 DEF TreeInv

(* A delegation is admitted: one more child, within the limit.             *)
LEMMA JoinsTree ==
  ASSUME TreeInv, NEW c \in Callers, NEW d \in Delegations, d.tools \subseteq ReadOnlyTools,
         NEW s \in Trees, d.tree = s, tree[s].children + 1 <= MaxChildren,
         d.pc = "queued" \/ (d.pc = "running" /\ c = Loop /\ s = LoopTree),
         tree' = Admitted(s), del' = [del EXCEPT ![c] = d],
         UNCHANGED <<attempt, cancelled, strays>>,
         \/ c \in Steps /\ CallGoes /\ s = TreeFor /\ admitted' = admitted + 1
         \/ c = Loop /\ s = LoopTree /\ UNCHANGED <<current, made, admitted>>
  PROVE  TreeInv'
<1>1. del' \in [Callers -> Delegations] /\ del'[c] = d /\ \A b \in Callers \ {c} : del'[b] = del[b]
      BY DEF TreeInv, TreeShape
<1>2. /\ tree' \in [Trees -> [children : Nat, holders : SUBSET Callers]]
      /\ \A t \in Trees : tree'[t].holders = tree[t].holders
      /\ \A t \in Trees : tree'[t].children <= MaxChildren
      /\ tree'[s].children = tree[s].children + 1 /\ \A t \in Trees \ {s} : tree'[t] = tree[t]
  <2> DEFINE more == [tree[s] EXCEPT !.children = @ + 1]
  <2>1. tree' = [tree EXCEPT ![s] = more]
        BY Zenon DEF Admitted
  <2>2. tree[s] \in [children : Nat, holders : SUBSET Callers]
        BY DEF TreeInv, TreeShape
  <2>3. /\ more \in [children : Nat, holders : SUBSET Callers]
        /\ more.children = tree[s].children + 1 /\ more.holders = tree[s].holders
        BY <2>2
  <2> HIDE DEF more
  <2> QED
      BY <2>1, <2>3 DEF TreeInv, TreeShape, Slots
<1>3. TreeInv /\ TreeShape /\ OneTree /\ Loop \notin Steps /\ LoopTree \notin TaskTrees
      BY CallersAssumption DEF TreeInv, LoopTree, TaskTrees
<1>4. GrantsRead'
      BY <1>1 DEF TreeInv, GrantsRead
<1>5. \A b \in Callers \ {c} : Open(b)' <=> Open(b)
      BY <1>1 DEF Open
<1>6. ASSUME c \in Steps PROVE TreeShape' /\ OneTree'
  <2>1. CallGoes /\ s = TreeFor /\ admitted' = admitted + 1 /\ s \in TaskTrees
        BY <1>3, <1>6 DEF CallGoes
  <2>2. /\ current' \in TaskTrees /\ made' \in 0 .. MaxTrees /\ current' <= made' /\ current' = s
        /\ made <= made' /\ s <= made'
        /\ \A t \in TaskTrees : t > made' => tree[t].children = 0
        /\ ~cancelled => /\ s = made' /\ admitted = tree[s].children
                         /\ \A b \in Steps : Open(b) => del[b].tree = s
        BY <2>1, CallsGoToTheTree DEF CallGoes
  <2>3. TreeShape'
        BY <1>1, <1>2, <1>3, <2>1, <2>2 DEF TreeShape
  <2>4. \A b \in Steps : Open(b)' => (b = c /\ del'[b].tree = s) \/ (Open(b) /\ del'[b].tree = del[b].tree)
        BY <1>1, <1>5 DEF Callers
  <2>5. ~cancelled => AllIn(current)'
    <3>1. ~cancelled => current' = made' /\ admitted' = tree'[current'].children
          BY <1>2, <2>1, <2>2
    <3>2. ~cancelled => \A b \in Steps : Open(b)' => del'[b].tree = current'
          BY <2>2, <2>4
    <3> QED
        BY <3>1, <3>2 DEF AllIn, Open
  <2>6. \A b \in Steps : Open(b)' => del'[b].tree \in TaskTrees
        BY <1>3, <2>1, <2>4 DEF OneTree
  <2>7. Open(Loop)' => del'[Loop].tree \in {LoopTree, StrayTree}
        BY <1>1, <1>3, <1>5, <1>6 DEF OneTree, Callers
  <2>8. \A t \in TaskTrees : t > made' => tree'[t].children = 0
    <3>1. \A t \in TaskTrees : t > made' => t # s
          BY <2>1, <2>2 DEF TaskTrees
    <3> QED
        BY <1>2, <2>2, <3>1 DEF Trees
  <2>9. OneTree'
        BY <2>2, <2>5, <2>6, <2>7, <2>8 DEF OneTree, Open
  <2> QED
      BY <2>3, <2>9
<1>7. ASSUME c = Loop PROVE TreeShape' /\ OneTree'
  <2>1. s = LoopTree /\ UNCHANGED <<current, made, admitted>>
        BY <1>3, <1>7
  <2>2. TreeShape'
        BY <1>1, <1>2, <1>3, <2>1 DEF TreeShape
  <2>3. \A b \in Steps : b \in Callers /\ b # c /\ (Open(b)' <=> Open(b)) /\ del'[b] = del[b]
        BY <1>1, <1>3, <1>5, <1>7 DEF Callers
  <2>4. \A t \in TaskTrees : tree'[t] = tree[t]
        BY <1>2, <1>3, <2>1 DEF Trees
  <2>5. OneTree'
        BY <1>1, <1>3, <1>7, <2>1, <2>3, <2>4 DEF OneTree, AllIn, NoneIn
  <2> QED
      BY <2>2, <2>5
<1>8. Slots'
  <2>1. ASSUME NEW t \in Trees, t # LoopTree, NEW b \in Callers, del'[b].pc = "running", del'[b].tree = t
        PROVE  b \in tree[t].holders
    <3>1. b # c
          BY <1>1, <2>1
    <3> QED
        BY <1>1, <2>1, <3>1 DEF TreeInv, Slots
  <2> QED
      BY <1>2, <2>1 DEF TreeInv, Slots
<1> QED
    BY <1>4, <1>6, <1>7, <1>8 DEF TreeInv, Callers

(* A specialist gets a free slot of its tree.                              *)
LEMMA TakesSlot ==
  ASSUME TreeInv, NEW c \in Callers, NEW d \in Delegations, d.tools \subseteq ReadOnlyTools,
         d.pc = "running", d.tree = del[c].tree, del[c].pc = "queued", del[c].tree \in Trees,
         Cardinality(tree[del[c].tree].holders) < MaxConcurrency,
         tree' = [tree EXCEPT ![del[c].tree].holders = @ \cup {c}], del' = [del EXCEPT ![c] = d],
         UNCHANGED <<attempt, cancelled, current, made, admitted, strays>>
  PROVE  TreeInv'
<1> DEFINE s == del[c].tree
<1>1. del' \in [Callers -> Delegations] /\ del'[c] = d /\ \A b \in Callers \ {c} : del'[b] = del[b]
      BY DEF TreeInv, TreeShape
<1>2. /\ tree' \in [Trees -> [children : Nat, holders : SUBSET Callers]]
      /\ \A t \in Trees \ {s} : tree'[t] = tree[t]
      /\ tree'[s].children = tree[s].children /\ tree'[s].holders = tree[s].holders \cup {c}
  <2> DEFINE one == [tree[s] EXCEPT !.holders = @ \cup {c}]
  <2>1. tree' = [tree EXCEPT ![s] = one]
        BY Zenon
  <2>2. tree[s] \in [children : Nat, holders : SUBSET Callers]
        BY DEF TreeInv, TreeShape
  <2>3. /\ one \in [children : Nat, holders : SUBSET Callers]
        /\ one.children = tree[s].children /\ one.holders = tree[s].holders \cup {c}
        BY <2>2
  <2> HIDE DEF one
  <2> QED
      BY <2>1, <2>3 DEF TreeInv, TreeShape
<1>3. TreeShape'
      BY <1>1, <1>2 DEF TreeInv, TreeShape
<1>4. GrantsRead'
      BY <1>1 DEF TreeInv, GrantsRead
<1>5. \A b \in Callers : Open(b)' => Open(b) /\ del'[b].tree = del[b].tree
      BY <1>1 DEF Open
<1>6. OneTree'
      BY <1>2, <1>5 DEF TreeInv, OneTree, AllIn, NoneIn, Callers, Trees
<1>7. Slots'
  <2>1. tree[s].holders \subseteq Callers
        BY DEF TreeInv, TreeShape
  <2>2. /\ IsFiniteSet(tree[s].holders) /\ Cardinality(tree[s].holders) \in Nat
        /\ Cardinality(tree'[s].holders) <= Cardinality(tree[s].holders) + 1
        /\ Cardinality(tree'[s].holders) \in Nat
    <3>1. IsFiniteSet(tree[s].holders) /\ Cardinality(tree[s].holders) \in Nat
          BY <2>1, HoldersFinite
    <3>2. PICK held : held = tree[s].holders
          OBVIOUS
    <3>3. held \subseteq Callers /\ tree'[s].holders = held \cup {c}
          BY <1>2, <2>1, <3>2
    <3>4. Cardinality(held \cup {c}) \in Nat /\ Cardinality(held \cup {c}) <= Cardinality(held) + 1
          BY <3>3, OneMoreHolder
    <3> QED
        BY <3>1, <3>2, <3>3, <3>4
  <2>3. /\ s # LoopTree => \A b \in Callers : del[b].pc = "running" /\ del[b].tree = s => b \in tree[s].holders
        /\ tree[s].children <= MaxChildren
        BY DEF TreeInv, Slots
  <2>4. MaxConcurrency \in Nat /\ Cardinality(tree[s].holders) < MaxConcurrency
        BY LimitsAssumption
  <2> HIDE DEF s
  <2>5. Cardinality(tree'[s].holders) <= MaxConcurrency
        BY <2>2, <2>4
  <2>6. s # LoopTree => \A b \in Callers : del'[b].pc = "running" /\ del'[b].tree = s => b \in tree'[s].holders
        BY <1>1, <1>2, <2>3
  <2>7. \A t \in Trees \ {s} :
          /\ t # LoopTree => \A b \in Callers : del'[b].pc = "running" /\ del'[b].tree = t => b \in tree'[t].holders
          /\ Cardinality(tree'[t].holders) <= MaxConcurrency
          /\ tree'[t].children <= MaxChildren
    <3>1. d.tree = s
          BY DEF s
    <3> QED
        BY <1>1, <1>2, <3>1 DEF TreeInv, Slots
  <2> QED
      BY <1>2, <2>3, <2>5, <2>6, <2>7 DEF Slots
<1> QED
    BY <1>3, <1>4, <1>6, <1>7 DEF TreeInv

(* The loop's skill call gets a tree of its own.                           *)
LEMMA StrayTreeMade ==
  ASSUME TreeInv, NEW d \in Delegations, d.tools \subseteq ReadOnlyTools, d.pc = "queued", d.tree = StrayTree,
         tree' = [tree EXCEPT ![StrayTree] = [EmptyTree EXCEPT !.children = 1]],
         del[Loop].pc = "idle", del' = [del EXCEPT ![Loop] = d], strays' = TRUE,
         UNCHANGED <<attempt, cancelled, current, made, admitted>>
  PROVE  TreeInv'
<1>1. Loop \in Callers /\ Loop \notin Steps /\ StrayTree \in Trees /\ StrayTree \notin TaskTrees
      BY CallersAssumption DEF Callers, Trees, StrayTree, TaskTrees
<1>2. del' \in [Callers -> Delegations] /\ del'[Loop] = d /\ \A b \in Callers \ {Loop} : del'[b] = del[b]
      BY <1>1 DEF TreeInv, TreeShape
<1> DEFINE fresh == [EmptyTree EXCEPT !.children = 1]
<1>3. fresh \in [children : Nat, holders : SUBSET Callers] /\ fresh.children = 1 /\ fresh.holders = {}
      BY DEF EmptyTree
<1> HIDE DEF fresh
<1>4. /\ tree' \in [Trees -> [children : Nat, holders : SUBSET Callers]]
      /\ \A t \in Trees \ {StrayTree} : tree'[t] = tree[t]
      /\ tree'[StrayTree] = fresh
      BY <1>1, <1>3 DEF TreeInv, TreeShape, fresh
<1>5. TreeShape'
      BY <1>2, <1>4 DEF TreeInv, TreeShape
<1>6. GrantsRead'
      BY <1>2 DEF TreeInv, GrantsRead
<1>7. \A b \in Steps : b \in Callers /\ del'[b] = del[b] /\ (Open(b)' <=> Open(b))
      BY <1>1, <1>2 DEF Open, Callers
<1>8. OneTree'
      BY <1>1, <1>2, <1>4, <1>7 DEF TreeInv, OneTree, AllIn, NoneIn, Trees
<1>9. Slots'
  <2>1. MaxConcurrency \in Nat /\ MaxChildren \in Nat \ {0} /\ Cardinality(fresh.holders) = 0
        BY <1>3, LimitsAssumption, FS_EmptySet
  <2>2. ASSUME NEW b \in Callers, del'[b].pc = "running" PROVE b \in Steps /\ del'[b].tree # StrayTree
        BY <1>1, <1>2, <1>7, <2>2 DEF TreeInv, OneTree, Open, Callers
  <2>3. \A t \in Trees \ {StrayTree} :
          /\ t # LoopTree => \A b \in Callers : del'[b].pc = "running" /\ del'[b].tree = t => b \in tree'[t].holders
          /\ Cardinality(tree'[t].holders) <= MaxConcurrency
          /\ tree'[t].children <= MaxChildren
        BY <1>2, <1>4, <1>7, <2>2 DEF TreeInv, Slots
  <2>4. \A b \in Callers : ~(del'[b].pc = "running" /\ del'[b].tree = StrayTree)
        BY <2>2
  <2>5. Cardinality(tree'[StrayTree].holders) <= MaxConcurrency
        BY <1>4, <2>1
  <2>6. tree'[StrayTree].children <= MaxChildren
        BY <1>3, <1>4, <2>1
  <2> QED
      BY <2>3, <2>4, <2>5, <2>6 DEF Slots
<1> QED
    BY <1>5, <1>6, <1>8, <1>9 DEF TreeInv

-----------------------------------------------------------------------------
(* The loop.                                                               *)

(* One more observation: its fingerprint occurs once more.                 *)
LEMMA CountOn ==
  ASSUME NEW s \in Seq(Fingerprints), NEW x \in Fingerprints, NEW y \in Fingerprints
  PROVE  /\ Repeats(s, y) \in Nat
         /\ Repeats(Append(s, x), y) = Repeats(s, y) + (IF x = y THEN 1 ELSE 0)
<1> DEFINE places == {i \in DOMAIN s : s[i] = y}
           grown == Append(s, x)
           more == {i \in DOMAIN grown : grown[i] = y}
<1>1. Len(s) \in Nat /\ DOMAIN s = 1 .. Len(s) /\ DOMAIN grown = 1 .. (Len(s) + 1)
      /\ grown[Len(s) + 1] = x /\ \A i \in 1 .. Len(s) : grown[i] = s[i]
      OBVIOUS
<1>2. IsFiniteSet(places) /\ Cardinality(places) \in Nat
  <2>1. IsFiniteSet(1 .. Len(s))
        BY <1>1, FS_Interval
  <2> QED
      BY <1>1, <2>1, FS_Subset, FS_CardinalityType
<1> HIDE DEF grown
<1>3. CASE x = y
  <2>1. more = places \cup {Len(s) + 1} /\ Len(s) + 1 \notin places
        BY <1>1, <1>3
  <2>2. Cardinality(more) = Cardinality(places) + 1
        BY <1>2, <2>1, FS_AddElement
  <2> QED
      BY <1>2, <1>3, <2>2 DEF Repeats, grown
<1>4. CASE x # y
  <2>1. more = places
        BY <1>1, <1>4
  <2>2. Repeats(grown, y) = Cardinality(places) /\ Repeats(s, y) = Cardinality(places)
        BY <2>1 DEF Repeats
  <2>3. Repeats(s, y) + (IF x = y THEN 1 ELSE 0) = Repeats(s, y)
    <3> HIDE DEF places
    <3> QED
        BY <1>2, <1>4, <2>2
  <2> QED
      BY <1>2, <2>2, <2>3 DEF grown
<1> QED
    BY <1>3, <1>4

(* An observation ends an iteration, and the loop goes on or says why not. *)
LEMMA ObservedKeeps ==
  ASSUME LoopInv, loop \notin {"returned", "raised"}, NEW x \in Fingerprints, Observed(x),
         spent' \in Nat, spent' <= ceiling, unmetered' \in Nat, del'[Loop].pc = "idle"
  PROVE  LoopInv'
<1> DEFINE grown == Append(trace, x)
<1>1. /\ trace \in Seq(Fingerprints) /\ result = "none" /\ Len(trace) < MaxIterations /\ Below
      /\ ceiling \in Nat
      BY DEF LoopInv, LoopShape, Looping
<1>2. MaxIterations \in Nat /\ StallThreshold \in Nat \ {0}
      BY LimitsAssumption
<1>3. grown \in Seq(Fingerprints) /\ Len(grown) = Len(trace) + 1 /\ Len(trace) \in Nat
      BY <1>1
<1>4. \A y \in Fingerprints : /\ Repeats(grown, y) \in Nat
                              /\ y # x => Repeats(grown, y) < StallThreshold
      BY <1>1, <1>3, CountOn DEF Below
<1>5. /\ trace' = grown
      /\ \/ Repeats(grown, x) >= StallThreshold /\ loop' = "returned" /\ result' = "stalled" /\ ceiling' = ceiling
         \/ /\ ~(Repeats(grown, x) >= StallThreshold) /\ Len(grown) >= MaxIterations
            /\ loop' = "returned" /\ result' = "max_iterations" /\ ceiling' = ceiling
         \/ /\ ~(Repeats(grown, x) >= StallThreshold) /\ ~(Len(grown) >= MaxIterations)
            /\ loop' = "deciding" /\ result' = result /\ ceiling' = ceiling
      BY DEF Observed, Stop
<1> HIDE DEF grown
<1>6. LoopShape'
      BY <1>1, <1>3, <1>5 DEF LoopShape, Reasons
<1>7. Below' <=> \A y \in Fingerprints : Repeats(grown, y) < StallThreshold
      BY <1>5 DEF Below, Repeats
<1>8. result' # "stalled" => Below'
      BY <1>2, <1>4, <1>5, <1>7
<1>9. Looping'
      BY <1>1, <1>2, <1>3, <1>5, <1>8 DEF Looping
<1>10. result' = "stalled" => \E y \in Fingerprints : Repeats(trace', y) >= StallThreshold
       BY <1>1, <1>5
<1>11. Stopped'
       BY <1>1, <1>2, <1>3, <1>5, <1>8, <1>10 DEF Stopped
<1> QED
    BY <1>6, <1>9, <1>11 DEF LoopInv

(* The loop stops for another reason, or goes on to think or to act.       *)
LEMMA LoopTurns ==
  ASSUME LoopInv, loop \notin {"returned", "raised"}, trace' = trace, unmetered' = unmetered, ceiling' = ceiling,
         spent' \in Nat, spent' <= ceiling,
         \/ /\ loop' = "returned" /\ del'[Loop].pc = "idle"
            /\ \/ result' \in {"goal_reached", "failed"}
               \/ result' = "budget_exhausted" /\ spent' = ceiling
         \/ loop' = "thinking" /\ result' = result /\ spent' + 1 <= ceiling /\ del'[Loop].pc = "idle"
         \/ loop' = "acting" /\ result' = result
         \/ loop' = "raised" /\ result' = result /\ del'[Loop].pc = "idle"
  PROVE  LoopInv'
<1>1. /\ trace \in Seq(Fingerprints) /\ result = "none" /\ Len(trace) < MaxIterations /\ Below
      /\ ceiling \in Nat /\ Len(trace) \in Nat /\ MaxIterations \in Nat
      BY LimitsAssumption DEF LoopInv, LoopShape, Looping
<1>2. Below'
      BY <1>1 DEF Below, Repeats
<1>3. LoopShape'
      BY <1>1 DEF LoopInv, LoopShape, Reasons
<1>4. Looping'
      BY <1>1, <1>2 DEF Looping
<1>5. Stopped'
  <2>1. result' # "stalled" /\ result' # "max_iterations"
        BY <1>1
  <2>2. result' = "budget_exhausted" => spent' = ceiling'
        BY <1>1
  <2>3. Len(trace') <= MaxIterations
        BY <1>1
  <2> QED
      BY <1>2, <2>1, <2>2, <2>3 DEF Stopped
<1> QED
    BY <1>3, <1>4, <1>5 DEF LoopInv

(* Steps and specialists do not touch the loop.                            *)
LEMMA LoopUntouched ==
  ASSUME LoopInv, UNCHANGED loopVars, del'[Loop].pc = del[Loop].pc \/ del[Loop].pc # "idle"
  PROVE  LoopInv'
<1>1. /\ ceiling' = ceiling /\ loop' = loop /\ trace' = trace /\ result' = result
      /\ spent' = spent /\ unmetered' = unmetered
      BY DEF loopVars
<1> QED
    BY <1>1 DEF LoopInv, LoopShape, Looping, Stopped, Below, Repeats
-----------------------------------------------------------------------------
(* The review.                                                             *)

(* The verdicts of an answer are finitely many, and the number of one is   *)
(* at most its place.                                                      *)
LEMMA VerdictsNumbered ==
  ASSUME NEW response \in Answers
  PROVE  /\ Verdicts(response) \subseteq Nat \ {0} /\ IsFiniteSet(Verdicts(response))
         /\ Cardinality(Verdicts(response)) \in Nat
         /\ \A i \in Nat : /\ IsFiniteSet({j \in Verdicts(response) : j <= i})
                           /\ Number(response, i) \in Nat /\ Number(response, i) <= i
<1>1. response \in Seq({"passed", "failed", "text", "junk"})
      BY DEF Answers, SeqOf
<1>2. Len(response) \in Nat /\ DOMAIN response = 1 .. Len(response)
      BY <1>1
<1>3. Verdicts(response) \subseteq 1 .. Len(response)
      BY <1>2 DEF Verdicts
<1>4. IsFiniteSet(Verdicts(response)) /\ Cardinality(Verdicts(response)) \in Nat
  <2>1. IsFiniteSet(1 .. Len(response))
        BY <1>2, FS_Interval
  <2> QED
      BY <1>3, <2>1, FS_Subset, FS_CardinalityType
<1>5. ASSUME NEW i \in Nat
      PROVE  /\ IsFiniteSet({j \in Verdicts(response) : j <= i})
             /\ Number(response, i) \in Nat /\ Number(response, i) <= i
  <2> DEFINE upto == {j \in Verdicts(response) : j <= i}
  <2>1. upto \subseteq 1 .. i
        BY <1>2, <1>3
  <2>2. IsFiniteSet(1 .. i) /\ Cardinality(1 .. i) = i
        BY FS_Interval
  <2>3. Number(response, i) = Cardinality(upto)
        BY DEF Number
  <2> HIDE DEF upto
  <2>4. IsFiniteSet(upto) /\ Cardinality(upto) \in Nat /\ Cardinality(upto) <= i
        BY <2>1, <2>2, FS_Subset, FS_CardinalityType
  <2> QED
      BY <2>3, <2>4 DEF upto
<1>6. Verdicts(response) \subseteq Nat \ {0}
      BY <1>2, <1>3
<1> QED
    BY <1>4, <1>5, <1>6

(* Nothing speaks against what the critic accepts: it read enough          *)
(* verdicts, and none whose number is that of a criterion says failed.     *)
LEMMA AcceptedIsSatisfied ==
  ASSUME NEW terms \in Contracts, NEW response \in Replies(terms), Accepts(terms, TRUE, response)
  PROVE  ~Unsatisfied(terms, response)
<1> DEFINE n == terms.judged
<1>1. n \in Nat /\ terms.machine
      BY CriticAssumption DEF Contracts, Accepts
<1>2. CASE n = 0
  <2>1. 1 .. n = {}
        BY <1>2
  <2> QED
      BY <1>1, <2>1 DEF Unsatisfied
<1>3. CASE n > 0
  <2>1. response \in Answers /\ JudgedPassed(n, response)
        BY <1>1, <1>3 DEF Replies, Responses, Accepts, JudgedPassed
  <2>2. /\ Verdicts(response) \subseteq Nat \ {0}
        /\ \A i \in Nat : Number(response, i) \in Nat /\ Number(response, i) <= i
        BY <2>1, VerdictsNumbered
  <2>3. ASSUME NEW i \in 1 .. n, i \in DOMAIN response, response[i] = "failed"
        PROVE  FALSE
    <3>1. i \in Verdicts(response) /\ i \in Nat /\ i <= n
          BY <1>1, <2>3 DEF Verdicts
    <3>2. Number(response, i) <= n
      <4> HIDE DEF n
      <4> QED
          BY <1>1, <2>2, <3>1
    <3> QED
        BY <2>1, <2>3, <3>1, <3>2 DEF JudgedPassed, Truthy
  <2>4. ASSUME \A i \in DOMAIN response : response[i] # "junk", NEW i \in 1 .. n, i \notin DOMAIN response
        PROVE  FALSE
    <3>1. response \in Seq({"passed", "failed", "text", "junk"})
          BY <2>1 DEF Answers, SeqOf
    <3>2. Verdicts(response) = 1 .. Len(response) /\ Len(response) \in Nat
          BY <2>4, <3>1 DEF Verdicts
    <3>3. Cardinality(Verdicts(response)) = Len(response)
      <4>1. \A k \in Nat : Cardinality(1 .. k) = k
            BY FS_Interval
      <4> QED
          BY <3>2, <4>1
    <3>4. Len(response) >= n
          BY <2>1, <3>3 DEF JudgedPassed
    <3>5. i \notin 1 .. Len(response)
          BY <2>4, <3>1
    <3> QED
        BY <1>1, <3>2, <3>4, <3>5
  <2> QED
      BY <1>1, <2>3, <2>4 DEF Unsatisfied
<1> QED
    BY <1>1, <1>2, <1>3

(* So no report of success is wrong.                                       *)
LEMMA ReportsAreRight ==
  ASSUME misjudged = FALSE, NEW c \in Callers, NEW review \in Reviews, Reported(c, review)
  PROVE  misjudged' = FALSE
<1> DEFINE reviewed(terms, response) ==
             [asked |-> AsksModel(terms, TRUE), accepted |-> Accepts(terms, TRUE, response),
              unsatisfied |-> Unsatisfied(terms, response)]
<1>1. PICK terms \in Contracts : \E response \in Replies(terms) : review = reviewed(terms, response)
      BY DEF Reviews
<1>2. PICK response \in Replies(terms) : review = reviewed(terms, response)
      BY <1>1
<1>3. /\ reviewed(terms, response).accepted <=> Accepts(terms, TRUE, response)
      /\ reviewed(terms, response).unsatisfied <=> Unsatisfied(terms, response)
      BY Zenon
<1> HIDE DEF reviewed
<1>4. (review.accepted <=> Accepts(terms, TRUE, response)) /\ (review.unsatisfied <=> Unsatisfied(terms, response))
      BY <1>2, <1>3, Zenon
<1>5. ReportsSuccess(c, review) => del[c].succeeded /\ ~review.unsatisfied
      BY <1>4, AcceptedIsSatisfied, Zenon DEF ReportsSuccess
<1>6. misjudged' = (\/ misjudged
                    \/ /\ ReportsSuccess(c, review)
                       /\ (~del[c].succeeded \/ review.unsatisfied))
      BY DEF Reported
<1> QED
    BY <1>5, <1>6, Zenon
-----------------------------------------------------------------------------
(* The steps of the task.                                                  *)

(* The skill's tools are those the specialist declares.                    *)
LEMMA SkillToolsRead ==
  ASSUME NEW agent \in Agents, SkillAccepts(agent)
  PROVE  SkillTools(agent) \subseteq ReadOnlyTools /\ SkillTools(agent) \subseteq Tools
  BY ToolsAssumption DEF SkillTools, ChildTools, SkillAccepts

(* A new delegation.                                                       *)
LEMMA DelegatedTyped ==
  ASSUME NEW t \in Trees, NEW granted \in SUBSET Tools
  PROVE  LET d == Delegated(t, granted)
         IN d \in Delegations /\ d.pc = "queued" /\ d.tree = t /\ d.tools = granted
  BY DEF Delegated, Idle, Delegations

(* A step that calls the skill, and is admitted or refused.                *)
LEMMA CallSkillKeeps ==
  ASSUME DInv, NEW c \in Steps, NEW agent \in Agents, NEW objective \in Objectives,
         CallSkill(c, agent, objective)
  PROVE  DInv'
<1>1. TreeInv /\ LoopInv /\ misjudged = FALSE
      BY DEF DInv
<1>2. c \in Callers /\ c # Loop
      BY CallersAssumption DEF Callers
<1>3. /\ CallGoes /\ SkillAccepts(agent) /\ del[c].pc = "idle"
      /\ UNCHANGED loopVars /\ misjudged' = misjudged
      /\ attempt' = attempt /\ cancelled' = cancelled /\ strays' = strays
      BY DEF CallSkill, CallGoes
<1>4. TreeFor \in Trees
      BY <1>1, <1>3, CallsGoToTheTree
<1>5. CASE MayDelegate(TreeFor, objective)
  <2> DEFINE d == Delegated(TreeFor, SkillTools(agent))
  <2>1. tree' = Admitted(TreeFor) /\ admitted' = admitted + 1 /\ del' = [del EXCEPT ![c] = d]
        BY <1>5 DEF CallSkill
  <2>2. SkillTools(agent) \subseteq ReadOnlyTools /\ SkillTools(agent) \in SUBSET Tools
        BY <1>3, SkillToolsRead
  <2>3. d \in Delegations /\ d.pc = "queued" /\ d.tree = TreeFor /\ d.tools \subseteq ReadOnlyTools
        BY <1>4, <2>2, DelegatedTyped
  <2>4. tree[TreeFor].children + 1 <= MaxChildren
        BY <1>5 DEF MayDelegate
  <2> HIDE DEF d
  <2>5. TreeInv'
        BY <1>1, <1>2, <1>3, <1>4, <2>1, <2>3, <2>4, JoinsTree
  <2>6. del'[Loop] = del[Loop]
        BY <1>1, <1>2, <2>1 DEF TreeInv, TreeShape, Callers
  <2>7. LoopInv'
        BY <1>1, <1>3, <2>6, LoopUntouched
  <2> QED
      BY <1>1, <1>3, <2>5, <2>7 DEF DInv
<1>6. CASE ~MayDelegate(TreeFor, objective)
  <2> DEFINE d == [del[c] EXCEPT !.pc = "failed"]
  <2>1. tree' = tree /\ admitted' = admitted /\ del' = [del EXCEPT ![c].pc = "failed"]
        BY <1>6 DEF CallSkill
  <2>2. del' = [del EXCEPT ![c] = d]
        BY <2>1, Zenon
  <2>3. d \in Delegations /\ d.pc = "failed" /\ d.tools \subseteq ReadOnlyTools
        BY <1>1, <1>2 DEF TreeInv, TreeShape, GrantsRead, Delegations
  <2> HIDE DEF d
  <2>4. TreeInv'
        BY <1>1, <1>2, <1>3, <2>1, <2>2, <2>3, StandsAside
  <2>5. del'[Loop] = del[Loop]
        BY <1>1, <1>2, <2>2 DEF TreeInv, TreeShape, Callers
  <2>6. LoopInv'
        BY <1>1, <1>3, <2>5, LoopUntouched
  <2> QED
      BY <1>1, <1>3, <2>4, <2>6 DEF DInv
<1> QED
    BY <1>5, <1>6

(* A step that is done without a specialist at work for it: it did not     *)
(* delegate, or the review is over.                                        *)
LEMMA StepEnds ==
  ASSUME DInv, NEW c \in Steps, NEW d \in Delegations, d.tools = {} \/ d.tools = del[c].tools,
         d.pc \in {"failed", "done"}, del' = [del EXCEPT ![c] = d],
         UNCHANGED <<treeVars, loopVars>>, misjudged' = FALSE
  PROVE  DInv'
<1>1. TreeInv /\ LoopInv
      BY DEF DInv
<1>2. c \in Callers /\ c # Loop
      BY CallersAssumption DEF Callers
<1>3. d.tools \subseteq ReadOnlyTools
      BY <1>1, <1>2 DEF TreeInv, GrantsRead
<1>4. /\ attempt' = attempt /\ cancelled' = cancelled /\ current' = current /\ made' = made
      /\ admitted' = admitted /\ strays' = strays /\ tree' = tree
      /\ current \in TaskTrees \cup {NoTree} /\ made \in 0 .. MaxTrees
      BY <1>1 DEF treeVars, TreeInv, TreeShape
<1>5. TreeInv'
      BY <1>1, <1>2, <1>3, <1>4, StandsAside
<1>6. del'[Loop] = del[Loop]
      BY <1>1, <1>2 DEF TreeInv, TreeShape, Callers
<1>7. LoopInv'
      BY <1>1, <1>6, LoopUntouched
<1> QED
    BY <1>5, <1>7 DEF DInv

(* How a delegation is marked.                                             *)
LEMMA Marked ==
  ASSUME DInv, NEW c \in Callers
  PROVE  /\ LET d == [del[c] EXCEPT !.pc = "failed"]
            IN d \in Delegations /\ d.pc = "failed" /\ d.tools = del[c].tools
         /\ LET d == [Idle EXCEPT !.pc = "done"]
            IN d \in Delegations /\ d.pc = "done" /\ d.tools = {}
         /\ LET d == [del[c] EXCEPT !.pc = "running"]
            IN d \in Delegations /\ d.pc = "running" /\ d.tools = del[c].tools /\ d.tree = del[c].tree
         /\ del[c].tools \subseteq ReadOnlyTools
<1>1. del[c] \in Delegations /\ del[c].tools \subseteq ReadOnlyTools
      BY DEF DInv, TreeInv, TreeShape, GrantsRead
<1> QED
    BY <1>1 DEF Idle, Delegations

(* A refused, skipped or failed step.                                      *)
LEMMA StepFails ==
  ASSUME DInv, NEW c \in Steps, del' = [del EXCEPT ![c].pc = "failed"],
         UNCHANGED <<treeVars, loopVars, misjudged>>
  PROVE  DInv'
<1> DEFINE d == [del[c] EXCEPT !.pc = "failed"]
<1>1. del' = [del EXCEPT ![c] = d]
      BY Zenon
<1>2. d \in Delegations /\ d.pc = "failed" /\ d.tools = del[c].tools
      BY Marked DEF Callers
<1> HIDE DEF d
<1> QED
    BY <1>1, <1>2, StepEnds DEF DInv

(* A specialist starts.                                                    *)
LEMMA StartSpecialistKeeps ==
  ASSUME DInv, NEW c \in Callers, StartSpecialist(c)
  PROVE  DInv'
<1> DEFINE d == [del[c] EXCEPT !.pc = "running"]
<1>1. TreeInv /\ LoopInv /\ misjudged = FALSE
      BY DEF DInv
<1>2. /\ del[c].pc = "queued" /\ Cardinality(tree[del[c].tree].holders) < MaxConcurrency
      /\ tree' = [tree EXCEPT ![del[c].tree].holders = @ \cup {c}]
      /\ UNCHANGED <<attempt, cancelled, current, made, admitted, strays>> /\ UNCHANGED loopVars /\ misjudged' = misjudged
      BY DEF StartSpecialist
<1>3. del' = [del EXCEPT ![c] = d]
      BY Zenon DEF StartSpecialist
<1>4. /\ d \in Delegations /\ d.pc = "running" /\ d.tree = del[c].tree
      /\ d.tools \subseteq ReadOnlyTools
      BY Marked
<1>5. del[c].tree \in Trees
      BY <1>1, <1>2, InSomeTree DEF Open
<1> HIDE DEF d
<1>6. TreeInv'
      BY <1>1, <1>2, <1>3, <1>4, <1>5, TakesSlot
<1>7. del'[Loop].pc = del[Loop].pc \/ del[Loop].pc # "idle"
      BY <1>1, <1>2, <1>3 DEF TreeInv, TreeShape, Callers
<1>8. LoopInv'
      BY <1>1, <1>2, <1>7, LoopUntouched
<1> QED
    BY <1>1, <1>2, <1>6, <1>8 DEF DInv

(* A specialist comes back, with a result or an error.                     *)
LEMMA SlotLeft ==
  ASSUME DInv, NEW c \in Callers, del[c].pc = "running", NEW d \in Delegations, d.tools = {},
         d.pc \in {"reviewing", "done"}, del' = [del EXCEPT ![c] = d], ReleaseSlot(c),
         UNCHANGED <<attempt, cancelled, current, made, admitted, strays, loopVars, misjudged>>
  PROVE  DInv'
<1>1. TreeInv /\ LoopInv /\ misjudged = FALSE
      BY DEF DInv
<1>2. del[c].tree \in Trees
      BY <1>1, InSomeTree DEF Open
<1>3. TreeInv'
      BY <1>1, <1>2, LeavesSlot
<1>4. del'[Loop].pc = del[Loop].pc \/ del[Loop].pc # "idle"
      BY <1>1 DEF TreeInv, TreeShape, Callers
<1>5. LoopInv'
      BY <1>1, <1>4, LoopUntouched
<1> QED
    BY <1>1, <1>3, <1>5 DEF DInv

(* It returns, and its result goes to the review.                          *)
LEMMA SpecialistReturnsKeeps ==
  ASSUME DInv, NEW c \in Callers, NEW succeeded \in BOOLEAN, SpecialistReturns(c, succeeded)
  PROVE  DInv'
<1> DEFINE d == [del[c] EXCEPT !.pc = "reviewing", !.tools = {}, !.succeeded = succeeded]
<1>1. del[c].pc = "running" /\ ReleaseSlot(c) /\ UNCHANGED <<attempt, cancelled, current, made, admitted, strays, loopVars, misjudged>>
      BY DEF SpecialistReturns
<1>2. del' = [del EXCEPT ![c] = d]
      BY Zenon DEF SpecialistReturns
<1>3. del[c] \in Delegations
      BY DEF DInv, TreeInv, TreeShape
<1>4. d \in Delegations /\ d.pc = "reviewing" /\ d.tools = {}
      BY <1>3 DEF Delegations
<1> HIDE DEF d
<1> QED
    BY <1>1, <1>2, <1>4, SlotLeft

(* It raises, and the step fails.                                          *)
LEMMA SpecialistRaisesKeeps ==
  ASSUME DInv, NEW c \in Steps, SpecialistRaises(c)
  PROVE  DInv'
<1> DEFINE d == [Idle EXCEPT !.pc = "done"]
<1>1. /\ del[c].pc = "running" /\ ReleaseSlot(c) /\ del' = [del EXCEPT ![c] = d]
      /\ UNCHANGED <<attempt, cancelled, current, made, admitted, strays, loopVars, misjudged>>
      BY DEF SpecialistRaises, Over
<1>2. c \in Callers
      BY DEF Callers
<1>3. d \in Delegations /\ d.pc = "done" /\ d.tools = {}
      BY <1>2, Marked
<1> HIDE DEF d
<1> QED
    BY <1>1, <1>2, <1>3, SlotLeft

(* The review of a step's delegation, or its failure.                      *)
LEMMA ReviewKeeps ==
  ASSUME DInv, NEW c \in Steps,
         \/ ReviewRaises(c)
         \/ \E review \in Reviews : Review(c, review)
  PROVE  DInv'
<1> DEFINE d == [Idle EXCEPT !.pc = "done"]
<1>1. misjudged = FALSE /\ c \in Callers
      BY DEF DInv, Callers
<1>2. d \in Delegations /\ d.pc = "done" /\ d.tools = {}
      BY <1>1, Marked
<1>3. CASE ReviewRaises(c)
  <2>1. del' = [del EXCEPT ![c] = d] /\ UNCHANGED <<treeVars, loopVars>> /\ misjudged' = misjudged
        BY <1>3 DEF ReviewRaises, Over
  <2> HIDE DEF d
  <2> QED
      BY <1>1, <1>2, <2>1, StepEnds
<1>4. ASSUME NEW review \in Reviews, Review(c, review)
      PROVE  DInv'
  <2>1. del' = [del EXCEPT ![c] = d] /\ UNCHANGED <<treeVars, loopVars>> /\ Reported(c, review)
        BY <1>4 DEF Review, Over
  <2>2. misjudged' = FALSE
        BY <1>1, <2>1, ReportsAreRight
  <2> HIDE DEF d
  <2> QED
      BY <1>2, <2>1, <2>2, StepEnds
<1> QED
    BY <1>3, <1>4

(* An attempt is over: its tree is forgotten, and the next one's steps     *)
(* have not begun.                                                         *)
LEMMA SettleKeeps ==
  ASSUME DInv, NEW replanned \in BOOLEAN, Settle(replanned)
  PROVE  DInv'
<1>1. TreeInv /\ LoopInv /\ misjudged = FALSE /\ Loop \in Callers
      BY DEF DInv, Callers
<1>2. /\ current' = NoTree /\ admitted' = 0 /\ cancelled' = cancelled
      /\ made' = made /\ strays' = strays /\ tree' = tree
      /\ UNCHANGED loopVars /\ misjudged' = misjudged
      /\ \A c \in Steps : del[c].pc \in {"done", "failed"}
      BY DEF Settle
<1>3. attempt' \in 0 .. MaxAttempts
  <2>1. MaxAttempts \in Nat /\ attempt \in 0 .. MaxAttempts
        BY <1>1, LimitsAssumption DEF TreeInv, TreeShape
  <2> QED
      BY <2>1 DEF Settle
<1>4. Idle \in Delegations /\ Idle.pc = "idle" /\ Idle.tools = {}
      BY DEF Idle, Delegations
<1>5. /\ del' \in [Callers -> Delegations] /\ del'[Loop] = del[Loop]
      /\ \A c \in Callers : del'[c] = del[c] \/ del'[c] = Idle
      BY <1>1, <1>4 DEF Settle, TreeInv, TreeShape
<1>6. \A c \in Steps : ~Open(c)'
      BY <1>2, <1>4, <1>5 DEF Open, Callers
<1>7. TreeShape'
      BY <1>1, <1>2, <1>3, <1>5 DEF TreeInv, TreeShape
<1>8. GrantsRead'
      BY <1>1, <1>4, <1>5 DEF TreeInv, GrantsRead
<1>9. OneTree'
  <2>1. Open(Loop)' => del'[Loop].tree \in {LoopTree, StrayTree}
        BY <1>1, <1>5 DEF TreeInv, OneTree, Open
  <2>2. current' <= made'
        BY <1>1, <1>2 DEF TreeInv, TreeShape, NoTree
  <2> QED
      BY <1>1, <1>2, <1>6, <2>1, <2>2 DEF TreeInv, OneTree, NoneIn
<1>10. Slots'
  <2>1. \A c \in Callers : del'[c].pc = "running" => del'[c] = del[c]
        BY <1>4, <1>5
  <2> QED
      BY <1>1, <1>2, <2>1 DEF TreeInv, Slots
<1>11. LoopInv'
       BY <1>1, <1>2, <1>5, LoopUntouched
<1> QED
    BY <1>1, <1>2, <1>7, <1>8, <1>9, <1>10, <1>11 DEF DInv, TreeInv

(* The task is cancelled: its tree is forgotten while the steps run.       *)
LEMMA CancelTaskKeeps ==
  ASSUME DInv, CancelTask
  PROVE  DInv'
<1>1. TreeInv /\ LoopInv /\ misjudged = FALSE
      BY DEF DInv
<1>2. /\ cancelled' = TRUE /\ current' = NoTree /\ attempt' = attempt
      /\ made' = made /\ admitted' = admitted /\ strays' = strays /\ tree' = tree /\ del' = del
      /\ UNCHANGED loopVars /\ misjudged' = misjudged
      BY DEF CancelTask
<1>3. TreeInv'
      BY <1>1, <1>2 DEF TreeInv, TreeShape, GrantsRead, OneTree, Open, Slots, NoTree
<1>4. LoopInv'
      BY <1>1, <1>2, LoopUntouched
<1> QED
    BY <1>1, <1>2, <1>3, <1>4 DEF DInv
-----------------------------------------------------------------------------
(* The steps of the investigation.                                         *)

(* Reading the loop's part of the invariant.                               *)
LEMMA LoopFacts ==
  ASSUME DInv
  PROVE  /\ TreeInv /\ LoopInv /\ misjudged = FALSE
         /\ Loop \in Callers /\ Loop \notin Steps
         /\ spent \in Nat /\ ceiling \in Nat /\ unmetered \in Nat /\ spent <= ceiling
         /\ loop = "thinking" => spent + 1 <= ceiling
         /\ loop # "acting" => del[Loop].pc = "idle"
         /\ "refused" \in Fingerprints /\ Observations \subseteq Fingerprints
  BY CallersAssumption DEF DInv, LoopInv, LoopShape, Looping, Callers, Fingerprints

(* It asks, stops asking, stops on the answer, or goes to act on it.       *)
LEMMA PolicyKeeps ==
  ASSUME DInv, AskPolicy \/ PolicyRaises \/ Conclude \/ ConcludeRaises \/ CallTool
  PROVE  DInv'
<1>1. /\ TreeInv /\ LoopInv /\ misjudged = FALSE
      /\ spent \in Nat /\ ceiling \in Nat /\ spent <= ceiling
      /\ loop = "thinking" => spent + 1 <= ceiling
      /\ loop # "acting" => del[Loop].pc = "idle"
      BY LoopFacts
<1>2. /\ UNCHANGED <<treeVars, del>> /\ misjudged' = misjudged /\ del' = del
      /\ trace' = trace /\ unmetered' = unmetered
      BY DEF AskPolicy, PolicyRaises, Conclude, ConcludeRaises, CallTool
<1>3. TreeInv'
      BY <1>1, <1>2, TreesUntouched
<1>4. LoopInv'
  <2>1. CASE AskPolicy
    <3>1. loop = "deciding" /\ spent' = spent
          BY <2>1 DEF AskPolicy
    <3>2. CASE spent + 1 <= ceiling
      <4>1. loop' = "thinking" /\ ceiling' = ceiling /\ result' = result
            BY <2>1, <3>2 DEF AskPolicy, Affordable
      <4> QED
          BY <1>1, <1>2, <3>1, <3>2, <4>1, LoopTurns
    <3>3. CASE ~(spent + 1 <= ceiling)
      <4>1. loop' = "returned" /\ ceiling' = ceiling /\ result' = "budget_exhausted"
            BY <2>1, <3>3 DEF AskPolicy, Affordable, Stop
      <4>2. spent' = ceiling
            BY <1>1, <3>1, <3>3
      <4> QED
          BY <1>1, <1>2, <3>1, <4>1, <4>2, LoopTurns
    <3> QED
        BY <3>2, <3>3
  <2>2. CASE PolicyRaises
    <3>1. loop = "thinking" /\ spent' = spent /\ loop' = "returned" /\ result' = "failed" /\ ceiling' = ceiling
          BY <2>2 DEF PolicyRaises, Stop
    <3> QED
        BY <1>1, <1>2, <3>1, LoopTurns
  <2>3. CASE Conclude
    <3>1. loop = "thinking" /\ spent' = spent + 1 /\ loop' = "returned" /\ ceiling' = ceiling
          /\ result' \in {"goal_reached", "failed"}
          BY <2>3 DEF Conclude, Answered, Stop
    <3>2. spent' \in Nat /\ spent' <= ceiling
          BY <1>1, <3>1
    <3> QED
        BY <1>1, <1>2, <3>1, <3>2, LoopTurns
  <2>4. CASE CallTool
    <3>1. loop = "thinking" /\ spent' = spent + 1 /\ loop' = "acting" /\ ceiling' = ceiling /\ result' = result
          BY <2>4 DEF CallTool, Answered
    <3>2. spent' \in Nat /\ spent' <= ceiling
          BY <1>1, <3>1
    <3> QED
        BY <1>1, <1>2, <3>1, <3>2, LoopTurns
  <2>5. CASE ConcludeRaises
    <3>1. loop = "thinking" /\ spent' = spent + 1 /\ loop' = "raised" /\ ceiling' = ceiling /\ result' = result
          BY <2>5 DEF ConcludeRaises, Answered
    <3>2. spent' \in Nat /\ spent' <= ceiling
          BY <1>1, <3>1
    <3> QED
        BY <1>1, <1>2, <3>1, <3>2, LoopTurns
  <2> QED
      BY <2>1, <2>2, <2>3, <2>4, <2>5
<1> QED
    BY <1>1, <1>2, <1>3, <1>4 DEF DInv

(* An action is refused, or a skill other than delegation answers.         *)
LEMMA ObservationKeeps ==
  ASSUME DInv, \/ ActionRefused
               \/ \E observation \in Observations : ToolReturns(observation)
  PROVE  DInv'
<1>1. /\ TreeInv /\ LoopInv /\ misjudged = FALSE
      /\ spent \in Nat /\ ceiling \in Nat /\ unmetered \in Nat /\ spent <= ceiling
      /\ loop = "thinking" => spent + 1 <= ceiling
      /\ loop # "acting" => del[Loop].pc = "idle"
      /\ "refused" \in Fingerprints /\ Observations \subseteq Fingerprints
      BY LoopFacts
<1>2. /\ UNCHANGED <<treeVars, del>> /\ misjudged' = misjudged /\ del' = del /\ unmetered' = unmetered
      BY DEF ActionRefused, ToolReturns
<1>3. TreeInv'
      BY <1>1, <1>2, TreesUntouched
<1>4. LoopInv'
  <2>1. CASE ActionRefused
    <3>1. loop = "thinking" /\ spent' = spent + 1 /\ Observed("refused")
          BY <2>1 DEF ActionRefused, Answered
    <3>2. spent' \in Nat /\ spent' <= ceiling
          BY <1>1, <3>1
    <3> QED
        BY <1>1, <1>2, <3>1, <3>2, ObservedKeeps
  <2>2. ASSUME NEW observation \in Observations, ToolReturns(observation)
        PROVE  LoopInv'
    <3>1. loop = "acting" /\ del[Loop].pc = "idle" /\ spent' = spent /\ Observed(observation)
          BY <2>2 DEF ToolReturns
    <3> QED
        BY <1>1, <1>2, <3>1, ObservedKeeps
  <2> QED
      BY <2>1, <2>2
<1> QED
    BY <1>1, <1>2, <1>3, <1>4 DEF DInv

(* The loop's own delegation is granted a part of what it may read.        *)
LEMMA LoopToolsRead ==
  ASSUME NEW agent \in Agents
  PROVE  LoopTools(agent) \subseteq ReadOnlyTools /\ LoopTools(agent) \in SUBSET Tools
  BY ToolsAssumption DEF LoopTools

(* The loop delegates, or is refused.                                      *)
LEMMA DelegateKeeps ==
  ASSUME DInv, NEW agent \in Agents, NEW objective \in Objectives, Delegate(agent, objective)
  PROVE  DInv'
<1>1. /\ TreeInv /\ LoopInv /\ misjudged = FALSE
      /\ Loop \in Callers /\ Loop \notin Steps
      /\ spent \in Nat /\ ceiling \in Nat /\ unmetered \in Nat /\ spent <= ceiling
      /\ loop = "thinking" => spent + 1 <= ceiling
      /\ loop # "acting" => del[Loop].pc = "idle"
      /\ "refused" \in Fingerprints
      BY LoopFacts
<1>2. /\ loop = "thinking" /\ spent' = spent + 1
      /\ attempt' = attempt /\ cancelled' = cancelled /\ current' = current /\ made' = made
      /\ admitted' = admitted /\ strays' = strays
      /\ unmetered' = unmetered /\ misjudged' = misjudged
      BY DEF Delegate, Answered
<1>3. spent' \in Nat /\ spent' <= ceiling
      BY <1>1, <1>2
<1>4. CASE MayDelegate(LoopTree, objective)
  <2> DEFINE d == [Delegated(LoopTree, LoopTools(agent)) EXCEPT !.pc = "running"]
  <2>1. /\ tree' = Admitted(LoopTree) /\ del' = [del EXCEPT ![Loop] = d]
        /\ loop' = "acting" /\ ceiling' = ceiling /\ trace' = trace /\ result' = result
        BY <1>4 DEF Delegate
  <2>2. LoopTools(agent) \subseteq ReadOnlyTools /\ LoopTools(agent) \in SUBSET Tools /\ LoopTree \in Trees
        BY LoopToolsRead DEF Trees
  <2>3. d \in Delegations /\ d.pc = "running" /\ d.tree = LoopTree /\ d.tools = LoopTools(agent)
        BY <2>2 DEF Delegated, Idle, Delegations
  <2>4. tree[LoopTree].children + 1 <= MaxChildren
        BY <1>4 DEF MayDelegate
  <2> HIDE DEF d
  <2>6. TreeInv'
        BY <1>1, <1>2, <2>1, <2>2, <2>3, <2>4, JoinsTree
  <2>7. LoopInv'
        BY <1>1, <1>2, <1>3, <2>1, LoopTurns
  <2> QED
      BY <1>1, <1>2, <2>6, <2>7 DEF DInv
<1>5. CASE ~MayDelegate(LoopTree, objective)
  <2>1. Observed("refused") /\ tree' = tree /\ del' = del
        BY <1>5 DEF Delegate
  <2>2. TreeInv'
        BY <1>1, <1>2, <2>1, TreesUntouched DEF treeVars
  <2>3. del'[Loop].pc = "idle"
        BY <1>1, <1>2, <2>1
  <2>4. LoopInv'
        BY <1>1, <1>2, <1>3, <2>1, <2>3, ObservedKeeps
  <2> QED
      BY <1>1, <1>2, <2>2, <2>4 DEF DInv
<1> QED
    BY <1>4, <1>5

(* The loop delegates through the skill.                                   *)
LEMMA DelegateBySkillKeeps ==
  ASSUME DInv, NEW agent \in Agents, DelegateBySkill(agent)
  PROVE  DInv'
<1> DEFINE d == Delegated(StrayTree, SkillTools(agent))
<1>1. /\ TreeInv /\ LoopInv /\ misjudged = FALSE
      /\ spent \in Nat /\ ceiling \in Nat
      /\ loop = "thinking" => spent + 1 <= ceiling
      /\ loop # "acting" => del[Loop].pc = "idle"
      BY LoopFacts
<1>2. /\ loop = "thinking" /\ spent' = spent + 1 /\ SkillAccepts(agent)
      /\ tree' = [tree EXCEPT ![StrayTree] = [EmptyTree EXCEPT !.children = 1]]
      /\ strays' = TRUE /\ del' = [del EXCEPT ![Loop] = d]
      /\ loop' = "acting" /\ ceiling' = ceiling /\ trace' = trace /\ result' = result
      /\ UNCHANGED <<attempt, cancelled, current, made, admitted>>
      /\ unmetered' = unmetered /\ misjudged' = misjudged
      BY DEF DelegateBySkill, Answered
<1>3. SkillTools(agent) \subseteq ReadOnlyTools /\ SkillTools(agent) \in SUBSET Tools /\ StrayTree \in Trees
      BY <1>2, SkillToolsRead DEF Trees
<1>4. d \in Delegations /\ d.pc = "queued" /\ d.tree = StrayTree /\ d.tools \subseteq ReadOnlyTools
      BY <1>3, DelegatedTyped
<1> HIDE DEF d
<1>5. TreeInv'
      BY <1>1, <1>2, <1>4, StrayTreeMade
<1>6. spent' \in Nat /\ spent' <= ceiling
      BY <1>1, <1>2
<1>7. LoopInv'
      BY <1>1, <1>2, <1>6, LoopTurns
<1> QED
    BY <1>1, <1>2, <1>5, <1>7 DEF DInv

(* The loop's delegation comes back, or its review does.                   *)
LEMMA LoopDelegationOver ==
  ASSUME DInv, del[Loop].pc \in {"running", "reviewing"}, del' = [del EXCEPT ![Loop] = Idle],
         NEW observation \in Observations, Observed(observation), UNCHANGED <<treeVars, spent>>,
         unmetered' \in Nat, misjudged' = FALSE
  PROVE  DInv'
<1>1. /\ TreeInv /\ LoopInv /\ Loop \in Callers
      /\ spent \in Nat /\ spent <= ceiling
      /\ loop # "acting" => del[Loop].pc = "idle"
      /\ Observations \subseteq Fingerprints
      BY LoopFacts
<1>2. Idle \in Delegations /\ Idle.pc = "idle" /\ Idle.tools = {}
      BY DEF Idle, Delegations
<1>3. /\ attempt' = attempt /\ cancelled' = cancelled /\ current' = current /\ made' = made
      /\ admitted' = admitted /\ strays' = strays /\ tree' = tree
      /\ current \in TaskTrees \cup {NoTree} /\ made \in 0 .. MaxTrees
      BY <1>1 DEF treeVars, TreeInv, TreeShape
<1>4. TreeInv'
      BY <1>1, <1>2, <1>3, StandsAside
<1>5. del'[Loop].pc = "idle" /\ loop = "acting" /\ spent' = spent
      BY <1>1, <1>2 DEF TreeInv, TreeShape
<1>6. LoopInv'
      BY <1>1, <1>5, ObservedKeeps
<1> QED
    BY <1>4, <1>6 DEF DInv

(* What comes back from the loop's own specialist is believed.             *)
LEMMA DelegateReturnsKeeps ==
  ASSUME DInv, NEW observation \in Observations, DelegateReturns(observation)
  PROVE  DInv'
<1>1. /\ del[Loop].pc = "running" /\ del' = [del EXCEPT ![Loop] = Idle] /\ Observed(observation)
      /\ UNCHANGED <<treeVars, spent>> /\ unmetered' = unmetered /\ misjudged' = misjudged
      BY DEF DelegateReturns
<1>2. misjudged = FALSE /\ unmetered \in Nat
      BY LoopFacts
<1> QED
    BY <1>1, <1>2, LoopDelegationOver

(* What comes back through the skill is reviewed first.                    *)
LEMMA ReviewInLoopKeeps ==
  ASSUME DInv, NEW review \in Reviews, NEW observation \in Observations,
         ReviewInLoop(review, observation)
  PROVE  DInv'
<1>1. /\ del[Loop].pc = "reviewing" /\ del' = [del EXCEPT ![Loop] = Idle] /\ Observed(observation)
      /\ UNCHANGED <<treeVars, spent>> /\ Reported(Loop, review)
      BY DEF ReviewInLoop
<1>2. misjudged = FALSE /\ unmetered \in Nat /\ Loop \in Callers
      BY LoopFacts
<1>3. unmetered' \in Nat
      BY <1>2 DEF ReviewInLoop
<1>4. misjudged' = FALSE
      BY <1>1, <1>2, ReportsAreRight
<1> QED
    BY <1>1, <1>3, <1>4, LoopDelegationOver

-----------------------------------------------------------------------------
(* The invariant.                                                          *)

(* It holds at the start.                                                  *)
LEMMA DInit ==
  ASSUME DelegationInit
  PROVE  DInv
<1>1. /\ attempt = 1 /\ cancelled = FALSE /\ current = NoTree /\ made = 0 /\ admitted = 0 /\ strays = FALSE
      /\ tree = [t \in Trees |-> EmptyTree] /\ del = [c \in Callers |-> Idle]
      /\ ceiling \in Nat /\ loop = "deciding" /\ trace = <<>> /\ result = "none"
      /\ spent = 0 /\ unmetered = 0 /\ misjudged = FALSE
      BY LimitsAssumption DEF DelegationInit
<1>2. {MaxAttempts, MaxTrees, MaxConcurrency, MaxChildren, MaxIterations, StallThreshold} \subseteq Nat \ {0}
      BY LimitsAssumption
<1>3. EmptyTree.children = 0 /\ EmptyTree.holders = {} /\ EmptyTree \in [children : Nat, holders : SUBSET Callers]
      BY DEF EmptyTree
<1>4. Idle \in Delegations /\ Idle.pc = "idle" /\ Idle.tools = {}
      BY DEF Idle, Delegations
<1>5. Steps \subseteq Callers /\ Loop \in Callers
      BY DEF Callers
<1>6. \A c \in Callers : del[c] = Idle
      BY <1>1
<1>7. TreeShape
  <2>1. made \in 0 .. MaxTrees /\ attempt \in 0 .. MaxAttempts
        BY <1>1, <1>2
  <2>2. tree \in [Trees -> [children : Nat, holders : SUBSET Callers]] /\ del \in [Callers -> Delegations]
        BY <1>1, <1>3, <1>4
  <2> QED
      BY <1>1, <2>1, <2>2 DEF TreeShape
<1>8. GrantsRead /\ OneTree
  <2>1. \A t \in TaskTrees : tree[t].children = 0
        BY <1>1, <1>3 DEF Trees
  <2>2. current <= made
        BY <1>1 DEF NoTree
  <2> QED
      BY <1>1, <1>4, <1>5, <1>6, <2>1, <2>2 DEF GrantsRead, OneTree, NoneIn, Open
<1>9. Slots
  <2>1. \A t \in Trees : tree[t].children = 0 /\ tree[t].holders = {}
        BY <1>1, <1>3
  <2>2. \A t \in Trees : Cardinality(tree[t].holders) = 0
        BY <2>1, FS_EmptySet
  <2>3. \A t \in Trees : Cardinality(tree[t].holders) <= MaxConcurrency /\ tree[t].children <= MaxChildren
        BY <1>2, <2>1, <2>2
  <2>4. \A c \in Callers : del[c].pc # "running"
        BY <1>4, <1>6
  <2> QED
      BY <2>3, <2>4 DEF Slots
<1>10. Len(trace) = 0 /\ trace \in Seq(Fingerprints)
       BY <1>1
<1>11. Below
  <2>1. \A x : {i \in DOMAIN trace : trace[i] = x} = {}
        BY <1>1
  <2>2. \A x : Repeats(trace, x) = 0
        BY <2>1, FS_EmptySet DEF Repeats
  <2> QED
      BY <1>2, <2>2 DEF Below
<1>12. LoopShape
       BY <1>1, <1>10 DEF LoopShape
<1>13. Looping /\ Stopped
       BY <1>1, <1>2, <1>4, <1>5, <1>6, <1>10, <1>11 DEF Looping, Stopped
<1> QED
    BY <1>1, <1>7, <1>8, <1>9, <1>12, <1>13 DEF DInv, TreeInv, LoopInv

(* Every step keeps it.                                                    *)
LEMMA DNext ==
  ASSUME DInv, [DelegationNext]_delegationVars
  PROVE  DInv'
<1>1. CASE StepNext
  <2>1. ASSUME NEW c \in Steps, NEW agent \in Agents, NEW objective \in Objectives,
               CallSkill(c, agent, objective)
        PROVE  DInv'
        BY <2>1, CallSkillKeeps
  <2>2. ASSUME NEW c \in Steps, NEW agent \in Agents, RefuseAgent(c, agent)
        PROVE  DInv'
        BY <2>2, StepFails DEF RefuseAgent
  <2>3. ASSUME NEW c \in Steps, SkipStep(c)
        PROVE  DInv'
        BY <2>3, StepFails DEF SkipStep
  <2>4. ASSUME NEW c \in Steps, SpecialistRaises(c)
        PROVE  DInv'
        BY <2>4, SpecialistRaisesKeeps
  <2>5. ASSUME NEW c \in Steps,
               \/ ReviewRaises(c)
               \/ \E review \in Reviews : Review(c, review)
        PROVE  DInv'
        BY <2>5, ReviewKeeps
  <2>6. ASSUME NEW replanned \in BOOLEAN, Settle(replanned)
        PROVE  DInv'
        BY <2>6, SettleKeeps
  <2>7. CASE CancelTask
        BY <2>7, CancelTaskKeeps
  <2> QED
      BY <1>1, <2>1, <2>2, <2>3, <2>4, <2>5, <2>6, <2>7 DEF StepNext
<1>2. CASE LoopNext
  <2>1. CASE AskPolicy \/ PolicyRaises \/ Conclude \/ ConcludeRaises \/ CallTool
        BY <2>1, PolicyKeeps
  <2>2. CASE ActionRefused
        BY <2>2, ObservationKeeps
  <2>3. ASSUME NEW agent \in Agents, NEW objective \in Objectives, Delegate(agent, objective)
        PROVE  DInv'
        BY <2>3, DelegateKeeps
  <2>4. ASSUME NEW agent \in Agents, DelegateBySkill(agent)
        PROVE  DInv'
        BY <2>4, DelegateBySkillKeeps
  <2>5. ASSUME NEW observation \in Observations, ToolReturns(observation)
        PROVE  DInv'
        BY <2>5, ObservationKeeps
  <2>6. ASSUME NEW observation \in Observations, DelegateReturns(observation)
        PROVE  DInv'
        BY <2>6, DelegateReturnsKeeps
  <2>7. ASSUME NEW observation \in Observations, NEW review \in Reviews, ReviewInLoop(review, observation)
        PROVE  DInv'
        BY <2>7, ReviewInLoopKeeps
  <2> QED
      BY <1>2, <2>1, <2>2, <2>3, <2>4, <2>5, <2>6, <2>7 DEF LoopNext
<1>3. ASSUME NEW c \in Callers, Specialist(c)
      PROVE  DInv'
      BY <1>3, StartSpecialistKeeps, SpecialistReturnsKeeps DEF Specialist
<1>4. CASE UNCHANGED delegationVars
  <2>1. UNCHANGED <<treeVars, del>> /\ UNCHANGED loopVars /\ misjudged' = misjudged /\ del' = del
        BY <1>4 DEF delegationVars
  <2>2. TreeInv' /\ LoopInv'
        BY <2>1, TreesUntouched, LoopUntouched DEF DInv
  <2> QED
      BY <2>1, <2>2 DEF DInv
<1> QED
    BY <1>1, <1>2, <1>3, <1>4 DEF DelegationNext

(* So it always holds.                                                     *)
LEMMA DelegationInvariant == DelegationSpec => []DInv
<1>1. DelegationInit => DInv
      BY DInit
<1>2. DInv /\ [DelegationNext]_delegationVars => DInv'
      BY DNext
<1> QED
    BY <1>1, <1>2, PTL DEF DelegationSpec

(* Whatever its manifest declares and its parent's contract leaves of it,  *)
(* no specialist at work holds a mutating tool (delegate.py, loop.py).     *)
THEOREM SpecialistsOnlyRead == DelegationSpec => []OnlyReads
<1>1. DInv => OnlyReads
      BY DEF DInv, TreeInv, GrantsRead, OnlyReads
<1> QED
    BY <1>1, DelegationInvariant, PTL

(* However the steps of an attempt delegate side by side, those at work    *)
(* are within one limit and those admitted within the other, until the     *)
(* task is cancelled (delegate.py:_tree_for, delegation.py:run_bounded,    *)
(* register_child).                                                        *)
THEOREM SiblingStepsShareLimits == DelegationSpec => []LimitsAreShared
<1>1. ASSUME DInv, ~cancelled
      PROVE  /\ Cardinality({c \in Steps : del[c].pc = "running"}) <= MaxConcurrency
             /\ admitted <= MaxChildren
  <2> DEFINE running == {c \in Steps : del[c].pc = "running"}
  <2>1. TreeInv /\ MaxConcurrency \in Nat /\ MaxChildren \in Nat
        BY <1>1, LimitsAssumption DEF DInv
  <2>2. CASE current = NoTree /\ NoneIn
    <3>1. running = {}
          BY <2>2 DEF NoneIn, Open
    <3>2. Cardinality(running) = 0
          BY <3>1, FS_EmptySet
    <3> QED
        BY <2>1, <2>2, <3>2 DEF NoneIn
  <2>3. CASE current \in TaskTrees /\ AllIn(current)
    <3>1. PICK t \in TaskTrees : t = current /\ AllIn(t)
          BY <2>3
    <3>2. t \in Trees /\ t # LoopTree /\ admitted = tree[t].children
          BY <3>1 DEF Trees, TaskTrees, LoopTree, AllIn
    <3>3. /\ tree[t].holders \in SUBSET Callers /\ Cardinality(tree[t].holders) <= MaxConcurrency
          /\ admitted <= MaxChildren
          BY <2>1, <3>2 DEF TreeInv, TreeShape, Slots
    <3>4. IsFiniteSet(tree[t].holders) /\ Cardinality(tree[t].holders) \in Nat
          BY <3>3, HoldersFinite
    <3>5. ASSUME NEW c \in Steps, del[c].pc = "running" PROVE c \in tree[t].holders
      <4>1. del[c].tree = t /\ c \in Callers
            BY <3>1, <3>5 DEF AllIn, Open, Callers
      <4> QED
          BY <2>1, <3>2, <3>5, <4>1 DEF TreeInv, Slots
    <3>6. running \subseteq tree[t].holders /\ running \in SUBSET Callers
          BY <3>5 DEF Callers
    <3> HIDE DEF running
    <3>7. Cardinality(running) <= Cardinality(tree[t].holders) /\ Cardinality(running) \in Nat
          BY <3>4, <3>6, HoldersFinite, FS_Subset
    <3>8. Cardinality(running) <= MaxConcurrency
          BY <2>1, <3>3, <3>4, <3>7
    <3> QED
        BY <3>3, <3>8 DEF running
  <2> QED
      BY <1>1, <2>1, <2>2, <2>3 DEF TreeInv, OneTree
<1>2. DInv => LimitsAreShared
      BY <1>1 DEF LimitsAreShared
<1> QED
    BY <1>2, DelegationInvariant, PTL

(* No answer of the reviewer, with too few entries, with junk among them   *)
(* or not a list at all, makes a success of a result whose specialist or   *)
(* machine check failed, of a criterion whose own entry rejects it, or of  *)
(* one without an entry in an answer of verdicts only                      *)
(* (critic.py:_review_by_model).                                           *)
THEOREM AcceptanceIsReviewed == DelegationSpec => []AcceptedIsReviewed
<1>1. DInv => AcceptedIsReviewed
      BY DEF DInv, AcceptedIsReviewed
<1> QED
    BY <1>1, DelegationInvariant, PTL

(* An investigation that says it went round in circles did so, and one     *)
(* that did so says it; the limits it names were reached and never passed  *)
(* (loop.py:_route).                                                       *)
THEOREM StopReasonsAreTrue == DelegationSpec => []StopReasonTrue
<1>1. ASSUME DInv PROVE StopReasonTrue
  <2>1. /\ Stopped /\ spent <= ceiling /\ trace \in Seq(Fingerprints)
        BY <1>1 DEF DInv, LoopInv, LoopShape, Looping
  <2>2. \A x \in Fingerprints : Repeats(trace, x) \in Nat
        BY <2>1, CountOn
  <2>3. result # "stalled" => \A x \in Fingerprints : ~(Repeats(trace, x) >= StallThreshold)
        BY <2>1, <2>2, LimitsAssumption DEF Stopped, Below
  <2>4. result = "stalled" <=> \E x \in Fingerprints : Repeats(trace, x) >= StallThreshold
        BY <2>1, <2>3 DEF Stopped
  <2> QED
      BY <2>1, <2>4 DEF StopReasonTrue, Stopped, Fingerprints, Repeats
<1> QED
    BY <1>1, DelegationInvariant, PTL

------------------------------------------------------------------------------
(* Conversation.                                                           *)

(* Shape of the state.                                                     *)
Places == {"unsent", "saved", "created", "driving", "planning", "stepping", "stepped", "judged",
           "failed", "returned", "answering", "ended", "refused", "lost"}
Words == Terminal \cup {"paused", "stopped", Absent}
Watchers == [at : {"off", "subscribed", "open", "closed", "left"}, queue : Seq(Statuses),
             sent : Statuses \cup {Absent}]

TurnShape ==
  /\ turn \in [at : Places, attempts : Nat, held : Statuses \cup {Absent}, says : Words]
  /\ row \in Statuses \cup {Absent}
  /\ context \in {"none", "live", "cancelled"} /\ resumer \in {"none", "stepped", "judged", "ended"}
  /\ unsent \in [Actors -> Statuses \cup {Absent}]
  /\ thread \in Seq([role : {"user", "assistant"}, says : Words])

(* A resumption follows a pause, and a pause ends the drive.  What an      *)
(* attempt begins with, and what a cancelled context means.                *)
Past == {"returned", "answering", "ended", "lost"}
InTurn ==
  /\ turn.at \notin Past => resumer = "none" /\ row # "awaiting_approval"
  /\ row = "awaiting_approval" => resumer = "none"
  /\ resumer \in {"stepped", "judged"} => row \in {"running", "cancelled"}
  /\ turn.at = "planning" => turn.held = "planning"
  /\ turn.at = "failed" => row = "failed"
  /\ turn.at \in {"unsent", "saved", "created", "driving", "planning", "failed"} => context = "none"
  /\ context = "cancelled" => row = "cancelled"

(* When nobody works on the task any more it is paused or over.            *)
Resting ==
  /\ turn.at = "returned" /\ resumer = "none" => row \in Terminal \cup {"awaiting_approval"}
  /\ turn.at \in {"answering", "ended"} /\ turn.says # "stopped" /\ resumer = "none"
       => row \in Terminal \cup {"awaiting_approval"}
  /\ resumer = "ended" /\ turn.at # "lost" => row \in Terminal

(* A reply about to be written is as true as one that is.                  *)
RepliesTrue ==
  /\ turn.at \notin {"ended", "lost"} => \A i \in DOMAIN thread : thread[i].says = Absent
  /\ turn.at = "answering" /\ turn.says \in {"completed", "failed"} => row = turn.says
  /\ ReplyTrue

(* What is committed and not published yet.                                *)
Pending ==
  /\ unsent["canceller"] \in {Absent, "cancelled"}
  /\ resumer = "none" => unsent["resumer"] = Absent
  /\ row = "awaiting_approval" => unsent["turn"] \in {"awaiting_approval", Absent}

TurnInv == TurnShape /\ InTurn /\ Resting /\ RepliesTrue /\ Pending

(* A terminal event is on its way to a stream.                             *)
Coming(s) ==
  \/ \E i \in DOMAIN stream[s].queue : stream[s].queue[i] \in Terminal
  \/ \E a \in Actors : unsent[a] \in Terminal

(* The pause is the last a stream will have sent.                          *)
AllTold(s) ==
  \/ unsent["turn"] = "awaiting_approval"
  \/ /\ unsent["turn"] = Absent
     /\ stream[s].queue # <<>> => stream[s].queue[Len(stream[s].queue)] = "awaiting_approval"
     /\ stream[s].queue = <<>> /\ stream[s].at = "open" => stream[s].sent = "awaiting_approval"

StreamInv ==
  /\ stream \in [Streams -> Watchers]
  /\ \A s \in Streams :
       /\ stream[s].at = "off" => stream[s].queue = <<>>
       /\ stream[s].at = "open" /\ row \in Terminal => Coming(s)
       /\ Subscribed(s) /\ row = "awaiting_approval" => Coming(s) \/ AllTold(s)

(* No queue is full.                                                       *)
NoneFull == \A s \in Streams : Len(stream[s].queue) < QueueSize
-----------------------------------------------------------------------------
(* A message is typed, and so is the thread with one more.                 *)
LEMMA OneMoreMessage ==
  ASSUME TurnShape, NEW role \in {"user", "assistant"}, NEW says \in Words
  PROVE  LET longer == Append(thread, Message(role, says))
         IN /\ longer \in Seq([role : {"user", "assistant"}, says : Words])
            /\ DOMAIN longer = 1 .. (Len(thread) + 1) /\ DOMAIN thread = 1 .. Len(thread) /\ Len(thread) \in Nat
            /\ longer[Len(thread) + 1].says = says
            /\ \A i \in 1 .. Len(thread) : longer[i] = thread[i]
<1>1. Message(role, says) \in [role : {"user", "assistant"}, says : Words] /\ Message(role, says).says = says
      BY DEF Message
<1>2. thread \in Seq([role : {"user", "assistant"}, says : Words])
      BY DEF TurnShape
<1> QED
    BY <1>1, <1>2

(* A drive that does not answer yet leaves the thread without a reply.     *)
LEMMA NoReplyYet ==
  ASSUME TurnInv, thread' = thread, turn.at \notin {"ended", "lost"}, turn.at # "answering", turn'.at # "answering"
  PROVE  RepliesTrue'
<1>1. \A i \in DOMAIN thread : thread[i].says = Absent
      BY DEF TurnInv, RepliesTrue
<1>2. ReplyTrue'
      BY <1>1, AbsentAssumption DEF ReplyTrue
<1> QED
    BY <1>1, <1>2 DEF RepliesTrue

(* The message, the task and the start of the turn.                        *)
LEMMA SendingKeeps ==
  ASSUME TurnInv, SaveMessage \/ CreateTask \/ StartTurn \/ SendRaises
  PROVE  TurnInv'
<1>1. TurnShape'
  <2>1. CASE SaveMessage
    <3>1. Absent \in Words
          BY DEF Words
    <3>2. thread' \in Seq([role : {"user", "assistant"}, says : Words])
          BY <2>1, <3>1, OneMoreMessage DEF TurnInv, SaveMessage
    <3> QED
        BY <2>1, <3>2 DEF TurnInv, TurnShape, Places, SaveMessage, Goes
  <2>2. CASE CreateTask \/ StartTurn \/ SendRaises
        BY <2>2 DEF TurnInv, TurnShape, Places, Statuses, CreateTask, StartTurn, SendRaises, Goes
  <2> QED
      BY <2>1, <2>2
<1>2. InTurn'
      BY AbsentAssumption DEF TurnInv, TurnShape, InTurn, Past, Terminal, SaveMessage, CreateTask, StartTurn, SendRaises, At, Goes, Commits, Announces
<1>3. Resting'
      BY AbsentAssumption DEF TurnInv, TurnShape, InTurn, Resting, Past, Terminal, SaveMessage, CreateTask, StartTurn, SendRaises, At, Goes, Commits, Announces
<1>4. RepliesTrue'
      BY AbsentAssumption DEF TurnInv, TurnShape, InTurn, Resting, RepliesTrue, ReplyTrue, Past, Terminal, Message, SaveMessage, CreateTask, StartTurn, SendRaises, At, Goes, Commits, Announces
<1>5. Pending'
      BY AbsentAssumption DEF TurnInv, TurnShape, InTurn, Pending, Past, Terminal, Actors, SaveMessage, CreateTask, StartTurn, SendRaises, At, Goes, Commits, Announces
<1> QED
    BY <1>1, <1>2, <1>3, <1>4, <1>5 DEF TurnInv

(* An attempt up to the graph, and what follows a failed one.              *)
LEMMA AttemptKeeps ==
  ASSUME TurnInv, BeginAttempt \/ PlanningFails \/ PlanOnly \/ Admit \/ Replan \/ GiveUp
  PROVE  TurnInv'
<1>1. TurnShape'
  <2>1. CASE BeginAttempt
    <3>1. row' = "planning" /\ row' \in Statuses
          BY <2>1 DEF BeginAttempt, Commits, Statuses
    <3>2. turn \in [at : Places, attempts : Nat, held : Statuses \cup {Absent}, says : Words]
          BY DEF TurnInv, TurnShape
    <3>3. turn' = [at |-> "planning", attempts |-> turn.attempts + 1, held |-> row', says |-> turn.says]
          BY <2>1, <3>2 DEF BeginAttempt
    <3>4. turn.attempts + 1 \in Nat /\ "planning" \in Places /\ turn.says \in Words
          BY <3>2 DEF Places
    <3>5. turn' \in [at : Places, attempts : Nat, held : Statuses \cup {Absent}, says : Words]
          BY <3>1, <3>3, <3>4
    <3> QED
        BY <2>1, <3>1, <3>5 DEF TurnInv, TurnShape, BeginAttempt
  <2>2. CASE Admit
        BY <2>2 DEF TurnInv, TurnShape, Places, Statuses, Admit, Goes, Commits, Announces
  <2>3. CASE PlanningFails \/ PlanOnly
        BY <2>3 DEF TurnInv, TurnShape, Places, Statuses, Terminal, PlanningFails, PlanOnly, Goes, Commits, Announces
  <2>4. CASE Replan \/ GiveUp
        BY <2>4 DEF TurnInv, TurnShape, Places, Replan, GiveUp, Goes, Commits, Announces
  <2> QED
      BY <2>1, <2>2, <2>3, <2>4
<1>2. InTurn'
      BY AbsentAssumption DEF TurnInv, TurnShape, InTurn, Past, Terminal, BeginAttempt, PlanningFails, PlanOnly, Admit, Replan, GiveUp, At, Goes, Commits, Announces
<1>3. Resting'
      BY AbsentAssumption DEF TurnInv, TurnShape, InTurn, Resting, Past, Terminal, BeginAttempt, PlanningFails, PlanOnly, Admit, Replan, GiveUp, At, Goes, Commits, Announces
<1>4. RepliesTrue'
  <2>1. thread' = thread /\ turn.at \in {"driving", "planning", "failed"} /\ turn'.at # "answering"
        BY DEF TurnInv, TurnShape, BeginAttempt, PlanningFails, PlanOnly, Admit, Replan, GiveUp, At, Goes
  <2> QED
      BY <2>1, NoReplyYet
<1>5. Pending'
      BY AbsentAssumption DEF TurnInv, TurnShape, InTurn, Pending, Past, Terminal, Actors, BeginAttempt, PlanningFails, PlanOnly, Admit, Replan, GiveUp, At, Goes, Commits, Announces
<1> QED
    BY <1>1, <1>2, <1>3, <1>4, <1>5 DEF TurnInv

(* The graph, and the end of an attempt.                                   *)
LEMMA GraphKeeps ==
  ASSUME TurnInv, Step \/ Pause \/ StopCancelled \/ Judge \/ SettleTask("completed") \/ SettleTask("failed")
  PROVE  TurnInv'
<1>1. TurnShape'
      BY AbsentAssumption DEF TurnInv, TurnShape, Statuses, Terminal, Words, Places, Actors, Message, Step, Pause, StopCancelled, Judge, SettleTask, At, Goes, Commits, Announces
<1>2. InTurn'
      BY AbsentAssumption DEF TurnInv, TurnShape, InTurn, Past, Terminal, Step, Pause, StopCancelled, Judge, SettleTask, At, Goes, Commits, Announces
<1>3. Resting'
      BY AbsentAssumption DEF TurnInv, TurnShape, InTurn, Resting, Past, Terminal, Step, Pause, StopCancelled, Judge, SettleTask, At, Goes, Commits, Announces
<1>4. RepliesTrue'
      BY AbsentAssumption DEF TurnInv, TurnShape, InTurn, Resting, RepliesTrue, ReplyTrue, Past, Terminal, Message, Step, Pause, StopCancelled, Judge, SettleTask, At, Goes, Commits, Announces
<1>5. Pending'
      BY AbsentAssumption DEF TurnInv, TurnShape, InTurn, Pending, Past, Terminal, Actors, Step, Pause, StopCancelled, Judge, SettleTask, At, Goes, Commits, Announces
<1> QED
    BY <1>1, <1>2, <1>3, <1>4, <1>5 DEF TurnInv

(* The reply.                                                              *)
LEMMA AnswerKeeps ==
  ASSUME TurnInv, DriveRaises \/ ReadAnswer \/ WriteReply
  PROVE  TurnInv'
<1>1. TurnShape'
  <2>1. CASE DriveRaises
        BY <2>1 DEF TurnInv, TurnShape, Places, Words, DriveRaises
  <2>2. CASE ReadAnswer
    <3>1. Answer(row) \in Words
          BY DEF Answer, Words
    <3> QED
        BY <2>2, <3>1 DEF TurnInv, TurnShape, Places, ReadAnswer
  <2>3. CASE WriteReply
    <3>1. thread' \in Seq([role : {"user", "assistant"}, says : Words])
          BY <2>3, OneMoreMessage DEF TurnInv, TurnShape, WriteReply
    <3> QED
        BY <2>3, <3>1 DEF TurnInv, TurnShape, Places, WriteReply, Goes
  <2> QED
      BY <2>1, <2>2, <2>3
<1>2. InTurn'
      BY AbsentAssumption DEF TurnInv, TurnShape, InTurn, Past, Terminal, DriveRaises, ReadAnswer, WriteReply, Answer, At, Goes, Commits, Announces
<1>3. Resting'
      BY AbsentAssumption DEF TurnInv, TurnShape, InTurn, Resting, Past, Terminal, DriveRaises, ReadAnswer, WriteReply, Answer, At, Goes, Commits, Announces
<1>4. RepliesTrue'
  <2>1. CASE DriveRaises
    <3>1. \A i \in DOMAIN thread : thread[i].says = Absent
          BY <2>1 DEF TurnInv, RepliesTrue, DriveRaises, At
    <3>2. thread' = thread /\ turn'.says = "stopped"
          BY <2>1 DEF TurnInv, TurnShape, DriveRaises
    <3> QED
        BY <3>1, <3>2, AbsentAssumption DEF RepliesTrue, ReplyTrue
  <2>2. CASE ReadAnswer
    <3>1. \A i \in DOMAIN thread : thread[i].says = Absent
          BY <2>2 DEF TurnInv, RepliesTrue, ReadAnswer, At
    <3>2. thread' = thread /\ row' = row /\ turn'.says = Answer(row)
          BY <2>2 DEF TurnInv, TurnShape, ReadAnswer
    <3>3. Answer(row) \in {"completed", "failed"} => row = Answer(row)
          BY AbsentAssumption DEF Answer
    <3> QED
        BY <3>1, <3>2, <3>3, AbsentAssumption DEF RepliesTrue, ReplyTrue
  <2>3. CASE WriteReply
    <3>1. turn.at = "answering" /\ row' = row /\ thread' = Append(thread, Message("assistant", turn.says))
          /\ turn'.at = "ended" /\ turn.says \in Words
          BY <2>3 DEF TurnInv, TurnShape, WriteReply, At, Goes
    <3>2. /\ \A i \in DOMAIN thread : thread[i].says = Absent
          /\ turn.says \in {"completed", "failed"} => row = turn.says
          BY <3>1 DEF TurnInv, RepliesTrue
    <3>3. /\ DOMAIN thread' = 1 .. (Len(thread) + 1) /\ DOMAIN thread = 1 .. Len(thread) /\ Len(thread) \in Nat
          /\ thread'[Len(thread) + 1].says = turn.says
          /\ \A i \in 1 .. Len(thread) : thread'[i] = thread[i]
          BY <3>1, OneMoreMessage DEF TurnInv
    <3>4. \A i \in DOMAIN thread' : thread'[i].says = Absent \/ thread'[i].says = turn.says
          BY <3>2, <3>3
    <3>5. ReplyTrue'
          BY <3>1, <3>2, <3>4, AbsentAssumption DEF ReplyTrue
    <3> QED
        BY <3>1, <3>5 DEF RepliesTrue
  <2> QED
      BY <2>1, <2>2, <2>3
<1>5. Pending'
      BY AbsentAssumption DEF TurnInv, TurnShape, InTurn, Pending, Past, Terminal, Actors, DriveRaises, ReadAnswer, WriteReply, Answer, At, Goes, Commits, Announces
<1> QED
    BY <1>1, <1>2, <1>3, <1>4, <1>5 DEF TurnInv

(* A decision and the resumption it starts.                                *)
LEMMA ResumptionKeeps ==
  ASSUME TurnInv, DecidePause \/ ResumedStops \/ ResumedJudge \/ ResumedSettle("completed") \/ ResumedSettle("failed")
  PROVE  TurnInv'
<1>1. TurnShape'
      BY AbsentAssumption DEF TurnInv, TurnShape, Statuses, Terminal, Words, Places, Actors, Message, DecidePause, ResumedStops, ResumedJudge, ResumedSettle, At, Goes, Commits, Announces
<1>2. InTurn'
      BY AbsentAssumption DEF TurnInv, TurnShape, InTurn, Past, Terminal, DecidePause, ResumedStops, ResumedJudge, ResumedSettle, At, Goes, Commits, Announces
<1>3. Resting'
      BY AbsentAssumption DEF TurnInv, TurnShape, InTurn, Resting, Past, Terminal, DecidePause, ResumedStops, ResumedJudge, ResumedSettle, At, Goes, Commits, Announces
<1>4. RepliesTrue'
      BY AbsentAssumption DEF TurnInv, TurnShape, InTurn, Resting, RepliesTrue, ReplyTrue, Past, Terminal, Message, DecidePause, ResumedStops, ResumedJudge, ResumedSettle, At, Goes, Commits, Announces
<1>5. Pending'
      BY AbsentAssumption DEF TurnInv, TurnShape, InTurn, Pending, Past, Terminal, Actors, DecidePause, ResumedStops, ResumedJudge, ResumedSettle, At, Goes, Commits, Announces
<1> QED
    BY <1>1, <1>2, <1>3, <1>4, <1>5 DEF TurnInv

(* A cancellation, and the end of the process.                             *)
LEMMA CancelKeeps ==
  ASSUME TurnInv, Cancel \/ Crash
  PROVE  TurnInv'
<1>1. TurnShape'
      BY AbsentAssumption DEF TurnInv, TurnShape, Statuses, Terminal, Words, Places, Actors, Message, Cancel, Crash, At, Goes, Commits, Announces
<1>2. InTurn'
      BY AbsentAssumption DEF TurnInv, TurnShape, InTurn, Past, Terminal, Cancel, Crash, At, Goes, Commits, Announces
<1>3. Resting'
      BY AbsentAssumption DEF TurnInv, TurnShape, InTurn, Resting, Past, Terminal, Cancel, Crash, At, Goes, Commits, Announces
<1>4. RepliesTrue'
      BY AbsentAssumption DEF TurnInv, TurnShape, InTurn, Resting, RepliesTrue, ReplyTrue, Past, Terminal, Message, Cancel, Crash, At, Goes, Commits, Announces
<1>5. Pending'
      BY AbsentAssumption DEF TurnInv, TurnShape, InTurn, Pending, Past, Terminal, Actors, Cancel, Crash, At, Goes, Commits, Announces
<1> QED
    BY <1>1, <1>2, <1>3, <1>4, <1>5 DEF TurnInv
(* The bus and the streams do not touch the turn.                          *)
LEMMA TurnUntouched ==
  ASSUME TurnInv, UNCHANGED <<thread, turn, row, context, resumer>>,
         \/ unsent' = unsent
         \/ \E a \in Actors : unsent' = [unsent EXCEPT ![a] = Absent]
  PROVE  TurnInv'
<1>1. TurnShape'
      BY DEF TurnInv, TurnShape
<1>2. InTurn' /\ Resting' /\ RepliesTrue'
      BY DEF TurnInv, InTurn, Resting, RepliesTrue, ReplyTrue
<1>3. Pending'
      BY DEF TurnInv, TurnShape, Pending, Actors
<1> QED
    BY <1>1, <1>2, <1>3 DEF TurnInv

-----------------------------------------------------------------------------
(* The streams.                                                            *)

(* A status is committed with an event that announces it, if it is final   *)
(* or a pause, and no announcement is lost.                                *)
Announced ==
  /\ \A a \in Actors : unsent[a] \in Terminal => unsent'[a] = unsent[a]
  /\ row' \in Terminal => row \in Terminal \/ \E a \in Actors : unsent'[a] \in Terminal
  /\ row' = "awaiting_approval" =>
       \/ unsent'["turn"] = "awaiting_approval"
       \/ row = "awaiting_approval" /\ unsent'["turn"] = unsent["turn"]

(* So do all who work on the task.                                         *)
LEMMA AllIsAnnounced ==
  ASSUME TurnInv, Sending \/ SendRaises \/ Driving \/ DriveRaises \/ Replying \/ DecidePause \/ Resuming \/ Cancel
  PROVE  Announced /\ stream' = stream
<1>1. TurnShape /\ InTurn
      BY DEF TurnInv
<1>2. CASE Sending \/ SendRaises \/ DriveRaises \/ Replying
      BY <1>1, <1>2 DEF Announced, TurnShape, InTurn, Terminal, Past, Sending, SaveMessage, CreateTask, StartTurn,
         SendRaises, DriveRaises, Replying, ReadAnswer, WriteReply, At
<1>3. CASE BeginAttempt \/ PlanningFails \/ PlanOnly \/ Admit \/ Replan \/ GiveUp
      BY <1>1, <1>3, AbsentAssumption DEF Announced, TurnShape, InTurn, Terminal, Past, Actors, BeginAttempt,
         PlanningFails, PlanOnly, Admit, Replan, GiveUp, At, Commits, Announces
<1>4. CASE Step \/ Pause \/ StopCancelled \/ Judge \/ SettleTask("completed") \/ SettleTask("failed")
      BY <1>1, <1>4, AbsentAssumption DEF Announced, TurnShape, InTurn, Terminal, Past, Actors, Step,
         Pause, StopCancelled, Judge, SettleTask, At, Commits, Announces
<1>5. CASE DecidePause \/ Resuming
      BY <1>1, <1>5, AbsentAssumption DEF Announced, TurnShape, InTurn, Terminal, Past, Actors, DecidePause, Resuming,
         ResumedStops, ResumedJudge, ResumedSettle, Commits, Announces
<1>6. CASE Cancel
      BY <1>1, <1>6, AbsentAssumption DEF Announced, TurnShape, Terminal, Actors, Cancel, Commits, Announces
<1> QED
    BY <1>2, <1>3, <1>4, <1>5, <1>6 DEF Driving

(* What comes to a stream still comes after such a step.                   *)
LEMMA StreamsKnow ==
  ASSUME StreamInv, Announced, stream' = stream
  PROVE  StreamInv'
<1>1. ASSUME NEW s \in Streams, Coming(s) PROVE Coming(s)'
      BY <1>1 DEF Announced, Coming
<1>2. ASSUME NEW s \in Streams, stream[s].at = "open", row' \in Terminal PROVE Coming(s)'
      BY <1>1, <1>2 DEF StreamInv, Announced, Coming
<1>3. ASSUME NEW s \in Streams, Subscribed(s), row' = "awaiting_approval" PROVE Coming(s)' \/ AllTold(s)'
      BY <1>1, <1>3 DEF StreamInv, Announced, AllTold
<1>4. \A s \in Streams : Subscribed(s)' <=> Subscribed(s)
      BY DEF Subscribed
<1> QED
    BY <1>2, <1>3, <1>4 DEF StreamInv

(* An event is published to the queues, none of which is full.             *)
LEMMA PublishReaches ==
  ASSUME TurnInv, StreamInv, NoneFull, NEW actor \in Actors, Publish(actor)
  PROVE  StreamInv'
<1> DEFINE event == unsent[actor]
           longer(s) == Append(stream[s].queue, event)
<1>1. /\ event # Absent /\ event \in Statuses /\ row' = row
      /\ unsent' = [unsent EXCEPT ![actor] = Absent] /\ unsent \in [Actors -> Statuses \cup {Absent}]
      BY DEF Publish, TurnInv, TurnShape
<1>2. stream \in [Streams -> Watchers]
      BY DEF StreamInv
<1>3. ASSUME NEW s \in Streams
      PROVE  /\ Subscribed(s) => /\ stream'[s] = [stream[s] EXCEPT !.queue = longer(s)]
                                 /\ stream'[s].at = stream[s].at /\ stream'[s].sent = stream[s].sent
                                 /\ stream'[s].queue = longer(s)
             /\ ~Subscribed(s) => stream'[s] = stream[s]
             /\ stream'[s] \in Watchers
  <2>1. stream'[s] = IF Subscribed(s) THEN [stream[s] EXCEPT !.queue = longer(s)] ELSE stream[s]
        BY <1>3 DEF Publish, NoneFull
  <2>2. stream[s] \in Watchers /\ longer(s) \in Seq(Statuses)
        BY <1>1, <1>2 DEF Watchers
  <2>3. [stream[s] EXCEPT !.queue = longer(s)] \in Watchers
        BY <2>2 DEF Watchers
  <2>4. CASE Subscribed(s)
    <3>1. stream'[s] = [stream[s] EXCEPT !.queue = longer(s)]
          BY <2>1, <2>4
    <3>2. stream'[s].at = stream[s].at /\ stream'[s].sent = stream[s].sent /\ stream'[s].queue = longer(s)
          BY <2>2, <3>1 DEF Watchers
    <3> QED
        BY <2>3, <2>4, <3>1, <3>2
  <2>5. CASE ~Subscribed(s)
        BY <2>1, <2>2, <2>5
  <2> QED
      BY <2>4, <2>5
<1>4. stream' \in [Streams -> Watchers]
      BY <1>3 DEF Publish
<1>5. ASSUME NEW s \in Streams
      PROVE  LET q == stream[s].queue
             IN /\ q \in Seq(Statuses) /\ Len(q) \in Nat
                /\ longer(s) # <<>> /\ Len(longer(s)) = Len(q) + 1 /\ longer(s)[Len(q) + 1] = event
                /\ DOMAIN q = 1 .. Len(q) /\ DOMAIN longer(s) = 1 .. (Len(q) + 1)
                /\ \A i \in 1 .. Len(q) : longer(s)[i] = q[i]
  <2>1. stream[s].queue \in Seq(Statuses)
        BY <1>2 DEF Watchers
  <2> QED
      BY <1>1, <2>1
<1> HIDE DEF longer, event
<1>6. ASSUME NEW s \in Streams, Subscribed(s), Coming(s) \/ event \in Terminal PROVE Coming(s)'
  <2>1. CASE event \in Terminal
    <3>1. \E i \in DOMAIN longer(s) : longer(s)[i] \in Terminal
          BY <1>5, <2>1
    <3>2. stream'[s].queue = longer(s)
          BY <1>3, <1>6
    <3> QED
        BY <3>1, <3>2 DEF Coming
  <2>2. CASE \E i \in DOMAIN stream[s].queue : stream[s].queue[i] \in Terminal
    <3>1. PICK i \in DOMAIN stream[s].queue : stream[s].queue[i] \in Terminal
          BY <2>2
    <3>2. i \in DOMAIN longer(s) /\ longer(s)[i] \in Terminal
          BY <1>5, <3>1
    <3> QED
        BY <1>3, <1>6, <3>2 DEF Coming
  <2>3. CASE \E a \in Actors : unsent[a] \in Terminal /\ event \notin Terminal
    <3>1. PICK a \in Actors : unsent[a] \in Terminal /\ event \notin Terminal
          BY <2>3
    <3>2. a # actor
          BY <3>1 DEF event
    <3>3. unsent'[a] \in Terminal
          BY <1>1, <3>1, <3>2
    <3> QED
        BY <3>3 DEF Coming
  <2> QED
      BY <1>6, <2>1, <2>2, <2>3 DEF Coming
<1>7. ASSUME NEW s \in Streams, Subscribed(s), row = "awaiting_approval", AllTold(s), event \notin Terminal PROVE AllTold(s)'
  <2>1. actor = "turn" /\ event = "awaiting_approval"
        BY <1>1, <1>7 DEF TurnInv, InTurn, Pending, Actors, Terminal, event
  <2>2. unsent'["turn"] = Absent
        BY <1>1, <2>1
  <2>3. stream'[s].queue = longer(s) /\ longer(s) # <<>> /\ longer(s)[Len(longer(s))] = "awaiting_approval"
        BY <1>3, <1>5, <1>7, <2>1
  <2> QED
      BY <2>2, <2>3 DEF AllTold
<1>8. \A s \in Streams : Subscribed(s)' <=> Subscribed(s)
      BY <1>3 DEF Subscribed
<1>9. ASSUME NEW s \in Streams
      PROVE  /\ stream'[s].at = "off" => stream'[s].queue = <<>>
             /\ stream'[s].at = "open" /\ row' \in Terminal => Coming(s)'
             /\ Subscribed(s)' /\ row' = "awaiting_approval" => Coming(s)' \/ AllTold(s)'
  <2>1. stream'[s].at = "off" => stream'[s].queue = <<>>
        BY <1>3 DEF StreamInv, Subscribed
  <2>2. ASSUME stream'[s].at = "open", row' \in Terminal PROVE Coming(s)'
    <3>1. Subscribed(s) /\ stream[s].at = "open"
          BY <1>3, <2>2 DEF Subscribed
    <3> QED
        BY <1>1, <1>6, <2>2, <3>1 DEF StreamInv
  <2>3. ASSUME Subscribed(s)', row' = "awaiting_approval" PROVE Coming(s)' \/ AllTold(s)'
        BY <1>1, <1>6, <1>7, <1>8, <2>3 DEF StreamInv
  <2> QED
      BY <2>1, <2>2, <2>3
<1> QED
    BY <1>4, <1>9 DEF StreamInv

(* A client subscribes, or goes.                                           *)
LEMMA StreamComesAndGoes ==
  ASSUME TurnInv, StreamInv, NEW s \in Streams, Subscribe(s) \/ Disconnect(s)
  PROVE  StreamInv'
<1>1. row' = row /\ unsent' = unsent /\ stream \in [Streams -> Watchers]
      BY DEF Subscribe, Disconnect, StreamInv
<1>2. stream[s] \in Watchers
      BY <1>1
<1>3. /\ stream' \in [Streams -> Watchers] /\ \A t \in Streams \ {s} : stream'[t] = stream[t]
      /\ \/ stream'[s].at = "subscribed" /\ stream'[s].queue = <<>>
         \/ stream'[s].at = "left"
  <2>1. CASE Subscribe(s)
    <3> DEFINE new == [stream[s] EXCEPT !.at = "subscribed"]
    <3>1. stream' = [stream EXCEPT ![s] = new]
          BY <2>1, Zenon DEF Subscribe
    <3>2. new \in Watchers /\ new.at = "subscribed" /\ new.queue = stream[s].queue
          BY <1>2 DEF Watchers
    <3>3. stream[s].queue = <<>>
          BY <2>1 DEF Subscribe, StreamInv
    <3> HIDE DEF new
    <3> QED
        BY <1>1, <3>1, <3>2, <3>3
  <2>2. CASE Disconnect(s)
    <3>1. Gone("left") \in Watchers /\ Gone("left").at = "left"
          BY DEF Gone, Watchers
    <3> QED
        BY <1>1, <2>2, <3>1 DEF Disconnect
  <2> QED
      BY <2>1, <2>2
<1>4. \A t \in Streams : /\ (Coming(t) /\ t # s => Coming(t)') /\ (AllTold(t) /\ t # s => AllTold(t)')
                         /\ t # s => (Subscribed(t)' <=> Subscribed(t))
      BY <1>1, <1>3 DEF Coming, AllTold, Subscribed
<1>5. Subscribed(s)' /\ row' = "awaiting_approval" => Coming(s)' \/ AllTold(s)'
  <2>1. row' = "awaiting_approval" => unsent'["turn"] \in {"awaiting_approval", Absent}
        BY <1>1 DEF TurnInv, Pending
  <2> QED
      BY <1>3, <2>1 DEF AllTold, Subscribed
<1> QED
    BY <1>1, <1>3, <1>4, <1>5 DEF StreamInv

(* What is sent to a client: the row, or the first of its queue.           *)
LEMMA SendingOn ==
  ASSUME TurnInv, StreamInv, NEW s \in Streams, SendRow(s) \/ Forward(s)
  PROVE  StreamInv'
<1>1. row' = row /\ unsent' = unsent /\ stream \in [Streams -> Watchers] /\ Subscribed(s)
      BY DEF SendRow, Forward, StreamInv, Subscribed
<1>2. stream[s] \in Watchers /\ stream[s].queue \in Seq(Statuses) /\ row \in Statuses \cup {Absent}
      BY <1>1 DEF Watchers, TurnInv, TurnShape
<1>3. PICK snapshot \in Statuses \cup {Absent}, left \in Seq(Statuses) :
        /\ \/ snapshot = row /\ left = stream[s].queue /\ stream[s].at = "subscribed"
           \/ /\ stream[s].queue # <<>> /\ snapshot = Head(stream[s].queue) /\ left = Tail(stream[s].queue)
              /\ stream[s].at = "open"
        /\ Sends(s, snapshot, left)
  <2>1. CASE SendRow(s)
        BY <1>2, <2>1 DEF SendRow
  <2>2. CASE Forward(s)
    <3>1. Head(stream[s].queue) \in Statuses /\ Tail(stream[s].queue) \in Seq(Statuses)
          BY <1>2, <2>2 DEF Forward
    <3> QED
        BY <2>2, <3>1 DEF Forward
  <2> QED
      BY <2>1, <2>2
<1> DEFINE new == IF snapshot \in Terminal THEN Gone("closed")
                  ELSE [at |-> "open", queue |-> left, sent |-> snapshot]
<1>4. stream' = [stream EXCEPT ![s] = new]
      BY <1>3 DEF Sends
<1>5. /\ new \in Watchers
      /\ snapshot \in Terminal => new.at = "closed"
      /\ snapshot \notin Terminal => new.at = "open" /\ new.queue = left /\ new.sent = snapshot
      BY <1>3 DEF Gone, Watchers
<1> HIDE DEF new
<1>6. /\ stream' \in [Streams -> Watchers] /\ stream'[s] = new
      /\ \A t \in Streams \ {s} : stream'[t] = stream[t]
      BY <1>1, <1>4, <1>5
<1>7. \A t \in Streams : /\ (Coming(t) /\ t # s => Coming(t)') /\ (AllTold(t) /\ t # s => AllTold(t)')
                         /\ t # s => (Subscribed(t)' <=> Subscribed(t))
      BY <1>1, <1>6 DEF Coming, AllTold, Subscribed
<1>8. ASSUME snapshot \notin Terminal, Coming(s) PROVE Coming(s)'
  <2>1. CASE \E a \in Actors : unsent[a] \in Terminal
        BY <1>1, <2>1 DEF Coming
  <2>2. CASE \E i \in DOMAIN stream[s].queue : stream[s].queue[i] \in Terminal
    <3>1. \E i \in DOMAIN left : left[i] \in Terminal
      <4>1. CASE left = stream[s].queue
            BY <2>2, <4>1
      <4>2. CASE stream[s].queue # <<>> /\ snapshot = Head(stream[s].queue) /\ left = Tail(stream[s].queue)
        <5> DEFINE q == stream[s].queue
        <5>1. q \in Seq(Statuses) /\ q # <<>> /\ left = Tail(q) /\ q[1] = snapshot
              BY <1>2, <4>2
        <5> HIDE DEF q
        <5>2. Len(q) \in Nat /\ DOMAIN q = 1 .. Len(q) /\ DOMAIN left = 1 .. (Len(q) - 1)
              /\ \A j \in 1 .. (Len(q) - 1) : left[j] = q[j + 1]
              BY <5>1
        <5>3. PICK i \in DOMAIN q : q[i] \in Terminal
              BY <2>2 DEF q
        <5>4. i # 1
              BY <1>8, <5>1, <5>3
        <5>5. i - 1 \in DOMAIN left /\ left[i - 1] = q[i]
              BY <5>2, <5>3, <5>4
        <5> QED
            BY <5>3, <5>5
      <4> QED
          BY <1>3, <4>1, <4>2
    <3>2. stream'[s].queue = left
          BY <1>5, <1>6, <1>8
    <3> QED
        BY <3>1, <3>2 DEF Coming
  <2> QED
      BY <1>8, <2>1, <2>2 DEF Coming
<1>9. ASSUME snapshot \notin Terminal, row = "awaiting_approval", AllTold(s) PROVE AllTold(s)'
  <2>1. CASE unsent["turn"] = "awaiting_approval"
        BY <1>1, <2>1 DEF AllTold
  <2>2. CASE unsent["turn"] # "awaiting_approval"
    <3> DEFINE q == stream[s].queue
    <3>1. /\ unsent["turn"] = Absent
          /\ q # <<>> => q[Len(q)] = "awaiting_approval"
          BY <1>9, <2>2 DEF AllTold
    <3>2. q \in Seq(Statuses) /\ Len(q) \in Nat
          BY <1>2
    <3>3. /\ left # <<>> => left[Len(left)] = "awaiting_approval"
          /\ left = <<>> => snapshot = "awaiting_approval"
      <4>1. CASE snapshot = row /\ left = q
            BY <1>9, <3>1, <4>1
      <4>2. CASE q # <<>> /\ snapshot = Head(q) /\ left = Tail(q)
        <5>1. q[Len(q)] = "awaiting_approval" /\ snapshot = q[1]
              BY <3>1, <3>2, <4>2
        <5> HIDE DEF q
        <5>2. Len(left) = Len(q) - 1 /\ Len(q) \in Nat \ {0}
              /\ \A j \in 1 .. (Len(q) - 1) : left[j] = q[j + 1]
              BY <3>2, <4>2
        <5>3. left # <<>> => left[Len(left)] = q[Len(q)]
          <6>1. left # <<>> => Len(left) \in Nat \ {0}
                BY <1>3
          <6> QED
              BY <5>2, <6>1
        <5>4. left = <<>> => Len(q) = 1
              BY <5>2
        <5> QED
            BY <5>1, <5>3, <5>4
      <4> QED
          BY <1>3, <4>1, <4>2
    <3>4. stream'[s].queue = left /\ stream'[s].sent = snapshot
          BY <1>5, <1>6, <1>9
    <3> QED
        BY <1>1, <3>1, <3>3, <3>4 DEF AllTold
  <2> QED
      BY <2>1, <2>2
<1>10. ASSUME snapshot \notin Terminal, row \in Terminal PROVE Coming(s)'
  <2>1. stream[s].at = "open"
        BY <1>3, <1>10
  <2> QED
      BY <1>8, <1>10, <2>1 DEF StreamInv
<1>11. /\ stream'[s].at = "off" => stream'[s].queue = <<>>
       /\ stream'[s].at = "open" /\ row' \in Terminal => Coming(s)'
       /\ Subscribed(s)' /\ row' = "awaiting_approval" => Coming(s)' \/ AllTold(s)'
  <2>1. CASE snapshot \in Terminal
        BY <1>5, <1>6, <2>1 DEF Subscribed
  <2>2. CASE snapshot \notin Terminal
    <3>1. stream'[s].at = "open"
          BY <1>5, <1>6, <2>2
    <3>2. row = "awaiting_approval" => Coming(s) \/ AllTold(s)
          BY <1>1 DEF StreamInv
    <3> QED
        BY <1>1, <1>8, <1>9, <1>10, <2>2, <3>1, <3>2
  <2> QED
      BY <2>1, <2>2
<1> QED
    BY <1>1, <1>6, <1>7, <1>11 DEF StreamInv

(* With the process the streams are gone.                                  *)
LEMMA StreamsLost ==
  ASSUME StreamInv, Crash
  PROVE  StreamInv'
<1>1. Gone("left") \in Watchers /\ Gone("left").at = "left"
      BY DEF Gone, Watchers
<1>2. ASSUME NEW s \in Streams
      PROVE  stream'[s] \in Watchers /\ ~Subscribed(s)' /\ (stream'[s].at = "off" => stream'[s].queue = <<>>)
  <2>1. stream'[s] = IF stream[s].at \in {"subscribed", "open"} THEN Gone("left") ELSE stream[s]
        BY DEF Crash
  <2> QED
      BY <1>1, <2>1 DEF StreamInv, Subscribed
<1>3. stream' \in [Streams -> Watchers]
      BY <1>2 DEF Crash
<1> QED
    BY <1>2, <1>3 DEF StreamInv, Subscribed

-----------------------------------------------------------------------------
(* The invariants.                                                         *)

(* They hold before the message.                                           *)
LEMMA ConversationInit ==
  ASSUME TurnInit
  PROVE  TurnInv /\ StreamInv
<1>1. TurnShape
      BY DEF TurnInit, TurnShape, Places, Words
<1>2. InTurn /\ Resting /\ Pending
      BY AbsentAssumption DEF TurnInit, InTurn, Past, Resting, Pending, Actors
<1>3. RepliesTrue
      BY DEF TurnInit, RepliesTrue, ReplyTrue
<1>4. StreamInv
  <2>1. [at |-> "off", queue |-> <<>>, sent |-> Absent] \in Watchers
        BY DEF Watchers
  <2> QED
      BY <2>1 DEF TurnInit, StreamInv, Subscribed
<1> QED
    BY <1>1, <1>2, <1>3, <1>4 DEF TurnInv

(* Every step keeps the turn's part.                                       *)
LEMMA TurnNextKeeps ==
  ASSUME TurnInv, [TurnNext]_turnVars
  PROVE  TurnInv'
<1>1. CASE Sending \/ SendRaises
      BY <1>1, SendingKeeps DEF Sending
<1>2. CASE Driving
      BY <1>2, AttemptKeeps, GraphKeeps DEF Driving
<1>3. CASE DriveRaises \/ Replying
      BY <1>3, AnswerKeeps DEF Replying
<1>4. CASE DecidePause \/ Resuming
      BY <1>4, ResumptionKeeps DEF Resuming
<1>5. CASE Cancel \/ Crash
      BY <1>5, CancelKeeps
<1>6. ASSUME NEW a \in Actors, Publish(a) PROVE TurnInv'
      BY <1>6, TurnUntouched DEF Publish
<1>7. ASSUME NEW s \in Streams, Subscribe(s) \/ Streaming(s) \/ Disconnect(s) PROVE TurnInv'
      BY <1>7, TurnUntouched DEF Subscribe, Streaming, SendRow, Forward, Disconnect
<1>8. CASE UNCHANGED turnVars
      BY <1>8, TurnUntouched DEF turnVars
<1> QED
    BY <1>1, <1>2, <1>3, <1>4, <1>5, <1>6, <1>7, <1>8 DEF TurnNext

(* And the streams', while no queue is full.                               *)
LEMMA StreamNextKeeps ==
  ASSUME TurnInv, StreamInv, NoneFull, [TurnNext]_turnVars
  PROVE  StreamInv'
<1>1. CASE Sending \/ SendRaises \/ Driving \/ DriveRaises \/ Replying \/ DecidePause \/ Resuming \/ Cancel
      BY <1>1, AllIsAnnounced, StreamsKnow
<1>2. CASE Crash
      BY <1>2, StreamsLost
<1>3. ASSUME NEW a \in Actors, Publish(a) PROVE StreamInv'
      BY <1>3, PublishReaches
<1>4. ASSUME NEW s \in Streams, Subscribe(s) \/ Streaming(s) \/ Disconnect(s) PROVE StreamInv'
      BY <1>4, StreamComesAndGoes, SendingOn DEF Streaming
<1>5. CASE UNCHANGED turnVars
  <2>1. row' = row /\ unsent' = unsent /\ stream' = stream
        BY <1>5 DEF turnVars
  <2>2. Announced
        BY <2>1 DEF Announced
  <2> QED
      BY <2>1, <2>2, StreamsKnow
<1> QED
    BY <1>1, <1>2, <1>3, <1>4, <1>5 DEF TurnNext

(* The turn's part always holds.                                           *)
LEMMA TurnInvariant == TurnSpec => []TurnInv
<1>1. TurnInit => TurnInv
      BY ConversationInit
<1>2. TurnInv /\ [TurnNext]_turnVars => TurnInv'
      BY TurnNextKeeps
<1> QED
    BY <1>1, <1>2, PTL DEF TurnSpec

(* No reply says that a task completed or failed whose row says something  *)
(* else, however decisions, a cancellation, re-plans and exceptions fall   *)
(* between the commits of the drive, the reading of the row and the        *)
(* writing of the reply (conversation.py:_run_turn, _answer_for).          *)
THEOREM RepliesAreTrue == TurnSpec => []ReplyTrue
<1>1. TurnInv => ReplyTrue
      BY DEF TurnInv, RepliesTrue
<1> QED
    BY <1>1, TurnInvariant, PTL

(* As long as no queue is full, a stream that waits over a task nobody     *)
(* works on shows it as it is: the pause if it is paused, and over a task  *)
(* that has ended none waits (events.py, tasks.py:stream_task).  With a    *)
(* full queue the event that says so may be the one that is dropped.       *)
THEOREM WaitingStreamsAreCurrent == TurnSpec /\ []NoneFull => []WaitingIsCurrent
<1>1. ASSUME TurnInv, StreamInv PROVE WaitingIsCurrent
  <2>1. SUFFICES ASSUME NEW s \in Streams, Quiet, stream[s].at = "open", stream[s].queue = <<>>
                 PROVE  stream[s].sent = row
        BY DEF WaitingIsCurrent
  <2>2. ~Coming(s)
    <3>1. \A a \in Actors : unsent[a] \notin Terminal
          BY <2>1, AbsentAssumption DEF Quiet, Terminal
    <3>2. DOMAIN stream[s].queue = {}
          BY <2>1
    <3> QED
        BY <3>1, <3>2 DEF Coming
  <2>3. row \notin Terminal
        BY <1>1, <2>1, <2>2 DEF StreamInv
  <2>4. row = "awaiting_approval"
        BY <1>1, <2>1, <2>3 DEF TurnInv, Resting, Quiet
  <2>5. AllTold(s)
        BY <1>1, <2>1, <2>2, <2>4 DEF StreamInv, Subscribed
  <2>6. unsent["turn"] = Absent
        BY <2>1 DEF Quiet, Actors
  <2> QED
      BY <2>1, <2>4, <2>5, <2>6, AbsentAssumption DEF AllTold
<1>2. TurnInit => StreamInv
      BY ConversationInit
<1>3. TurnInv /\ StreamInv /\ NoneFull /\ [TurnNext]_turnVars => StreamInv'
      BY StreamNextKeeps
<1> QED
    BY <1>1, <1>2, <1>3, TurnInvariant, PTL DEF TurnSpec

-----------------------------------------------------------------------------
(* How many events a turn can publish, and so how long its queues get.     *)

(* What may still be published: by the attempts that are left, and after   *)
(* the step the turn is at; by a decision and its resumption; by a         *)
(* cancellation of what is not over; and what is committed already.        *)
Rounds == MaxReplan + 1 - turn.attempts
Further(place) ==
  IF place = "planning" THEN 6 ELSE IF place = "stepping" THEN 4 ELSE IF place = "stepped" THEN 3
  ELSE IF place \in {"unsent", "saved", "judged"} THEN 2 ELSE 1
FromHere == IF turn.at \in Past \cup {"refused"} THEN 0 ELSE 6 * Rounds + Further(turn.at)
FromResumer == IF resumer = "none" THEN 2 ELSE IF resumer = "ended" THEN 0 ELSE 1
FromCancel == IF row \in Terminal \cup {Absent} THEN 0 ELSE 1
Owed(a) == IF unsent[a] = Absent THEN 0 ELSE 1
Left == FromHere + FromResumer + FromCancel + Owed("turn") + Owed("resumer") + Owed("canceller")
Most == 6 * MaxReplan + 10
RoomInv ==
  /\ turn.attempts <= MaxReplan + 1
  /\ turn.at \in {"unsent", "saved", "created", "driving"} => turn.attempts <= MaxReplan
  /\ Left <= Most
  /\ \A s \in Streams : Len(stream[s].queue) + Left <= Most

(* It is a number.                                                         *)
LEMMA LeftIsNumber ==
  ASSUME TurnInv, RoomInv
  PROVE  /\ turn.attempts \in Nat /\ MaxReplan \in Nat /\ Rounds \in Nat /\ FromHere \in Nat
         /\ FromResumer \in Nat /\ FromCancel \in Nat /\ \A a : Owed(a) \in Nat
         /\ Left \in Nat /\ Most \in Nat
<1>1. turn.attempts \in Nat /\ MaxReplan \in Nat /\ Rounds \in Nat
      BY SizesAssumption DEF TurnInv, TurnShape, RoomInv, Rounds
<1>2. turn.at \in Places /\ resumer \in {"none", "stepped", "judged", "ended"}
      BY DEF TurnInv, TurnShape
<1>3. FromHere \in Nat
      BY <1>1, <1>2 DEF FromHere, Further
<1>4. FromResumer \in Nat /\ FromCancel \in Nat /\ \A a : Owed(a) \in Nat
      BY <1>2 DEF FromResumer, FromCancel, Owed
<1>5. Left \in Nat
      BY <1>3, <1>4 DEF Left
<1> QED
    BY <1>1, <1>3, <1>4, <1>5, SizesAssumption DEF Most

(* Whoever works on the task draws on it.                                  *)
LEMMA WorkDrawsOnLeft ==
  ASSUME TurnInv, RoomInv,
         Sending \/ SendRaises \/ Driving \/ DriveRaises \/ Replying \/ DecidePause \/ Resuming \/ Cancel
  PROVE  /\ Left' <= Left /\ turn'.attempts <= MaxReplan + 1
         /\ turn'.at \in {"unsent", "saved", "created", "driving"} => turn'.attempts <= MaxReplan
<1>1. /\ TurnShape /\ InTurn
      /\ turn.attempts \in Nat /\ MaxReplan \in Nat /\ turn.attempts <= MaxReplan + 1
      /\ turn.at \in {"unsent", "saved", "created", "driving"} => turn.attempts <= MaxReplan
      BY LeftIsNumber DEF TurnInv, RoomInv
<1>2. CASE SendRaises
  <2>1. FromHere \in Nat /\ FromResumer \in Nat /\ FromCancel \in Nat /\ \A a : Owed(a) \in Nat
        BY LeftIsNumber
  <2>2. turn'.at = "refused" /\ turn'.attempts = turn.attempts /\ UNCHANGED <<row, resumer, unsent>>
        BY <1>1, <1>2 DEF TurnShape, SendRaises, Goes
  <2>3. FromHere' = 0 /\ FromResumer' = FromResumer /\ FromCancel' = FromCancel /\ \A a : Owed(a)' = Owed(a)
        BY <2>2 DEF FromHere, FromResumer, FromCancel, Owed, Past
  <2> QED
      BY <1>1, <2>1, <2>2, <2>3 DEF Left
<1>3. CASE DriveRaises
  <2>1. FromHere \in Nat /\ FromResumer \in Nat /\ FromCancel \in Nat /\ \A a : Owed(a) \in Nat
        BY LeftIsNumber
  <2>2. turn'.at = "answering" /\ turn'.attempts = turn.attempts /\ UNCHANGED <<row, resumer, unsent>>
        BY <1>1, <1>3 DEF TurnShape, DriveRaises, Goes
  <2>3. FromHere' = 0 /\ FromResumer' = FromResumer /\ FromCancel' = FromCancel /\ \A a : Owed(a)' = Owed(a)
        BY <2>2 DEF FromHere, FromResumer, FromCancel, Owed, Past
  <2> QED
      BY <1>1, <2>1, <2>2, <2>3 DEF Left
<1>4. CASE Cancel
  <2>1. FromHere \in Nat /\ FromResumer \in Nat /\ Owed("turn") \in Nat /\ Owed("resumer") \in Nat
        BY LeftIsNumber
  <2>2. /\ turn' = turn /\ resumer' = resumer /\ row' = "cancelled" /\ row # Absent /\ row \notin Terminal
        /\ unsent["canceller"] = Absent /\ unsent' = [unsent EXCEPT !["canceller"] = "cancelled"]
        BY <1>4 DEF Cancel, Commits, Announces
  <2>3. FromHere' = FromHere /\ FromResumer' = FromResumer
        BY <2>2 DEF FromHere, Rounds, FromResumer
  <2>4. FromCancel = 1 /\ FromCancel' = 0
        BY <2>2 DEF FromCancel, Terminal
  <2>5. Owed("turn")' = Owed("turn") /\ Owed("resumer")' = Owed("resumer")
        BY <1>1, <2>2 DEF Owed, TurnShape, Actors
  <2>6. Owed("canceller") = 0 /\ Owed("canceller")' = 1
        BY <1>1, <2>2, AbsentAssumption DEF Owed, TurnShape, Actors
  <2> QED
      BY <1>1, <2>1, <2>2, <2>3, <2>4, <2>5, <2>6 DEF Left
<1> USE <1>1, AbsentAssumption DEF TurnShape, InTurn, Actors, At, Goes, Commits, Announces,
           Left, FromHere, Further, Rounds, FromResumer, FromCancel, Owed, Terminal, Past
<1>5. CASE SaveMessage
      BY <1>5 DEF SaveMessage
<1>6. CASE CreateTask
      BY <1>6 DEF CreateTask
<1>7. CASE StartTurn
      BY <1>7 DEF StartTurn
<1>8. CASE BeginAttempt
      BY <1>8 DEF BeginAttempt
<1>9. CASE PlanningFails
      BY <1>9 DEF PlanningFails
<1>10. CASE PlanOnly
      BY <1>10 DEF PlanOnly
<1>11. CASE Admit
      BY <1>11 DEF Admit
<1>12. CASE Replan
      BY <1>12 DEF Replan
<1>13. CASE GiveUp
      BY <1>13 DEF GiveUp
<1>14. CASE Step
      BY <1>14 DEF Step
<1>15. CASE Pause
      BY <1>15 DEF Pause
<1>16. CASE StopCancelled
      BY <1>16 DEF StopCancelled
<1>17. CASE Judge
      BY <1>17 DEF Judge
<1>18. CASE SettleTask("completed")
      BY <1>18 DEF SettleTask
<1>19. CASE SettleTask("failed")
      BY <1>19 DEF SettleTask
<1>20. CASE ReadAnswer
      BY <1>20 DEF ReadAnswer
<1>21. CASE WriteReply
      BY <1>21 DEF WriteReply
<1>22. CASE DecidePause
      BY <1>22 DEF DecidePause
<1>23. CASE ResumedStops
      BY <1>23 DEF ResumedStops
<1>24. CASE ResumedJudge
      BY <1>24 DEF ResumedJudge
<1>25. CASE ResumedSettle("completed")
      BY <1>25 DEF ResumedSettle
<1>26. CASE ResumedSettle("failed")
      BY <1>26 DEF ResumedSettle
<1> QED
    BY <1>2, <1>3, <1>4, <1>5, <1>6, <1>7, <1>8, <1>9, <1>10, <1>11, <1>12, <1>13, <1>14, <1>15, <1>16, <1>17, <1>18, <1>19, <1>20, <1>21, <1>22, <1>23, <1>24, <1>25, <1>26 DEF Sending, Driving, Replying, Resuming

(* An event goes from the owed to the queues.                              *)
LEMMA PublishDrawsOnLeft ==
  ASSUME TurnInv, RoomInv, StreamInv, NEW actor \in Actors, Publish(actor)
  PROVE  Left' = Left - 1 /\ \A s \in Streams : Len(stream'[s].queue) <= Len(stream[s].queue) + 1
<1>1. /\ unsent \in [Actors -> Statuses \cup {Absent}] /\ unsent[actor] # Absent
      /\ unsent' = [unsent EXCEPT ![actor] = Absent] /\ turn' = turn /\ row' = row /\ resumer' = resumer
      BY DEF Publish, TurnInv, TurnShape
<1>2. FromHere' = FromHere /\ FromResumer' = FromResumer /\ FromCancel' = FromCancel
      BY <1>1 DEF FromHere, Rounds, FromResumer, FromCancel
<1>3. FromHere \in Nat /\ FromResumer \in Nat /\ FromCancel \in Nat /\ \A a : Owed(a) \in Nat
      BY LeftIsNumber
<1>4. Owed(actor) = 1 /\ Owed(actor)' = 0 /\ \A a \in Actors \ {actor} : Owed(a)' = Owed(a)
      BY <1>1 DEF Owed
<1>5. Left' = Left - 1
      BY <1>2, <1>3, <1>4 DEF Left, Actors
<1>6. ASSUME NEW s \in Streams PROVE Len(stream'[s].queue) <= Len(stream[s].queue) + 1
  <2>1. stream[s] \in Watchers /\ stream[s].queue \in Seq(Statuses) /\ unsent[actor] \in Statuses
        BY <1>1 DEF StreamInv, Watchers
  <2>2. \/ stream'[s] = stream[s]
        \/ stream'[s] = [stream[s] EXCEPT !.queue = Append(@, unsent[actor])]
        BY <1>6 DEF Publish
  <2>3. \/ stream'[s].queue = stream[s].queue
        \/ stream'[s].queue = Append(stream[s].queue, unsent[actor])
        BY <2>1, <2>2 DEF Watchers
  <2>4. /\ Len(stream[s].queue) \in Nat
        /\ Len(Append(stream[s].queue, unsent[actor])) = Len(stream[s].queue) + 1
        BY <2>1
  <2> QED
      BY <2>3, <2>4
<1> QED
    BY <1>5, <1>6

(* A client's queue gets no longer by what its own stream does.            *)
LEMMA StreamsOnlyRead ==
  ASSUME StreamInv, NEW s \in Streams, Subscribe(s) \/ Streaming(s) \/ Disconnect(s)
  PROVE  \A t \in Streams : Len(stream'[t].queue) <= Len(stream[t].queue)
<1>1. stream \in [Streams -> Watchers] /\ stream[s] \in Watchers /\ stream[s].queue \in Seq(Statuses)
      /\ \A t \in Streams : Len(stream[t].queue) \in Nat
      BY DEF StreamInv, Watchers
<1>2. PICK new : stream' = [stream EXCEPT ![s] = new] /\ Len(new.queue) <= Len(stream[s].queue)
  <2>1. CASE Subscribe(s)
    <3> DEFINE new == [stream[s] EXCEPT !.at = "subscribed"]
    <3>1. stream' = [stream EXCEPT ![s] = new]
          BY <2>1, Zenon DEF Subscribe
    <3>2. new.queue = stream[s].queue
          BY <1>1 DEF Watchers
    <3>3. Len(new.queue) <= Len(stream[s].queue)
          BY <1>1, <3>2
    <3> HIDE DEF new
    <3> QED
        BY <3>1, <3>3
  <2>2. CASE Disconnect(s)
    <3> DEFINE new == Gone("left")
    <3>1. stream' = [stream EXCEPT ![s] = new]
          BY <2>2, Zenon DEF Disconnect
    <3>2. new.queue = <<>> /\ Len(<<>>) = 0
          BY DEF Gone
    <3>3. Len(new.queue) <= Len(stream[s].queue)
          BY <1>1, <3>2
    <3> HIDE DEF new
    <3> QED
        BY <3>1, <3>3
  <2>3. ASSUME NEW snapshot, NEW rest \in Seq(Statuses), Len(rest) <= Len(stream[s].queue), Sends(s, snapshot, rest)
        PROVE  \E new : stream' = [stream EXCEPT ![s] = new] /\ Len(new.queue) <= Len(stream[s].queue)
    <3> DEFINE new == IF snapshot \in Terminal THEN Gone("closed")
                      ELSE [at |-> "open", queue |-> rest, sent |-> snapshot]
    <3>1. stream' = [stream EXCEPT ![s] = new]
          BY <2>3 DEF Sends
    <3>2. Len(new.queue) <= Len(stream[s].queue)
          BY <1>1, <2>3 DEF Gone
    <3> HIDE DEF new
    <3> QED
        BY <3>1, <3>2
  <2>4. CASE SendRow(s)
        BY <1>1, <2>3, <2>4 DEF SendRow
  <2>5. CASE Forward(s)
    <3>1. Tail(stream[s].queue) \in Seq(Statuses) /\ Len(Tail(stream[s].queue)) <= Len(stream[s].queue)
          BY <1>1, <2>5 DEF Forward
    <3> QED
        BY <2>3, <2>5, <3>1 DEF Forward
  <2> QED
      BY <2>1, <2>2, <2>4, <2>5 DEF Streaming
<1> QED
    BY <1>1, <1>2

(* With queues that hold as much as a turn can publish, none gets full.    *)
LEMMA RoomIsEnough ==
  ASSUME TurnInv, RoomInv, StreamInv, QueueSize > Most
  PROVE  NoneFull
<1>1. Left \in Nat /\ Most \in Nat /\ QueueSize \in Nat
      BY LeftIsNumber, SizesAssumption
<1>2. ASSUME NEW s \in Streams PROVE Len(stream[s].queue) < QueueSize
  <2>1. stream[s].queue \in Seq(Statuses) /\ Len(stream[s].queue) \in Nat
        BY DEF StreamInv, Watchers
  <2>2. Len(stream[s].queue) + Left <= Most
        BY DEF RoomInv
  <2> QED
      BY <1>1, <2>1, <2>2
<1> QED
    BY <1>2 DEF NoneFull

(* Every step leaves that room.                                            *)
LEMMA RoomNextKeeps ==
  ASSUME TurnInv, RoomInv, StreamInv, TurnInv', StreamInv', [TurnNext]_turnVars
  PROVE  RoomInv'
<1>1. /\ Left \in Nat /\ Most \in Nat /\ Left <= Most /\ Most' = Most
      /\ \A s \in Streams : Len(stream[s].queue) \in Nat /\ Len(stream[s].queue) + Left <= Most
      BY LeftIsNumber DEF RoomInv, Most, StreamInv, Watchers
<1>2. \A s \in Streams : Len(stream'[s].queue) \in Nat
      BY DEF StreamInv, Watchers
<1>3. /\ turn.attempts <= MaxReplan + 1
      /\ turn.at \in {"unsent", "saved", "created", "driving"} => turn.attempts <= MaxReplan
      BY DEF RoomInv
<1>4. CASE Sending \/ SendRaises \/ Driving \/ DriveRaises \/ Replying \/ DecidePause \/ Resuming \/ Cancel
  <2>1. /\ Left' <= Left /\ turn'.attempts <= MaxReplan + 1
        /\ turn'.at \in {"unsent", "saved", "created", "driving"} => turn'.attempts <= MaxReplan
        BY <1>4, WorkDrawsOnLeft
  <2>2. stream' = stream
        BY <1>4, AllIsAnnounced
  <2>3. Left' \in Int
    <3>1. FromHere' \in Int /\ FromResumer' \in Int /\ FromCancel' \in Int /\ \A a : Owed(a)' \in Int
      <4>1. turn'.attempts \in Nat /\ MaxReplan \in Nat
            BY SizesAssumption DEF TurnInv, TurnShape
      <4> QED
          BY <4>1 DEF FromHere, Further, Rounds, FromResumer, FromCancel, Owed
    <3> QED
        BY <3>1 DEF Left
  <2>4. Left' <= Most /\ \A s \in Streams : Len(stream'[s].queue) + Left' <= Most
        BY <1>1, <2>1, <2>2, <2>3
  <2> QED
      BY <1>1, <2>1, <2>4 DEF RoomInv
<1>5. ASSUME NEW a \in Actors, Publish(a) PROVE RoomInv'
  <2>1. Left' = Left - 1 /\ \A s \in Streams : Len(stream'[s].queue) <= Len(stream[s].queue) + 1
        BY <1>5, PublishDrawsOnLeft
  <2>2. turn' = turn
        BY <1>5 DEF Publish
  <2>3. Left' <= Most /\ \A s \in Streams : Len(stream'[s].queue) + Left' <= Most
        BY <1>1, <1>2, <2>1
  <2> QED
      BY <1>1, <1>3, <2>2, <2>3 DEF RoomInv
<1>6. ASSUME UNCHANGED <<turn, row, resumer, unsent>>,
             \A s \in Streams : Len(stream'[s].queue) <= Len(stream[s].queue)
      PROVE  RoomInv'
  <2>1. Left' = Left
        BY <1>6 DEF Left, FromHere, Rounds, FromResumer, FromCancel, Owed
  <2>2. Left' <= Most /\ \A s \in Streams : Len(stream'[s].queue) + Left' <= Most
        BY <1>1, <1>2, <1>6, <2>1
  <2> QED
      BY <1>1, <1>3, <1>6, <2>2 DEF RoomInv
<1>7. ASSUME NEW s \in Streams, Subscribe(s) \/ Streaming(s) \/ Disconnect(s) PROVE RoomInv'
  <2>1. \A t \in Streams : Len(stream'[t].queue) <= Len(stream[t].queue)
        BY <1>7, StreamsOnlyRead
  <2>2. UNCHANGED <<turn, row, resumer, unsent>>
        BY <1>7 DEF Subscribe, Streaming, SendRow, Forward, Disconnect
  <2> QED
      BY <1>6, <2>1, <2>2
<1>8. CASE UNCHANGED turnVars
  <2>1. UNCHANGED <<turn, row, resumer, unsent>> /\ stream' = stream
        BY <1>8 DEF turnVars
  <2> QED
      BY <1>1, <1>6, <2>1
<1>9. CASE Crash
  <2>1. /\ turn'.at = "lost" /\ turn'.attempts = 0 /\ row' = row
        /\ resumer' = (IF resumer = "none" THEN "none" ELSE "ended")
        /\ \A a \in Actors : unsent'[a] = Absent
        BY <1>9 DEF Crash
  <2>2. FromHere' = 0 /\ FromResumer' <= FromResumer /\ FromResumer' \in Nat /\ FromCancel' = FromCancel
        /\ \A a \in Actors : Owed(a)' = 0
        BY <2>1 DEF FromHere, FromResumer, FromCancel, Owed, Past
  <2>3. FromHere \in Nat /\ FromResumer \in Nat /\ FromCancel \in Nat /\ \A a : Owed(a) \in Nat
        BY LeftIsNumber
  <2>4. Left' <= Left /\ Left' \in Nat
        BY <2>2, <2>3 DEF Left, Actors
  <2>5. ASSUME NEW s \in Streams PROVE Len(stream'[s].queue) <= Len(stream[s].queue)
    <3>1. stream'[s] = stream[s] \/ stream'[s] = Gone("left")
          BY <1>9 DEF Crash
    <3>2. Gone("left").queue = <<>> /\ Len(<<>>) = 0
          BY DEF Gone
    <3> QED
        BY <1>1, <3>1, <3>2
  <2>6. Left' <= Most /\ \A s \in Streams : Len(stream'[s].queue) + Left' <= Most
        BY <1>1, <1>2, <2>4, <2>5
  <2>7. turn'.attempts <= MaxReplan + 1
        BY <2>1, SizesAssumption
  <2> QED
      BY <1>1, <2>1, <2>6, <2>7 DEF RoomInv
<1> QED
    BY <1>4, <1>5, <1>7, <1>8, <1>9 DEF TurnNext

(* A turn of one step per attempt publishes at most Most events, so with   *)
(* longer queues nothing is dropped, and waiting streams are current       *)
(* without further assumption.                                             *)
THEOREM LongQueuesSuffice ==
  ASSUME QueueSize > Most
  PROVE  TurnSpec => []NoneFull /\ []WaitingIsCurrent
<1>1. TurnInit => TurnInv /\ StreamInv
      BY ConversationInit
<1>2. TurnInit => RoomInv
  <2>1. SUFFICES ASSUME TurnInit PROVE RoomInv
        OBVIOUS
  <2>2. /\ turn.at = "unsent" /\ turn.attempts = 0 /\ row = Absent /\ resumer = "none"
        /\ \A a \in Actors : unsent[a] = Absent
        /\ \A s \in Streams : Len(stream[s].queue) = 0
        BY <2>1 DEF TurnInit
  <2>3. MaxReplan \in Nat
        BY SizesAssumption
  <2>4. FromHere = 6 * (MaxReplan + 1) + 2 /\ FromResumer = 2 /\ FromCancel = 0 /\ \A a \in Actors : Owed(a) = 0
        BY <2>2, <2>3 DEF FromHere, Further, Past, Rounds, FromResumer, FromCancel, Owed
  <2>5. Left = Most /\ Left \in Nat
        BY <2>3, <2>4 DEF Left, Most, Actors
  <2> QED
      BY <2>2, <2>3, <2>5 DEF RoomInv
<1>3. TurnInv /\ RoomInv /\ StreamInv => NoneFull
      BY RoomIsEnough
<1>4. TurnInv /\ RoomInv /\ StreamInv /\ [TurnNext]_turnVars => TurnInv' /\ StreamInv' /\ RoomInv'
      BY <1>3, TurnNextKeeps, StreamNextKeeps, RoomNextKeeps
<1> QED
    BY <1>1, <1>2, <1>3, <1>4, WaitingStreamsAreCurrent, PTL DEF TurnSpec
==============================================================================
