------------------------------ MODULE Superstep ------------------------------
(***************************************************************************)
(* The step nodes LangGraph runs concurrently in one superstep, at the     *)
(* grain of their awaits: what they share is the task row, through         *)
(* sessions that load it and later commit (_update_checklist and           *)
(* _await_approval), and the task's context, through the tool-result cache *)
(* and the futures of the calls in flight (run_step, _settle_in_flight).   *)
(*                                                                         *)
(* No statement locks the row, so two sessions can load the same checklist *)
(* before either commits; a commit writes the whole JSON column, and only  *)
(* if the session changed it.                                              *)
(***************************************************************************)
EXTENDS Naturals, FiniteSets

CONSTANTS
  Nodes,       \* the indices of the superstep's steps
  Keys,        \* the distinct read-only calls (cache keys)
  Mutating,    \* what stands in for the call of a mutating step
  NoNode,      \* no node
  Mixes,       \* the supersteps considered: what each node calls
  MaxRaises    \* bound: how many nodes a raising session ends

ASSUME NodesAssumption == Nodes \subseteq Nat /\ IsFiniteSet(Nodes)
ASSUME NoNodeAssumption == NoNode \notin Nodes
ASSUME KeysAssumption == Mutating \notin Keys
ASSUME MixesAssumption == Mixes \subseteq [Nodes -> Keys \cup {Mutating}]
ASSUME RaisesAssumption == MaxRaises \in Nat

VARIABLES
  call,        \* what each node calls
  pc,          \* where each node stands
  todo,        \* the checklist update a node is making, and what follows it
  seen,        \* the checklist its session loaded
  checklist,   \* tasks.checklist
  rowStatus,   \* tasks.status
  record,      \* the ApprovalRecord of a mutating step
  cache,       \* context.tool_cache: keys that have a result
  inFlight,    \* context.in_flight: the node whose future a key maps to
  future,      \* the state of the future a node registered
  joined,      \* the node whose future this one awaits
  decision,    \* what interrupt() will return to a node
  phase,       \* "running", "paused" or "closed"
  calls,       \* history: successful skill.run calls per read-only key
  wrote,       \* history: the last status a node committed for itself
  raised       \* history: the nodes that let a session's error escape

rowVars == <<checklist, rowStatus, record>>
callVars == <<cache, inFlight, future, joined, calls>>
vars == <<call, pc, todo, seen, rowVars, callVars, decision, phase, wrote, raised>>

None == "none"

ReadOnly(i) == call[i] # Mutating

Init ==
  /\ call \in Mixes
  /\ pc = [i \in Nodes |-> "start"]
  /\ todo = [i \in Nodes |-> [status |-> None, then |-> None]]
  /\ seen = [i \in Nodes |-> [j \in Nodes |-> "pending"]]
  /\ checklist = [i \in Nodes |-> "pending"]
  /\ rowStatus = "running"
  /\ record = [i \in Nodes |-> None]
  /\ cache = {}
  /\ inFlight = [k \in Keys |-> NoNode]
  /\ future = [i \in Nodes |-> None]
  /\ joined = [i \in Nodes |-> NoNode]
  /\ decision = [i \in Nodes |-> None]
  /\ phase = "running"
  /\ calls = [k \in Keys |-> 0]
  /\ wrote = [i \in Nodes |-> "pending"]
  /\ raised = {}

------------------------------------------------------------------------------
(* A checklist update: a session loads the row, changes item i and         *)
(* commits.  _await_approval's session also marks the row paused.          *)

StartUpdate(i, s, then) ==
  /\ pc' = [pc EXCEPT ![i] = "load"]
  /\ todo' = [todo EXCEPT ![i] = [status |-> s, then |-> then]]

Load(i) ==
  /\ pc[i] = "load"
  /\ seen' = [seen EXCEPT ![i] = checklist]
  /\ pc' = [pc EXCEPT ![i] = "commit"]
  /\ UNCHANGED <<call, todo, rowVars, callVars, decision, phase, wrote, raised>>

MergedChecklist(i) ==
  IF seen[i][i] = todo[i].status THEN checklist
  ELSE [seen[i] EXCEPT ![i] = todo[i].status]

Commit(i) ==
  /\ pc[i] = "commit"
  /\ checklist' = MergedChecklist(i)
  /\ wrote' = [wrote EXCEPT ![i] = todo[i].status]
  /\ IF todo[i].status = "awaiting_approval"
     THEN /\ rowStatus' = "awaiting_approval"
          /\ record' = [record EXCEPT ![i] = IF @ = None THEN "pending" ELSE @]
     ELSE UNCHANGED <<rowStatus, record>>
  /\ pc' = [pc EXCEPT ![i] = todo[i].then]
  /\ UNCHANGED <<call, todo, seen, callVars, decision, phase, raised>>

(* A session raises - a checklist update, _await_approval's, or the one    *)
(* that checks an approval's binding: the node wrapper returns a failed    *)
(* step, whatever the node had registered or shown.                        *)
Raise(i) ==
  /\ pc[i] \in {"load", "commit", "interrupt"} /\ Cardinality(raised) < MaxRaises
  /\ raised' = raised \cup {i}
  /\ pc' = [pc EXCEPT ![i] = "returned"]
  /\ UNCHANGED <<call, todo, seen, rowVars, callVars, decision, phase, wrote>>

------------------------------------------------------------------------------
(* Read-only calls: the cache, the future to join, or leading the call.    *)
(* Nothing is awaited between the lookup and the registration.             *)

Hit(i) ==
  /\ pc[i] = "start" /\ ReadOnly(i) /\ call[i] \in cache
  /\ StartUpdate(i, "completed", "returned")
  /\ UNCHANGED <<call, seen, rowVars, callVars, decision, phase, wrote, raised>>

Join(i) ==
  /\ pc[i] = "start" /\ ReadOnly(i)
  /\ call[i] \notin cache /\ inFlight[call[i]] # NoNode
  /\ joined' = [joined EXCEPT ![i] = inFlight[call[i]]]
  /\ pc' = [pc EXCEPT ![i] = "joined"]
  /\ UNCHANGED <<call, todo, seen, rowVars, cache, inFlight, future, calls,
                 decision, phase, wrote, raised>>

(* A mutant: a call in flight is not looked up.                            *)
Lead_Again(i) ==
  /\ pc[i] = "start" /\ ReadOnly(i)
  /\ call[i] \notin cache
  /\ inFlight' = [inFlight EXCEPT ![call[i]] = i]
  /\ future' = [future EXCEPT ![i] = "pending"]
  /\ StartUpdate(i, "in_progress", "calling")
  /\ UNCHANGED <<call, seen, rowVars, cache, joined, calls, decision, phase, wrote, raised>>

Lead(i) ==
  /\ pc[i] = "start" /\ ReadOnly(i)
  /\ call[i] \notin cache /\ inFlight[call[i]] = NoNode
  /\ inFlight' = [inFlight EXCEPT ![call[i]] = i]
  /\ future' = [future EXCEPT ![i] = "pending"]
  /\ StartUpdate(i, "in_progress", "calling")
  /\ UNCHANGED <<call, seen, rowVars, cache, joined, calls, decision, phase, wrote, raised>>

(* A mutant: only a result resolves the future.                            *)
SettleInFlight_ResultOnly(i, outcome) ==
  /\ inFlight' = [inFlight EXCEPT ![call[i]] = NoNode]
  /\ future' = [future EXCEPT ![i] = IF outcome = "result" THEN outcome ELSE @]

(* _settle_in_flight: the future is popped and resolved.                   *)
SettleInFlight(i, outcome) ==
  /\ inFlight' = [inFlight EXCEPT ![call[i]] = NoNode]
  /\ future' = [future EXCEPT ![i] = outcome]

Succeed(i) ==
  /\ pc[i] = "calling"
  /\ IF ReadOnly(i)
     THEN /\ cache' = cache \cup {call[i]}
          /\ SettleInFlight(i, "result")
          /\ calls' = [calls EXCEPT ![call[i]] = @ + 1]
     ELSE UNCHANGED <<cache, inFlight, future, calls>>
  /\ StartUpdate(i, "completed", "returned")
  /\ UNCHANGED <<call, seen, rowVars, joined, decision, phase, wrote, raised>>

Fail(i) ==
  /\ pc[i] = "calling"
  /\ IF ReadOnly(i) THEN SettleInFlight(i, "error") ELSE UNCHANGED <<inFlight, future>>
  /\ StartUpdate(i, "failed", "returned")
  /\ UNCHANGED <<call, seen, rowVars, cache, joined, calls, decision, phase, wrote, raised>>

(* The awaited future resolves.                                            *)
Share(i) ==
  /\ pc[i] = "joined" /\ future[joined[i]] # "pending"
  /\ StartUpdate(i, IF future[joined[i]] = "result" THEN "completed" ELSE "failed",
                 "returned")
  /\ UNCHANGED <<call, seen, rowVars, callVars, decision, phase, wrote, raised>>

------------------------------------------------------------------------------
(* Mutating calls: _await_approval runs again on every replay.             *)

(* (The mutant asks only once.)                                            *)
AskApproval_Once(i) ==
  /\ pc[i] = "start" /\ ~ReadOnly(i)
  /\ IF record[i] = None THEN StartUpdate(i, "awaiting_approval", "interrupt")
     ELSE pc' = [pc EXCEPT ![i] = "interrupt"] /\ UNCHANGED todo
  /\ UNCHANGED <<call, seen, rowVars, callVars, decision, phase, wrote, raised>>

AskApproval(i) ==
  /\ pc[i] = "start" /\ ~ReadOnly(i)
  /\ StartUpdate(i, "awaiting_approval", "interrupt")
  /\ UNCHANGED <<call, seen, rowVars, callVars, decision, phase, wrote, raised>>

Interrupt(i) ==
  /\ pc[i] = "interrupt"
  /\ \/ /\ decision[i] = None
        /\ pc' = [pc EXCEPT ![i] = "parked"]
        /\ UNCHANGED todo
     \/ /\ decision[i] = "yes"
        /\ StartUpdate(i, "in_progress", "calling")
     \/ /\ decision[i] = "no"
        /\ StartUpdate(i, "skipped", "returned")
  /\ UNCHANGED <<call, seen, rowVars, callVars, decision, phase, wrote, raised>>

Parked == {i \in Nodes : pc[i] = "parked"}
AtRest == \A i \in Nodes : pc[i] \in {"returned", "parked"}

(* ainvoke returns when every node of the superstep has returned or        *)
(* interrupted.                                                            *)
EndSuperstep ==
  /\ phase = "running" /\ AtRest
  /\ phase' = IF Parked = {} THEN "closed" ELSE "paused"
  /\ UNCHANGED <<call, pc, todo, seen, rowVars, callVars, decision, wrote, raised>>

(* _paused_index: the first item that awaits approval, else step 0.        *)
Awaiting == {i \in Nodes : checklist[i] = "awaiting_approval"}
PausedIndex ==
  LET least(S) == CHOOSE i \in S : \A j \in S : i <= j
  IN  IF Awaiting = {} THEN least(Nodes) ELSE least(Awaiting)

(* resume_after_approval: the decision goes to the paused step's interrupt *)
(* if several are pending, to the only one otherwise.  The parked nodes    *)
(* all run again.                                                          *)
Decide(approved) ==
  LET k == PausedIndex
      answer == IF approved THEN "yes" ELSE "no"
      target == IF Cardinality(Parked) > 1 THEN {k} \cap Parked ELSE Parked
  IN
  /\ phase = "paused" /\ rowStatus = "awaiting_approval"
  /\ record[k] # None                       \* else decide_approval raises
  /\ target # {}                            \* else LangGraph refuses the resume
  /\ record' = [record EXCEPT ![k] =
                  IF @ = "pending" THEN IF approved THEN "approved" ELSE "rejected" ELSE @]
  /\ decision' = [i \in Nodes |-> IF i \in target THEN answer ELSE None]
  /\ pc' = [i \in Nodes |-> IF i \in Parked THEN "start" ELSE pc[i]]
  /\ rowStatus' = "running" /\ phase' = "running"
  /\ UNCHANGED <<call, todo, seen, checklist, callVars, wrote, raised>>

------------------------------------------------------------------------------

NodeNext(i) ==
  \/ Load(i) \/ Commit(i) \/ Hit(i) \/ Join(i) \/ Lead(i)
  \/ Succeed(i) \/ Fail(i) \/ Share(i) \/ AskApproval(i) \/ Interrupt(i)

Next ==
  \/ \E i \in Nodes : NodeNext(i) \/ Raise(i)
  \/ EndSuperstep
  \/ \E approved \in BOOLEAN : Decide(approved)

(* The event loop keeps running every node that can run, and calls end.    *)
Fairness == WF_vars(EndSuperstep) /\ \A i \in Nodes : WF_vars(NodeNext(i))

Spec == Init /\ [][Next]_vars
FairSpec == Spec /\ Fairness

------------------------------------------------------------------------------

ItemStatus == {"pending", "awaiting_approval", "in_progress", "completed", "failed",
               "skipped"}
NodePc == {"start", "load", "commit", "joined", "calling", "interrupt", "parked",
           "returned"}

(* Shape of the state.                                                     *)
TypeOK ==
  /\ call \in Mixes
  /\ pc \in [Nodes -> NodePc]
  /\ todo \in [Nodes -> [status : ItemStatus \cup {None}, then : NodePc \cup {None}]]
  /\ seen \in [Nodes -> [Nodes -> ItemStatus]]
  /\ checklist \in [Nodes -> ItemStatus]
  /\ rowStatus \in {"running", "awaiting_approval"}
  /\ record \in [Nodes -> {None, "pending", "approved", "rejected"}]
  /\ cache \in SUBSET Keys
  /\ inFlight \in [Keys -> Nodes \cup {NoNode}]
  /\ future \in [Nodes -> {None, "pending", "result", "error"}]
  /\ joined \in [Nodes -> Nodes \cup {NoNode}]
  /\ decision \in [Nodes -> {None, "yes", "no"}]
  /\ phase \in {"running", "paused", "closed"}
  /\ calls \in [Keys -> Nat]
  /\ wrote \in [Nodes -> ItemStatus]
  /\ raised \in SUBSET Nodes

(* A node that joined a call ends as that call did: it reports completed   *)
(* only if the leader's future carries a result.                           *)
JoinersAgree ==
  \A i \in Nodes :
    joined[i] # NoNode /\ wrote[i] \in {"completed", "failed"} =>
      future[joined[i]] = (IF wrote[i] = "completed" THEN "result" ELSE "error")

(* Deduplication: an identical read-only call is never made by two nodes   *)
(* at once, and never again after it succeeded, however the lookups, the   *)
(* joins and the failures of the leader interleave; and whoever joined it  *)
(* ends as it did.                                                         *)
SingleFlight ==
  /\ \A k \in Keys :
       /\ Cardinality({i \in Nodes : pc[i] = "calling" /\ call[i] = k}) <= 1
       /\ calls[k] <= 1
  /\ JoinersAgree

(* A paused graph is visible as such: whenever ainvoke has returned an     *)
(* interrupt the row is awaiting_approval, the only status from which      *)
(* resume_after_approval goes on, and every parked step has a record to    *)
(* decide.                                                                 *)
PauseIsVisible ==
  phase = "paused" =>
    rowStatus = "awaiting_approval" /\ \A i \in Parked : record[i] # None

(* Nodes that wait for a call nobody will make: a session of the leader    *)
(* raised after its future was registered.                                 *)
Stranded ==
  {i \in Nodes : pc[i] = "joined" /\ joined[i] \in raised /\ future[joined[i]] = "pending"}

(* Every node returns or interrupts, whichever sessions of itself or of    *)
(* its siblings raise, except those stranded.                              *)
NodesReturn == \A i \in Nodes : []<>(pc[i] \in {"returned", "parked"} \/ i \in Stranded)

(* _settle_in_flight: "Always called on both the success and failure       *)
(* paths: a future left unresolved would hang every concurrent step        *)
(* waiting on the same call".                                              *)
(* (The code does not: README, "Known disagreements".)                     *)
JoinersReturn == \A i \in Nodes : pc[i] = "joined" ~> pc[i] # "joined"

(* _update_checklist: "two nodes finishing together must not overwrite     *)
(* each other's checklist update, and re-reading inside the transaction is *)
(* what prevents that".                                                    *)
(* (The code does not: README, "Known disagreements".)                     *)
NoLostUpdate == AtRest => checklist = wrote

==============================================================================
