------------------------- MODULE ScheduleRunnerProofs -------------------------
(***************************************************************************)
(* For any number of processes, schedules, crashes, edits and failures: a  *)
(* slot has at most one run row, a launched task keeps its claim unless    *)
(* its poll is rolled back, every committed failure is filed, once, and    *)
(* overlap policies hold while polls do not overlap.                       *)
(*                                                                         *)
(* The invariant adds that a poll that launches a task holds its slot, for *)
(* otherwise recording the end of the launch could claim a slot anew, and  *)
(* that an idle worker claims nothing, for otherwise a new poll could drop *)
(* a claim.  What stays due is taken up at the end: a poll covers every    *)
(* row that was due when it began, and decides on none for its own past.   *)
(***************************************************************************)
EXTENDS ScheduleRunner, WellFoundedInduction, TLAPS

Fields == {"pc", "now", "todo", "at", "slots", "claims", "writes", "dirty", "locks"}

PollsAreRecords == DOMAIN poll = Workers /\ \A w \in Workers : DOMAIN poll[w] = Fields
LaunchingHolds == \A w \in Workers : At(w, "launch") => Holds(w, Key(w))
IdleHoldsNothing == \A w \in Workers : At(w, "idle") => poll[w].claims = {}

IInv ==
  /\ PollsAreRecords /\ LaunchingHolds /\ IdleHoldsNothing
  /\ SlotHeldOnce /\ LaunchedIsClaimed

(* Nothing is claimed or launched at the start.                            *)
LEMMA InitIInv == Init => IInv
<1> SUFFICES ASSUME Init PROVE IInv
  OBVIOUS
<1>1. \A w \in Workers : poll[w] = NoPoll
  BY DEF Init
<1>2. NoPoll.pc = "idle" /\ NoPoll.claims = {} /\ DOMAIN NoPoll = Fields
  BY DEF NoPoll, Fields
<1>3. PollsAreRecords
  BY <1>1, <1>2 DEF PollsAreRecords, Init
<1>4. LaunchingHolds /\ IdleHoldsNothing
  BY <1>1, <1>2 DEF LaunchingHolds, IdleHoldsNothing, At
<1>5. SlotHeldOnce /\ LaunchedIsClaimed
  BY <1>1, <1>2 DEF SlotHeldOnce, LaunchedIsClaimed, Init
<1> QED
  BY <1>3, <1>4, <1>5 DEF IInv

(* A step of one worker that leaves the claims alone and does not launch   *)
(* (the record, slot and end-of-record steps of poll_once).                *)
LEMMA QuietStep ==
  ASSUME IInv, NEW w \in Workers, NEW q, DOMAIN q = Fields,
         q.claims = poll[w].claims, q.pc \notin {"idle", "launch"},
         Set(w, q), UNCHANGED <<runs, launched, lost>>
  PROVE  IInv'
<1>1. poll'[w] = q /\ (\A v \in Workers \ {w} : poll'[v] = poll[v]) /\ DOMAIN poll' = Workers
  BY DEF IInv, PollsAreRecords, Set
<1>2. \A v \in Workers : poll'[v].claims = poll[v].claims
  BY <1>1
<1>3. PollsAreRecords'
  BY <1>1 DEF IInv, PollsAreRecords
<1>4. LaunchingHolds'
  <2> SUFFICES ASSUME NEW v \in Workers, At(v, "launch")' PROVE Holds(v, Key(v))'
    BY DEF LaunchingHolds
  <2>1. v # w /\ poll'[v] = poll[v]
    BY <1>1 DEF At
  <2>2. At(v, "launch") /\ Key(v)' = Key(v)
    BY <2>1 DEF At, Key, Taken, Slot
  <2> QED
    BY <2>1, <2>2 DEF IInv, LaunchingHolds, Holds
<1>5. IdleHoldsNothing'
  BY <1>1 DEF IInv, IdleHoldsNothing, At
<1>6. SlotHeldOnce'
  BY <1>2 DEF IInv, SlotHeldOnce, Holds, Recorded
<1>7. LaunchedIsClaimed'
  BY <1>2 DEF IInv, LaunchedIsClaimed, Holds, Recorded
<1> QED
  BY <1>3, <1>4, <1>5, <1>6, <1>7 DEF IInv

(* The end of a launch rewrites the status of the slot's own run.          *)
LEMMA BecomeStep ==
  ASSUME IInv, NEW w \in Workers, NEW key, Holds(w, key), NEW status, NEW q,
         DOMAIN q = Fields, q.pc \notin {"idle", "launch"},
         q.claims = {r \in poll[w].claims : r.key # key} \cup {[key |-> key, status |-> status]},
         Set(w, q), UNCHANGED <<runs, launched, lost>>
  PROVE  IInv'
<1>1. poll'[w] = q /\ (\A v \in Workers \ {w} : poll'[v] = poll[v]) /\ DOMAIN poll' = Workers
  BY DEF IInv, PollsAreRecords, Set
<1>2. \A v \in Workers : \A k : Holds(v, k)' <=> Holds(v, k)
  <2> SUFFICES ASSUME NEW v \in Workers, NEW k PROVE Holds(v, k)' <=> Holds(v, k)
    OBVIOUS
  <2>1. CASE v # w
    BY <1>1, <2>1 DEF Holds
  <2>2. CASE v = w /\ k = key
    <3>1. [key |-> key, status |-> status] \in poll'[w].claims
      BY <1>1
    <3> QED
      BY <3>1, <2>2 DEF Holds
  <2>3. CASE v = w /\ k # key
    <3>1. poll'[w].claims = {r \in poll[w].claims : r.key # key}
                              \cup {[key |-> key, status |-> status]}
      BY <1>1
    <3> QED
      BY <3>1, <2>3 DEF Holds
  <2> QED
    BY <2>1, <2>2, <2>3
<1>3. PollsAreRecords'
  BY <1>1 DEF IInv, PollsAreRecords
<1>4. LaunchingHolds'
  <2> SUFFICES ASSUME NEW v \in Workers, At(v, "launch")' PROVE Holds(v, Key(v))'
    BY DEF LaunchingHolds
  <2>1. v # w /\ poll'[v] = poll[v]
    BY <1>1 DEF At
  <2>2. At(v, "launch") /\ Key(v)' = Key(v)
    BY <2>1 DEF At, Key, Taken, Slot
  <2> QED
    BY <2>1, <2>2 DEF IInv, LaunchingHolds, Holds
<1>5. IdleHoldsNothing'
  BY <1>1 DEF IInv, IdleHoldsNothing, At
<1>6. SlotHeldOnce'
  <2>1. (\A x, y \in runs : x.key = y.key => x = y)'
    BY DEF IInv, SlotHeldOnce
  <2>2. ASSUME NEW v \in Workers, NEW r \in poll'[v].claims
        PROVE  /\ ~Recorded(r.key)'
               /\ \A u \in Workers : Holds(u, r.key)' => u = v
               /\ \A x \in poll'[v].claims : x.key = r.key => x = r
    <3>1. Holds(v, r.key)' /\ Holds(v, r.key)
      BY <1>2, <2>2 DEF Holds
    <3>2. ~Recorded(r.key) /\ \A u \in Workers : Holds(u, r.key) => u = v
      BY <3>1 DEF IInv, SlotHeldOnce, Holds
    <3>3. ~Recorded(r.key)' /\ \A u \in Workers : Holds(u, r.key)' => u = v
      BY <3>2, <1>2 DEF Recorded
    <3>4. CASE v # w
      BY <1>1, <3>3, <3>4, <2>2 DEF IInv, SlotHeldOnce
    <3>5. CASE v = w /\ r.key = key
      BY <1>1, <3>3, <3>5, <2>2
    <3>6. CASE v = w /\ r.key # key
      BY <1>1, <3>3, <3>6, <2>2 DEF IInv, SlotHeldOnce
    <3> QED
      BY <3>4, <3>5, <3>6
  <2> QED
    BY <2>1, <2>2 DEF SlotHeldOnce
<1>7. LaunchedIsClaimed'
  BY <1>2 DEF IInv, LaunchedIsClaimed, Recorded
<1> QED
  BY <1>3, <1>4, <1>5, <1>6, <1>7 DEF IInv

(* A rolled back poll gives up its claims, which its history remembers.    *)
LEMMA RollBackStep ==
  ASSUME IInv, NEW w \in Workers, RollBack(w)
  PROVE  IInv'
<1>1. /\ poll'[w] = NoPoll /\ (\A v \in Workers \ {w} : poll'[v] = poll[v])
      /\ DOMAIN poll' = Workers /\ UNCHANGED <<runs, launched>>
  BY DEF IInv, PollsAreRecords, RollBack, Set, tables
<1>2. NoPoll.pc = "idle" /\ NoPoll.claims = {} /\ DOMAIN NoPoll = Fields
  BY DEF NoPoll, Fields
<1>3. PollsAreRecords'
  BY <1>1, <1>2 DEF IInv, PollsAreRecords
<1>4. LaunchingHolds'
  <2> SUFFICES ASSUME NEW v \in Workers, At(v, "launch")' PROVE Holds(v, Key(v))'
    BY DEF LaunchingHolds
  <2>1. v # w /\ poll'[v] = poll[v]
    BY <1>1, <1>2 DEF At
  <2>2. At(v, "launch") /\ Key(v)' = Key(v)
    BY <2>1 DEF At, Key, Taken, Slot
  <2> QED
    BY <2>1, <2>2 DEF IInv, LaunchingHolds, Holds
<1>5. IdleHoldsNothing'
  BY <1>1, <1>2 DEF IInv, IdleHoldsNothing, At
<1>6. SlotHeldOnce'
  BY <1>1, <1>2 DEF IInv, SlotHeldOnce, Holds, Recorded
<1>7. LaunchedIsClaimed'
  <2> SUFFICES ASSUME NEW k \in launched \ lost'
               PROVE  Recorded(k)' \/ \E v \in Workers : Holds(v, k)'
    BY <1>1 DEF LaunchedIsClaimed
  <2>1. k \notin lost /\ ~Holds(w, k)
    BY DEF RollBack
  <2> QED
    BY <1>1, <2>1 DEF IInv, LaunchedIsClaimed, Holds, Recorded
<1> QED
  BY <1>3, <1>4, <1>5, <1>6, <1>7 DEF IInv

(* A claim takes a key that no row and no open poll has (_claim_slot).     *)
LEMMA ClaimStep ==
  ASSUME IInv, NEW w \in Workers, Claim(w)
  PROVE  IInv'
<1> DEFINE key == Key(w)
<1>1. CASE Recorded(key) \/ Holds(w, key)
  <2>1. Set(w, NextSlot(w)) /\ UNCHANGED <<runs, launched, lost>>
    BY <1>1 DEF Claim, tables
  <2>2. /\ DOMAIN NextSlot(w) = Fields /\ NextSlot(w).claims = poll[w].claims
        /\ NextSlot(w).pc = "slot"
    BY DEF NextSlot, IInv, PollsAreRecords, Fields
  <2> QED
    BY <2>1, <2>2, QuietStep
<1>2. CASE ~(Recorded(key) \/ Holds(w, key))
  <2> DEFINE q == [poll[w] EXCEPT !.pc = "launch",
                     !.claims = @ \cup {[key |-> key, status |-> "pending"]}]
  <2>1. /\ Set(w, q) /\ launched' = launched \cup {key} /\ UNCHANGED <<runs, lost>>
        /\ KeyHolders(w) = {} /\ At(w, "claim")
    BY <1>2 DEF Claim, tables
  <2>2. /\ DOMAIN q = Fields /\ q.pc = "launch" /\ q.at = poll[w].at /\ q.slots = poll[w].slots
        /\ q.claims = poll[w].claims \cup {[key |-> key, status |-> "pending"]}
    BY DEF IInv, PollsAreRecords, Fields
  <2> HIDE DEF q
  <2>3. poll'[w] = q /\ (\A v \in Workers \ {w} : poll'[v] = poll[v]) /\ DOMAIN poll' = Workers
    BY <2>1 DEF IInv, PollsAreRecords, Set
  <2>4. Key(w)' = key
    BY <2>2, <2>3 DEF Key, Taken, Slot
  <2> HIDE DEF key
  <2>5. \A v \in Workers : ~Holds(v, key)
    BY <1>2, <2>1 DEF KeyHolders, key
  <2>6. \A v \in Workers : \A k : Holds(v, k)' <=> Holds(v, k) \/ (v = w /\ k = key)
    <3> SUFFICES ASSUME NEW v \in Workers, NEW k
                 PROVE  Holds(v, k)' <=> Holds(v, k) \/ (v = w /\ k = key)
      OBVIOUS
    <3>1. CASE v # w
      BY <2>3, <3>1 DEF Holds
    <3>2. CASE v = w
      <4>1. poll'[v].claims = poll[v].claims \cup {[key |-> key, status |-> "pending"]}
        BY <2>2, <2>3, <3>2
      <4>2. Holds(v, k)' <=> \E r \in poll[v].claims
                                    \cup {[key |-> key, status |-> "pending"]} : r.key = k
        BY <4>1 DEF Holds
      <4>3. [key |-> key, status |-> "pending"].key = key
        OBVIOUS
      <4> QED
        BY <4>2, <4>3, <3>2 DEF Holds
    <3> QED
      BY <3>1, <3>2
  <2>7. PollsAreRecords'
    BY <2>2, <2>3 DEF IInv, PollsAreRecords
  <2>8. LaunchingHolds'
    <3> SUFFICES ASSUME NEW v \in Workers, At(v, "launch")' PROVE Holds(v, Key(v))'
      BY DEF LaunchingHolds
    <3>1. CASE v = w
      BY <2>4, <2>6, <3>1
    <3>2. CASE v # w
      <4>1. At(v, "launch") /\ Key(v)' = Key(v)
        BY <2>3, <3>2 DEF At, Key, Taken, Slot
      <4> QED
        BY <4>1, <2>6 DEF IInv, LaunchingHolds
    <3> QED
      BY <3>1, <3>2
  <2>9. IdleHoldsNothing'
    BY <2>2, <2>3 DEF IInv, IdleHoldsNothing, At
  <2>10. SlotHeldOnce'
    <3>1. (\A x, y \in runs : x.key = y.key => x = y)'
      BY <2>1 DEF IInv, SlotHeldOnce
    <3>2. ASSUME NEW v \in Workers, NEW r \in poll'[v].claims
          PROVE  /\ ~Recorded(r.key)'
                 /\ \A u \in Workers : Holds(u, r.key)' => u = v
                 /\ \A x \in poll'[v].claims : x.key = r.key => x = r
      <4>1. CASE r \in poll[v].claims
        <5>1. Holds(v, r.key)
          BY <4>1 DEF Holds
        <5>2. r.key # key
          BY <5>1, <2>5
        <5>3. ~Recorded(r.key)' /\ \A u \in Workers : Holds(u, r.key)' => u = v
          BY <4>1, <5>2, <2>1, <2>6 DEF IInv, SlotHeldOnce, Recorded
        <5>4. \A x \in poll'[v].claims : x.key = r.key => x \in poll[v].claims
          BY <2>2, <2>3, <5>2
        <5> QED
          BY <4>1, <5>3, <5>4 DEF IInv, SlotHeldOnce
      <4>2. CASE r \notin poll[v].claims
        <5>1. v = w /\ r = [key |-> key, status |-> "pending"]
          BY <2>2, <2>3, <3>2, <4>2
        <5>2. ~Recorded(r.key)' /\ \A u \in Workers : Holds(u, r.key)' => u = v
          BY <5>1, <1>2, <2>1, <2>5, <2>6 DEF Recorded, key
        <5>3. \A x \in poll[w].claims : x.key # key
          BY <2>5 DEF Holds
        <5> QED
          BY <2>2, <2>3, <5>1, <5>2, <5>3
      <4> QED
        BY <4>1, <4>2
    <3> QED
      BY <3>1, <3>2 DEF SlotHeldOnce
  <2>11. LaunchedIsClaimed'
    BY <2>1, <2>6 DEF IInv, LaunchedIsClaimed, Recorded
  <2> QED
    BY <2>7, <2>8, <2>9, <2>10, <2>11 DEF IInv
<1> QED
  BY <1>1, <1>2

(* The commit turns the claims of a poll into rows.                        *)
LEMMA CommitStep ==
  ASSUME IInv, NEW w \in Workers, Commit(w)
  PROVE  IInv'
<1>1. /\ poll'[w] = NoPoll /\ (\A v \in Workers \ {w} : poll'[v] = poll[v])
      /\ DOMAIN poll' = Workers
      /\ runs' = runs \cup poll[w].claims /\ UNCHANGED <<launched, lost>>
  BY DEF IInv, PollsAreRecords, Commit, Set, history
<1>2. NoPoll.pc = "idle" /\ NoPoll.claims = {} /\ DOMAIN NoPoll = Fields
  BY DEF NoPoll, Fields
<1>3. PollsAreRecords'
  BY <1>1, <1>2 DEF IInv, PollsAreRecords
<1>4. LaunchingHolds'
  <2> SUFFICES ASSUME NEW v \in Workers, At(v, "launch")' PROVE Holds(v, Key(v))'
    BY DEF LaunchingHolds
  <2>1. v # w /\ poll'[v] = poll[v]
    BY <1>1, <1>2 DEF At
  <2>2. At(v, "launch") /\ Key(v)' = Key(v)
    BY <2>1 DEF At, Key, Taken, Slot
  <2> QED
    BY <2>1, <2>2 DEF IInv, LaunchingHolds, Holds
<1>5. IdleHoldsNothing'
  BY <1>1, <1>2 DEF IInv, IdleHoldsNothing, At
<1>6. \A k : Recorded(k)' <=> Recorded(k) \/ Holds(w, k)
  BY <1>1 DEF Recorded, Holds
<1>7. \A v \in Workers : \A k : Holds(v, k)' <=> Holds(v, k) /\ v # w
  BY <1>1, <1>2 DEF Holds
<1>8. SlotHeldOnce'
  <2>1. (\A x, y \in runs : x.key = y.key => x = y)'
    BY <1>1 DEF IInv, SlotHeldOnce, Recorded
  <2>2. ASSUME NEW v \in Workers, NEW r \in poll'[v].claims
        PROVE  /\ ~Recorded(r.key)'
               /\ \A u \in Workers : Holds(u, r.key)' => u = v
               /\ \A x \in poll'[v].claims : x.key = r.key => x = r
    <3>1. v # w /\ poll'[v] = poll[v]
      BY <1>1, <1>2, <2>2
    <3> QED
      BY <3>1, <1>6, <1>7, <2>2 DEF IInv, SlotHeldOnce
  <2> QED
    BY <2>1, <2>2 DEF SlotHeldOnce
<1>9. LaunchedIsClaimed'
  BY <1>1, <1>6, <1>7 DEF IInv, LaunchedIsClaimed
<1> QED
  BY <1>3, <1>4, <1>5, <1>8, <1>9 DEF IInv

(* Every step of the scheduler, its operators and its crashes.             *)
LEMMA NextIInv == IInv /\ [Next]_vars => IInv'
<1> SUFFICES ASSUME IInv, [Next]_vars PROVE IInv'
  OBVIOUS
<1>1. ASSUME UNCHANGED <<poll, runs, launched, lost>> PROVE IInv'
  <2>1. poll' = poll /\ runs' = runs /\ launched' = launched /\ lost' = lost
    BY <1>1
  <2>2. \A w \in Workers : At(w, "launch")' = At(w, "launch") /\ Key(w)' = Key(w)
    BY <2>1 DEF At, Key, Taken, Slot
  <2>3. LaunchingHolds'
    BY <2>1, <2>2 DEF IInv, LaunchingHolds, Holds
  <2>4. PollsAreRecords' /\ IdleHoldsNothing'
    BY <2>1 DEF IInv, PollsAreRecords, IdleHoldsNothing, At
  <2>5. SlotHeldOnce' /\ LaunchedIsClaimed'
    BY <2>1 DEF IInv, SlotHeldOnce, LaunchedIsClaimed, Holds, Recorded
  <2> QED
    BY <2>3, <2>4, <2>5 DEF IInv
<1>2. ASSUME NEW w \in Workers, Step(w) PROVE IInv'
  <2> poll[w].claims = poll[w].claims /\ DOMAIN poll[w] = Fields /\ DOMAIN NoPoll = Fields
    BY DEF IInv, PollsAreRecords, NoPoll, Fields
  <2>1. CASE Select(w)
    <3> DEFINE q == [NoPoll EXCEPT !.pc = "record", !.now = clock,
                       !.todo = {[id |-> s, row |-> row[s]] : s \in Due}]
    <3>1. Set(w, q) /\ UNCHANGED <<runs, launched, lost>> /\ At(w, "idle")
      BY <2>1 DEF Select, tables
    <3>2. DOMAIN q = Fields /\ q.claims = {} /\ q.pc = "record"
      BY DEF NoPoll, Fields
    <3>3. poll[w].claims = {}
      BY <3>1 DEF IInv, IdleHoldsNothing
    <3> HIDE DEF q
    <3> QED
      BY <3>1, <3>2, <3>3, QuietStep
  <2>2. CASE Take(w)
    <3>1. PICK r \in Earliest(poll[w].todo) :
             Set(w, IF ~r.row.valid
                    THEN Changed([poll[w] EXCEPT !.todo = @ \ {r}], r.id, NoTime, "paused")
                    ELSE [poll[w] EXCEPT !.pc = "slot", !.todo = @ \ {r}, !.at = {r},
                                         !.slots = SlotsToRun(r.row, poll[w].now)])
      BY <2>2 DEF Take
    <3>2. UNCHANGED <<runs, launched, lost>> /\ At(w, "record")
      BY <2>2 DEF Take, tables, history
    <3> DEFINE paused == Changed([poll[w] EXCEPT !.todo = @ \ {r}], r.id, NoTime, "paused")
               taken == [poll[w] EXCEPT !.pc = "slot", !.todo = @ \ {r}, !.at = {r},
                                        !.slots = SlotsToRun(r.row, poll[w].now)]
    <3>3. DOMAIN paused = Fields /\ paused.claims = poll[w].claims /\ paused.pc = "record"
      BY <3>2 DEF Changed, Fields, At
    <3>4. DOMAIN taken = Fields /\ taken.claims = poll[w].claims /\ taken.pc = "slot"
      BY DEF Fields
    <3>5. Set(w, paused) \/ Set(w, taken)
      BY <3>1
    <3> HIDE DEF paused, taken
    <3> QED
      BY <3>2, <3>3, <3>4, <3>5, QuietStep
  <2>3. CASE SkipSlot(w)
    <3> DEFINE q == Flushed(NextSlot(w))
    <3>1. Set(w, q) /\ UNCHANGED <<runs, launched, lost>>
      BY <2>3 DEF SkipSlot, tables, history
    <3>2. DOMAIN q = Fields /\ q.claims = poll[w].claims /\ q.pc = "slot"
      BY DEF Flushed, NextSlot, Fields
    <3> HIDE DEF q
    <3> QED
      BY <3>1, <3>2, QuietStep
  <2>4. CASE StartSlot(w)
    <3> DEFINE q == Flushed([poll[w] EXCEPT !.pc = "claim"])
    <3>1. Set(w, q) /\ UNCHANGED <<runs, launched, lost>>
      BY <2>4 DEF StartSlot, tables, history
    <3>2. DOMAIN q = Fields /\ q.claims = poll[w].claims /\ q.pc = "claim"
      BY DEF Flushed, Fields
    <3> HIDE DEF q
    <3> QED
      BY <3>1, <3>2, QuietStep
  <2>5. CASE Claim(w)
    BY <2>5, ClaimStep
  <2>6. CASE Launched(w)
    <3> DEFINE q == [Become(NextSlot(w), Key(w), "running") EXCEPT !.dirty = @ \cup {Taken(w).id}]
    <3>1. Set(w, q) /\ UNCHANGED <<runs, launched, lost>> /\ Holds(w, Key(w))
      BY <2>6 DEF Launched, tables, history, IInv, LaunchingHolds
    <3>2. /\ DOMAIN q = Fields /\ q.pc = "slot"
          /\ q.claims = {r \in poll[w].claims : r.key # Key(w)}
                          \cup {[key |-> Key(w), status |-> "running"]}
      BY DEF Become, NextSlot, Fields
    <3> HIDE DEF q
    <3> QED
      BY <3>1, <3>2, BecomeStep
  <2>7. CASE LaunchFails(w)
    <3> DEFINE q == Become([poll[w] EXCEPT !.pc = "failed"], Key(w), "failed")
    <3>1. Set(w, q) /\ UNCHANGED <<runs, launched, lost>> /\ Holds(w, Key(w))
      BY <2>7 DEF LaunchFails, tables, history, IInv, LaunchingHolds
    <3>2. /\ DOMAIN q = Fields /\ q.pc = "failed"
          /\ q.claims = {r \in poll[w].claims : r.key # Key(w)}
                          \cup {[key |-> Key(w), status |-> "failed"]}
      BY DEF Become, Fields
    <3> HIDE DEF q
    <3> QED
      BY <3>1, <3>2, BecomeStep
  <2>8. CASE FileFailure(w)
    <3> DEFINE q == NextSlot(w)
    <3>1. Set(w, q) /\ UNCHANGED <<runs, launched, lost>>
      BY <2>8 DEF FileFailure, history
    <3>2. DOMAIN q = Fields /\ q.claims = poll[w].claims /\ q.pc = "slot"
      BY DEF NextSlot, Fields
    <3> HIDE DEF q
    <3> QED
      BY <3>1, <3>2, QuietStep
  <2>9. CASE Advance(w)
    <3> DEFINE r == Taken(w)
               q == Changed([poll[w] EXCEPT !.pc = "record", !.at = {}],
                            r.id, After(r.row.period, poll[w].now), r.row.state)
    <3>1. Set(w, q) /\ UNCHANGED <<runs, launched, lost>>
      BY <2>9 DEF Advance, tables, history
    <3>2. DOMAIN q = Fields /\ q.claims = poll[w].claims /\ q.pc = "record"
      BY DEF Changed, Fields
    <3> HIDE DEF q
    <3> QED
      BY <3>1, <3>2, QuietStep
  <2>10. CASE Commit(w)
    BY <2>10, CommitStep
  <2>11. CASE Refused(w)
    BY <2>11, RollBackStep DEF Refused
  <2> QED
    BY <1>2, <2>1, <2>2, <2>3, <2>4, <2>5, <2>6, <2>7, <2>8, <2>9, <2>10, <2>11 DEF Step
<1>3. ASSUME NEW w \in Workers, Abort(w) PROVE IInv'
  BY <1>3, RollBackStep DEF Abort
<1>4. ASSUME NEW k \in Keys, TaskEnds(k) PROVE IInv'
  BY <1>4, <1>1 DEF TaskEnds, tables, history
<1>5. ASSUME NEW s \in Schedules, Edit(s) PROVE IInv'
  BY <1>5, <1>1 DEF Edit, DeleteSchedule, UpdateSchedule, Editable, history
<1>6. CASE Tick
  BY <1>6, <1>1 DEF Tick, tables, history
<1>7. CASE UNCHANGED vars
  BY <1>7, <1>1 DEF vars, tables, history
<1> QED
  BY <1>2, <1>3, <1>4, <1>5, <1>6, <1>7 DEF Next

(* The invariant holds for every value of the constants.                   *)
LEMMA AlwaysIInv == Spec => []IInv
  BY InitIInv, NextIInv, PTL DEF Spec

(* A slot has at most one run row in the table and the open polls, however *)
(* many processes poll (_claim_slot on the unique key).                    *)
THEOREM OneRunPerSlot == Spec => []SlotHeldOnce
<1>1. IInv => SlotHeldOnce
  BY DEF IInv
<1> QED
  BY <1>1, AlwaysIInv, PTL

(* A launched task keeps its claim unless its poll was rolled back, which  *)
(* is the only way that a slot is launched twice (poll_once).              *)
THEOREM LaunchesStayClaimed == Spec => []LaunchedIsClaimed
<1>1. IInv => LaunchedIsClaimed
  BY DEF IInv
<1> QED
  BY <1>1, AlwaysIInv, PTL
-------------------------------------------------------------------------------
(* What is filed.  A poll files a failed launch before it goes on, so by   *)
(* the time it commits every failure it claims has an entry; the entry is  *)
(* never taken back.                                                       *)

(* The states and the columns of a row.                                    *)
States == {"active", "paused", "deleted"}
RowFields == {"state", "next", "period", "overlap", "missed", "valid"}

(* What a poll holds of a due row.                                         *)
IsTaken(r) ==
  /\ r.id \in Schedules /\ r.row.next \in 0 .. MaxTime
  /\ r.row.period \in Periods /\ r.row.state \in States

(* A set of natural numbers has a least one.                               *)
LEMMA LeastSlot ==
  ASSUME NEW S \in SUBSET Nat, S # {}
  PROVE  (CHOOSE t \in S : \A u \in S : t <= u) \in S
<1>1. \E t \in S : \A u \in S : ~(<<u, t>> \in OpToRel(<, Nat))
      BY NatLessThanWellFounded, WFMin
<1>2. \A u, t \in S : ~(<<u, t>> \in OpToRel(<, Nat)) => t <= u
      BY DEF OpToRel
<1>3. \E t \in S : \A u \in S : t <= u
      BY <1>1, <1>2
<1> QED
    BY <1>3

(* A fire time past a moment is past it.                                   *)
LEMMA AfterTyped ==
  ASSUME NEW p \in Periods, NEW t \in Nat PROVE After(p, t) \in Nat
<1>1. p \in Nat \ {0}
      BY PeriodsAssumption
<1>2. t \div p \in Nat
      BY <1>1
<1> HIDE DEF After
<1>3. \A q \in Nat : p * (q + 1) \in Nat
      BY <1>1
<1> QED
    BY <1>2, <1>3 DEF After

(* The slots a poll decides on are instants the clock has reached.         *)
LEMMA SlotsTyped ==
  ASSUME NEW r, r.next \in 0 .. MaxTime, r.period \in Periods, NEW now \in 0 .. MaxTime
  PROVE  SlotsToRun(r, now) \subseteq 0 .. MaxTime
<1> DEFINE first == IF r.next % r.period = 0 THEN r.next ELSE After(r.period, r.next)
           fires == IF inclusive THEN {first} ELSE {t \in (r.next + 1) .. now : t % r.period = 0}
           past == {t \in fires : t <= now}
<1>1. MaxTime \in Nat
      BY BoundsAssumption
<1>2. first \in Nat
      BY <1>1, AfterTyped
<1> HIDE DEF first
<1>3. fires \subseteq Nat
      BY <1>1, <1>2
<1> HIDE DEF fires
<1>4. past \subseteq 0 .. MaxTime
  <2>1. ASSUME NEW t \in past PROVE t \in Nat /\ t <= now
        BY <1>3
  <2> QED
      BY <1>1, <2>1
<1>5. Missed(r, now) = CASE r.missed = "skip" -> {}
                         [] r.missed = "run_all" -> past
                         [] OTHER -> {t \in past : \A u \in past : u <= t}
      BY DEF Missed, past, fires, first
<1> HIDE DEF past
<1>6. Missed(r, now) \subseteq past
  <2>1. CASE r.missed = "skip"
        BY <1>5, <2>1
  <2>2. CASE r.missed = "run_all"
        BY <1>5, <2>2
  <2>3. CASE r.missed \notin {"skip", "run_all"}
        BY <1>5, <2>3
  <2> QED
      BY <2>1, <2>2, <2>3
<1> QED
    BY <1>4, <1>6 DEF SlotsToRun

------------------------------------------------------------------------------
(* What a poll writes; its stages.                                         *)
Writes == [id : Schedules, next : Int, state : States]
Stages == {"idle", "record", "slot", "claim", "launch", "failed"}

(* The slot before a poll.                                                 *)
KeyIn(p) == <<(CHOOSE r \in p.at : TRUE).id, CHOOSE t \in p.slots : \A u \in p.slots : t <= u>>

(* A poll past its look at a row has taken one, and one that claims,       *)
(* launches or files has a slot before it.                                 *)
IsPoll(p) ==
  /\ DOMAIN p = Fields
  /\ p.pc \in Stages /\ p.now \in 0 .. MaxTime
  /\ \A r \in p.todo \cup p.at : IsTaken(r)
  /\ p.slots \subseteq 0 .. MaxTime /\ p.claims \subseteq Runs /\ p.writes \subseteq Writes
  /\ p.dirty \subseteq Schedules /\ p.locks \subseteq Schedules
  /\ p.pc \in {"slot", "claim", "launch", "failed"} => p.at # {}
  /\ p.pc \in {"claim", "launch", "failed"} => p.slots # {}

(* A failed run is in the queue, unless its poll is about to file it.      *)
FiledIn(p, d) ==
  \A r \in p.claims : r.status = "failed" =>
    d[r.key].open = 1 \/ (p.pc = "failed" /\ r.key = KeyIn(p))

(* The shape of the rows and of the other tables.                          *)
RowsTyped ==
  /\ DOMAIN row = Schedules
  /\ \A s \in Schedules :
       /\ DOMAIN row[s] = RowFields
       /\ row[s].state \in States /\ row[s].next \in Int /\ row[s].period \in Periods

TablesTyped ==
  /\ clock \in 0 .. MaxTime
  /\ runs \subseteq Runs /\ launched \subseteq Keys /\ lost \subseteq launched
  /\ inFlight \subseteq launched
  /\ dlq \in [Keys -> [open : {0, 1}, attempts : Nat]]

(* Every poll is one, and has filed its failures or is about to.           *)
PollsSound == DOMAIN poll = Workers /\ \A w \in Workers : IsPoll(poll[w]) /\ FiledIn(poll[w], dlq)
(* Every committed failure is filed.                                       *)
RunsFiled == \A r \in runs : r.status = "failed" => dlq[r.key].open = 1

FInv == RowsTyped /\ TablesTyped /\ PollsSound /\ RunsFiled

(* The slot before a poll is a key.                                        *)
LEMMA KeyTyped == ASSUME NEW p, IsPoll(p), p.at # {}, p.slots # {} PROVE KeyIn(p) \in Keys
<1>1. (CHOOSE r \in p.at : TRUE) \in p.at
      OBVIOUS
<1>2. (CHOOSE r \in p.at : TRUE).id \in Schedules
      BY <1>1 DEF IsPoll, IsTaken
<1>3. p.slots \in SUBSET Nat
      BY BoundsAssumption DEF IsPoll
<1>4. (CHOOSE t \in p.slots : \A u \in p.slots : t <= u) \in p.slots
      BY <1>3, LeastSlot
<1>5. (CHOOSE t \in p.slots : \A u \in p.slots : t <= u) \in 0 .. MaxTime
      BY <1>4 DEF IsPoll
<1> DEFINE s == (CHOOSE r \in p.at : TRUE).id
           t == CHOOSE t \in p.slots : \A u \in p.slots : t <= u
<1>6. KeyIn(p) = <<s, t>>
      BY DEF KeyIn
<1> HIDE DEF s, t
<1>7. s \in Schedules /\ t \in 0 .. MaxTime
      BY <1>2, <1>5 DEF s, t
<1> QED
    BY <1>6, <1>7 DEF Keys

(* The key of a worker is that of its poll.                                *)
LEMMA KeysAre == \A w \in Workers : Key(w) = KeyIn(poll[w])
BY DEF Key, KeyIn, Taken, Slot

(* A worker at rest holds nothing.                                         *)
LEMMA NoPollSound == IsPoll(NoPoll) /\ NoPoll.claims = {}
BY BoundsAssumption DEF IsPoll, NoPoll, Fields, Stages

(* At first there is nothing to file.                                      *)
LEMMA FirstFiled == Init => FInv
<1> SUFFICES ASSUME Init PROVE FInv
    OBVIOUS
<1> USE DEF Init
<1>1. RowsTyped
  <2>1. PICK made \in Created, broken \in Broken :
           row = [s \in Schedules |->
                [state |-> "active", next |-> After(made[s].period, 0), period |-> made[s].period,
                 overlap |-> made[s].overlap, missed |-> made[s].missed,
                 valid |-> s \notin broken]]
        OBVIOUS
  <2>2. \A s \in Schedules : made[s].period \in Periods
        BY CreatedAssumption
  <2>3. \A s \in Schedules : After(made[s].period, 0) \in Int
        BY <2>2, AfterTyped
  <2> QED
      BY <2>1, <2>2, <2>3 DEF RowsTyped, RowFields, States
<1>2. TablesTyped
      BY BoundsAssumption DEF TablesTyped
<1>3. PollsSound
      BY NoPollSound DEF PollsSound, FiledIn
<1>4. RunsFiled
      BY DEF RunsFiled
<1> QED
    BY <1>1, <1>2, <1>3, <1>4 DEF FInv

(* A step of one poll over the tables, whose entries are not taken back.   *)
LEMMA PollStep ==
  ASSUME FInv, NEW w \in Workers, NEW q, Set(w, q), IsPoll(q), FiledIn(q, dlq'),
         RowsTyped', TablesTyped', RunsFiled',
         \A k \in Keys : dlq[k].open = 1 => dlq'[k].open = 1
  PROVE  FInv'
<1>1. poll'[w] = q /\ (\A v \in Workers \ {w} : poll'[v] = poll[v]) /\ DOMAIN poll' = Workers
      BY DEF FInv, PollsSound, Set
<1>2. ASSUME NEW v \in Workers PROVE IsPoll(poll'[v]) /\ FiledIn(poll'[v], dlq')
  <2>1. CASE v = w
        BY <1>1, <2>1 DEF FiledIn
  <2>2. CASE v # w
    <3>1. poll'[v] = poll[v] /\ IsPoll(poll[v]) /\ FiledIn(poll[v], dlq)
          BY <1>1, <2>2 DEF FInv, PollsSound
    <3>2. \A r \in poll[v].claims : r.key \in Keys
          BY <3>1 DEF IsPoll, Runs
    <3> QED
        BY <3>1, <3>2 DEF FiledIn
  <2> QED
      BY <2>1, <2>2
<1>3. PollsSound'
      BY <1>1, <1>2 DEF PollsSound, IsPoll, IsTaken, Runs, Writes
<1> QED
    BY <1>3 DEF FInv

(* A step of one poll that leaves its claims and the tables alone.         *)
LEMMA QuietPoll ==
  ASSUME FInv, NEW w \in Workers, NEW q, Set(w, q), IsPoll(q),
         q.claims = poll[w].claims, poll[w].pc # "failed",
         UNCHANGED <<clock, tables, inFlight, launched, lost>>
  PROVE  FInv'
<1>1. RowsTyped' /\ TablesTyped' /\ RunsFiled'
      BY DEF FInv, RowsTyped, TablesTyped, RunsFiled, tables
<1>2. FiledIn(q, dlq')
      BY DEF FInv, PollsSound, FiledIn, tables
<1>3. dlq' = dlq
      BY DEF tables
<1> QED
    BY <1>1, <1>2, <1>3, PollStep


(* Turning to the next slot, flushing and noting a change keep a poll a    *)
(* poll, its claims and, but for the first, its stage.                     *)
LEMMA NextSlotIsPoll ==
  ASSUME NEW w \in Workers, IsPoll(poll[w]), poll[w].pc # "idle", poll[w].at # {}
  PROVE  IsPoll(NextSlot(w)) /\ NextSlot(w).claims = poll[w].claims /\ NextSlot(w).pc = "slot"
BY DEF IsPoll, NextSlot, Fields, Stages

LEMMA FlushedIsPoll ==
  ASSUME NEW p, IsPoll(p)
  PROVE  IsPoll(Flushed(p)) /\ Flushed(p).claims = p.claims /\ Flushed(p).pc = p.pc
BY DEF IsPoll, Flushed, Fields, Stages

LEMMA ChangedIsPoll ==
  ASSUME NEW p, IsPoll(p), NEW s \in Schedules, NEW next \in Int, NEW st \in States
  PROVE  /\ IsPoll(Changed(p, s, next, st)) /\ Changed(p, s, next, st).claims = p.claims
         /\ Changed(p, s, next, st).pc = p.pc
BY DEF IsPoll, Changed, Fields, Stages, Writes

(* A new poll holds the due rows.                                          *)
LEMMA SelectFiles == ASSUME FInv, NEW w \in Workers, Select(w), IdleHoldsNothing PROVE FInv'
<1> DEFINE q == [NoPoll EXCEPT !.pc = "record", !.now = clock,
                   !.todo = {[id |-> s, row |-> row[s]] : s \in Due}]
<1>1. /\ Set(w, q) /\ At(w, "idle") 
      /\ UNCHANGED <<clock, tables, inFlight, launched, lost>>
      BY DEF Select
<1>2. \A r \in {[id |-> s, row |-> row[s]] : s \in Due} : IsTaken(r)
  <2>1. ASSUME NEW s \in Due PROVE IsTaken([id |-> s, row |-> row[s]])
        BY BoundsAssumption DEF IsTaken, Due, FInv, RowsTyped, TablesTyped
  <2> QED
      BY <2>1
<1>3. IsPoll(q) /\ q.claims = {}
      BY <1>2, BoundsAssumption DEF IsPoll, NoPoll, Fields, Stages, FInv, TablesTyped
<1>4. poll[w].claims = {}
      BY <1>1 DEF IdleHoldsNothing
<1> HIDE DEF q
<1> QED
    BY <1>1, <1>3, <1>4, QuietPoll DEF At

(* A row is taken, with slots to decide on, or paused.                     *)
LEMMA TakeFiles == ASSUME FInv, NEW w \in Workers, Take(w) PROVE FInv'
<1>1. PICK r \in Earliest(poll[w].todo) :
         Set(w, IF ~r.row.valid
                THEN Changed([poll[w] EXCEPT !.todo = @ \ {r}], r.id, NoTime, "paused")
                ELSE [poll[w] EXCEPT !.pc = "slot", !.todo = @ \ {r}, !.at = {r},
                                     !.slots = SlotsToRun(r.row, poll[w].now)])
      BY DEF Take
<1>2. /\ UNCHANGED <<clock, tables, inFlight, launched, lost>>
      /\ At(w, "record") /\ IsPoll(poll[w])
      BY DEF Take, history, FInv, PollsSound
<1>3. r \in poll[w].todo /\ IsTaken(r)
      BY <1>2 DEF Earliest, IsPoll
<1> DEFINE left == [poll[w] EXCEPT !.todo = @ \ {r}]
           paused == Changed(left, r.id, NoTime, "paused")
           taken == [poll[w] EXCEPT !.pc = "slot", !.todo = @ \ {r}, !.at = {r},
                                    !.slots = SlotsToRun(r.row, poll[w].now)]
<1>4. IsPoll(left) /\ left.claims = poll[w].claims
      BY <1>2 DEF IsPoll, Fields, Stages
<1>5. IsPoll(paused) /\ paused.claims = poll[w].claims
  <2> HIDE DEF left
  <2>1. r.id \in Schedules /\ NoTime \in Int /\ "paused" \in States
        BY <1>3 DEF IsTaken, NoTime, States
  <2> QED
      BY <1>4, <2>1, ChangedIsPoll
<1>6. IsPoll(taken) /\ taken.claims = poll[w].claims
  <2>1. SlotsToRun(r.row, poll[w].now) \subseteq 0 .. MaxTime
        BY <1>2, <1>3, SlotsTyped DEF IsTaken, IsPoll
  <2> QED
      BY <1>2, <1>3, <2>1 DEF IsPoll, Fields, Stages
<1>7. Set(w, paused) \/ Set(w, taken)
      BY <1>1
<1> HIDE DEF left, paused, taken
<1> QED
    BY <1>2, <1>5, <1>6, <1>7, QuietPoll DEF At

(* A slot is skipped or started, or the row is done.                       *)
LEMMA SlotFiles ==
  ASSUME FInv, NEW w \in Workers, SkipSlot(w) \/ StartSlot(w) \/ Advance(w) PROVE FInv'
<1>1. /\ UNCHANGED <<clock, tables, inFlight, launched, lost>>
      /\ poll[w].pc = "slot" /\ IsPoll(poll[w]) /\ poll[w].at # {}
      BY DEF SkipSlot, StartSlot, Advance, history, FInv, PollsSound, At, IsPoll
<1>2. CASE SkipSlot(w)
  <2> DEFINE q == Flushed(NextSlot(w))
  <2>1. Set(w, q)
        BY <1>2 DEF SkipSlot
  <2>2. IsPoll(q) /\ q.claims = poll[w].claims
        BY <1>1, NextSlotIsPoll, FlushedIsPoll
  <2> HIDE DEF q
  <2> QED
      BY <1>1, <2>1, <2>2, QuietPoll
<1>3. CASE StartSlot(w)
  <2> DEFINE p == [poll[w] EXCEPT !.pc = "claim"]
             q == Flushed(p)
  <2>1. Set(w, q)
        BY <1>3 DEF StartSlot
  <2>2. IsPoll(p) /\ p.claims = poll[w].claims
        BY <1>1, <1>3 DEF StartSlot, IsPoll, Fields, Stages
  <2> HIDE DEF p
  <2>3. IsPoll(q) /\ q.claims = poll[w].claims
        BY <2>2, FlushedIsPoll
  <2> HIDE DEF q
  <2> QED
      BY <1>1, <2>1, <2>3, QuietPoll
<1>4. CASE Advance(w)
  <2> DEFINE p == [poll[w] EXCEPT !.pc = "record", !.at = {}]
             r == Taken(w)
             q == Changed(p, r.id, After(r.row.period, poll[w].now), r.row.state)
  <2>1. Set(w, q)
        BY <1>4 DEF Advance
  <2>2. IsPoll(p) /\ p.claims = poll[w].claims
        BY <1>1 DEF IsPoll, Fields, Stages
  <2>3. r \in poll[w].at
        BY <1>1 DEF Taken
  <2>4. IsTaken(r) /\ poll[w].now \in Nat
        BY <1>1, <2>3, BoundsAssumption DEF IsPoll
  <2> HIDE DEF p, r
  <2>5. r.id \in Schedules /\ After(r.row.period, poll[w].now) \in Int /\ r.row.state \in States
        BY <2>4, AfterTyped DEF IsTaken
  <2>6. IsPoll(q) /\ q.claims = poll[w].claims
        BY <2>2, <2>5, ChangedIsPoll
  <2> HIDE DEF q
  <2> QED
      BY <1>1, <2>1, <2>6, QuietPoll
<1> QED
    BY <1>2, <1>3, <1>4


------------------------------------------------------------------------------
(* A claim is pending, and its task in flight.                             *)
LEMMA ClaimFiles == ASSUME FInv, NEW w \in Workers, Claim(w) PROVE FInv'
<1>1. /\ UNCHANGED <<clock, tables, lost>>
      /\ poll[w].pc = "claim" /\ IsPoll(poll[w]) /\ poll[w].at # {} /\ poll[w].slots # {}
      BY DEF Claim, FInv, PollsSound, At, IsPoll
<1>2. Key(w) \in Keys
      BY <1>1, KeyTyped, KeysAre
<1>3. CASE Recorded(Key(w)) \/ Holds(w, Key(w))
  <2>1. Set(w, NextSlot(w)) /\ UNCHANGED <<inFlight, launched>>
        BY <1>3 DEF Claim
  <2> QED
      BY <1>1, <2>1, NextSlotIsPoll, QuietPoll
<1>4. CASE ~(Recorded(Key(w)) \/ Holds(w, Key(w)))
  <2> DEFINE new == [key |-> Key(w), status |-> "pending"]
             q == [poll[w] EXCEPT !.pc = "launch", !.claims = @ \cup {new}]
  <2>1. /\ Set(w, q)
        /\ inFlight' = inFlight \cup {Key(w)} /\ launched' = launched \cup {Key(w)}
        BY <1>4 DEF Claim
  <2>2. new \in Runs /\ new.status = "pending"
        BY <1>2 DEF Runs
  <2> HIDE DEF new
  <2>3. IsPoll(q) /\ q.claims = poll[w].claims \cup {new}
        BY <1>1, <2>2 DEF IsPoll, Fields, Stages
  <2>4. RowsTyped' /\ TablesTyped' /\ RunsFiled'
        BY <1>1, <1>2, <2>1 DEF FInv, RowsTyped, TablesTyped, RunsFiled, tables
  <2>5. FiledIn(q, dlq')
        BY <1>1, <2>2, <2>3 DEF FInv, PollsSound, FiledIn, tables
  <2>6. dlq' = dlq
        BY <1>1 DEF tables
  <2> HIDE DEF q
  <2> QED
      BY <2>1, <2>3, <2>4, <2>5, <2>6, PollStep
<1> QED
    BY <1>3, <1>4

(* The end of a launch: a run that failed is the one its poll files next.  *)
LEMMA EndFiles ==
  ASSUME FInv, NEW w \in Workers, Launched(w) \/ LaunchFails(w) PROVE FInv'
<1>1. /\ UNCHANGED <<clock, tables, launched, lost>> /\ inFlight' \subseteq inFlight
      /\ poll[w].pc = "launch" /\ IsPoll(poll[w]) /\ poll[w].at # {} /\ poll[w].slots # {}
      BY DEF Launched, LaunchFails, history, FInv, PollsSound, At, IsPoll
<1>2. Key(w) \in Keys
      BY <1>1, KeyTyped, KeysAre
<1>3. RowsTyped' /\ TablesTyped' /\ RunsFiled' /\ dlq' = dlq
      BY <1>1 DEF FInv, RowsTyped, TablesTyped, RunsFiled, tables
<1>4. FiledIn(poll[w], dlq)
      BY DEF FInv, PollsSound
<1>5. CASE Launched(w)
  <2> DEFINE new == [key |-> Key(w), status |-> "running"]
             p == NextSlot(w)
             b == [p EXCEPT !.claims = {r \in @ : r.key # Key(w)} \cup {new}]
             q == [b EXCEPT !.dirty = @ \cup {Taken(w).id}]
  <2>1. Set(w, q)
        BY <1>5 DEF Launched, Become
  <2>2. new \in Runs /\ new.status = "running"
        BY <1>2 DEF Runs
  <2>3. Taken(w).id \in Schedules
        BY <1>1 DEF Taken, IsPoll, IsTaken
  <2>4. IsPoll(p) /\ p.claims = poll[w].claims /\ p.pc = "slot"
        BY <1>1, NextSlotIsPoll
  <2> HIDE DEF p, new
  <2>5. /\ IsPoll(b) /\ b.claims = {r \in poll[w].claims : r.key # Key(w)} \cup {new}
        BY <2>2, <2>4 DEF IsPoll, Fields, Stages
  <2> HIDE DEF b
  <2>6. IsPoll(q) /\ q.claims = b.claims
        BY <2>3, <2>5 DEF IsPoll, Fields, Stages
  <2>7. FiledIn(q, dlq')
        BY <1>1, <1>3, <1>4, <2>2, <2>5, <2>6 DEF FiledIn
  <2> HIDE DEF q
  <2> QED
      BY <1>3, <2>1, <2>6, <2>7, PollStep
<1>6. CASE LaunchFails(w)
  <2> DEFINE new == [key |-> Key(w), status |-> "failed"]
             p == [poll[w] EXCEPT !.pc = "failed"]
             q == [p EXCEPT !.claims = {r \in @ : r.key # Key(w)} \cup {new}]
  <2>1. Set(w, q)
        BY <1>6 DEF LaunchFails, Become
  <2>2. new \in Runs /\ new.key = Key(w)
        BY <1>2 DEF Runs
  <2>3. /\ IsPoll(p) /\ p.claims = poll[w].claims /\ p.pc = "failed"
        /\ p.at = poll[w].at /\ p.slots = poll[w].slots
        BY <1>1 DEF IsPoll, Fields, Stages
  <2> HIDE DEF p, new
  <2>4. /\ IsPoll(q) /\ q.claims = {r \in poll[w].claims : r.key # Key(w)} \cup {new}
        /\ q.pc = "failed" /\ q.at = poll[w].at /\ q.slots = poll[w].slots
        BY <2>2, <2>3 DEF IsPoll, Fields, Stages
  <2> HIDE DEF q
  <2>5. KeyIn(q) = Key(w)
        BY <2>4, KeysAre DEF KeyIn
  <2>6. FiledIn(q, dlq')
        BY <1>1, <1>3, <1>4, <2>2, <2>4, <2>5 DEF FiledIn
  <2> QED
      BY <1>3, <2>1, <2>4, <2>6, PollStep
<1> QED
    BY <1>5, <1>6

(* Filing opens the job's entry or adds to it: it is open once.            *)
LEMMA FilingFiles == ASSUME FInv, NEW w \in Workers, FileFailure(w) PROVE FInv'
<1>1. /\ UNCHANGED <<clock, row, runs, inFlight, launched, lost>>
      /\ poll[w].pc = "failed" /\ IsPoll(poll[w]) /\ poll[w].at # {} /\ poll[w].slots # {}
      /\ Set(w, NextSlot(w))
      BY DEF FileFailure, history, FInv, PollsSound, At, IsPoll
<1>2. Key(w) \in Keys /\ Key(w) = KeyIn(poll[w])
      BY <1>1, KeyTyped, KeysAre
<1> DEFINE k == Key(w)
           entry == IF dlq[k].open = 0 THEN [open |-> 1, attempts |-> 1]
                    ELSE [open |-> dlq[k].open, attempts |-> dlq[k].attempts + 1]
<1>3. dlq' = [dlq EXCEPT ![k] = entry]
      BY DEF FileFailure
<1>4. dlq \in [Keys -> [open : {0, 1}, attempts : Nat]]
      BY DEF FInv, TablesTyped
<1>5. entry \in [open : {0, 1}, attempts : Nat] /\ entry.open = 1
      BY <1>2, <1>4
<1> HIDE DEF k, entry
<1>6. /\ dlq' \in [Keys -> [open : {0, 1}, attempts : Nat]] /\ dlq'[k].open = 1
      /\ \A j \in Keys : dlq[j].open = 1 => dlq'[j].open = 1
      BY <1>2, <1>3, <1>4, <1>5 DEF k
<1>7. RowsTyped' /\ TablesTyped'
      BY <1>1, <1>6 DEF FInv, RowsTyped, TablesTyped
<1>8. RunsFiled'
      BY <1>1, <1>6 DEF FInv, RunsFiled, TablesTyped, Runs
<1>9. FiledIn(NextSlot(w), dlq')
  <2>1. NextSlot(w).claims = poll[w].claims /\ FiledIn(poll[w], dlq)
        BY <1>1, NextSlotIsPoll DEF FInv, PollsSound
  <2> QED
      BY <1>1, <1>2, <1>6, <2>1 DEF FiledIn, k, IsPoll, Runs
<1> QED
    BY <1>1, <1>6, <1>7, <1>8, <1>9, NextSlotIsPoll, PollStep


(* The commit makes rows of claims that have been filed.                   *)
LEMMA CommitFiles == ASSUME FInv, NEW w \in Workers, Commit(w) PROVE FInv'
<1>1. /\ UNCHANGED <<clock, dlq, inFlight, launched, lost>>
      /\ row' = [s \in Schedules |-> Applied(s, poll[w].writes)]
      /\ runs' = runs \cup poll[w].claims /\ Set(w, NoPoll)
      /\ poll[w].pc = "record" /\ IsPoll(poll[w]) /\ FiledIn(poll[w], dlq)
      BY DEF Commit, history, FInv, PollsSound, At
<1>2. RowsTyped'
  <2>1. ASSUME NEW s \in Schedules
        PROVE  LET x == Applied(s, poll[w].writes) IN
               DOMAIN x = RowFields /\ x.state \in States /\ x.next \in Int /\ x.period \in Periods
    <3> DEFINE W == poll[w].writes
               u == CHOOSE u \in W : u.id = s
    <3>1. W \subseteq Writes
          BY <1>1 DEF IsPoll
    <3>2. ASSUME \E v \in W : v.id = s PROVE u.next \in Int
      <4>1. u \in W
            BY <3>2
      <4> QED
          BY <3>1, <4>1 DEF Writes
    <3> HIDE DEF u
    <3>3. /\ DOMAIN row[s] = RowFields
          /\ row[s].state \in States /\ row[s].next \in Int /\ row[s].period \in Periods
          BY DEF FInv, RowsTyped
    <3>4. Applied(s, W) =
            [row[s] EXCEPT
               !.next = IF \E v \in W : v.id = s THEN u.next ELSE @,
               !.state = IF [id |-> s, next |-> NoTime, state |-> "paused"] \in W
                         THEN "paused" ELSE @]
          BY DEF Applied, u
    <3> HIDE DEF W
    <3> QED
        BY <3>2, <3>3, <3>4 DEF RowFields, States, W
  <2> QED
      BY <1>1, <2>1 DEF RowsTyped
<1>3. TablesTyped' /\ RunsFiled'
      BY <1>1 DEF FInv, TablesTyped, RunsFiled, IsPoll, FiledIn
<1>4. FiledIn(NoPoll, dlq')
      BY NoPollSound DEF FiledIn
<1> QED
    BY <1>1, <1>2, <1>3, <1>4, NoPollSound, PollStep

(* A rolled back poll has nothing left to file.                            *)
LEMMA RollBackFiles == ASSUME FInv, NEW w \in Workers, RollBack(w) PROVE FInv'
<1>1. /\ UNCHANGED <<clock, tables, inFlight, launched>> /\ Set(w, NoPoll)
      /\ lost' \subseteq launched
      BY DEF RollBack, FInv, TablesTyped
<1>2. RowsTyped' /\ TablesTyped' /\ RunsFiled' /\ dlq' = dlq
      BY <1>1 DEF FInv, RowsTyped, TablesTyped, RunsFiled, tables
<1>3. FiledIn(NoPoll, dlq')
      BY NoPollSound DEF FiledIn
<1> QED
    BY <1>1, <1>2, <1>3, NoPollSound, PollStep

(* An edit leaves a row a row.                                             *)
LEMMA EditFiles == ASSUME FInv, NEW s \in Schedules, Edit(s) PROVE FInv'
<1>1. UNCHANGED <<clock, runs, dlq, poll, inFlight, launched, lost>>
      BY DEF Edit, DeleteSchedule, UpdateSchedule, Editable, history
<1>2. RowsTyped'
  <2>1. CASE DeleteSchedule(s)
    <3>1. NoTime \in Int
          BY DEF NoTime
    <3> QED
        BY <2>1, <3>1 DEF DeleteSchedule, FInv, RowsTyped, RowFields, States
  <2>2. ASSUME NEW st \in {"active", "paused"}, NEW p \in Periods, UpdateSchedule(s, st, p)
        PROVE  RowsTyped'
    <3> DEFINE next == IF st = "active" THEN After(p, clock) ELSE NoTime
    <3>1. clock \in Nat
          BY BoundsAssumption DEF FInv, TablesTyped
    <3>2. next \in Int
          BY <3>1, AfterTyped DEF NoTime
    <3>3. row' = [row EXCEPT ![s] = [row[s] EXCEPT !.state = st, !.period = p, !.next = next]]
          BY <2>2 DEF UpdateSchedule
    <3> HIDE DEF next
    <3> QED
        BY <3>2, <3>3 DEF FInv, RowsTyped, RowFields, States
  <2> QED
      BY <2>1, <2>2 DEF Edit
<1>3. TablesTyped' /\ PollsSound' /\ RunsFiled'
      BY <1>1 DEF FInv, TablesTyped, PollsSound, RunsFiled
<1> QED
    BY <1>2, <1>3 DEF FInv

(* Every step keeps the invariant; that an idle worker claims nothing      *)
(* comes from IInv.                                                        *)
LEMMA NextFInv == FInv /\ IdleHoldsNothing /\ [Next]_vars => FInv'
<1> SUFFICES ASSUME FInv, IdleHoldsNothing, [Next]_vars PROVE FInv'
    OBVIOUS
<1>1. ASSUME UNCHANGED <<tables, poll, launched, lost>>, clock' \in 0 .. MaxTime,
             inFlight' \subseteq inFlight
      PROVE  FInv'
      BY <1>1 DEF FInv, RowsTyped, TablesTyped, PollsSound, RunsFiled, tables
<1>2. ASSUME NEW w \in Workers, Step(w) PROVE FInv'
      BY <1>2, SelectFiles, TakeFiles, SlotFiles, ClaimFiles, EndFiles, FilingFiles,
         CommitFiles, RollBackFiles DEF Step, Refused
<1>3. ASSUME NEW w \in Workers, Abort(w) PROVE FInv'
      BY <1>3, RollBackFiles DEF Abort
<1>4. ASSUME NEW k \in Keys, TaskEnds(k) PROVE FInv'
      BY <1>4, <1>1 DEF TaskEnds, tables, history, FInv, TablesTyped
<1>5. ASSUME NEW s \in Schedules, Edit(s) PROVE FInv'
      BY <1>5, EditFiles
<1>6. CASE Tick
  <2>1. clock' \in 0 .. MaxTime
        BY <1>6, BoundsAssumption DEF Tick, FInv, TablesTyped
  <2> QED
      BY <1>6, <2>1, <1>1 DEF Tick, history
<1>7. CASE UNCHANGED vars
  <2>1. clock' \in 0 .. MaxTime
        BY <1>7 DEF vars, FInv, TablesTyped
  <2> QED
      BY <1>7, <2>1, <1>1 DEF vars, history
<1> QED
    BY <1>2, <1>3, <1>4, <1>5, <1>6, <1>7 DEF Next

(* The trigger rule and the history of overlaps are flags, and stay flags. *)
FlagsTyped == inclusive \in BOOLEAN /\ raced \in BOOLEAN

LEMMA FlagsFirst == Init => FlagsTyped
BY DEF Init, FlagsTyped

LEMMA FlagsNext == FlagsTyped /\ [Next]_vars => FlagsTyped'
BY Zenon DEF Next, Step, Edit, Select, Take, SkipSlot, StartSlot, Claim, Launched, LaunchFails,
   FileFailure, Advance, Commit, Refused, Abort, RollBack, TaskEnds, DeleteSchedule,
   UpdateSchedule, Editable, Tick, history, vars, FlagsTyped


(* Both invariants hold for every value of the constants.                  *)
LEMMA AlwaysFInv == Spec => [](FInv /\ FlagsTyped)
<1>1. IInv => IdleHoldsNothing
  BY DEF IInv
<1> QED
  BY <1>1, AlwaysIInv, FirstFiled, NextFInv, FlagsFirst, FlagsNext, PTL DEF Spec

(* Rows, runs, dead-letter entries and polls keep their types, and what is *)
(* in flight was launched.                                                 *)
THEOREM TypeCorrect == Spec => []TypeOK
<1>1. FInv /\ FlagsTyped => TypeOK
  <2> SUFFICES ASSUME FInv, FlagsTyped PROVE TypeOK
    OBVIOUS
  <2>1. /\ clock \in 0 .. MaxTime /\ runs \subseteq Runs /\ launched \subseteq Keys
        /\ lost \subseteq launched /\ inFlight \subseteq launched
        /\ \A k \in Keys : dlq[k].open \in Nat /\ dlq[k].attempts \in Nat
    BY DEF FInv, TablesTyped
  <2>2. \A s \in Schedules :
          /\ row[s].state \in {"active", "paused", "deleted"}
          /\ row[s].next \in Int /\ row[s].period \in Periods
    BY DEF FInv, RowsTyped, States
  <2>3. \A w \in Workers :
          /\ poll[w].claims \subseteq Runs /\ poll[w].locks \cup poll[w].dirty \subseteq Schedules
          /\ poll[w].pc \in {"idle", "record", "slot", "claim", "launch", "failed"}
    BY DEF FInv, PollsSound, IsPoll, Stages
  <2> QED
    BY <2>1, <2>2, <2>3 DEF TypeOK, FlagsTyped
<1> QED
  BY <1>1, AlwaysFInv, PTL

(* A committed run that failed is in the dead-letter queue under one open  *)
(* entry, however polls, crashes and repeated launches interleave          *)
(* (_claim_slot, record_failure).                                          *)
THEOREM FailuresAreFiled == Spec => []FailuresFiled
<1>1. FInv => FailuresFiled
  <2> SUFFICES ASSUME FInv PROVE FailuresFiled
    OBVIOUS
  <2>1. \A k \in Keys : dlq[k].open \in {0, 1}
    BY DEF FInv, TablesTyped
  <2> QED
    BY <2>1 DEF FInv, RunsFiled, FailuresFiled
<1> QED
  BY <1>1, AlwaysFInv, PTL

-------------------------------------------------------------------------------
(* What runs at once.  While polls do not overlap, the one poll under way  *)
(* sees every claim there is; what is in flight has an active run, and the *)
(* look that allowed a claim is still true when the claim is made.         *)

Alone == ~raced => \A v, w \in Workers : ~At(v, "idle") /\ ~At(w, "idle") => v = w
OverlapAsRead ==
  \A w \in Workers : \A r \in poll[w].todo \cup poll[w].at : r.row.overlap = row[r.id].overlap
RunsOf(k) == {r \in runs \cup UNION {poll[w].claims : w \in Workers} : r.key = k /\ Active(r)}
FlightsRun == lost = {} => \A k \in inFlight : RunsOf(k) # {}
StillAllowed == ~raced => \A w \in Workers : At(w, "claim") => MayStart(w)

OverlapInv == Alone /\ OverlapAsRead /\ FlightsRun /\ StillAllowed /\ OverlapRespected

(* A schedule keeps its overlap policy.                                    *)
Policies == \A s \in Schedules : row'[s].overlap = row[s].overlap

(* The poll under way moves, and no other: one poll is still alone, knows  *)
(* the policies, and may make the claim it is about to make.               *)
LEMMA WorkStep ==
  ASSUME FInv, Alone, OverlapAsRead, StillAllowed, NEW w \in Workers, ~At(w, "idle"), NEW q, Set(w, q),
         q.todo \cup q.at \subseteq poll[w].todo \cup poll[w].at,
         At(w, "claim")' => MayStart(w)', Policies, raced' = raced
  PROVE  Alone' /\ OverlapAsRead' /\ StillAllowed'
<1>1. poll'[w] = q /\ (\A v \in Workers \ {w} : poll'[v] = poll[v]) /\ DOMAIN poll' = Workers
      BY DEF FInv, PollsSound, Set
<1>2. \A v \in Workers \ {w} : At(v, "idle")' = At(v, "idle")
      BY <1>1 DEF At
<1>3. Alone'
  <2> SUFFICES ASSUME ~raced', NEW v \in Workers, NEW u \in Workers, ~At(v, "idle")', ~At(u, "idle")'
               PROVE  v = u
      BY DEF Alone
  <2>1. v = w \/ ~At(v, "idle")
        BY <1>2
  <2>2. u = w \/ ~At(u, "idle")
        BY <1>2
  <2>3. v = w /\ u = w
        BY <2>1, <2>2 DEF Alone
  <2> QED
      BY <2>3
<1>4. OverlapAsRead'
  <2> SUFFICES ASSUME NEW v \in Workers, NEW r \in poll'[v].todo \cup poll'[v].at
               PROVE  r.row.overlap = row'[r.id].overlap
      BY DEF OverlapAsRead
  <2>1. r \in poll[v].todo \cup poll[v].at
        BY <1>1
  <2>2. r.id \in Schedules
        BY <2>1 DEF FInv, PollsSound, IsPoll, IsTaken
  <2> QED
      BY <2>1, <2>2 DEF OverlapAsRead, Policies
<1>5. StillAllowed'
  <2> SUFFICES ASSUME ~raced', NEW v \in Workers, At(v, "claim")' PROVE MayStart(v)'
      BY DEF StillAllowed
  <2>1. v = w
    <3>1. ASSUME v # w PROVE At(v, "claim")
          BY <1>1, <3>1 DEF At
    <3>2. At(v, "claim") => ~At(v, "idle")
          BY DEF At
    <3> QED
        BY <3>1, <3>2 DEF Alone
  <2> QED
      BY <2>1
<1> QED
    BY <1>3, <1>4, <1>5

(* What is in flight has its runs, and none starts: both rules stand.      *)
LEMMA FlightsStay ==
  ASSUME FInv, FlightsRun, inFlight' \subseteq inFlight, lost \subseteq lost',
         \A k \in inFlight' : lost' = {} => RunsOf(k) \subseteq RunsOf(k)'
  PROVE  FlightsRun'
BY DEF FlightsRun

LEMMA NoneStarts ==
  ASSUME FInv, OverlapRespected, inFlight' \subseteq inFlight, lost \subseteq lost', Policies, raced' = raced
  PROVE  OverlapRespected'
<1> SUFFICES ASSUME ~raced', lost' = {}, NEW j \in inFlight', NEW k \in inFlight', j[1] = k[1], j # k
             PROVE  row'[j[1]].overlap = "concurrent"
    BY DEF OverlapRespected
<1>1. row[j[1]].overlap = "concurrent"
      BY DEF OverlapRespected
<1>2. j[1] \in Schedules
      BY DEF FInv, TablesTyped, Keys
<1> QED
    BY <1>1, <1>2 DEF Policies

(* A step of a poll that leaves its claims alone and starts nothing.       *)
LEMMA SilentStep ==
  ASSUME FInv, OverlapInv, NEW w \in Workers, ~At(w, "idle"), NEW q, Set(w, q),
         q.todo \cup q.at \subseteq poll[w].todo \cup poll[w].at, q.claims = poll[w].claims,
         At(w, "claim")' => MayStart(w)', inFlight' \subseteq inFlight, UNCHANGED <<row, runs, lost, raced>>
  PROVE  OverlapInv'
<1>1. poll'[w] = q /\ (\A v \in Workers \ {w} : poll'[v] = poll[v])
      BY DEF FInv, PollsSound, Set
<1>2. \A v \in Workers : poll'[v].claims = poll[v].claims
      BY <1>1
<1>3. \A k : RunsOf(k)' = RunsOf(k)
      BY <1>2 DEF RunsOf, Active
<1>4. Policies
      BY DEF Policies
<1>5. FlightsRun'
      BY <1>3 DEF OverlapInv, FlightsRun
<1> QED
    BY <1>4, <1>5, WorkStep, NoneStarts DEF OverlapInv

(* A new poll is alone, unless the history says otherwise.                 *)
LEMMA SelectRespects == ASSUME FInv, IInv, OverlapInv, NEW w \in Workers, Select(w) PROVE OverlapInv'
<1> DEFINE q == [NoPoll EXCEPT !.pc = "record", !.now = clock,
                   !.todo = {[id |-> s, row |-> row[s]] : s \in Due}]
<1>1. /\ At(w, "idle") /\ Set(w, q) /\ raced' = (raced \/ \E v \in Workers : ~At(v, "idle"))
      /\ UNCHANGED <<row, runs, inFlight, lost>>
      BY Zenon DEF Select, tables
<1>2. /\ q.pc = "record" /\ q.claims = {} /\ q.at = {}
      /\ q.todo = {[id |-> s, row |-> row[s]] : s \in Due}
      BY DEF NoPoll
<1> HIDE DEF q
<1>3. poll'[w] = q /\ (\A v \in Workers \ {w} : poll'[v] = poll[v])
      BY <1>1 DEF FInv, PollsSound, Set
<1>4. \A v \in Workers : poll'[v].claims = poll[v].claims
      BY <1>1, <1>2, <1>3 DEF IInv, IdleHoldsNothing
<1>5. \A k : RunsOf(k)' = RunsOf(k)
      BY <1>1, <1>4 DEF RunsOf, Active
<1>6. raced => raced'
      BY <1>1
<1>7. FlightsRun' /\ OverlapRespected'
      BY <1>1, <1>5, <1>6 DEF OverlapInv, FlightsRun, OverlapRespected
<1>8. ASSUME ~raced' PROVE \A v \in Workers \ {w} : At(v, "idle")'
      BY <1>1, <1>3, <1>8 DEF At
<1>9. ~At(w, "claim")'
      BY <1>2, <1>3 DEF At
<1>10. Alone'
      BY <1>8 DEF Alone
<1>11. StillAllowed'
  <2> SUFFICES ASSUME ~raced', NEW v \in Workers, At(v, "claim")' PROVE FALSE
      BY DEF StillAllowed
  <2>1. v # w
        BY <1>9
  <2>2. At(v, "idle")'
        BY <2>1, <1>8
  <2> QED
      BY <2>2 DEF At
<1>12. OverlapAsRead'
  <2> SUFFICES ASSUME NEW v \in Workers, NEW r \in poll'[v].todo \cup poll'[v].at
               PROVE  r.row.overlap = row'[r.id].overlap
      BY DEF OverlapAsRead
  <2>1. CASE v = w
        BY <1>1, <1>2, <1>3, <2>1
  <2>2. CASE v # w
        BY <1>1, <1>3, <2>2 DEF OverlapInv, OverlapAsRead
  <2> QED
      BY <2>1, <2>2
<1> QED
    BY <1>7, <1>10, <1>11, <1>12 DEF OverlapInv

(* The look comes just before the claim it allows.                         *)
LEMMA StartRespects == ASSUME FInv, OverlapInv, NEW w \in Workers, StartSlot(w) PROVE OverlapInv'
<1> DEFINE q == Flushed([poll[w] EXCEPT !.pc = "claim"])
<1>1. Set(w, q) /\ UNCHANGED <<row, runs, inFlight, lost, raced>> /\ At(w, "slot") /\ MayStart(w)
      BY Zenon DEF StartSlot, tables, history
<1>2. q.claims = poll[w].claims /\ q.todo = poll[w].todo /\ q.at = poll[w].at
      BY DEF Flushed, FInv, PollsSound, IsPoll, Fields
<1> HIDE DEF q
<1>3. poll'[w] = q
      BY <1>1 DEF FInv, PollsSound, Set
<1>4. Taken(w)' = Taken(w)
      BY <1>2, <1>3 DEF Taken
<1>5. \A s : HasActiveRun(w, s)' = HasActiveRun(w, s)
      BY <1>1, <1>2, <1>3 DEF HasActiveRun, Active
<1>6. MayStart(w)'
      BY <1>1, <1>4, <1>5 DEF MayStart
<1>7. ~At(w, "idle")
      BY <1>1 DEF At
<1> QED
    BY <1>1, <1>2, <1>6, <1>7, SilentStep

(* A claim starts a task only beside none of its schedule, or of one that  *)
(* runs concurrently.                                                      *)
LEMMA ClaimRespects == ASSUME FInv, IInv, OverlapInv, NEW w \in Workers, Claim(w) PROVE OverlapInv'
<1>1. At(w, "claim") /\ ~At(w, "idle") /\ UNCHANGED <<row, runs, lost, raced>>
      BY DEF Claim, At, tables
<1>2. IsPoll(poll[w]) /\ poll[w].at # {} /\ poll[w].slots # {}
      BY <1>1 DEF FInv, PollsSound, IsPoll, At
<1> PICK key : key = Key(w)
    OBVIOUS
<1>3. CASE Recorded(key) \/ Holds(w, key)
  <2> DEFINE q == NextSlot(w)
  <2>1. Set(w, q) /\ inFlight' = inFlight
        BY <1>3 DEF Claim
  <2>2. q.claims = poll[w].claims /\ q.todo = poll[w].todo /\ q.at = poll[w].at /\ q.pc = "slot"
        BY <1>2 DEF NextSlot, IsPoll, Fields
  <2> HIDE DEF q
  <2>3. ~At(w, "claim")'
        BY <2>1, <2>2 DEF FInv, PollsSound, Set, At
  <2> QED
      BY <1>1, <2>1, <2>2, <2>3, SilentStep
<1>4. CASE ~(Recorded(key) \/ Holds(w, key))
  <2> DEFINE mine == [key |-> key, status |-> "pending"]
             q == [poll[w] EXCEPT !.pc = "launch", !.claims = @ \cup {mine}]
  <2>1. Set(w, q) /\ inFlight' = inFlight \cup {key}
        BY <1>4 DEF Claim
  <2>2. /\ q.claims = poll[w].claims \cup {mine} /\ q.todo = poll[w].todo /\ q.at = poll[w].at
        /\ q.pc = "launch"
        BY <1>2 DEF IsPoll, Fields
  <2>3. mine.key = key /\ Active(mine)
        BY DEF Active
  <2> HIDE DEF q, mine
  <2>4. poll'[w] = q /\ (\A v \in Workers \ {w} : poll'[v] = poll[v])
        BY <2>1 DEF FInv, PollsSound, Set
  <2>5. ~At(w, "claim")'
        BY <2>2, <2>4 DEF At
  <2>6. Policies
        BY <1>1 DEF Policies
  <2>7. Alone' /\ OverlapAsRead' /\ StillAllowed'
        BY <1>1, <2>1, <2>2, <2>5, <2>6, WorkStep DEF OverlapInv
  <2>8. \A k : RunsOf(k) \subseteq RunsOf(k)'
    <3>1. \A v \in Workers : poll[v].claims \subseteq poll'[v].claims
          BY <2>2, <2>4
    <3> QED
        BY <1>1, <3>1 DEF RunsOf, Active
  <2>9. mine \in RunsOf(key)'
        BY <2>2, <2>3, <2>4 DEF RunsOf, Active
  <2>10. FlightsRun'
        BY <1>1, <2>1, <2>8, <2>9 DEF OverlapInv, FlightsRun
  <2>11. Taken(w) \in poll[w].at /\ key[1] = Taken(w).id /\ Taken(w).id \in Schedules
        BY <1>2 DEF Taken, Key, IsPoll, IsTaken
  <2>12. ASSUME ~raced, lost = {}, NEW k \in inFlight, k[1] = key[1] PROVE row[k[1]].overlap = "concurrent"
    <3>1. PICK r \in RunsOf(k) : TRUE
          BY <2>12 DEF OverlapInv, FlightsRun
    <3>2. r.key = k /\ Active(r) /\ (r \in runs \/ \E v \in Workers : r \in poll[v].claims)
          BY <3>1 DEF RunsOf
    <3>3. \A v \in Workers : r \in poll[v].claims => v = w
          BY <1>1, <2>12 DEF IInv, IdleHoldsNothing, OverlapInv, Alone
    <3>4. HasActiveRun(w, Taken(w).id)
          BY <2>11, <2>12, <3>2, <3>3 DEF HasActiveRun
    <3>5. Taken(w).row.overlap = "concurrent"
          BY <1>1, <2>12, <3>4 DEF OverlapInv, StillAllowed, MayStart
    <3> QED
        BY <2>11, <2>12, <3>5 DEF OverlapInv, OverlapAsRead
  <2>13. OverlapRespected'
    <3> SUFFICES ASSUME ~raced', lost' = {}, NEW j \in inFlight', NEW k \in inFlight', j[1] = k[1], j # k
                 PROVE  row'[j[1]].overlap = "concurrent"
        BY DEF OverlapRespected
    <3>1. CASE j \in inFlight /\ k \in inFlight
          BY <1>1, <3>1 DEF OverlapInv, OverlapRespected
    <3>2. CASE j = key /\ k \in inFlight
          BY <1>1, <2>12, <3>2
    <3>3. CASE k = key /\ j \in inFlight
          BY <1>1, <2>12, <3>3
    <3> QED
        BY <2>1, <3>1, <3>2, <3>3
  <2> QED
      BY <2>7, <2>10, <2>13 DEF OverlapInv
<1> QED
    BY <1>3, <1>4

(* The end of a launch leaves its run active, or its task no longer in     *)
(* flight.                                                                 *)
LEMMA EndRespects ==
  ASSUME FInv, OverlapInv, NEW w \in Workers, Launched(w) \/ LaunchFails(w)
  PROVE  OverlapInv'
<1> PICK key : key = Key(w)
    OBVIOUS
<1> DEFINE status == IF Launched(w) THEN "running" ELSE "failed"
           mine == [key |-> key, status |-> status]
<1>1. At(w, "launch") /\ ~At(w, "idle") /\ UNCHANGED <<row, runs, lost, raced>> /\ inFlight' \subseteq inFlight
      BY DEF Launched, LaunchFails, At, tables, history
<1>2. DOMAIN poll[w] = Fields
      BY DEF FInv, PollsSound, IsPoll
<1>3. \E q : /\ Set(w, q) /\ q.todo = poll[w].todo /\ q.at = poll[w].at /\ q.pc # "claim"
             /\ q.claims = {r \in poll[w].claims : r.key # key} \cup {mine}
             /\ mine.status = "running" \/ key \notin inFlight'
  <2>1. CASE Launched(w)
    <3> DEFINE q == [Become(NextSlot(w), key, "running") EXCEPT !.dirty = @ \cup {Taken(w).id}]
    <3>1. Set(w, q)
          BY <2>1, Zenon DEF Launched
    <3>2. /\ q.todo = poll[w].todo /\ q.at = poll[w].at /\ q.pc = "slot"
          /\ q.claims = {r \in poll[w].claims : r.key # key} \cup {[key |-> key, status |-> "running"]}
          BY <1>2 DEF Become, NextSlot, Fields
    <3> HIDE DEF q
    <3> QED
        BY <2>1, <3>1, <3>2
  <2>2. CASE ~Launched(w)
    <3> DEFINE q == Become([poll[w] EXCEPT !.pc = "failed"], key, "failed")
    <3>1. Set(w, q) /\ inFlight' = inFlight \ {key}
          BY <2>2, Zenon DEF LaunchFails
    <3>2. /\ q.todo = poll[w].todo /\ q.at = poll[w].at /\ q.pc = "failed"
          /\ q.claims = {r \in poll[w].claims : r.key # key} \cup {[key |-> key, status |-> "failed"]}
          BY <1>2 DEF Become, Fields
    <3> HIDE DEF q
    <3> QED
        BY <2>2, <3>1, <3>2
  <2> QED
      BY <2>1, <2>2
<1>4. PICK q : /\ Set(w, q) /\ q.todo = poll[w].todo /\ q.at = poll[w].at /\ q.pc # "claim"
               /\ q.claims = {r \in poll[w].claims : r.key # key} \cup {mine}
               /\ mine.status = "running" \/ key \notin inFlight'
      BY <1>3
<1>5. mine.key = key
      OBVIOUS
<1> HIDE DEF mine
<1>6. poll'[w] = q /\ (\A v \in Workers \ {w} : poll'[v] = poll[v])
      BY <1>4 DEF FInv, PollsSound, Set
<1>7. ~At(w, "claim")' /\ Policies
      BY <1>1, <1>4, <1>6 DEF At, Policies
<1>8. Alone' /\ OverlapAsRead' /\ StillAllowed' /\ OverlapRespected'
      BY <1>1, <1>4, <1>7, WorkStep, NoneStarts DEF OverlapInv
<1>9. ASSUME NEW k, k # key PROVE RunsOf(k) \subseteq RunsOf(k)'
      BY <1>1, <1>4, <1>6, <1>9 DEF RunsOf, Active
<1>10. mine.status = "running" => mine \in RunsOf(key)'
      BY <1>4, <1>5, <1>6 DEF RunsOf, Active
<1>11. FlightsRun'
      BY <1>1, <1>4, <1>9, <1>10 DEF OverlapInv, FlightsRun
<1> QED
    BY <1>8, <1>11 DEF OverlapInv

(* A commit makes rows of the claims.                                      *)
LEMMA CommitRespects == ASSUME FInv, OverlapInv, NEW w \in Workers, Commit(w) PROVE OverlapInv'
<1>1. /\ ~At(w, "idle") /\ Set(w, NoPoll) /\ runs' = runs \cup poll[w].claims
      /\ UNCHANGED <<inFlight, lost, raced>>
      BY DEF Commit, At, history
<1>2. NoPoll.todo = {} /\ NoPoll.at = {} /\ NoPoll.claims = {} /\ NoPoll.pc = "idle"
      BY DEF NoPoll
<1>3. poll'[w] = NoPoll /\ (\A v \in Workers \ {w} : poll'[v] = poll[v])
      BY <1>1 DEF FInv, PollsSound, Set
<1>4. Policies
  <2> SUFFICES ASSUME NEW s \in Schedules PROVE row'[s].overlap = row[s].overlap
      BY DEF Policies
  <2>1. row'[s] = Applied(s, poll[w].writes) /\ DOMAIN row[s] = RowFields
        BY DEF Commit, FInv, RowsTyped
  <2> QED
      BY <2>1 DEF Applied, RowFields
<1>5. ~At(w, "claim")'
      BY <1>2, <1>3 DEF At
<1>6. \A k : RunsOf(k) \subseteq RunsOf(k)'
      BY <1>1, <1>3 DEF RunsOf, Active
<1>7. FlightsRun'
      BY <1>1, <1>6 DEF OverlapInv, FlightsRun
<1> QED
    BY <1>1, <1>2, <1>4, <1>5, <1>7, WorkStep, NoneStarts DEF OverlapInv

(* A poll that is rolled back takes its claims away, and says so.          *)
LEMMA RollBackRespects ==
  ASSUME FInv, OverlapInv, NEW w \in Workers, ~At(w, "idle"), RollBack(w)
  PROVE  OverlapInv'
<1>1. /\ Set(w, NoPoll) /\ lost' = lost \cup {k \in launched : Holds(w, k)}
      /\ UNCHANGED <<row, runs, inFlight, raced>>
      BY DEF RollBack, tables
<1>2. NoPoll.todo = {} /\ NoPoll.at = {} /\ NoPoll.claims = {} /\ NoPoll.pc = "idle"
      BY DEF NoPoll
<1>3. poll'[w] = NoPoll /\ (\A v \in Workers \ {w} : poll'[v] = poll[v])
      BY <1>1 DEF FInv, PollsSound, Set
<1>4. Policies /\ ~At(w, "claim")'
      BY <1>1, <1>2, <1>3 DEF At, Policies
<1>5. ASSUME lost' = {}, NEW k \in inFlight PROVE RunsOf(k) \subseteq RunsOf(k)'
  <2>1. ~Holds(w, k)
        BY <1>1, <1>5 DEF FInv, TablesTyped
  <2> QED
      BY <1>1, <1>3, <2>1 DEF RunsOf, Active, Holds
<1>6. FlightsRun'
      BY <1>1, <1>5 DEF OverlapInv, FlightsRun
<1> QED
    BY <1>1, <1>2, <1>4, <1>6, WorkStep, NoneStarts DEF OverlapInv

(* Every step of a poll.                                                   *)
LEMMA PollRespects == ASSUME FInv, IInv, OverlapInv, NEW w \in Workers, Step(w) PROVE OverlapInv'
<1>1. DOMAIN poll[w] = Fields /\ DOMAIN poll = Workers
      BY DEF FInv, PollsSound, IsPoll
<1>2. ASSUME NEW q, Set(w, q), q.pc # "claim" PROVE ~At(w, "claim")'
      BY <1>1, <1>2 DEF Set, At
<1>3. CASE Take(w)
  <2>1. PICK r \in Earliest(poll[w].todo) :
           Set(w, IF ~r.row.valid
                  THEN Changed([poll[w] EXCEPT !.todo = @ \ {r}], r.id, NoTime, "paused")
                  ELSE [poll[w] EXCEPT !.pc = "slot", !.todo = @ \ {r}, !.at = {r},
                                       !.slots = SlotsToRun(r.row, poll[w].now)])
        BY <1>3 DEF Take
  <2> DEFINE paused == Changed([poll[w] EXCEPT !.todo = @ \ {r}], r.id, NoTime, "paused")
             taken == [poll[w] EXCEPT !.pc = "slot", !.todo = @ \ {r}, !.at = {r},
                                      !.slots = SlotsToRun(r.row, poll[w].now)]
  <2>2. r \in poll[w].todo /\ At(w, "record") /\ UNCHANGED <<row, runs, inFlight, lost, raced>>
        BY <1>3, <2>1 DEF Take, Earliest, tables, history
  <2>3. /\ paused.claims = poll[w].claims /\ paused.pc = "record"
        /\ paused.todo \cup paused.at \subseteq poll[w].todo \cup poll[w].at
        BY <1>1, <2>2 DEF Changed, Fields, At
  <2>4. /\ taken.claims = poll[w].claims /\ taken.pc = "slot"
        /\ taken.todo \cup taken.at \subseteq poll[w].todo \cup poll[w].at
        BY <1>1, <2>2 DEF Fields
  <2>5. Set(w, paused) \/ Set(w, taken)
        BY <2>1
  <2>6. ~At(w, "idle")
        BY <2>2 DEF At
  <2> HIDE DEF paused, taken
  <2> QED
      BY <1>2, <2>2, <2>3, <2>4, <2>5, <2>6, SilentStep
<1>4. CASE SkipSlot(w)
  <2> DEFINE q == Flushed(NextSlot(w))
  <2>1. Set(w, q) /\ ~At(w, "idle") /\ UNCHANGED <<row, runs, inFlight, lost, raced>>
        BY <1>4 DEF SkipSlot, tables, history, At
  <2>2. q.claims = poll[w].claims /\ q.todo = poll[w].todo /\ q.at = poll[w].at /\ q.pc = "slot"
        BY <1>1 DEF Flushed, NextSlot, Fields
  <2> HIDE DEF q
  <2> QED
      BY <1>2, <2>1, <2>2, SilentStep
<1>5. CASE FileFailure(w)
  <2> DEFINE q == NextSlot(w)
  <2>1. Set(w, q) /\ ~At(w, "idle") /\ UNCHANGED <<row, runs, inFlight, lost, raced>>
        BY <1>5 DEF FileFailure, tables, history, At
  <2>2. q.claims = poll[w].claims /\ q.todo = poll[w].todo /\ q.at = poll[w].at /\ q.pc = "slot"
        BY <1>1 DEF NextSlot, Fields
  <2> HIDE DEF q
  <2> QED
      BY <1>2, <2>1, <2>2, SilentStep
<1>6. CASE Advance(w)
  <2> DEFINE r == Taken(w)
             q == Changed([poll[w] EXCEPT !.pc = "record", !.at = {}],
                          r.id, After(r.row.period, poll[w].now), r.row.state)
  <2>1. Set(w, q) /\ ~At(w, "idle") /\ UNCHANGED <<row, runs, inFlight, lost, raced>>
        BY <1>6 DEF Advance, tables, history, At
  <2>2. q.claims = poll[w].claims /\ q.todo = poll[w].todo /\ q.at = {} /\ q.pc = "record"
        BY <1>1 DEF Changed, Fields
  <2> HIDE DEF q
  <2> QED
      BY <1>2, <2>1, <2>2, SilentStep
<1>7. CASE Refused(w)
  <2>1. ~At(w, "idle")
        BY <1>7 DEF Refused, Flushing, Blockers, KeyHolders, RowHolders, At
  <2> QED
      BY <1>7, <2>1, RollBackRespects DEF Refused
<1> QED
    BY <1>3, <1>4, <1>5, <1>6, <1>7, SelectRespects, StartRespects, ClaimRespects, EndRespects, CommitRespects DEF Step

(* Edits, the clock and the end of a task.                                 *)
LEMMA OtherRespects ==
  ASSUME FInv, OverlapInv, Policies, inFlight' \subseteq inFlight, UNCHANGED <<poll, runs, lost, raced>>
  PROVE  OverlapInv'
<1>1. \A w \in Workers : At(w, "claim")' = At(w, "claim") /\ MayStart(w)' = MayStart(w)
      BY DEF At, MayStart, HasActiveRun, Taken, Active
<1>2. Alone' /\ StillAllowed'
      BY <1>1 DEF OverlapInv, Alone, StillAllowed, At
<1>3. OverlapAsRead'
  <2> SUFFICES ASSUME NEW v \in Workers, NEW r \in poll[v].todo \cup poll[v].at
               PROVE  r.row.overlap = row'[r.id].overlap
      BY DEF OverlapAsRead
  <2>1. r.id \in Schedules
        BY DEF FInv, PollsSound, IsPoll, IsTaken
  <2> QED
      BY <2>1 DEF OverlapInv, OverlapAsRead, Policies
<1>4. \A k : RunsOf(k)' = RunsOf(k)
      BY DEF RunsOf, Active
<1>5. FlightsRun'
      BY <1>4 DEF OverlapInv, FlightsRun
<1> QED
    BY <1>2, <1>3, <1>5, NoneStarts DEF OverlapInv

(* Every step of a poll, an edit, the clock and a task's end.              *)
LEMMA NextRespects == FInv /\ IInv /\ OverlapInv /\ [Next]_vars => OverlapInv'
<1> SUFFICES ASSUME FInv, IInv, OverlapInv, [Next]_vars PROVE OverlapInv'
    OBVIOUS
<1>1. ASSUME NEW w \in Workers, Abort(w) PROVE OverlapInv'
      BY <1>1, RollBackRespects DEF Abort
<1>2. ASSUME NEW k \in Keys, TaskEnds(k) PROVE OverlapInv'
  <2>1. Policies /\ inFlight' \subseteq inFlight /\ UNCHANGED <<poll, runs, lost, raced>>
        BY <1>2 DEF TaskEnds, tables, history, Policies
  <2> QED
      BY <2>1, OtherRespects
<1>3. ASSUME NEW s \in Schedules, Edit(s) PROVE OverlapInv'
  <2>1. inFlight' = inFlight /\ UNCHANGED <<poll, runs, lost, raced>>
        BY <1>3 DEF Edit, DeleteSchedule, UpdateSchedule, Editable, history
  <2>2. DOMAIN row = Schedules /\ DOMAIN row[s] = RowFields
        BY DEF FInv, RowsTyped
  <2>3. CASE DeleteSchedule(s)
    <3> DEFINE new == [row[s] EXCEPT !.state = "deleted", !.next = NoTime]
    <3>1. row' = [row EXCEPT ![s] = new]
          BY <2>3, Zenon DEF DeleteSchedule
    <3>2. new.overlap = row[s].overlap
          BY <2>2 DEF RowFields
    <3> HIDE DEF new
    <3>3. Policies
          BY <2>2, <3>1, <3>2 DEF Policies
    <3> QED
        BY <2>1, <3>3, OtherRespects
  <2>4. ASSUME NEW state, NEW period, UpdateSchedule(s, state, period) PROVE OverlapInv'
    <3>1. Policies
          BY <2>2, <2>4 DEF UpdateSchedule, Policies, RowFields
    <3> QED
        BY <2>1, <3>1, OtherRespects
  <2> QED
      BY <1>3, <2>3, <2>4 DEF Edit
<1>4. ASSUME Tick \/ UNCHANGED vars PROVE OverlapInv'
  <2>1. Policies /\ inFlight' = inFlight /\ UNCHANGED <<poll, runs, lost, raced>>
        BY <1>4 DEF Tick, vars, tables, history, Policies
  <2> QED
      BY <2>1, OtherRespects
<1> QED
    BY <1>1, <1>2, <1>3, <1>4, PollRespects DEF Next

(* Nothing runs at first.                                                 *)
LEMMA FirstRespects == Init => OverlapInv
<1> SUFFICES ASSUME Init PROVE OverlapInv
    OBVIOUS
<1>1. \A w \in Workers : poll[w] = NoPoll
      BY DEF Init
<1>2. NoPoll.pc = "idle" /\ NoPoll.todo = {} /\ NoPoll.at = {}
      BY DEF NoPoll
<1>3. Alone /\ OverlapAsRead /\ StillAllowed
      BY <1>1, <1>2 DEF Alone, OverlapAsRead, StillAllowed, At
<1>4. FlightsRun /\ OverlapRespected
      BY DEF Init, FlightsRun, OverlapRespected
<1> QED
    BY <1>3, <1>4 DEF OverlapInv

(* While polls neither overlap nor fail, a schedule whose policy is not to *)
(* run concurrently has one task in flight at most (should_start_run), for *)
(* any schedules, missed slots, edits in between and failing launches.     *)
THEOREM PoliciesAreKept == Spec => []OverlapRespected
<1>1. OverlapInv => OverlapRespected
      BY DEF OverlapInv
<1> QED
    BY <1>1, FirstRespects, NextRespects, AlwaysIInv, AlwaysFInv, PTL DEF Spec

-------------------------------------------------------------------------------
(* What stays due.  A poll has in hand, or has decided on, every row that  *)
(* was due when it began and still is; what it decides lies ahead of it.   *)
Covers(p, s) == (\E r \in p.todo \cup p.at : r.id = s) \/ (\E u \in p.writes : u.id = s)
DecidesAhead(p) ==
  \A u \in p.writes : u.next > p.now \/ u = [id |-> u.id, next |-> NoTime, state |-> "paused"]
OneAtATime(p) == (\A r, q \in p.at : r = q) /\ (p.pc = "record" => p.at = {})

PollsDecide ==
  \A w \in Workers : DecidesAhead(poll[w]) /\ OneAtATime(poll[w]) /\ poll[w].now <= clock
ActiveTimed == \A s \in Schedules : row[s].state = "active" => row[s].next >= 0
DueCovered ==
  ~raced => \A w \in Workers : ~At(w, "idle") =>
    \A s \in Schedules :
      row[s].state = "active" /\ row[s].next <= poll[w].now => Covers(poll[w], s)

DueInv == PollsDecide /\ ActiveTimed /\ DueCovered

(* The next fire time of a moment lies past it.                            *)
LEMMA AfterPast == ASSUME NEW p \in Nat \ {0}, NEW t \in Nat PROVE After(p, t) > t
<1>1. t \div p \in Nat /\ t % p \in 0 .. (p - 1)
      OBVIOUS
<1>2. t = p * (t \div p) + (t % p)
      OBVIOUS
<1> DEFINE d == t \div p
           m == t % p
<1> HIDE DEF d, m
<1>3. d \in Nat /\ m < p /\ m \in Nat /\ t = p * d + m
      BY <1>1, <1>2 DEF d, m
<1>4. p * (d + 1) = p * d + p
      BY <1>3
<1>5. p * d \in Nat
      BY <1>3
<1>6. p * (d + 1) > t
      BY <1>3, <1>4, <1>5
<1> QED
    BY <1>6 DEF After, d

(* A step of a poll that forgets no row.                                   *)
LEMMA DecideStep ==
  ASSUME FInv, DueInv, NEW w \in Workers, ~At(w, "idle"), NEW q, Set(w, q), q.now = poll[w].now,
         DecidesAhead(q), OneAtATime(q), \A s \in Schedules : Covers(poll[w], s) => Covers(q, s),
         UNCHANGED <<row, clock, raced>>
  PROVE  DueInv'
<1>1. poll'[w] = q /\ (\A v \in Workers \ {w} : poll'[v] = poll[v])
      BY DEF FInv, PollsSound, Set
<1>2. PollsDecide'
  <2> SUFFICES ASSUME NEW v \in Workers
               PROVE  DecidesAhead(poll'[v]) /\ OneAtATime(poll'[v]) /\ poll'[v].now <= clock
      BY DEF PollsDecide, DecidesAhead, OneAtATime
  <2>1. DecidesAhead(poll[v]) /\ OneAtATime(poll[v]) /\ poll[v].now <= clock
        BY DEF DueInv, PollsDecide
  <2> QED
      BY <1>1, <2>1
<1>3. ActiveTimed'
      BY DEF DueInv, ActiveTimed
<1>4. DueCovered'
  <2> SUFFICES ASSUME ~raced, NEW v \in Workers, ~At(v, "idle")', NEW s \in Schedules,
                      row[s].state = "active", row[s].next <= poll'[v].now
               PROVE  Covers(poll'[v], s)
      BY DEF DueCovered, Covers
  <2>1. ~At(v, "idle") /\ row[s].next <= poll[v].now
        BY <1>1 DEF At
  <2>2. Covers(poll[v], s)
        BY <2>1 DEF DueInv, DueCovered
  <2> QED
      BY <1>1, <2>2
<1> QED
    BY <1>2, <1>3, <1>4 DEF DueInv

(* A poll that is given up, or over, covers nothing and has to cover       *)
(* nothing.                                                                *)
LEMMA RestDecides == DecidesAhead(NoPoll) /\ OneAtATime(NoPoll) /\ NoPoll.now = 0 /\ NoPoll.pc = "idle"
BY DEF DecidesAhead, OneAtATime, NoPoll

LEMMA RollBackDecides == ASSUME FInv, DueInv, NEW w \in Workers, RollBack(w) PROVE DueInv'
<1>1. Set(w, NoPoll) /\ UNCHANGED <<row, clock, raced>>
      BY DEF RollBack, tables
<1>2. poll'[w] = NoPoll /\ (\A v \in Workers \ {w} : poll'[v] = poll[v])
      BY <1>1 DEF FInv, PollsSound, Set
<1>3. 0 <= clock
      BY BoundsAssumption DEF FInv, TablesTyped
<1>4. PollsDecide'
  <2> SUFFICES ASSUME NEW v \in Workers
               PROVE  DecidesAhead(poll'[v]) /\ OneAtATime(poll'[v]) /\ poll'[v].now <= clock
      BY <1>1 DEF PollsDecide, DecidesAhead, OneAtATime
  <2>1. DecidesAhead(poll[v]) /\ OneAtATime(poll[v]) /\ poll[v].now <= clock
        BY DEF DueInv, PollsDecide
  <2> QED
      BY <1>2, <1>3, <2>1, RestDecides
<1>5. ActiveTimed'
      BY <1>1 DEF DueInv, ActiveTimed
<1>6. DueCovered'
  <2> SUFFICES ASSUME ~raced, NEW v \in Workers, ~At(v, "idle")', NEW s \in Schedules,
                      row[s].state = "active", row[s].next <= poll'[v].now
               PROVE  Covers(poll'[v], s)
      BY <1>1 DEF DueCovered, Covers
  <2>1. v # w
        BY <1>2, RestDecides DEF At
  <2>2. poll'[v] = poll[v] /\ ~At(v, "idle")
        BY <1>2, <2>1 DEF At
  <2> QED
      BY <2>2 DEF DueInv, DueCovered
<1> QED
    BY <1>4, <1>5, <1>6 DEF DueInv

(* A new poll has in hand what is due.                                     *)
LEMMA SelectDecides == ASSUME FInv, DueInv, NEW w \in Workers, Select(w) PROVE DueInv'
<1> DEFINE q == [NoPoll EXCEPT !.pc = "record", !.now = clock,
                   !.todo = {[id |-> s, row |-> row[s]] : s \in Due}]
<1>1. Set(w, q) /\ UNCHANGED <<row, clock>> /\ (raced => raced')
      BY Zenon DEF Select, tables
<1>2. /\ q.writes = {} /\ q.at = {} /\ q.now = clock
      /\ q.todo = {[id |-> s, row |-> row[s]] : s \in Due}
      BY DEF NoPoll
<1> HIDE DEF q
<1>3. poll'[w] = q /\ (\A v \in Workers \ {w} : poll'[v] = poll[v])
      BY <1>1 DEF FInv, PollsSound, Set
<1>4. clock \in Nat
      BY BoundsAssumption DEF FInv, TablesTyped
<1>5. PollsDecide'
  <2> SUFFICES ASSUME NEW v \in Workers
               PROVE  DecidesAhead(poll'[v]) /\ OneAtATime(poll'[v]) /\ poll'[v].now <= clock
      BY <1>1 DEF PollsDecide, DecidesAhead, OneAtATime
  <2>1. DecidesAhead(poll[v]) /\ OneAtATime(poll[v]) /\ poll[v].now <= clock
        BY DEF DueInv, PollsDecide
  <2>2. DecidesAhead(q) /\ OneAtATime(q) /\ q.now <= clock
        BY <1>2, <1>4 DEF DecidesAhead, OneAtATime
  <2> QED
      BY <1>3, <2>1, <2>2
<1>6. ActiveTimed'
      BY <1>1 DEF DueInv, ActiveTimed
<1>7. DueCovered'
  <2> SUFFICES ASSUME ~raced, NEW v \in Workers, ~At(v, "idle")', NEW s \in Schedules,
                      row[s].state = "active", row[s].next <= poll'[v].now
               PROVE  Covers(poll'[v], s)
      BY <1>1 DEF DueCovered, Covers
  <2>1. CASE v = w
    <3>1. row[s].next \in Int /\ row[s].next >= 0 /\ row[s].next <= clock
          BY <1>2, <1>3, <2>1 DEF FInv, RowsTyped, DueInv, ActiveTimed
    <3>2. s \in Due
          BY <1>4, <3>1 DEF Due
    <3>3. [id |-> s, row |-> row[s]] \in q.todo /\ [id |-> s, row |-> row[s]].id = s
          BY <1>2, <3>2
    <3> QED
        BY <1>3, <2>1, <3>3 DEF Covers
  <2>2. CASE v # w
    <3>1. poll'[v] = poll[v] /\ ~At(v, "idle")
          BY <1>3, <2>2 DEF At
    <3> QED
        BY <3>1 DEF DueInv, DueCovered
  <2> QED
      BY <2>1, <2>2
<1> QED
    BY <1>5, <1>6, <1>7 DEF DueInv

(* A row is taken, or paused on the spot.                                  *)
LEMMA TakeDecides == ASSUME FInv, DueInv, NEW w \in Workers, Take(w) PROVE DueInv'
<1>1. PICK r \in Earliest(poll[w].todo) :
         Set(w, IF ~r.row.valid
                THEN Changed([poll[w] EXCEPT !.todo = @ \ {r}], r.id, NoTime, "paused")
                ELSE [poll[w] EXCEPT !.pc = "slot", !.todo = @ \ {r}, !.at = {r},
                                     !.slots = SlotsToRun(r.row, poll[w].now)])
      BY DEF Take
<1>2. r \in poll[w].todo /\ At(w, "record") /\ ~At(w, "idle") /\ UNCHANGED <<row, clock, raced>>
      BY <1>1 DEF Take, Earliest, tables, history, At
<1>3. DOMAIN poll[w] = Fields /\ DecidesAhead(poll[w]) /\ poll[w].at = {}
      BY <1>2 DEF FInv, PollsSound, IsPoll, DueInv, PollsDecide, OneAtATime, At
<1> DEFINE mine == [id |-> r.id, next |-> NoTime, state |-> "paused"]
           paused == Changed([poll[w] EXCEPT !.todo = @ \ {r}], r.id, NoTime, "paused")
           taken == [poll[w] EXCEPT !.pc = "slot", !.todo = @ \ {r}, !.at = {r},
                                    !.slots = SlotsToRun(r.row, poll[w].now)]
<1>4. /\ paused.todo = poll[w].todo \ {r} /\ paused.at = {} /\ paused.now = poll[w].now
      /\ paused.writes = poll[w].writes \cup {mine}
      BY <1>3 DEF Changed, Fields
<1>5. /\ taken.todo = poll[w].todo \ {r} /\ taken.at = {r} /\ taken.now = poll[w].now
      /\ taken.writes = poll[w].writes /\ taken.pc = "slot"
      BY <1>3 DEF Fields
<1>6. Set(w, paused) \/ Set(w, taken)
      BY <1>1
<1>7. mine.id = r.id /\ mine = [id |-> mine.id, next |-> NoTime, state |-> "paused"]
      OBVIOUS
<1> HIDE DEF mine, paused, taken
<1>8. DecidesAhead(paused) /\ OneAtATime(paused)
      BY <1>3, <1>4, <1>7 DEF DecidesAhead, OneAtATime
<1>9. DecidesAhead(taken) /\ OneAtATime(taken)
      BY <1>3, <1>5 DEF DecidesAhead, OneAtATime
<1>10. \A s \in Schedules : Covers(poll[w], s) => Covers(paused, s) /\ Covers(taken, s)
      BY <1>3, <1>4, <1>5, <1>7 DEF Covers
<1> QED
    BY <1>2, <1>4, <1>5, <1>6, <1>8, <1>9, <1>10, DecideStep

(* The row in hand gets its next run, which is ahead.                      *)
LEMMA AdvanceDecides == ASSUME FInv, DueInv, NEW w \in Workers, Advance(w) PROVE DueInv'
<1> PICK r : r = Taken(w)
    OBVIOUS
<1> PICK next : next = After(r.row.period, poll[w].now)
    OBVIOUS
<1> DEFINE mine == [id |-> r.id, next |-> next, state |-> r.row.state]
           q == Changed([poll[w] EXCEPT !.pc = "record", !.at = {}], r.id, next, r.row.state)
<1>1. Set(w, q) /\ At(w, "slot") /\ ~At(w, "idle") /\ UNCHANGED <<row, clock, raced>>
      BY DEF Advance, At, tables, history
<1>2. IsPoll(poll[w]) /\ poll[w].at # {} /\ DecidesAhead(poll[w]) /\ OneAtATime(poll[w])
      BY <1>1 DEF FInv, PollsSound, IsPoll, At, DueInv, PollsDecide
<1>3. r \in poll[w].at /\ poll[w].at = {r}
  <2>1. (CHOOSE x \in poll[w].at : TRUE) \in poll[w].at
        BY <1>2
  <2>2. r = (CHOOSE x \in poll[w].at : TRUE)
        BY Zenon DEF Taken
  <2>3. \A x, y \in poll[w].at : x = y
        BY <1>2 DEF OneAtATime
  <2>4. r \in poll[w].at
        BY <2>1, <2>2, Zenon
  <2> QED
      BY <2>3, <2>4
<1>4. r.row.period \in Nat \ {0} /\ poll[w].now \in Nat
  <2>1. IsTaken(r)
        BY <1>2, <1>3 DEF IsPoll
  <2>2. r.row.period \in Periods
        BY <2>1 DEF IsTaken
  <2>3. poll[w].now \in Nat
        BY <1>2, BoundsAssumption DEF IsPoll
  <2> QED
      BY <2>2, <2>3, PeriodsAssumption
<1>5. next > poll[w].now
      BY <1>4, AfterPast
<1>6. /\ q.todo = poll[w].todo /\ q.at = {} /\ q.now = poll[w].now
      /\ q.writes = poll[w].writes \cup {mine}
      BY <1>2 DEF Changed, IsPoll, Fields
<1>7. mine.id = r.id /\ mine.next = next
      OBVIOUS
<1> HIDE DEF mine, q
<1>8. DecidesAhead(q) /\ OneAtATime(q)
      BY <1>2, <1>5, <1>6, <1>7 DEF DecidesAhead, OneAtATime
<1>9. \A s \in Schedules : Covers(poll[w], s) => Covers(q, s)
      BY <1>3, <1>6, <1>7 DEF Covers
<1> QED
    BY <1>1, <1>6, <1>8, <1>9, DecideStep

(* The steps of a slot decide on no row.                                   *)
LEMMA SlotDecides ==
  ASSUME FInv, DueInv, NEW w \in Workers,
         SkipSlot(w) \/ StartSlot(w) \/ Claim(w) \/ Launched(w) \/ LaunchFails(w) \/ FileFailure(w)
  PROVE  DueInv'
<1>1. ~At(w, "idle") /\ UNCHANGED <<row, clock, raced>>
      BY DEF SkipSlot, StartSlot, Claim, Launched, LaunchFails, FileFailure, At, tables, history
<1>2. DOMAIN poll[w] = Fields /\ DecidesAhead(poll[w]) /\ OneAtATime(poll[w])
      BY DEF FInv, PollsSound, IsPoll, DueInv, PollsDecide
<1>3. ASSUME NEW q, Set(w, q), q.todo = poll[w].todo, q.at = poll[w].at, q.now = poll[w].now,
             q.writes = poll[w].writes, q.pc # "record"
      PROVE  DueInv'
  <2>1. DecidesAhead(q) /\ OneAtATime(q)
        BY <1>2, <1>3 DEF DecidesAhead, OneAtATime
  <2>2. \A s \in Schedules : Covers(poll[w], s) => Covers(q, s)
        BY <1>3 DEF Covers
  <2> QED
      BY <1>1, <1>3, <2>1, <2>2, DecideStep
<1>4. CASE SkipSlot(w)
  <2> DEFINE q == Flushed(NextSlot(w))
  <2>1. Set(w, q)
        BY <1>4 DEF SkipSlot
  <2>2. q.todo = poll[w].todo /\ q.at = poll[w].at /\ q.now = poll[w].now /\ q.writes = poll[w].writes /\ q.pc = "slot"
        BY <1>2 DEF Flushed, NextSlot, Fields
  <2> HIDE DEF q
  <2> QED
      BY <1>3, <2>1, <2>2
<1>5. CASE StartSlot(w)
  <2> DEFINE q == Flushed([poll[w] EXCEPT !.pc = "claim"])
  <2>1. Set(w, q)
        BY <1>5 DEF StartSlot
  <2>2. q.todo = poll[w].todo /\ q.at = poll[w].at /\ q.now = poll[w].now /\ q.writes = poll[w].writes /\ q.pc = "claim"
        BY <1>2 DEF Flushed, Fields
  <2> HIDE DEF q
  <2> QED
      BY <1>3, <2>1, <2>2
<1>6. CASE Claim(w)
  <2> DEFINE left == NextSlot(w)
             made == [poll[w] EXCEPT !.pc = "launch",
                                     !.claims = @ \cup {[key |-> Key(w), status |-> "pending"]}]
  <2>1. Set(w, left) \/ Set(w, made)
        BY <1>6 DEF Claim
  <2>2. left.todo = poll[w].todo /\ left.at = poll[w].at /\ left.now = poll[w].now /\ left.writes = poll[w].writes /\ left.pc = "slot"
        BY <1>2 DEF NextSlot, Fields
  <2>3. made.todo = poll[w].todo /\ made.at = poll[w].at /\ made.now = poll[w].now /\ made.writes = poll[w].writes /\ made.pc = "launch"
        BY <1>2 DEF Fields
  <2> HIDE DEF left, made
  <2> QED
      BY <1>3, <2>1, <2>2, <2>3
<1>7. CASE Launched(w)
  <2> DEFINE q == [Become(NextSlot(w), Key(w), "running") EXCEPT !.dirty = @ \cup {Taken(w).id}]
  <2>1. Set(w, q)
        BY <1>7 DEF Launched
  <2>2. q.todo = poll[w].todo /\ q.at = poll[w].at /\ q.now = poll[w].now /\ q.writes = poll[w].writes /\ q.pc = "slot"
        BY <1>2 DEF Become, NextSlot, Fields
  <2> HIDE DEF q
  <2> QED
      BY <1>3, <2>1, <2>2
<1>8. CASE LaunchFails(w)
  <2> DEFINE q == Become([poll[w] EXCEPT !.pc = "failed"], Key(w), "failed")
  <2>1. Set(w, q)
        BY <1>8 DEF LaunchFails
  <2>2. q.todo = poll[w].todo /\ q.at = poll[w].at /\ q.now = poll[w].now /\ q.writes = poll[w].writes /\ q.pc = "failed"
        BY <1>2 DEF Become, Fields
  <2> HIDE DEF q
  <2> QED
      BY <1>3, <2>1, <2>2
<1>9. CASE FileFailure(w)
  <2> DEFINE q == NextSlot(w)
  <2>1. Set(w, q)
        BY <1>9 DEF FileFailure
  <2>2. q.todo = poll[w].todo /\ q.at = poll[w].at /\ q.now = poll[w].now /\ q.writes = poll[w].writes /\ q.pc = "slot"
        BY <1>2 DEF NextSlot, Fields
  <2> HIDE DEF q
  <2> QED
      BY <1>3, <2>1, <2>2
<1> QED
    BY <1>4, <1>5, <1>6, <1>7, <1>8, <1>9

(* What a commit leaves active lies past its poll's time, if no other poll *)
(* was under way.                                                          *)
LEMMA CommitAhead ==
  ASSUME FInv, DueInv, NEW w \in Workers, Commit(w), NEW s \in Schedules, row'[s].state = "active"
  PROVE  /\ row[s].state = "active"
         /\ row'[s].next = row[s].next \/ row'[s].next > poll[w].now
         /\ ~raced => row'[s].next > poll[w].now
<1> PICK writes : writes = poll[w].writes
    OBVIOUS
<1>1. row'[s] = Applied(s, writes) /\ DOMAIN row[s] = RowFields /\ row[s].next \in Int
      BY DEF Commit, FInv, RowsTyped
<1>2. /\ row'[s].next = IF \E u \in writes : u.id = s THEN (CHOOSE u \in writes : u.id = s).next
                        ELSE row[s].next
      /\ row'[s].state = IF [id |-> s, next |-> NoTime, state |-> "paused"] \in writes THEN "paused"
                         ELSE row[s].state
      BY <1>1 DEF Applied, RowFields
<1>3. row[s].state = "active" /\ [id |-> s, next |-> NoTime, state |-> "paused"] \notin writes
      BY <1>2
<1>4. ASSUME NEW u \in writes, u.id = s PROVE u.next > poll[w].now
      BY <1>3, <1>4 DEF DueInv, PollsDecide, DecidesAhead
<1>5. CASE \E u \in writes : u.id = s
  <2>1. (CHOOSE u \in writes : u.id = s) \in writes /\ (CHOOSE u \in writes : u.id = s).id = s
        BY <1>5
  <2> QED
      BY <1>2, <1>3, <1>4, <1>5, <2>1
<1>6. CASE ~\E u \in writes : u.id = s
  <2>1. row'[s].next = row[s].next
        BY <1>2, <1>6
  <2>2. ASSUME ~raced PROVE row[s].next > poll[w].now
    <3>1. At(w, "record") /\ ~At(w, "idle") /\ poll[w].todo = {} /\ poll[w].at = {}
          BY DEF Commit, At, DueInv, PollsDecide, OneAtATime
    <3>2. ~Covers(poll[w], s)
          BY <1>6, <3>1 DEF Covers
    <3>3. ~(row[s].next <= poll[w].now)
          BY <1>3, <2>2, <3>1, <3>2 DEF DueInv, DueCovered
    <3>4. poll[w].now \in Int
          BY BoundsAssumption DEF FInv, PollsSound, IsPoll
    <3> QED
        BY <1>1, <3>3, <3>4
  <2> QED
      BY <1>3, <2>1, <2>2
<1> QED
    BY <1>5, <1>6

LEMMA CommitDecides == ASSUME FInv, Alone, DueInv, NEW w \in Workers, Commit(w) PROVE DueInv'
<1>1. Set(w, NoPoll) /\ UNCHANGED <<clock, raced>> /\ ~At(w, "idle")
      BY DEF Commit, history, At
<1>2. poll'[w] = NoPoll /\ (\A v \in Workers \ {w} : poll'[v] = poll[v])
      BY <1>1 DEF FInv, PollsSound, Set
<1>3. 0 <= clock
      BY BoundsAssumption DEF FInv, TablesTyped
<1>4. PollsDecide'
  <2> SUFFICES ASSUME NEW v \in Workers
               PROVE  DecidesAhead(poll'[v]) /\ OneAtATime(poll'[v]) /\ poll'[v].now <= clock
      BY <1>1 DEF PollsDecide, DecidesAhead, OneAtATime
  <2>1. DecidesAhead(poll[v]) /\ OneAtATime(poll[v]) /\ poll[v].now <= clock
        BY DEF DueInv, PollsDecide
  <2> QED
      BY <1>2, <1>3, <2>1, RestDecides
<1>5. ActiveTimed'
  <2> SUFFICES ASSUME NEW s \in Schedules, row'[s].state = "active" PROVE row'[s].next >= 0
      BY DEF ActiveTimed
  <2>1. row[s].state = "active" /\ (row'[s].next = row[s].next \/ row'[s].next > poll[w].now)
        BY CommitAhead
  <2>2. row[s].next >= 0
        BY <2>1 DEF DueInv, ActiveTimed
  <2>3. row'[s].next \in Int
        BY CommitFiles DEF FInv, RowsTyped
  <2>4. poll[w].now \in Nat
        BY BoundsAssumption DEF FInv, PollsSound, IsPoll
  <2> QED
      BY <2>1, <2>2, <2>3, <2>4
<1>6. DueCovered'
  <2> SUFFICES ASSUME ~raced, NEW v \in Workers, ~At(v, "idle")' PROVE FALSE
      BY <1>1 DEF DueCovered
  <2>1. v # w
        BY <1>2, RestDecides DEF At
  <2>2. ~At(v, "idle")
        BY <1>2, <2>1 DEF At
  <2> QED
      BY <1>1, <2>1, <2>2 DEF Alone
<1> QED
    BY <1>4, <1>5, <1>6 DEF DueInv

(* An edit that leaves a schedule active sets it past the clock.           *)
LEMMA EditDecides == ASSUME FInv, DueInv, NEW s \in Schedules, Edit(s) PROVE DueInv'
<1>1. UNCHANGED <<poll, clock, raced>>
      BY DEF Edit, DeleteSchedule, UpdateSchedule, Editable, history
<1>2. DOMAIN row = Schedules /\ DOMAIN row[s] = RowFields /\ clock \in Nat
      BY BoundsAssumption DEF FInv, RowsTyped, TablesTyped
<1>3. /\ \A t \in Schedules \ {s} : row'[t] = row[t]
      /\ row'[s].state = "active" => row'[s].next \in Nat /\ row'[s].next > clock
  <2>1. CASE DeleteSchedule(s)
    <3> DEFINE new == [row[s] EXCEPT !.state = "deleted", !.next = NoTime]
    <3>1. row' = [row EXCEPT ![s] = new]
          BY <2>1, Zenon DEF DeleteSchedule
    <3>2. new.state = "deleted"
          BY <1>2 DEF RowFields
    <3> HIDE DEF new
    <3> QED
        BY <1>2, <3>1, <3>2
  <2>2. ASSUME NEW state, NEW period \in Periods, UpdateSchedule(s, state, period)
        PROVE  /\ \A t \in Schedules \ {s} : row'[t] = row[t]
               /\ row'[s].state = "active" => row'[s].next \in Nat /\ row'[s].next > clock
    <3> PICK after : after = After(period, clock)
        OBVIOUS
    <3>1. after \in Nat /\ after > clock
          BY <1>2, AfterTyped, AfterPast, PeriodsAssumption
    <3>2. /\ row'[s].state = state /\ row'[s].next = IF state = "active" THEN after ELSE NoTime
          /\ \A t \in Schedules \ {s} : row'[t] = row[t]
          BY <1>2, <2>2 DEF UpdateSchedule, RowFields
    <3> QED
        BY <3>1, <3>2
  <2> QED
      BY <2>1, <2>2 DEF Edit
<1>4. PollsDecide'
      BY <1>1 DEF DueInv, PollsDecide, DecidesAhead, OneAtATime
<1>5. ActiveTimed'
  <2> SUFFICES ASSUME NEW t \in Schedules, row'[t].state = "active" PROVE row'[t].next >= 0
      BY DEF ActiveTimed
  <2>1. CASE t = s
        BY <1>2, <1>3, <2>1
  <2>2. CASE t # s
        BY <1>3, <2>2 DEF DueInv, ActiveTimed
  <2> QED
      BY <2>1, <2>2
<1>6. DueCovered'
  <2> SUFFICES ASSUME ~raced, NEW v \in Workers, ~At(v, "idle"), NEW t \in Schedules,
                      row'[t].state = "active", row'[t].next <= poll[v].now
               PROVE  Covers(poll[v], t)
      BY <1>1 DEF DueCovered, Covers, At
  <2>1. poll[v].now <= clock /\ poll[v].now \in Nat
        BY BoundsAssumption DEF DueInv, PollsDecide, FInv, PollsSound, IsPoll
  <2>2. t # s
        BY <1>2, <1>3, <2>1
  <2> QED
      BY <1>3, <2>2 DEF DueInv, DueCovered
<1> QED
    BY <1>4, <1>5, <1>6 DEF DueInv

(* The clock goes on, a task ends, or nothing happens.                     *)
LEMMA TimeDecides ==
  ASSUME FInv, DueInv, UNCHANGED <<poll, row, raced>>, clock' = clock \/ clock' = clock + 1
  PROVE  DueInv'
<1>1. clock \in Nat /\ \A w \in Workers : poll[w].now \in Nat
      BY BoundsAssumption DEF FInv, TablesTyped, PollsSound, IsPoll
<1>2. PollsDecide'
      BY <1>1 DEF DueInv, PollsDecide, DecidesAhead, OneAtATime
<1>3. ActiveTimed' /\ DueCovered'
      BY DEF DueInv, ActiveTimed, DueCovered, Covers, At
<1> QED
    BY <1>2, <1>3 DEF DueInv

(* At first nothing is in hand, and every schedule lies ahead.             *)
LEMMA FirstDecides == Init => DueInv
<1> SUFFICES ASSUME Init PROVE DueInv
    OBVIOUS
<1>1. \A w \in Workers : poll[w] = NoPoll
      BY DEF Init
<1>2. PollsDecide /\ DueCovered
      BY <1>1, RestDecides DEF PollsDecide, DueCovered, At, Init
<1>3. ActiveTimed
  <2> SUFFICES ASSUME NEW s \in Schedules PROVE row[s].next >= 0
      BY DEF ActiveTimed
  <2>1. PICK made \in Created, broken \in Broken :
           row = [t \in Schedules |->
                [state |-> "active", next |-> After(made[t].period, 0), period |-> made[t].period,
                 overlap |-> made[t].overlap, missed |-> made[t].missed,
                 valid |-> t \notin broken]]
        BY DEF Init
  <2>2. made[s].period \in Periods
        BY CreatedAssumption
  <2>3. After(made[s].period, 0) \in Nat
        BY <2>2, AfterTyped
  <2>4. row[s].next = After(made[s].period, 0)
        BY <2>1
  <2> QED
      BY <2>3, <2>4
<1> QED
    BY <1>2, <1>3 DEF DueInv

(* The steps of polls, edits, the clock and the ends of tasks, together.  *)
LEMMA NextDecides == FInv /\ OverlapInv /\ DueInv /\ [Next]_vars => DueInv'
<1> SUFFICES ASSUME FInv, OverlapInv, DueInv, [Next]_vars PROVE DueInv'
    OBVIOUS
<1>1. Alone
      BY DEF OverlapInv
<1>2. ASSUME NEW w \in Workers, Step(w) \/ Abort(w) PROVE DueInv'
      BY <1>1, <1>2, SelectDecides, TakeDecides, SlotDecides, AdvanceDecides, CommitDecides, RollBackDecides
      DEF Step, Abort, Refused
<1>3. ASSUME NEW k \in Keys, TaskEnds(k) PROVE DueInv'
      BY <1>3, TimeDecides DEF TaskEnds, tables, history
<1>4. ASSUME NEW s \in Schedules, Edit(s) PROVE DueInv'
      BY <1>4, EditDecides
<1>5. CASE Tick
      BY <1>5, TimeDecides DEF Tick, tables, history
<1>6. CASE UNCHANGED vars
      BY <1>6, TimeDecides DEF vars, tables, history
<1> QED
    BY <1>2, <1>3, <1>4, <1>5, <1>6 DEF Next

(* A poll that nothing overlapped leaves no active schedule due that was   *)
(* due when it began, whatever edits came meanwhile (the advance at the    *)
(* end of poll_once, the pause of a row that makes no valid schedule).     *)
THEOREM NothingStaysDue == Spec => NothingLeftDue
<1>1. Spec => [](FInv /\ OverlapInv /\ DueInv)
  <2>1. FInv /\ IInv /\ OverlapInv /\ DueInv /\ [Next]_vars => OverlapInv' /\ DueInv'
        BY NextRespects, NextDecides
  <2> QED
      BY <2>1, FirstRespects, FirstDecides, AlwaysIInv, AlwaysFInv, PTL DEF Spec
<1>2. FInv /\ DueInv =>
        [\A w \in Workers : Commit(w) /\ ~raced =>
           \A s \in Schedules : row'[s].state = "active" => row'[s].next > poll[w].now]_vars
      BY CommitAhead
<1> QED
    BY <1>1, <1>2, PTL DEF NothingLeftDue

===============================================================================
