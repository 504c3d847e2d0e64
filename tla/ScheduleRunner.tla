--------------------------- MODULE ScheduleRunner ---------------------------
(***************************************************************************)
(* agents/schedule_runner.py: poll_once in several processes, over the     *)
(* rows of `schedules` and `schedule_runs`, with the edits made by         *)
(* api/routes/schedules.py and the dead-letter entries of failed launches. *)
(*                                                                         *)
(* A poll is one transaction: what it claims and advances is seen by       *)
(* nobody before it commits, while the tasks it launches, and the          *)
(* dead-letter entries, are real at once.  The database holds back an      *)
(* insert of a key, or an update of a row, that another open transaction   *)
(* has inserted or updated, until that one ends.                           *)
(* Clock value n is an instant between the whole times n and n + 1, at     *)
(* which schedules fire.                                                   *)
(***************************************************************************)
EXTENDS Integers, FiniteSets

CONSTANTS
  Workers,      \* processes that poll
  Schedules,
  Broken,       \* the sets of rows that may make no valid Schedule any more
  Periods,      \* a schedule fires at the multiples of its period
  Created,      \* how the schedules may have been created
  MaxTime,      \* bound of the clock
  Upsets        \* bound: how many launches fail, polls break off and edits come

ASSUME PeriodsAssumption == Periods \subseteq Nat \ {0}
ASSUME BrokenAssumption == Broken \subseteq SUBSET Schedules
ASSUME CreatedAssumption ==
  Created \subseteq [Schedules -> [period : Periods,
                                   overlap : {"skip", "queue", "concurrent"},
                                   missed : {"run_once", "run_all", "skip"}]]
ASSUME BoundsAssumption == MaxTime \in Nat /\ Upsets \subseteq [fail : Nat, abort : Nat, edit : Nat]

VARIABLES
  clock,
  inclusive,   \* whether a trigger asked about a fire time returns that time
  row,         \* the rows of `schedules`
  runs,        \* the committed rows of `schedule_runs`
  dlq,         \* the open dead-letter entries of a slot, and their attempts
  poll,        \* the poll of each worker, with its uncommitted work
  inFlight,    \* the slots whose task has been started and has not ended
  upsets,      \* how many of them are still to come
  launched,    \* history: the slots whose launcher has been called
  lost,        \* history: those whose claim was rolled back afterwards
  raced        \* history: some poll began while another was under way

tables == <<row, runs, dlq>>
history == <<launched, lost, raced>>
vars == <<clock, inclusive, tables, poll, inFlight, upsets, history>>

NoTime == -1
Keys == Schedules \X (0 .. MaxTime)

NoPoll == [pc |-> "idle", now |-> 0, todo |-> {}, at |-> {}, slots |-> {},
           claims |-> {}, writes |-> {}, dirty |-> {}, locks |-> {}]

(* The first fire time past a moment.                                      *)
After(period, t) == period * (t \div period + 1)

Init ==
  /\ clock = 0 /\ inclusive \in BOOLEAN
  /\ \E made \in Created, broken \in Broken :
       row = [s \in Schedules |->
                [state |-> "active", next |-> After(made[s].period, 0), period |-> made[s].period,
                 overlap |-> made[s].overlap, missed |-> made[s].missed,
                 valid |-> s \notin broken]]
  /\ runs = {} /\ dlq = [k \in Keys |-> [open |-> 0, attempts |-> 0]]
  /\ poll = [w \in Workers |-> NoPoll] /\ inFlight = {}
  /\ upsets \in Upsets
  /\ launched = {} /\ lost = {} /\ raced = FALSE

At(w, p) == poll[w].pc = p
Taken(w) == CHOOSE r \in poll[w].at : TRUE
Slot(w) == CHOOSE t \in poll[w].slots : \A u \in poll[w].slots : t <= u
Key(w) == <<Taken(w).id, Slot(w)>>
Set(w, changed) == poll' = [poll EXCEPT ![w] = changed]
NextSlot(w) == [poll[w] EXCEPT !.pc = "slot", !.slots = @ \ {Slot(w)}]

------------------------------------------------------------------------------
(* The transaction of a poll.                                              *)

Holds(w, key) == \E r \in poll[w].claims : r.key = key
Recorded(key) == \E r \in runs : r.key = key

(* (A mutant: the key is not unique.)                                      *)
KeyHolders_None(w) == {}

(* Whose transactions a worker waits for: to insert its key, or to flush   *)
(* what it has changed in the rows of schedules.                           *)
KeyHolders(w) == {v \in Workers \ {w} : At(w, "claim") /\ Holds(v, Key(w))}

RowHolders(w) == {v \in Workers \ {w} : poll[v].locks \cap poll[w].dirty # {}}
Flushing(w) == \/ At(w, "slot") /\ poll[w].slots # {}
               \/ At(w, "record") /\ poll[w].todo = {}
Blockers(w) == KeyHolders(w) \cup {v \in RowHolders(w) : Flushing(w)}

(* An update of a row that is gone raises StaleDataError.                  *)
Stale(w) == \E s \in poll[w].dirty : row[s].state = "deleted"

(* The autoflush before a query, or the flush of the commit.               *)
CanFlush(w) == RowHolders(w) = {} /\ ~Stale(w)
Flushed(p) == [p EXCEPT !.locks = @ \cup p.dirty, !.dirty = {}]

Changed(p, s, next, state) ==
  [p EXCEPT !.writes = @ \cup {[id |-> s, next |-> next, state |-> state]},
            !.dirty = @ \cup {s}]

RollBack(w) ==
  /\ Set(w, NoPoll)
  /\ lost' = lost \cup {k \in launched : Holds(w, k)}
  /\ UNCHANGED <<clock, inclusive, tables, inFlight, launched, raced>>

(* The process dies, or a statement of the poll fails.                     *)
Abort(w) ==
  /\ ~At(w, "idle") /\ upsets.abort > 0 /\ upsets' = [upsets EXCEPT !.abort = @ - 1]
  /\ RollBack(w)

(* A flush finds its row deleted, or two polls wait for each other and the *)
(* database ends one.                                                      *)
Refused(w) ==
  /\ \/ Flushing(w) /\ RowHolders(w) = {} /\ Stale(w)
     \/ \E v \in Blockers(w) : w \in Blockers(v)
  /\ RollBack(w) /\ UNCHANGED upsets

------------------------------------------------------------------------------
(* poll_once, up to the decision on a slot.                                *)

Due == {s \in Schedules : row[s].state = "active" /\ row[s].next \in 0 .. clock}

Select(w) ==
  /\ At(w, "idle") /\ Due # {}
  /\ Set(w, [NoPoll EXCEPT !.pc = "record", !.now = clock,
                           !.todo = {[id |-> s, row |-> row[s]] : s \in Due}])
  /\ raced' = (raced \/ \E v \in Workers : ~At(v, "idle"))
  /\ UNCHANGED <<clock, inclusive, tables, inFlight, upsets, launched, lost>>

(* missed_fire_times since the slot that came due.  A trigger that returns *)
(* the time it is asked about never gets past a fire time.                 *)
Missed(r, now) ==
  LET first == IF r.next % r.period = 0 THEN r.next ELSE After(r.period, r.next)
      fires == IF inclusive THEN {first} ELSE {t \in (r.next + 1) .. now : t % r.period = 0}
      past == {t \in fires : t <= now}
  IN  CASE r.missed = "skip" -> {}
        [] r.missed = "run_all" -> past
        [] OTHER -> {t \in past : \A u \in past : u <= t}

SlotsToRun(r, now) ==
  LET missed == Missed(r, now) IN
  IF missed # {} /\ r.missed = "run_once" THEN missed ELSE missed \cup {r.next}

(* The rows come in the order of their next_run_at.                        *)
Earliest(todo) == {r \in todo : \A q \in todo : r.row.next <= q.row.next}

Take(w) ==
  /\ At(w, "record")
  /\ \E r \in Earliest(poll[w].todo) :
       Set(w, IF ~r.row.valid
              THEN Changed([poll[w] EXCEPT !.todo = @ \ {r}], r.id, NoTime, "paused")
              ELSE [poll[w] EXCEPT !.pc = "slot", !.todo = @ \ {r}, !.at = {r},
                                   !.slots = SlotsToRun(r.row, poll[w].now)])
  /\ UNCHANGED <<clock, inclusive, tables, inFlight, upsets, history>>

(* Neither the poll nor anything else ever records the end of a run.       *)
Active(r) == r.status \in {"pending", "running"}

(* (A mutant: only a run that has not started counts.)                     *)
HasActiveRun_Pending(w, s) ==
  \E r \in runs \cup poll[w].claims : r.key[1] = s /\ r.status = "pending"

HasActiveRun(w, s) == \E r \in runs \cup poll[w].claims : r.key[1] = s /\ Active(r)

(* should_start_run.                                                       *)
MayStart(w) == Taken(w).row.overlap = "concurrent" \/ ~HasActiveRun(w, Taken(w).id)

SkipSlot(w) ==
  /\ At(w, "slot") /\ poll[w].slots # {} /\ CanFlush(w) /\ ~MayStart(w)
  /\ Set(w, Flushed(NextSlot(w)))
  /\ UNCHANGED <<clock, inclusive, tables, inFlight, upsets, history>>

StartSlot(w) ==
  /\ At(w, "slot") /\ poll[w].slots # {} /\ CanFlush(w) /\ MayStart(w)
  /\ Set(w, Flushed([poll[w] EXCEPT !.pc = "claim"]))
  /\ UNCHANGED <<clock, inclusive, tables, inFlight, upsets, history>>

------------------------------------------------------------------------------
(* The claim of a slot and the launch of its task.                         *)

(* (A mutant: without the nested transaction, a collision undoes the poll's *)
(* claims.)                                                                *)
Claim_Poisons(w) ==
  /\ At(w, "claim") /\ KeyHolders(w) = {}
  /\ LET key == Key(w) IN
     IF Recorded(key) \/ Holds(w, key)
     THEN Set(w, [NextSlot(w) EXCEPT !.claims = {}]) /\ UNCHANGED <<inFlight, launched>>
     ELSE /\ Set(w, [poll[w] EXCEPT !.pc = "launch",
                                    !.claims = @ \cup {[key |-> key, status |-> "pending"]}])
          /\ inFlight' = inFlight \cup {key}
          /\ launched' = launched \cup {key}
  /\ UNCHANGED <<clock, inclusive, tables, upsets, lost, raced>>

(* _claim_slot: the insert waits for another that holds the key; it then   *)
(* collides, or the launcher is called.                                    *)
Claim(w) ==
  /\ At(w, "claim") /\ KeyHolders(w) = {}
  /\ LET key == Key(w) IN
     IF Recorded(key) \/ Holds(w, key)
     THEN Set(w, NextSlot(w)) /\ UNCHANGED <<inFlight, launched>>
     ELSE /\ Set(w, [poll[w] EXCEPT !.pc = "launch",
                                    !.claims = @ \cup {[key |-> key, status |-> "pending"]}])
          /\ inFlight' = inFlight \cup {key}
          /\ launched' = launched \cup {key}
  /\ UNCHANGED <<clock, inclusive, tables, upsets, lost, raced>>

(* The poll's run row once the launcher has returned or raised.            *)
Become(p, key, status) ==
  [p EXCEPT !.claims = {r \in @ : r.key # key} \cup {[key |-> key, status |-> status]}]

(* start_task has returned: the task has ended, or waits for an approval.  *)
Launched(w) ==
  /\ At(w, "launch")
  /\ Set(w, [Become(NextSlot(w), Key(w), "running") EXCEPT !.dirty = @ \cup {Taken(w).id}])
  /\ inFlight' \in {inFlight, inFlight \ {Key(w)}}
  /\ UNCHANGED <<clock, inclusive, tables, upsets, history>>

LaunchFails(w) ==
  /\ At(w, "launch") /\ upsets.fail > 0 /\ upsets' = [upsets EXCEPT !.fail = @ - 1]
  /\ Set(w, Become([poll[w] EXCEPT !.pc = "failed"], Key(w), "failed"))
  /\ inFlight' = inFlight \ {Key(w)}
  /\ UNCHANGED <<clock, inclusive, tables, history>>

(* (A mutant: an entry is added for every failure.)                        *)
FileFailure_Fresh(w) ==
  /\ At(w, "failed")
  /\ dlq' = [dlq EXCEPT ![Key(w)] = [open |-> @.open + 1, attempts |-> 1]]
  /\ Set(w, NextSlot(w))
  /\ UNCHANGED <<clock, inclusive, row, runs, inFlight, upsets, history>>

(* record_failure, in a session of its own.  The claim keeps other polls   *)
(* away from the job of this slot, so its look-up and its commit are one.  *)
FileFailure(w) ==
  /\ At(w, "failed")
  /\ dlq' = [dlq EXCEPT ![Key(w)] =
               IF @.open = 0 THEN [open |-> 1, attempts |-> 1]
                             ELSE [open |-> @.open, attempts |-> @.attempts + 1]]
  /\ Set(w, NextSlot(w))
  /\ UNCHANGED <<clock, inclusive, row, runs, inFlight, upsets, history>>

(* The end of a task that had been left waiting.                           *)
TaskEnds(key) ==
  /\ key \in inFlight /\ \A w \in Workers : At(w, "launch") => Key(w) # key
  /\ inFlight' = inFlight \ {key}
  /\ UNCHANGED <<clock, inclusive, tables, poll, upsets, history>>

------------------------------------------------------------------------------
(* The end of a record and of the poll.                                    *)

(* (A mutant: the next run is computed from the slot, not from now.)       *)
Advance_FromSlot(w) ==
  /\ At(w, "slot") /\ poll[w].slots = {}
  /\ LET r == Taken(w) IN
     Set(w, Changed([poll[w] EXCEPT !.pc = "record", !.at = {}],
                    r.id, After(r.row.period, r.row.next), r.row.state))
  /\ UNCHANGED <<clock, inclusive, tables, inFlight, upsets, history>>

(* next_fire_time of the schedule as it was read.                          *)
Advance(w) ==
  /\ At(w, "slot") /\ poll[w].slots = {}
  /\ LET r == Taken(w) IN
     Set(w, Changed([poll[w] EXCEPT !.pc = "record", !.at = {}],
                    r.id, After(r.row.period, poll[w].now), r.row.state))
  /\ UNCHANGED <<clock, inclusive, tables, inFlight, upsets, history>>

(* Only the columns that changed are written: next_run_at, and the state   *)
(* of a row that is paused.                                                *)
Applied(s, writes) ==
  [row[s] EXCEPT
     !.next = IF \E u \in writes : u.id = s THEN (CHOOSE u \in writes : u.id = s).next ELSE @,
     !.state = IF [id |-> s, next |-> NoTime, state |-> "paused"] \in writes THEN "paused" ELSE @]

Commit(w) ==
  /\ At(w, "record") /\ poll[w].todo = {} /\ CanFlush(w)
  /\ row' = [s \in Schedules |-> Applied(s, poll[w].writes)]
  /\ runs' = runs \cup poll[w].claims
  /\ Set(w, NoPoll)
  /\ UNCHANGED <<clock, inclusive, dlq, inFlight, upsets, history>>

------------------------------------------------------------------------------
(* api/routes/schedules.py.                                                *)

Editable(s) ==
  /\ row[s].state # "deleted" /\ upsets.edit > 0
  /\ \A w \in Workers : s \notin poll[w].locks
  /\ upsets' = [upsets EXCEPT !.edit = @ - 1]
  /\ UNCHANGED <<clock, inclusive, runs, dlq, poll, inFlight, history>>

(* The PATCH of the state or of the trigger recomputes the next run.       *)
UpdateSchedule(s, state, period) ==
  /\ row[s].valid
  /\ row' = [row EXCEPT ![s] = [@ EXCEPT !.state = state, !.period = period,
               !.next = IF state = "active" THEN After(period, clock) ELSE NoTime]]
  /\ Editable(s)

DeleteSchedule(s) ==
  /\ row' = [row EXCEPT ![s].state = "deleted", ![s].next = NoTime]
  /\ Editable(s)

Tick ==
  /\ clock < MaxTime /\ clock' = clock + 1
  /\ UNCHANGED <<inclusive, tables, poll, inFlight, upsets, history>>

Step(w) ==
  \/ Select(w) \/ Take(w) \/ SkipSlot(w) \/ StartSlot(w) \/ Claim(w) \/ Launched(w)
  \/ LaunchFails(w) \/ FileFailure(w) \/ Advance(w) \/ Commit(w) \/ Refused(w)

Edit(s) ==
  \/ DeleteSchedule(s)
  \/ \E state \in {"active", "paused"}, period \in Periods : UpdateSchedule(s, state, period)

Next ==
  \/ \E w \in Workers : (Step(w) \/ Abort(w))
  \/ \E key \in Keys : TaskEnds(key)
  \/ \E s \in Schedules : Edit(s)
  \/ Tick

(* The poll job of every process keeps running, and a launch ends.         *)
Spec == Init /\ [][Next]_vars /\ \A w \in Workers : WF_vars(Step(w))

------------------------------------------------------------------------------
(* Properties.                                                             *)

Runs == [key : Keys, status : {"pending", "running", "failed"}]

(* Every row, run, entry and poll keeps its type.                          *)
TypeOK ==
  /\ clock \in 0 .. MaxTime /\ inclusive \in BOOLEAN /\ raced \in BOOLEAN
  /\ \A s \in Schedules :
       /\ row[s].state \in {"active", "paused", "deleted"}
       /\ row[s].next \in Int /\ row[s].period \in Periods
  /\ runs \subseteq Runs /\ launched \subseteq Keys /\ lost \subseteq launched
  /\ inFlight \subseteq launched
  /\ \A k \in Keys : dlq[k].open \in Nat /\ dlq[k].attempts \in Nat
  /\ \A w \in Workers :
       /\ poll[w].claims \subseteq Runs /\ poll[w].locks \cup poll[w].dirty \subseteq Schedules
       /\ poll[w].pc \in {"idle", "record", "slot", "claim", "launch", "failed"}

(* A slot has at most one run row, in the table and in all open polls      *)
(* together (_claim_slot).                                                 *)
SlotHeldOnce ==
  /\ \A p, q \in runs : p.key = q.key => p = q
  /\ \A w \in Workers : \A r \in poll[w].claims :
       /\ ~Recorded(r.key)
       /\ \A v \in Workers : Holds(v, r.key) => v = w
       /\ \A q \in poll[w].claims : q.key = r.key => q = r

(* A task that has been launched stays claimed, so that no poll launches   *)
(* it again, unless the poll that launched it was rolled back.             *)
LaunchedIsClaimed ==
  \A k \in launched \ lost : Recorded(k) \/ \E w \in Workers : Holds(w, k)

(* Every committed failure is in the dead-letter queue, and under one      *)
(* entry only, even when the slot was launched again (record_failure).     *)
FailuresFiled ==
  /\ \A r \in runs : r.status = "failed" => dlq[r.key].open = 1
  /\ \A k \in Keys : dlq[k].open <= 1

(* As long as polls neither overlap nor fail, a schedule that does not run *)
(* concurrently has at most one task in flight (should_start_run).         *)
OverlapRespected ==
  ~raced /\ lost = {} =>
    \A j, k \in inFlight : j[1] = k[1] /\ j # k => row[j[1]].overlap = "concurrent"

(* As long as polls do not overlap, one that commits leaves nothing due    *)
(* that was due when it began, for that would be decided again at every    *)
(* poll (the advance at the end of poll_once, the pause at its start).     *)
NothingLeftDue ==
  [][\A w \in Workers : Commit(w) /\ ~raced =>
       \A s \in Schedules : row'[s].state = "active" => row'[s].next > poll[w].now]_vars

(* agents/schedules.py:26: "OverlapPolicy decides what happens when a run  *)
(* is still going at the next fire time: skip, queue, or run               *)
(* concurrently."  So a slot is skipped only when one of the schedule's    *)
(* tasks is in flight.                                                     *)
(* (The code does not: README, "Known disagreements".)                     *)
SkippedWhileInFlight ==
  [][\A w \in Workers : SkipSlot(w) => \E k \in inFlight : k[1] = Taken(w).id]_vars

==============================================================================
