----------------------------- MODULE Conversation -----------------------------
(***************************************************************************)
(* One turn of a conversation, from the user's message to the assistant's  *)
(* reply, with the task behind it and those who watch it.                  *)
(*   agents/conversation.py   send, _run_turn, _answer_for                 *)
(*   core/orchestrator.py     the commits of drive_task, a resumption and  *)
(*                            a cancellation, and what each publishes      *)
(*   core/events.py           TaskEventBus                                 *)
(*   api/routes/tasks.py      stream_task                                  *)
(* A commit and the publication after it are two steps: others run between *)
(* them.  A row, and a snapshot of one, is its status.  The thread is the  *)
(* turn's part of it.                                                      *)
(***************************************************************************)
EXTENDS Naturals, Sequences

CONSTANTS
  Streams,    \* the clients that may subscribe
  QueueSize,  \* TaskEventBus: what a subscriber's queue holds
  MaxReplan,  \* Settings.max_replan_attempts
  Absent

ASSUME SizesAssumption == QueueSize \in Nat \ {0} /\ MaxReplan \in Nat
ASSUME AbsentAssumption ==
  Absent \notin {"completed", "failed", "cancelled", "pending", "planning", "running",
                 "awaiting_approval", "paused", "stopped"}

VARIABLES
  thread,    \* the turn's messages, in order
  turn,      \* [at, attempts, held, says]: where the turn is, the attempts
             \* made, the row this attempt loaded, the reply it will write
  row,       \* the task's row, Absent before it is created
  context,   \* the orchestrator's _TaskContext: none, live, cancelled
  resumer,   \* where the resumption after an approval is
  unsent,    \* what an actor has committed and not published yet
  stream     \* what each subscriber's coroutine holds
turnVars == <<thread, turn, row, context, resumer, unsent, stream>>

Terminal == {"completed", "failed", "cancelled"}
Statuses == Terminal \cup {"pending", "planning", "running", "awaiting_approval"}
Actors == {"turn", "resumer", "canceller"}

TurnInit ==
  /\ thread = <<>>
  /\ turn = [at |-> "unsent", attempts |-> 0, held |-> Absent, says |-> Absent]
  /\ row = Absent
  /\ context = "none" /\ resumer = "none"
  /\ unsent = [a \in Actors |-> Absent]
  /\ stream = [s \in Streams |-> [at |-> "off", queue |-> <<>>, sent |-> Absent]]

Message(role, says) == [role |-> role, says |-> says]

(* A commit of the row, and the event its actor publishes next.            *)
Commits(status) == row' = status
Announces(actor, event) == unsent[actor] = Absent /\ unsent' = [unsent EXCEPT ![actor] = event]
At(place) == turn.at = place /\ unsent["turn"] = Absent
Goes(place) == turn' = [turn EXCEPT !.at = place]

------------------------------------------------------------------------------
(* send: the message, the task, the link between them, then the rest in    *)
(* the background.  A failure in between leaves what was written.          *)

SaveMessage ==
  /\ At("unsent") /\ Goes("saved")
  /\ thread' = Append(thread, Message("user", Absent))
  /\ UNCHANGED <<row, context, resumer, unsent, stream>>

CreateTask ==
  /\ At("saved") /\ Goes("created")
  /\ row' = "pending"
  /\ UNCHANGED <<thread, context, resumer, unsent, stream>>

StartTurn ==
  /\ At("created") /\ Goes("driving")
  /\ UNCHANGED <<thread, row, context, resumer, unsent, stream>>

SendRaises ==
  /\ At("saved") \/ At("created")
  /\ Goes("refused")
  /\ UNCHANGED <<thread, row, context, resumer, unsent, stream>>

------------------------------------------------------------------------------
(* drive_task, by its commits.                                             *)

(* The planning status is committed and not published.                     *)
BeginAttempt ==
  /\ At("driving")
  /\ Commits("planning")
  /\ turn' = [turn EXCEPT !.at = "planning", !.attempts = @ + 1, !.held = row']
  /\ UNCHANGED <<thread, context, resumer, unsent, stream>>

(* _fail_task: no connector, no plan, an invalid or a refuted one.         *)
PlanningFails ==
  /\ At("planning") /\ Goes("failed")
  /\ Commits("failed") /\ Announces("turn", row')
  /\ UNCHANGED <<thread, context, resumer, stream>>

PlanOnly ==
  /\ At("planning") /\ Goes("returned")
  /\ Commits("completed") /\ Announces("turn", row')
  /\ UNCHANGED <<thread, context, resumer, stream>>

(* The row is stored as running; what is published is the object loaded    *)
(* when the attempt began.                                                 *)
Admit ==
  /\ At("planning") /\ Goes("stepping")
  /\ Commits("running") /\ Announces("turn", turn.held)
  /\ context' = "live"
  /\ UNCHANGED <<thread, resumer, stream>>

(* _update_checklist reads the row anew: whatever its status is by then.   *)
Step ==
  /\ At("stepping") /\ Goes("stepped")
  /\ Commits(row) /\ Announces("turn", row')
  /\ UNCHANGED <<thread, context, resumer, stream>>

(* A step asks for approval.                                               *)
(* (In the mutant the pause is not published.)                             *)
Pause_Quiet ==
  /\ At("stepped") /\ context = "live" /\ Goes("returned")
  /\ Commits("awaiting_approval")
  /\ UNCHANGED <<thread, context, resumer, unsent, stream>>

Pause ==
  /\ At("stepped") /\ context = "live" /\ Goes("returned")
  /\ Commits("awaiting_approval") /\ Announces("turn", row')
  /\ UNCHANGED <<thread, context, resumer, stream>>

(* The graph has ended: a cancelled run leaves the row alone, another one  *)
(* is judged (a model may be asked) and then written.                      *)
StopCancelled ==
  /\ At("stepped") /\ context = "cancelled" /\ Goes("returned")
  /\ context' = "none"
  /\ UNCHANGED <<thread, row, resumer, unsent, stream>>

Judge ==
  /\ At("stepped") /\ context = "live" /\ Goes("judged")
  /\ UNCHANGED <<thread, row, context, resumer, unsent, stream>>

SettleTask(status) ==
  /\ At("judged")
  /\ Goes(IF status = "failed" THEN "failed" ELSE "returned")
  /\ Commits(status) /\ Announces("turn", row')
  /\ context' = "none"
  /\ UNCHANGED <<thread, resumer, stream>>

(* A failed attempt is planned again, or its blocker written and published.*)
Replan ==
  /\ At("failed") /\ turn.attempts <= MaxReplan /\ Goes("driving")
  /\ context' = "none"
  /\ UNCHANGED <<thread, row, resumer, unsent, stream>>

GiveUp ==
  /\ At("failed") /\ Goes("returned")
  /\ Commits(row) /\ Announces("turn", row')
  /\ UNCHANGED <<thread, context, resumer, stream>>

(* (In the mutant nobody awaits the exception of the background task.)     *)
DriveRaises_Unnoticed ==
  /\ At("planning") \/ At("stepping") \/ At("stepped") \/ At("judged")
  /\ Goes("ended")
  /\ UNCHANGED <<thread, row, context, resumer, unsent, stream>>

DriveRaises ==
  /\ At("planning") \/ At("stepping") \/ At("stepped") \/ At("judged")
  /\ turn' = [turn EXCEPT !.at = "answering", !.says = "stopped"]
  /\ UNCHANGED <<thread, row, context, resumer, unsent, stream>>

(* _answer_for reads the row as it is when drive_task has returned: a      *)
(* task that is neither paused nor settled has no answer.                  *)
(* (In the mutant what is not paused or completed has failed.)             *)
Answer_Guessed(status) ==
  IF status = "awaiting_approval" THEN "paused"
  ELSE IF status = "completed" THEN status ELSE "failed"

Answer(status) ==
  IF status = "awaiting_approval" THEN "paused"
  ELSE IF status \in Terminal THEN status ELSE Absent

ReadAnswer ==
  /\ At("returned")
  /\ LET says == Answer(row)
     IN  turn' = [turn EXCEPT !.at = IF says = Absent THEN "ended" ELSE "answering",
                              !.says = says]
  /\ UNCHANGED <<thread, row, context, resumer, unsent, stream>>

WriteReply ==
  /\ At("answering") /\ Goes("ended")
  /\ thread' = Append(thread, Message("assistant", turn.says))
  /\ UNCHANGED <<row, context, resumer, unsent, stream>>

------------------------------------------------------------------------------
(* resume_after_approval, in the request of whoever decides.  The context  *)
(* of the paused run is still there, or is rebuilt.  Nothing here knows of *)
(* the conversation.                                                       *)

DecidePause ==
  /\ row # Absent /\ row = "awaiting_approval" /\ resumer = "none"
  /\ Commits("running") /\ Announces("resumer", row')
  /\ resumer' = "stepped"
  /\ context' = IF context = "none" THEN "live" ELSE context
  /\ UNCHANGED <<thread, turn, stream>>

ResumedStops ==
  /\ resumer = "stepped" /\ unsent["resumer"] = Absent /\ context = "cancelled"
  /\ resumer' = "ended" /\ context' = "none"
  /\ UNCHANGED <<thread, turn, row, unsent, stream>>

ResumedJudge ==
  /\ resumer = "stepped" /\ unsent["resumer"] = Absent /\ context = "live"
  /\ resumer' = "judged"
  /\ UNCHANGED <<thread, turn, row, context, unsent, stream>>

ResumedSettle(status) ==
  /\ resumer = "judged"
  /\ Commits(status) /\ Announces("resumer", row')
  /\ resumer' = "ended" /\ context' = "none"
  /\ UNCHANGED <<thread, turn, stream>>

(* cancel_task: a row that is not final, and the context's flag if there   *)
(* is a context.                                                           *)
Cancel ==
  /\ row # Absent /\ row \notin Terminal
  /\ Commits("cancelled") /\ Announces("canceller", row')
  /\ context' = IF context = "none" THEN "none" ELSE "cancelled"
  /\ UNCHANGED <<thread, turn, resumer, stream>>

------------------------------------------------------------------------------
(* The bus and the streams.                                                *)

Subscribed(s) == stream[s].at \in {"subscribed", "open"}

(* A full queue drops the event.                                           *)
Publish(actor) ==
  /\ unsent[actor] # Absent
  /\ stream' = [s \in Streams |->
                  IF Subscribed(s) /\ Len(stream[s].queue) < QueueSize
                  THEN [stream[s] EXCEPT !.queue = Append(@, unsent[actor])]
                  ELSE stream[s]]
  /\ unsent' = [unsent EXCEPT ![actor] = Absent]
  /\ UNCHANGED <<thread, turn, row, context, resumer>>

Gone(how) == [at |-> how, queue |-> <<>>, sent |-> Absent]

(* A snapshot is sent; a terminal one is the last.                         *)
Sends(s, snapshot, queue) ==
  stream' = [stream EXCEPT ![s] =
    IF snapshot \in Terminal
    THEN Gone("closed")
    ELSE [at |-> "open", queue |-> queue, sent |-> snapshot]]

(* (In the mutant the row is read first.)                                  *)
Subscribe_Late(s) ==
  /\ \/ /\ row # Absent /\ stream[s].at = "off"
        /\ stream' = [stream EXCEPT ![s].at = "read", ![s].sent = row]
     \/ stream[s].at = "read" /\ Sends(s, stream[s].sent, <<>>)
  /\ UNCHANGED <<thread, turn, row, context, resumer, unsent>>

Subscribe(s) ==
  /\ row # Absent /\ stream[s].at = "off"
  /\ stream' = [stream EXCEPT ![s].at = "subscribed"]
  /\ UNCHANGED <<thread, turn, row, context, resumer, unsent>>

SendRow(s) ==
  /\ stream[s].at = "subscribed" /\ Sends(s, row, stream[s].queue)
  /\ UNCHANGED <<thread, turn, row, context, resumer, unsent>>

Forward(s) ==
  /\ stream[s].at = "open" /\ stream[s].queue # <<>>
  /\ Sends(s, Head(stream[s].queue), Tail(stream[s].queue))
  /\ UNCHANGED <<thread, turn, row, context, resumer, unsent>>

Disconnect(s) ==
  /\ stream[s].at = "open"
  /\ stream' = [stream EXCEPT ![s] = Gone("left")]
  /\ UNCHANGED <<thread, turn, row, context, resumer, unsent>>

(* The process dies with its background tasks, its requests and its        *)
(* streams; the rows stay, and nothing picks the turn up again.            *)
Crash ==
  /\ turn.at \notin {"unsent", "refused", "lost"}
  /\ turn' = [at |-> "lost", attempts |-> 0, held |-> Absent, says |-> Absent]
  /\ context' = "none"
  /\ resumer' = IF resumer = "none" THEN "none" ELSE "ended"
  /\ unsent' = [a \in Actors |-> Absent]
  /\ stream' = [s \in Streams |->
                  IF stream[s].at \in {"subscribed", "open"}
                  THEN Gone("left") ELSE stream[s]]
  /\ UNCHANGED <<thread, row>>

------------------------------------------------------------------------------

Sending == SaveMessage \/ CreateTask \/ StartTurn
Driving ==
  \/ BeginAttempt \/ PlanningFails \/ PlanOnly \/ Admit \/ Step \/ Pause
  \/ StopCancelled \/ Judge \/ SettleTask("completed") \/ SettleTask("failed")
  \/ Replan \/ GiveUp
Replying == ReadAnswer \/ WriteReply
Resuming == ResumedStops \/ ResumedJudge
            \/ ResumedSettle("completed") \/ ResumedSettle("failed")
Streaming(s) == SendRow(s) \/ Forward(s)

TurnNext ==
  \/ Sending \/ SendRaises \/ Driving \/ DriveRaises \/ Replying
  \/ DecidePause \/ Resuming \/ Cancel \/ Crash
  \/ \E a \in Actors : Publish(a)
  \/ \E s \in Streams : Subscribe(s) \/ Streaming(s) \/ Disconnect(s)

(* Coroutines that can run do: the turn (its model calls end in an answer, *)
(* a failure or an exception), a resumption, a publication, a stream.      *)
TurnFairness ==
  /\ WF_turnVars(Driving \/ DriveRaises) /\ WF_turnVars(Replying) /\ WF_turnVars(Resuming)
  /\ \A a \in Actors : WF_turnVars(Publish(a))
  /\ \A s \in Streams : WF_turnVars(Streaming(s))

TurnSpec == TurnInit /\ [][TurnNext]_turnVars /\ TurnFairness

------------------------------------------------------------------------------

Replied == \E i \in DOMAIN thread : thread[i].role = "assistant"

(* "A turn must always answer": once it runs in the background the thread  *)
(* gets its reply, even when the run raises, unless the process dies or    *)
(* somebody decides a pause before the turn has read it.                   *)
TurnAnswered == turn.at = "driving" ~> Replied \/ turn.at = "lost" \/ resumer # "none"

(* A reply that says the task completed or failed is about its last        *)
(* status: nothing that runs beside the turn changes it any more.          *)
ReplyTrue ==
  \A i \in DOMAIN thread : thread[i].says \in {"completed", "failed"} => row = thread[i].says

(* "Never a subscribe that's too late to ever see one more event": while   *)
(* no queue overflows, a stream does not stay open over a task that has    *)
(* ended.                                                                  *)
StreamEnds ==
  \A s \in Streams :
    stream[s].at = "open" /\ row \in Terminal ~> stream[s].at # "open" \/ row \notin Terminal

(* A stream that waits while nothing runs shows the task as it is, a pause *)
(* above all, unless the run raised.                                       *)
Quiet ==
  /\ turn.at = "ended" /\ turn.says # "stopped" /\ resumer \in {"none", "ended"}
  /\ \A a \in Actors : unsent[a] = Absent

WaitingIsCurrent ==
  \A s \in Streams :
    Quiet /\ stream[s].at = "open" /\ stream[s].queue = <<>> => stream[s].sent = row

(* events.py: a snapshot is published "right after every commit that       *)
(* changes" the task.  So a stream with nothing left to read, and nothing  *)
(* committed still to be published, has sent the row's status; the status  *)
(* of planning alone is announced to nobody.                               *)
(* (The code does not: README, "Known disagreements".)                     *)
StreamCurrent ==
  \A s \in Streams :
    /\ stream[s].at = "open" /\ stream[s].queue = <<>> /\ row # "planning"
    /\ \A a \in Actors : unsent[a] = Absent
    => stream[s].sent = row

(* "Every terminal outcome produces an assistant message".                 *)
(* (The code does not: README, "Known disagreements".)                     *)
OutcomeAnswered ==
  row # Absent /\ row \in Terminal /\ Quiet =>
    \E i \in DOMAIN thread : thread[i].says = row

==============================================================================
