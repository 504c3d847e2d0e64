---------------------------- MODULE ConnectorCalls ----------------------------
(***************************************************************************)
(* Calls of one registered connector (praxis/connectors): the rate limiter *)
(* and the circuit breaker of CircuitBreaker around the connector's own    *)
(* describe, read and write, down to what the far side does and what the   *)
(* caller is told of it.  A connector is of a kind; a kind differs from    *)
(* the others in what it refuses before anything is sent, in what serving  *)
(* a request changes, in whether its driver sends a request again, and in  *)
(* how it names a failure (connectors/errors.py).                          *)
(*                                                                         *)
(* A request is abstracted to what those differences turn on.  A read is   *)
(*   look     a plain read                                                 *)
(*   change   one the connector can tell from its text, or from the        *)
(*            server's declaration, to change something                    *)
(*   hidden   a query with a statement inside it (DML in a WITH clause)    *)
(*            that changes something                                       *)
(*   covert   one that changes something and does not look it              *)
(*   bad      its arguments do not have the form the connector takes       *)
(*   big      it asks for more than the connector's bound                  *)
(*   unplaced it names no bucket or database, and neither does the         *)
(*            configuration                                                *)
(* and a write is put (an action the connector has), other (one it has     *)
(* not), bad or unplaced.  health() bypasses all this and changes nothing. *)
(*                                                                         *)
(* The tool of an MCP server that is asked for by "change" reads only, and *)
(* is declared so, until the server is upgraded; the connector keeps the   *)
(* declarations it was given first.                                        *)
(***************************************************************************)
EXTENDS CircuitBreaker

CONSTANTS
  Connectors,  \* the connectors looked at: records of a kind and a readOnly
  MaxResends   \* bound: how often a driver sends one request again

Kinds == {"postgres", "sql", "mongodb", "s3", "neo4j", "elasticsearch",
          "graphql", "rest", "mcp", "slack", "github", "prometheus"}

ASSUME ConnectorsAssumption ==
  Connectors \subseteq [kind : Kinds, readOnly : BOOLEAN] /\ MaxResends \in Nat

VARIABLES
  connector,  \* the connector the callers share
  call,       \* for each caller: its request, how far it has come, how often it
              \* took effect at the far side and was sent again
  declares,   \* what the MCP server declares of its tool: "reads" or "changes"
  hints,      \* _read_only_hints of the connector: "none", or what it was told
  told        \* what the last step told its caller, if it ended a call

callVars == <<vars, connector, call, declares, hints, told>>

Reads == {"look", "change", "hidden", "covert", "bad", "big", "unplaced"}
Writes == {"put", "other", "bad", "unplaced"}
Requests == [op : {"describe"}, what : {"look", "unplaced"}]
            \cup [op : {"read"}, what : Reads] \cup [op : {"write"}, what : Writes]

Nobody == [op |-> "none", what |-> "none"]
NoCall == [request |-> Nobody, stage |-> "none", applied |-> 0, sends |-> 0]
Nothing == [request |-> Nobody, outcome |-> "none", applied |-> 0, sends |-> 0, answers |-> 0]

InitCalls ==
  /\ Init
  /\ connector \in Connectors
  /\ call = [c \in Callers |-> NoCall]
  /\ declares = "reads" /\ hints = "none"
  /\ told = Nothing

------------------------------------------------------------------------------
(* What each kind refuses before anything is sent, as the error it raises: *)
(* "denied" (PermissionError, ConnectorReadOnlyError), "unsupported"       *)
(* (NotImplementedError), "query" (ConnectorQueryError), "configuration"   *)
(* (ConnectorConfigurationError), "unsafe" (UnsafeQueryError), or "none".  *)

(* The prefix of the query is matched.                                     *)
PostgresRead(ro, q) == IF ro /\ q = "change" THEN "denied" ELSE "none"

(* SqlGuard: what does not parse to one statement is refused, and for a    *)
(* read-only connector also what is not a query or is not bounded.  The    *)
(* outermost expression is looked at: a statement inside a query is not.   *)
Unparsed(q) == q = "bad"
Unbounded(q) == q = "big"
OutermostChanges(q) == q = "change"
GuardRefuses(ro, q) == Unparsed(q) \/ (ro /\ (OutermostChanges(q) \/ Unbounded(q)))

(* (In the mutant every query goes the way of a writable connector.)       *)
SqlRead_NoGuard(ro, q) == IF Unparsed(q) THEN "unsafe" ELSE "none"

(* As Postgres, and then the guard.                                        *)
SqlRead(ro, q) ==
  IF ro /\ q = "change" THEN "denied"
  ELSE IF GuardRefuses(ro, q) THEN "unsafe"
  ELSE "none"

(* A find, in JSON; server-side JavaScript is what looks like a change.    *)
MongoMalformed(q) == q \in {"bad", "big"}
RunsJavaScript(q) == q = "change"

MongoRead(ro, q) ==
  IF MongoMalformed(q) THEN "query"
  ELSE IF ro /\ RunsJavaScript(q) THEN "denied"
  ELSE IF q = "unplaced" THEN "configuration"
  ELSE "none"

MongoDescribe(d) == IF d = "unplaced" THEN "configuration" ELSE "none"

(* The object's place is checked; it is fetched before its size is known.  *)
ResolveLocation(q) == IF q = "unplaced" THEN "configuration" ELSE "none"
S3Read(q) == IF q = "bad" THEN "query" ELSE ResolveLocation(q)

(* The write clauses of Cypher are searched for.                           *)
WriteClause(q) == q = "change"
Neo4jRead(ro, q) == IF ro /\ WriteClause(q) THEN "denied" ELSE "none"

ElasticsearchRead(q) == IF q \in {"bad", "big"} THEN "query" ELSE "none"

(* The document's top-level operations are looked at; a subscription is    *)
(* refused in any case, and is among the bad requests here.                *)
MutationAtTop(q) == q = "change"

GraphqlRead(ro, q) ==
  IF q = "bad" THEN "query"
  ELSE IF ro /\ MutationAtTop(q) THEN "denied"
  ELSE "none"

(* A tool is a read when the operator lists it as one (the covert one      *)
(* here), or the server declares it one, as of the first time it was asked.*)
Listed(q) == q = "covert"
Hinted == IF hints = "none" THEN declares ELSE hints
ToolIsReadOnly(q) == Listed(q) \/ q = "look" \/ Hinted = "reads"
AsksHints(r) ==
  connector.kind = "mcp" /\ connector.readOnly /\ r.op = "read" /\ ~Listed(r.what)
McpRead(ro, q) == IF ro /\ ~ToolIsReadOnly(q) THEN "denied" ELSE "none"

ReadRefusal(k, ro, q) ==
  [postgres      |-> PostgresRead(ro, q),
   sql           |-> SqlRead(ro, q),
   mongodb       |-> MongoRead(ro, q),
   s3            |-> S3Read(q),
   neo4j         |-> Neo4jRead(ro, q),
   elasticsearch |-> ElasticsearchRead(q),
   graphql       |-> GraphqlRead(ro, q),
   mcp           |-> McpRead(ro, q),
   rest |-> "none", slack |-> "none", github |-> "none", prometheus |-> "none"][k]

(* A write: read-only is looked at first, whatever is asked; then what the *)
(* connector checks of it.                                                 *)
Checked(ro, w, checks) ==
  IF ro THEN "denied"
  ELSE IF w = "other" /\ "action" \in checks THEN "unsupported"
  ELSE IF w = "bad" /\ "arguments" \in checks THEN "query"
  ELSE IF w = "unplaced" /\ "place" \in checks THEN "configuration"
  ELSE "none"

BaseWrite(ro) == IF ro THEN "denied" ELSE "unsupported"
MongoWrite(ro, w) == Checked(ro, w, {"action", "arguments", "place"})
S3Write(ro, w) == Checked(ro, w, {"action", "arguments", "place"})
Neo4jWrite(ro, w) == Checked(ro, w, {"action", "arguments"})
ElasticsearchWrite(ro, w) == Checked(ro, w, {"action", "arguments"})
GraphqlWrite(ro, w) == Checked(ro, w, {"action", "arguments"})
RestWrite(ro, w) == Checked(ro, w, {"action", "arguments"})
SlackWrite(ro, w) == Checked(ro, w, {"action"})
McpWrite(ro, w) == Checked(ro, w, {})

WriteRefusal(k, ro, w) ==
  [mongodb       |-> MongoWrite(ro, w),
   s3            |-> S3Write(ro, w),
   neo4j         |-> Neo4jWrite(ro, w),
   elasticsearch |-> ElasticsearchWrite(ro, w),
   graphql       |-> GraphqlWrite(ro, w),
   rest          |-> RestWrite(ro, w),
   slack         |-> SlackWrite(ro, w),
   mcp           |-> McpWrite(ro, w),
   postgres |-> BaseWrite(ro), sql |-> BaseWrite(ro),
   github |-> BaseWrite(ro), prometheus |-> BaseWrite(ro)][k]

DescribeRefusal(k, d) == IF k = "mongodb" THEN MongoDescribe(d) ELSE "none"

Refusal(r) ==
  LET k == connector.kind  ro == connector.readOnly
  IN [read     |-> ReadRefusal(k, ro, r.what),
      write    |-> WriteRefusal(k, ro, r.what),
      describe |-> DescribeRefusal(k, r.what)][r.op]

------------------------------------------------------------------------------
(* The far side.                                                           *)

(* The requests a kind can be given: only some take a read that changes    *)
(* something, need a place to be named or can be malformed.                *)
Meaningful(k) ==
  {r \in Requests :
     /\ r.what = "unplaced" => k = "mongodb" \/ (k = "s3" /\ r.op # "describe")
     /\ r.op = "read" /\ r.what = "change" =>
          k \in {"postgres", "sql", "mongodb", "neo4j", "graphql", "mcp"}
     /\ r.op = "read" /\ r.what = "hidden" => k \in {"postgres", "sql"}
     /\ r.op = "read" /\ r.what = "covert" =>
          k \in {"postgres", "sql", "neo4j", "graphql", "rest", "mcp"}
     /\ r.op = "read" /\ r.what = "bad" =>
          k \in {"sql", "mongodb", "s3", "elasticsearch", "graphql"}
     /\ r.op = "write" /\ r.what = "bad" =>
          k \in {"mongodb", "s3", "neo4j", "elasticsearch", "graphql", "rest"}
     /\ r.what = "big" => k \in {"sql", "mongodb", "s3", "neo4j", "elasticsearch"}}

(* A find cannot write; Neo4j runs a read in a READ transaction, in which  *)
(* the server refuses to.                                                  *)
ReadsMayChange == {"postgres", "sql", "graphql", "rest", "mcp"}

Changes(k, r) ==
  \/ r.op = "write"
  \/ r.op = "read" /\ r.what \in {"change", "hidden", "covert"} /\ k \in ReadsMayChange
StillReads(k, r) == k = "mcp" /\ r.op = "read" /\ r.what = "change" /\ declares = "reads"

(* What can only fail: to write in a READ transaction, and to gather more  *)
(* than the connector's bound.                                             *)
OverBound(k, r) == r.what = "big" /\ k \in {"s3", "neo4j"}
Unservable(k, r) ==
  OverBound(k, r) \/ (k = "neo4j" /\ r.op = "read" /\ r.what \in {"change", "covert"})

(* Describing what may not be listed, or is not documented, is answered.   *)
ListsWhatItMay(k, r) == k = "s3" /\ r.op = "describe"
TellsUndocumented(k, r) == k = "rest" /\ r.op = "describe"

(* The drivers that send again what was not answered: execute_write runs   *)
(* its function again, botocore and the Slack client repeat the request,   *)
(* and the MongoDB driver marks it, so that the server knows it again.     *)
Resenders == {"mongodb", "s3", "neo4j", "slack"}
Recognises(k) == k = "mongodb"

(* How a failure is raised: one the far side reports (declined), one of    *)
(* the connection (lost), and an answer that is not the JSON it should be. *)
(* The rest of the kinds leave their driver's exception as it is.          *)
(* (In the mutant a lost connection is a query that failed.)               *)
MongoError_Lost == [declined |-> "query", lost |-> "query"]

MongoError == [declined |-> "query", lost |-> "unavailable"]

BotoError == [declined |-> "query", lost |-> "unavailable"]
Neo4jError == [declined |-> "query", lost |-> "unavailable"]
ElasticsearchError == [declined |-> "query", lost |-> "unavailable", garbled |-> "query"]
GraphqlError == [declined |-> "query", lost |-> "unavailable", garbled |-> "query"]
RestError == [declined |-> "query", lost |-> "unavailable", garbled |-> "query"]
DriversOwn == [declined |-> "raw", lost |-> "raw"]

ErrorOf(k) ==
  [mongodb |-> MongoError, s3 |-> BotoError, neo4j |-> Neo4jError,
   elasticsearch |-> ElasticsearchError, graphql |-> GraphqlError, rest |-> RestError,
   postgres |-> DriversOwn, sql |-> DriversOwn, mcp |-> DriversOwn, slack |-> DriversOwn,
   github |-> DriversOwn, prometheus |-> DriversOwn][k]

Parsing == {"elasticsearch", "graphql", "rest"}

------------------------------------------------------------------------------
(* A call.  Only describe is retried (capability_factory.py).              *)
(* (In the mutant every operation is.)                                     *)
RequestsOf_Any(c) == Meaningful(connector.kind)

RequestsOf(c) ==
  {r \in Meaningful(connector.kind) : c \in Retriers => r.op = "describe"}

Quiet == told' = Nothing /\ UNCHANGED <<connector, declares, hints>>
Same == UNCHANGED <<connector, declares, hints>>

SubmitCall(c) ==
  /\ Submit(c)
  /\ \E r \in RequestsOf(c) : call' = [call EXCEPT ![c] = [NoCall EXCEPT !.request = r]]
  /\ Quiet

(* The connector's method starts, and checks what it was given; an MCP     *)
(* server may fail to declare its tools, which ends the call.              *)
StartCall(c) ==
  /\ Admit(c) \/ AdmitTrial(c)
  /\ \/ /\ call' = [call EXCEPT ![c].stage =
                      IF Refusal(call[c].request) = "none" THEN "sent" ELSE "refused"]
        /\ hints' = IF AsksHints(call[c].request) THEN Hinted ELSE hints
     \/ /\ AsksHints(call[c].request) /\ hints = "none"
        /\ call' = [call EXCEPT ![c].stage = "undeclared"]
        /\ UNCHANGED hints
  /\ told' = Nothing /\ UNCHANGED <<connector, declares>>

(* The MCP server is upgraded: its tool changes things, and says so.       *)
Upgrade ==
  /\ connector.kind = "mcp" /\ declares = "reads"
  /\ declares' = "changes"
  /\ told' = Nothing
  /\ UNCHANGED <<vars, connector, call, hints>>

(* The call ended in an error: the caller hears of it, unless it tries     *)
(* again; what call_with_retry raises in the end is its own ConnectorError.*)
(* (answers: history: how many answers of the far side had come.)          *)
Ended(c, outcome, answers) ==
  IF pc'[c] = "idle"
  THEN /\ call' = [call EXCEPT ![c] = NoCall]
       /\ told' = [request |-> call[c].request, applied |-> call[c].applied, sends |-> call[c].sends,
                   answers |-> answers,
                   outcome |-> IF c \in Retriers THEN "exhausted" ELSE outcome]
  ELSE /\ call' = [call EXCEPT ![c].stage = "none", ![c].sends = 0]
       /\ told' = Nothing

RejectCall(c) == Reject(c) /\ Ended(c, "open", 0) /\ Same

RefuseCall(c) ==
  /\ call[c].stage = "refused"
  /\ Fail(c) /\ Ended(c, Refusal(call[c].request), 0)
  /\ Same

(* The far side serves the request, or declines it.                        *)
Serve(c) ==
  LET k == connector.kind  r == call[c].request
      again == Recognises(k) /\ call[c].applied > 0
  IN /\ call[c].stage = "sent" /\ ~Unservable(k, r)
     /\ call' = [call EXCEPT ![c].stage = "served",
                             ![c].applied = IF Changes(k, r) /\ ~StillReads(k, r) /\ ~again THEN @ + 1 ELSE @]
     /\ Quiet
     /\ UNCHANGED vars

Decline(c) ==
  /\ call[c].stage = "sent"
  /\ ~ListsWhatItMay(connector.kind, call[c].request)
  /\ ~TellsUndocumented(connector.kind, call[c].request)
  /\ ~(Recognises(connector.kind) /\ call[c].applied > 0)
  /\ Fail(c) /\ Ended(c, ErrorOf(connector.kind).declined, 0)
  /\ Same

Answer(c) ==
  /\ call[c].stage = "served"
  /\ Succeed(c)
  /\ told' = [request |-> call[c].request, applied |-> call[c].applied,
              sends |-> call[c].sends, answers |-> 1, outcome |-> "ok"]
  /\ call' = [call EXCEPT ![c] = NoCall]
  /\ Same

(* The answer is there and cannot be read.                                 *)
Garble(c) ==
  /\ call[c].stage = "served" /\ connector.kind \in Parsing
  /\ ~TellsUndocumented(connector.kind, call[c].request)
  /\ Fail(c) /\ Ended(c, ErrorOf(connector.kind).garbled, 1)
  /\ Same

(* The connection fails before or after the request was served.            *)
Lose(c) ==
  /\ call[c].stage \in {"undeclared", "sent", "served"}
  /\ Fail(c) /\ Ended(c, ErrorOf(connector.kind).lost, 0)
  /\ Same

(* The driver sends the request again; of one that changes nothing this    *)
(* leaves no trace, and is left out.                                       *)
Resend(c) ==
  /\ call[c].stage \in {"sent", "served"} /\ connector.kind \in Resenders
  /\ Changes(connector.kind, call[c].request)
  /\ call[c].sends < MaxResends
  /\ call' = [call EXCEPT ![c].stage = "sent", ![c].sends = @ + 1]
  /\ Quiet
  /\ UNCHANGED vars

CancelCall(c) ==
  /\ Cancel(c)
  /\ call' = [call EXCEPT ![c] = NoCall]
  /\ Quiet

Around == (Leak \/ Elapse \/ Reset) /\ Quiet /\ UNCHANGED call

NextCalls ==
  \/ \E c \in Callers :
       \/ SubmitCall(c) \/ StartCall(c) \/ RejectCall(c) \/ RefuseCall(c)
       \/ Serve(c) \/ Decline(c) \/ Answer(c) \/ Garble(c) \/ Lose(c) \/ Resend(c)
       \/ CancelCall(c)
  \/ Around
  \/ Upgrade

SpecCalls == InitCalls /\ [][NextCalls]_callVars

(* As in CircuitBreaker: time passes, waiters are woken in turn, and every *)
(* call goes on and ends, its driver having a timeout.                     *)
Moves(c) ==
  RefuseCall(c) \/ Serve(c) \/ Decline(c) \/ Answer(c) \/ Garble(c) \/ Lose(c)

FairSpecCalls ==
  /\ SpecCalls
  /\ WF_callVars(Leak /\ Around) /\ WF_callVars(Elapse /\ Around)
  /\ \A c \in Callers :
       SF_callVars(StartCall(c) \/ RejectCall(c)) /\ WF_callVars(Moves(c))

------------------------------------------------------------------------------

(* What a read-only connector changes at the far side, it changes through  *)
(* a read in which it does not see a change: one that does not show it, a  *)
(* query with the change inside it, or a tool that changes since the       *)
(* connector learned that it reads.  Nothing that a caller asks to write   *)
(* gets there, and nothing that the connector can tell.                    *)
Effects == {call[c].request : c \in {d \in Callers : call[d].applied > 0}}
           \cup (IF told.applied > 0 THEN {told.request} ELSE {})
Outdated == hints = "reads" /\ declares = "changes"

ReadOnlyHolds ==
  connector.readOnly =>
    \A r \in Effects :
      /\ r.op = "read" /\ connector.kind \in ReadsMayChange
      /\ r.what \in {"covert", "hidden"} \/ (connector.kind = "mcp" /\ Outdated)

(* What SQLConnector.read says it refuses: a mutation hidden behind a CTE. *)
(* (The guard does not: README, "Known disagreements".)                    *)
HiddenRefused ==
  connector.readOnly /\ connector.kind = "sql" => \A r \in Effects : r.what # "hidden"

(* What _tool_is_read_only says it is: a tool that the server does not     *)
(* declare as reading is not read-only.                                    *)
(* (It goes by the first declaration: README, "Known disagreements".)      *)
ToolsFailClosed ==
  connector.readOnly /\ connector.kind = "mcp" => \A r \in Effects : r.what # "change"

(* What the caller is told is what happened: an error that names a refusal *)
(* stands for a request that changed nothing, over all the attempts it     *)
(* took; "the far side refused" too, unless its answer had come, or what   *)
(* it refused is a request it had served before and did not know again;    *)
(* and a write that went well was made.                                    *)
ErrorsTrue ==
  /\ told.outcome \in {"denied", "unsupported", "configuration", "unsafe", "open"}
       => told.applied = 0
  /\ /\ told.outcome = "query" /\ told.answers = 0
     /\ told.sends = 0 \/ Recognises(connector.kind)
     => told.applied = 0
  /\ told.outcome = "ok" /\ told.request.op = "write" => told.applied > 0

(* What connectors/errors.py says of ConnectorQueryError: the answer was a *)
(* refusal, so that nothing was done.                                      *)
(* (A write that was made and whose answer is no JSON raises it too:       *)
(* README, "Known disagreements".)                                         *)
QueryErrorsRefuse == told.outcome = "query" => told.applied = 0

(* A request takes effect once, however often it is tried: only the        *)
(* drivers that send again on their own can make it twice.                 *)
AppliedOnce ==
  connector.kind \notin Resenders \/ Recognises(connector.kind)
    => \A c \in Callers : call[c].applied <= 1

==============================================================================
