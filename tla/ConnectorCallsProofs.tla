------------------------- MODULE ConnectorCallsProofs -------------------------
(***************************************************************************)
(* Proofs about CircuitBreaker and the ConnectorCalls around it, for any   *)
(* callers, retries, limits and set of connectors: a call does to the      *)
(* circuit what CircuitBreaker says it does, so what is proved of the      *)
(* circuit alone holds of it here; and what is refused, changed and told   *)
(* of a call.                                                              *)
(***************************************************************************)
EXTENDS ConnectorCalls, TLAPS

IInv == TypeOK /\ OpensAtThreshold /\ OneTrial

(* The initial state satisfies the invariant.                              *)
LEMMA InvInit == Init => IInv
<1> SUFFICES ASSUME Init PROVE IInv
    OBVIOUS
<1>1. 0 \in 0 .. Threshold /\ 0 \in 0 .. MaxCalls /\ 0 \in 0 .. MaxAttempts /\ 0 < Threshold
      BY LimitsAssumption
<1>2. TypeOK
      BY <1>1 DEF Init, TypeOK
<1>3. OpensAtThreshold
      BY <1>1 DEF Init, OpensAtThreshold
<1>4. OneTrial
      BY DEF Init, OneTrial, TrialIsAlone
<1> QED
    BY <1>2, <1>3, <1>4 DEF IInv

(* TypeOK in two parts, the flags and the rest.                            *)
Flags == cooling \in BOOLEAN /\ trialInFlight \in BOOLEAN /\ straggled \in BOOLEAN
         /\ lost \in BOOLEAN

Shape ==
  /\ state \in {"closed", "open", "half_open"} /\ failures \in 0 .. Threshold
  /\ bucket \in 0 .. MaxCalls
  /\ pc \in [Callers -> {"idle", "throttled", "calling"}]
  /\ attempt \in [Callers -> 0 .. MaxAttempts]
  /\ trial \in SUBSET Callers

(* Every step keeps the flags Boolean.                                     *)
LEMMA FlagsNext == Flags /\ [Next]_vars => Flags'
<1> SUFFICES ASSUME Flags, [Next]_vars PROVE Flags'
    OBVIOUS
<1>1. cooling' \in BOOLEAN
      BY Zenon DEF Flags, Next, Submit, Admit, AdmitTrial, Reject, Succeed, Fail, Cancel, Leak,
         Elapse, Reset, RecordSuccess, RecordFailure, circuit, vars
<1>2. trialInFlight' \in BOOLEAN
      BY Zenon DEF Flags, Next, Submit, Admit, AdmitTrial, Reject, Succeed, Fail, Cancel, Leak,
         Elapse, Reset, RecordSuccess, RecordFailure, circuit, vars
<1>3. straggled' \in BOOLEAN
      BY Zenon DEF Flags, Next, Submit, Admit, AdmitTrial, Reject, Succeed, Fail, Cancel, Leak,
         Elapse, Reset, Back, seen, vars
<1>4. lost' \in BOOLEAN
      BY Zenon DEF Flags, Next, Submit, Admit, AdmitTrial, Reject, Succeed, Fail, Cancel, Leak,
         Elapse, Reset, seen, vars
<1> QED
    BY <1>1, <1>2, <1>3, <1>4 DEF Flags

(* Every step keeps the shape of the rest.                                 *)
LEMMA ShapeNext == Shape /\ [Next]_vars => Shape'
<1> SUFFICES ASSUME Shape, [Next]_vars PROVE Shape'
    OBVIOUS
<1> USE LimitsAssumption DEF Shape, circuit, seen
<1>1. ASSUME NEW c \in Callers, AttemptFails(c)
      PROVE  /\ pc' \in [Callers -> {"idle", "throttled", "calling"}]
             /\ attempt' \in [Callers -> 0 .. MaxAttempts]
  <2>1. CASE c \in Retriers /\ attempt[c] < MaxAttempts
        BY <1>1, <2>1 DEF AttemptFails
  <2>2. CASE ~(c \in Retriers /\ attempt[c] < MaxAttempts)
        BY <1>1, <2>2 DEF AttemptFails
  <2> QED
      BY <2>1, <2>2
<1>2. ASSUME NEW c \in Callers, Submit(c) \/ Admit(c) \/ AdmitTrial(c) \/ Cancel(c)
      PROVE  Shape'
      BY <1>2 DEF Submit, Admit, AdmitTrial, Acquire, Cancel
<1>3. ASSUME NEW c \in Callers, Reject(c) PROVE Shape'
      BY <1>1, <1>3 DEF Reject, Acquire
<1>4. ASSUME NEW c \in Callers, Succeed(c) PROVE Shape'
      BY <1>4 DEF Succeed, RecordSuccess, Back
<1>5. ASSUME NEW c \in Callers, Fail(c) PROVE Shape'
      BY <1>1, <1>5 DEF Fail, RecordFailure, Back
<1>6. CASE Leak \/ Elapse \/ Reset
      BY <1>6 DEF Leak, Elapse, Reset, RecordSuccess
<1>7. CASE UNCHANGED vars
      BY <1>7 DEF vars
<1> QED
    BY <1>2, <1>3, <1>4, <1>5, <1>6, <1>7 DEF Next

(* No operation of the breaker, its callers or its limiter leaves the      *)
(* types.                                                                  *)
LEMMA TypeNext == TypeOK /\ [Next]_vars => TypeOK'
<1>1. TypeOK <=> Flags /\ Shape
      BY DEF TypeOK, Flags, Shape
<1>2. TypeOK' <=> Flags' /\ Shape'
      BY DEF TypeOK, Flags, Shape
<1> QED
    BY <1>1, <1>2, FlagsNext, ShapeNext

(* The count and the state move together.                                  *)
LEMMA ThresholdNext == TypeOK /\ OpensAtThreshold /\ [Next]_vars => OpensAtThreshold'
<1> SUFFICES ASSUME TypeOK, OpensAtThreshold, [Next]_vars PROVE OpensAtThreshold'
    OBVIOUS
<1> USE LimitsAssumption DEF OpensAtThreshold, circuit
<1>1. CASE UNCHANGED <<state, failures>>
      BY <1>1
<1>2. ASSUME NEW c \in Callers, AdmitTrial(c) PROVE OpensAtThreshold'
      BY <1>2 DEF AdmitTrial, TrialDue
<1>3. ASSUME RecordSuccess PROVE OpensAtThreshold'
      BY <1>3 DEF RecordSuccess
<1>4. ASSUME NEW c \in Callers, Fail(c) PROVE OpensAtThreshold'
      BY <1>4 DEF Fail, RecordFailure, Trips, TypeOK
<1> QED
    BY <1>1, <1>2, <1>3, <1>4
    DEF Next, Submit, Admit, Reject, Succeed, Cancel, Leak, Elapse, Reset, vars

(* A trial is admitted only when none is under way, unless a call that was *)
(* not the trial has reported, and is forgotten only when it reports or is *)
(* cancelled.                                                              *)
LEMMA TrialNext == OneTrial /\ [Next]_vars => OneTrial'
<1> SUFFICES ASSUME OneTrial, [Next]_vars PROVE OneTrial'
    OBVIOUS
<1> USE DEF OneTrial, TrialIsAlone, circuit, seen
<1>1. CASE UNCHANGED <<state, trialInFlight, trial, straggled, lost>>
      BY <1>1
<1>2. ASSUME NEW c \in Callers, AdmitTrial(c) PROVE OneTrial'
      BY <1>2 DEF AdmitTrial, TrialDue
<1>3. ASSUME NEW c \in Callers, Succeed(c) PROVE OneTrial'
      BY <1>3 DEF Succeed, RecordSuccess, Back
<1>4. ASSUME NEW c \in Callers, Fail(c) PROVE OneTrial'
      BY <1>4 DEF Fail, RecordFailure, Trips, Back
<1>5. ASSUME NEW c \in Callers, Cancel(c) PROVE OneTrial'
      BY <1>5 DEF Cancel
<1>6. CASE Reset
      BY <1>6 DEF Reset, RecordSuccess
<1> QED
    BY <1>1, <1>2, <1>3, <1>4, <1>5, <1>6 DEF Next, Submit, Admit, Reject, Leak, Elapse, vars

(* The invariant holds in every reachable state.                           *)
THEOREM InvHolds == Spec => []IInv
<1>1. IInv /\ [Next]_vars => IInv'
      BY TypeNext, ThresholdNext, TrialNext DEF IInv
<1> QED
    BY <1>1, InvInit, PTL DEF Spec

(* The breaker, its limiter and its callers keep their types: no count     *)
(* passes its limit (resilience.py, retry.py).                             *)
THEOREM CircuitTypeCorrect == Spec => []TypeOK
<1>1. IInv => TypeOK
      BY DEF IInv
<1> QED
    BY <1>1, InvHolds, PTL

(* The breaker is open exactly when the connector failed failure_threshold *)
(* times since its last success (CircuitBreaker._record_failure and        *)
(* _record_success), however late its calls report.                        *)
THEOREM OpensOnlyAtThreshold == Spec => []OpensAtThreshold
<1>1. IInv => OpensAtThreshold
      BY DEF IInv
<1> QED
    BY <1>1, InvHolds, PTL

(* One trial at a time (CircuitBreaker._admit), for as long as only trials *)
(* report while the circuit is not closed; and the circuit is never left   *)
(* half-open without a trial, unless one was cancelled.                    *)
THEOREM HalfOpenAdmitsOne == Spec => []OneTrial
<1>1. IInv => OneTrial
      BY DEF IInv
<1> QED
    BY <1>1, InvHolds, PTL

------------------------------------------------------------------------------
(* The calls around the circuit.                                           *)

(* The calls, taken as steps of the circuit alone, are steps it may take.  *)
LEMMA StepsOfCircuit == [NextCalls]_callVars => [Next]_vars
<1> SUFFICES ASSUME [NextCalls]_callVars PROVE [Next]_vars
    OBVIOUS
<1>1. ASSUME NEW c \in Callers,
             \/ SubmitCall(c) \/ StartCall(c) \/ RejectCall(c) \/ RefuseCall(c)
             \/ Serve(c) \/ Decline(c) \/ Answer(c) \/ Garble(c) \/ Lose(c)
             \/ Resend(c) \/ CancelCall(c)
      PROVE  [Next]_vars
  <2>1. \/ Submit(c) \/ Admit(c) \/ AdmitTrial(c) \/ Reject(c)
        \/ Succeed(c) \/ Fail(c) \/ Cancel(c)
        \/ UNCHANGED vars
        BY <1>1 DEF SubmitCall, StartCall, RejectCall, RefuseCall, Serve, Decline,
                    Answer, Garble, Lose, Resend, CancelCall
  <2> QED
      BY <2>1 DEF Next
<1>2. CASE Around
      BY <1>2 DEF Around, Next
<1>3. CASE Upgrade \/ UNCHANGED callVars
      BY <1>3 DEF callVars, Upgrade
<1> QED
    BY <1>1, <1>2, <1>3 DEF NextCalls

(* The calls of a connector, seen from its circuit, are a run of the       *)
(* circuit breaker: whatever the connector does between admission and      *)
(* report (ResilientConnector around Connector).                           *)
THEOREM CallsImplementCircuit == SpecCalls => Spec
<1>1. InitCalls => Init
      BY DEF InitCalls
<1> QED
    BY <1>1, StepsOfCircuit, PTL DEF SpecCalls, Spec

(* The circuit of a called connector rejects it only after `threshold`     *)
(* failures since it last succeeded.                                       *)
THEOREM CallsOpenAtThreshold == SpecCalls => []OpensAtThreshold
BY CallsImplementCircuit, OpensOnlyAtThreshold, PTL

(* And lets one trial through at a time, as far as CircuitBreaker does.    *)
THEOREM CallsTryOnce == SpecCalls => []OneTrial
BY CallsImplementCircuit, HalfOpenAdmitsOne, PTL

------------------------------------------------------------------------------
(* What holds of a call's record, and of what the last step told.          *)
CallRecords == [request : Requests \cup {Nobody},
                stage : {"none", "refused", "undeclared", "sent", "served"},
                applied : Nat, sends : Nat]

Outstanding(x) == x.stage \in {"sent", "served"}

(* Of a request that changes something, a read-only connector with hints h *)
(* lets through what does not show it ...                                  *)
Unseen(r, h) ==
  connector.readOnly /\ Changes(connector.kind, r) =>
    /\ r.op = "read"
    /\ r.what \in {"covert", "hidden"} \/ (connector.kind = "mcp" /\ h = "reads")

(* ... and the tool of a server that declares d changes things only if     *)
(* that is what it declares.                                               *)
Effective(r, h, d) ==
  /\ Changes(connector.kind, r) /\ Unseen(r, h)
  /\ connector.kind = "mcp" /\ r.op = "read" /\ r.what = "change" => d = "changes"

Sound(c, x, h, d) ==
  /\ x.request \in Meaningful(connector.kind) \cup {Nobody}
  /\ c \in Retriers => x.request.op \in {"describe", "none"}
  /\ ~Outstanding(x) => x.applied = 0 /\ x.sends = 0
  /\ x.stage # "none" => x.request \in Meaningful(connector.kind)
  /\ Outstanding(x) => Unseen(x.request, h)
  /\ x.stage = "sent" /\ x.sends = 0 => x.applied = 0
  /\ x.stage = "served" /\ x.request.op = "write" => x.applied > 0
  /\ x.applied > 0 => Effective(x.request, h, d)
  /\ connector.kind \notin Resenders => x.sends = 0
  /\ connector.kind \notin Resenders \/ Recognises(connector.kind) => x.applied <= 1

(* What was told of an effect was asked for and let through.               *)
ToldSound ==
  /\ told.applied \in Nat
  /\ told.applied > 0 => Effective(told.request, hints, declares)

CallsInv ==
  /\ connector \in Connectors
  /\ call \in [Callers -> CallRecords]
  /\ hints \in {"none", "reads", "changes"} /\ declares \in {"reads", "changes"}
  /\ \A c \in Callers : Sound(c, call[c], hints, declares)
  /\ \A c \in Callers :
       /\ pc[c] # "calling" => call[c].stage = "none"
       /\ pc[c] # "idle" => call[c].request \in Meaningful(connector.kind)
  /\ ToldSound /\ ErrorsTrue

(* A call that is not under way is sound.                                  *)
LEMMA NoCallSound ==
  ASSUME NEW c, NEW h, NEW d PROVE NoCall \in CallRecords /\ Sound(c, NoCall, h, d)
BY DEF NoCall, Nobody, CallRecords, Sound, Outstanding

(* Nothing told is nothing to be wrong.                                    *)
LEMMA NothingSound == ASSUME told' = Nothing PROVE ToldSound' /\ ErrorsTrue'
BY DEF ToldSound, ErrorsTrue, Nothing, Nobody

(* Hints are kept, and a server that declares a change does not take it    *)
(* back; so what is sound stays it.                                        *)
Onward == /\ connector' = connector
          /\ hints' \in {"none", "reads", "changes"} /\ declares' \in {"reads", "changes"}
          /\ hints # "none" => hints' = hints
          /\ declares = "changes" => declares' = declares

LEMMA SoundStays ==
  ASSUME Onward, NEW c, NEW x, Sound(c, x, hints, declares)
  PROVE  Sound(c, x, hints', declares')
<1>1. \A r : Unseen(r, hints) => Unseen(r, hints')
      BY DEF Onward, Unseen
<1>2. \A r : Effective(r, hints, declares) => Effective(r, hints', declares')
      BY <1>1 DEF Onward, Effective
<1> QED
    BY <1>1, <1>2 DEF Sound

(* A step that gives one caller a sound record keeps the rest.             *)
LEMMA OneCall ==
  ASSUME CallsInv, NEW c \in Callers, NEW x \in CallRecords, Sound(c, x, hints', declares'),
         call' = [call EXCEPT ![c] = x], Onward,
         \A d \in Callers \ {c} : pc'[d] = pc[d],
         pc'[c] # "calling" => x.stage = "none",
         pc'[c] # "idle" => x.request \in Meaningful(connector.kind),
         ToldSound', ErrorsTrue'
  PROVE  CallsInv'
<1>1. call' \in [Callers -> CallRecords]
      BY DEF CallsInv
<1>2. \A d \in Callers : call'[d] = IF d = c THEN x ELSE call[d]
      BY DEF CallsInv
<1>3. \A d \in Callers : Sound(d, call'[d], hints', declares')
  <2> SUFFICES ASSUME NEW d \in Callers PROVE Sound(d, call'[d], hints', declares')
      OBVIOUS
  <2>1. CASE d = c
        BY <1>2, <2>1
  <2>2. CASE d # c
    <3>1. Sound(d, call[d], hints, declares)
          BY DEF CallsInv
    <3>2. Sound(d, call[d], hints', declares')
          BY <3>1, SoundStays
    <3> QED
        BY <1>2, <2>2, <3>2
  <2> QED
      BY <2>1, <2>2
<1>4. ASSUME NEW d \in Callers
      PROVE  Sound(d, call[d], hints, declares)' <=> Sound(d, call'[d], hints', declares')
      BY DEF Sound, Unseen, Effective, Onward
<1>5. \A d \in Callers :
        /\ pc'[d] # "calling" => call'[d].stage = "none"
        /\ pc'[d] # "idle" => call'[d].request \in Meaningful(connector'.kind)
      BY <1>2 DEF CallsInv, Onward
<1> QED
    BY <1>1, <1>3, <1>4, <1>5 DEF CallsInv, Onward

(* As long as the server and the hints are as they were.                   *)
LEMMA SameOnward == CallsInv /\ Same => Onward /\ hints' = hints /\ declares' = declares
BY DEF CallsInv, Same, Onward

------------------------------------------------------------------------------
(* The tables.  A connection that is lost is never reported as an answer,  *)
(* and an answer only as "query" or as the driver has it.                  *)
LEMMA ErrorTable ==
  ASSUME NEW k \in Kinds
  PROVE  /\ ErrorOf(k).declined \in {"query", "raw"}
         /\ ErrorOf(k).lost \in {"unavailable", "raw"}
         /\ k \in Parsing => ErrorOf(k).garbled = "query"
<1> USE DEF ErrorOf, Parsing, MongoError, BotoError, Neo4jError, ElasticsearchError,
            GraphqlError, RestError, DriversOwn
<1>1. CASE k \in {"mongodb", "s3", "neo4j"}
      BY <1>1
<1>2. CASE k \in {"elasticsearch", "graphql", "rest"}
      BY <1>2
<1>3. CASE k \in {"postgres", "sql", "mcp", "slack", "github", "prometheus"}
      BY <1>3
<1> QED
    BY <1>1, <1>2, <1>3 DEF Kinds

(* A read-only connector refuses every write.                              *)
LEMMA WritesRefused ==
  ASSUME NEW k \in Kinds, NEW w PROVE WriteRefusal(k, TRUE, w) # "none"
<1> USE DEF WriteRefusal, Checked, MongoWrite, S3Write, Neo4jWrite, ElasticsearchWrite,
            GraphqlWrite, RestWrite, SlackWrite, McpWrite, BaseWrite
<1>1. CASE k \in {"mongodb", "s3", "neo4j", "elasticsearch"}
      BY <1>1
<1>2. CASE k \in {"graphql", "rest", "slack", "mcp"}
      BY <1>2
<1>3. CASE k \in {"postgres", "sql", "github", "prometheus"}
      BY <1>3
<1> QED
    BY <1>1, <1>2, <1>3 DEF Kinds

(* And, where it could take effect, every read that looks like a change.   *)
LEMMA ChangingReadsRefused ==
  ASSUME NEW k \in {"postgres", "sql", "graphql"}
  PROVE  ReadRefusal(k, TRUE, "change") # "none"
<1> USE DEF ReadRefusal, PostgresRead, SqlRead, GraphqlRead, MutationAtTop
<1>1. CASE k = "postgres"
      BY <1>1
<1>2. CASE k = "sql"
      BY <1>2
<1>3. CASE k = "graphql"
      BY <1>3
<1> QED
    BY <1>1, <1>2, <1>3

(* And MCP the tool that is not hinted to read.                            *)
LEMMA ChangingToolsRefused == Hinted # "reads" => ReadRefusal("mcp", TRUE, "change") # "none"
BY DEF ReadRefusal, McpRead, ToolIsReadOnly, Listed

(* So what a read-only connector lets through and takes effect is a read   *)
(* in which it sees no change.                                             *)
LEMMA OnlyUnseen ==
  ASSUME connector \in Connectors,
         NEW r \in Meaningful(connector.kind), Refusal(r) = "none"
  PROVE  Unseen(r, Hinted)
<1> SUFFICES ASSUME connector.readOnly, Changes(connector.kind, r)
             PROVE  /\ r.op = "read"
                    /\ r.what \in {"covert", "hidden"} \/ (connector.kind = "mcp" /\ Hinted = "reads")
    BY DEF Unseen
<1> DEFINE k == connector.kind
<1>1. k \in Kinds /\ connector.readOnly = TRUE
      BY ConnectorsAssumption
<1>2. r.op # "write"
  <2>1. SUFFICES ASSUME r.op = "write" PROVE FALSE
        OBVIOUS
  <2>2. Refusal(r) = WriteRefusal(k, TRUE, r.what)
        BY <1>1, <2>1 DEF Refusal
  <2> QED
      BY <2>2, <1>1, WritesRefused
<1>3. r.op = "read" /\ r.what \in {"change", "hidden", "covert"} /\ k \in ReadsMayChange
      BY <1>2 DEF Changes
<1>4. ASSUME r.what = "change" PROVE k = "mcp" /\ Hinted = "reads"
  <2>1. k \in {"postgres", "sql", "graphql"} \/ k = "mcp"
        BY <1>3, <1>4 DEF Meaningful, ReadsMayChange
  <2>2. Refusal(r) = ReadRefusal(k, TRUE, "change")
        BY <1>1, <1>3, <1>4 DEF Refusal
  <2> QED
      BY <2>1, <2>2, ChangingReadsRefused, ChangingToolsRefused
<1> QED
    BY <1>3, <1>4

(* No refusal is a success.                                                *)
LEMMA RefusalTable ==
  ASSUME connector \in Connectors, NEW r \in Meaningful(connector.kind)
  PROVE  Refusal(r) # "ok"
<1> DEFINE k == connector.kind  ro == connector.readOnly
<1>1. k \in Kinds /\ r.op \in {"describe", "read", "write"}
      BY ConnectorsAssumption DEF Meaningful, Requests
<1>2. ReadRefusal(k, ro, r.what) # "ok"
  <2> USE DEF ReadRefusal, PostgresRead, SqlRead, MongoRead, S3Read, ResolveLocation,
              Neo4jRead, ElasticsearchRead, GraphqlRead, McpRead
  <2>1. CASE k \in {"postgres", "sql", "mongodb", "s3"}
        BY <2>1
  <2>2. CASE k \in {"neo4j", "elasticsearch", "graphql", "mcp"}
        BY <2>2
  <2>3. CASE k \in {"rest", "slack", "github", "prometheus"}
        BY <2>3
  <2> QED
      BY <1>1, <2>1, <2>2, <2>3 DEF Kinds
<1>3. WriteRefusal(k, ro, r.what) # "ok"
  <2> USE DEF WriteRefusal, Checked, MongoWrite, S3Write, Neo4jWrite, ElasticsearchWrite,
              GraphqlWrite, RestWrite, SlackWrite, McpWrite, BaseWrite
  <2>1. CASE k \in {"mongodb", "s3", "neo4j", "elasticsearch"}
        BY <2>1
  <2>2. CASE k \in {"graphql", "rest", "slack", "mcp"}
        BY <2>2
  <2>3. CASE k \in {"postgres", "sql", "github", "prometheus"}
        BY <2>3
  <2> QED
      BY <1>1, <2>1, <2>2, <2>3 DEF Kinds
<1>4. DescribeRefusal(k, r.what) # "ok"
      BY DEF DescribeRefusal, MongoDescribe
<1> QED
    BY <1>1, <1>2, <1>3, <1>4 DEF Refusal

------------------------------------------------------------------------------
(* At first nobody calls.                                                  *)
LEMMA CallsInit == InitCalls => CallsInv
<1> SUFFICES ASSUME InitCalls PROVE CallsInv
    OBVIOUS
<1>1. call \in [Callers -> CallRecords] /\ \A c \in Callers : Sound(c, call[c], hints, declares)
      BY NoCallSound DEF InitCalls
<1>2. \A c \in Callers : call[c].stage = "none" /\ pc[c] = "idle"
      BY DEF InitCalls, NoCall, Init
<1>3. ToldSound /\ ErrorsTrue
      BY DEF InitCalls, ToldSound, ErrorsTrue, Nothing, Nobody
<1> QED
    BY <1>1, <1>2, <1>3 DEF CallsInv, InitCalls

(* A call that ends in an error: the caller is told the truth, and a call  *)
(* that is tried again has had no effect, since only describe is retried.  *)
LEMMA EndedStep ==
  ASSUME CallsInv, TypeOK, NEW c \in Callers, NEW outcome, NEW answers \in {0, 1},
         Fail(c) \/ Reject(c), Ended(c, outcome, answers), Same,
         outcome # "ok",
         outcome \in {"denied", "unsupported", "configuration", "unsafe", "open"}
           => call[c].applied = 0,
         /\ outcome = "query" /\ answers = 0
         /\ call[c].sends = 0 \/ Recognises(connector.kind)
         => call[c].applied = 0
  PROVE  CallsInv'
<1> DEFINE y == call[c]
<1>1. y \in CallRecords /\ Sound(c, y, hints, declares) /\ connector \in Connectors
      BY DEF CallsInv
<1>0. Onward /\ hints' = hints /\ declares' = declares /\ connector' = connector
      BY SameOnward DEF Onward
<1>2. /\ \A d \in Callers \ {c} : pc'[d] = pc[d]
      /\ pc'[c] = "idle" \/ (pc'[c] = "throttled" /\ c \in Retriers)
      BY DEF Fail, Reject, AttemptFails, TypeOK
<1>3. CASE pc'[c] = "idle"
  <2>1. /\ call' = [call EXCEPT ![c] = NoCall]
        /\ told' = [request |-> y.request, applied |-> y.applied, sends |-> y.sends,
                    answers |-> answers,
                    outcome |-> IF c \in Retriers THEN "exhausted" ELSE outcome]
        BY <1>3 DEF Ended
  <2>2. ToldSound'
    <3>1. y.applied > 0 => Effective(y.request, hints, declares)
          BY <1>1 DEF Sound
    <3> QED
        BY <1>0, <1>1, <2>1, <3>1 DEF ToldSound, CallRecords, Effective, Unseen
  <2>3. ErrorsTrue'
        BY <1>0, <2>1, <1>1 DEF ErrorsTrue, CallRecords
  <2>4. NoCall.stage = "none"
        BY DEF NoCall
  <2> QED
      BY <1>0, <2>1, <2>2, <2>3, <2>4, <1>2, <1>3, NoCallSound, OneCall
<1>4. CASE pc'[c] = "throttled" /\ c \in Retriers
  <2> DEFINE x == [y EXCEPT !.stage = "none", !.sends = 0]
  <2>1. call' = [call EXCEPT ![c] = x] /\ told' = Nothing
        BY <1>4 DEF Ended
  <2>2. y.applied = 0
        BY <1>1, <1>4 DEF Sound, Effective, Changes, CallRecords
  <2>3. x \in CallRecords /\ Sound(c, x, hints, declares) /\ x.stage = "none" /\ x.request = y.request
        BY <1>1, <2>2 DEF CallRecords, Sound, Outstanding
  <2>4. y.request \in Meaningful(connector.kind)
    <3>1. pc[c] # "idle"
          BY DEF Fail, Reject, Acquire
    <3> QED
        BY <3>1 DEF CallsInv
  <2> HIDE DEF x
  <2> QED
      BY <1>0, <2>1, <2>3, <2>4, <1>2, NothingSound, OneCall
<1> QED
    BY <1>2, <1>3, <1>4

(* Every step keeps the invariant.                                         *)
LEMMA CallsNext == CallsInv /\ TypeOK /\ [NextCalls]_callVars => CallsInv'
<1> SUFFICES ASSUME CallsInv, TypeOK, [NextCalls]_callVars PROVE CallsInv'
    OBVIOUS
<1>1. /\ connector \in Connectors /\ connector.kind \in Kinds
      /\ \A c \in Callers : call[c] \in CallRecords /\ Sound(c, call[c], hints, declares)
      BY ConnectorsAssumption DEF CallsInv
<1>2. ASSUME NEW c \in Callers, SubmitCall(c) PROVE CallsInv'
  <2>1. PICK r \in RequestsOf(c) : call' = [call EXCEPT ![c] = [NoCall EXCEPT !.request = r]]
        BY <1>2 DEF SubmitCall
  <2> DEFINE x == [NoCall EXCEPT !.request = r]
  <2>2. x = [request |-> r, stage |-> "none", applied |-> 0, sends |-> 0]
        BY DEF NoCall
  <2>3. r \in Requests /\ r \in Meaningful(connector.kind) /\ (c \in Retriers => r.op = "describe")
        BY DEF RequestsOf, Meaningful
  <2>4. x \in CallRecords /\ Sound(c, x, hints, declares) /\ x.stage = "none" /\ x.request = r
        BY <2>2, <2>3 DEF CallRecords, Sound, Outstanding
  <2>5. /\ \A d \in Callers \ {c} : pc'[d] = pc[d]
        /\ Same /\ told' = Nothing
        BY <1>2 DEF SubmitCall, Submit, Quiet, Same, TypeOK
  <2> HIDE DEF x
  <2> QED
      BY <2>1, <2>3, <2>4, <2>5, NothingSound, SameOnward, OneCall DEF x
<1>3. ASSUME NEW c \in Callers, StartCall(c) PROVE CallsInv'
  <2> DEFINE x(place) == [call[c] EXCEPT !.stage = place]
             r == call[c].request
  <2>2. /\ pc[c] = "throttled" /\ pc'[c] = "calling"
        /\ \A d \in Callers \ {c} : pc'[d] = pc[d]
        /\ connector' = connector /\ declares' = declares /\ told' = Nothing
        BY <1>3 DEF StartCall, Admit, AdmitTrial, Acquire, TypeOK
  <2>3. call[c].stage = "none" /\ r \in Meaningful(connector.kind)
        BY <2>2 DEF CallsInv
  <2>4. \A place \in {"sent", "refused", "undeclared"} :
          /\ x(place) \in CallRecords /\ x(place).request = r /\ x(place).stage = place
          /\ x(place).applied = 0 /\ x(place).sends = 0
    <3>1. call[c].applied = 0 /\ call[c].sends = 0
          BY <1>1, <2>3 DEF Sound, Outstanding
    <3> QED
        BY <1>1, <2>3, <3>1 DEF CallRecords
  <2>5. ASSUME NEW place \in {"sent", "refused", "undeclared"},
               place = "sent" => Unseen(r, hints')
        PROVE  Sound(c, x(place), hints', declares')
    <3> HIDE DEF x
    <3>1. c \in Retriers => x(place).request.op \in {"describe", "none"}
          BY <1>1, <2>4 DEF Sound
    <3> QED
        BY <2>3, <2>4, <2>5, <3>1 DEF Sound, Outstanding
  <2>6. Onward
    <3>1. hints' \in {hints, Hinted}
          BY <1>3 DEF StartCall
    <3> QED
        BY <2>2, <3>1 DEF Onward, Hinted, CallsInv
  <2>7. PICK place \in {"sent", "refused", "undeclared"} :
          /\ call' = [call EXCEPT ![c] = x(place)]
          /\ place = "sent" => Unseen(r, hints')
    <3>1. CASE /\ call' = [call EXCEPT ![c].stage = IF Refusal(r) = "none" THEN "sent" ELSE "refused"]
               /\ hints' = IF AsksHints(r) THEN Hinted ELSE hints
      <4>1. ASSUME Refusal(r) = "none" PROVE Unseen(r, hints')
        <5>1. Unseen(r, Hinted)
              BY <1>1, <2>3, <4>1, OnlyUnseen
        <5>2. CASE AsksHints(r)
              BY <3>1, <5>1, <5>2
        <5>3. CASE ~AsksHints(r)
              BY <5>1, <5>3 DEF Unseen, AsksHints, Listed
        <5> QED
            BY <5>2, <5>3
      <4> QED
          BY <3>1, <4>1
    <3>2. CASE call' = [call EXCEPT ![c].stage = "undeclared"]
          BY <3>2
    <3> QED
        BY <1>3, <3>1, <3>2 DEF StartCall
  <2>8. Sound(c, x(place), hints', declares') /\ x(place) \in CallRecords /\ x(place).request = r
        BY <2>4, <2>5, <2>7
  <2> HIDE DEF x
  <2> QED
      BY <2>2, <2>3, <2>6, <2>7, <2>8, NothingSound, OneCall
<1>4. ASSUME NEW c \in Callers, RejectCall(c) PROVE CallsInv'
  <2>1. Reject(c) /\ Ended(c, "open", 0) /\ Same /\ pc[c] = "throttled"
        BY <1>4 DEF RejectCall, Reject, Acquire
  <2>2. call[c].applied = 0
        BY <1>1, <2>1 DEF CallsInv, Sound, Outstanding
  <2> QED
      BY <2>1, <2>2, EndedStep
<1>5. ASSUME NEW c \in Callers, RefuseCall(c) PROVE CallsInv'
  <2>1. /\ Fail(c) /\ Ended(c, Refusal(call[c].request), 0) /\ Same
        /\ call[c].stage = "refused"
        BY <1>5 DEF RefuseCall
  <2>2. call[c].applied = 0
        BY <1>1, <2>1 DEF Sound, Outstanding
  <2>3. Refusal(call[c].request) # "ok"
        BY <1>1, <2>1, RefusalTable DEF Sound
  <2> QED
      BY <2>1, <2>2, <2>3, EndedStep
<1>6. ASSUME NEW c \in Callers, Serve(c) PROVE CallsInv'
  <2> DEFINE k == connector.kind
             r == call[c].request
             again == Recognises(k) /\ call[c].applied > 0
             takes == Changes(k, r) /\ ~StillReads(k, r) /\ ~again
             x == [call[c] EXCEPT !.stage = "served",
                      !.applied = IF takes THEN call[c].applied + 1 ELSE call[c].applied]
  <2>1. call' = [call EXCEPT ![c] = x] /\ call[c].stage = "sent"
        BY <1>6 DEF Serve, CallsInv
  <2>2. Same /\ told' = Nothing /\ pc' = pc
        BY <1>6 DEF Serve, Quiet, Same, vars
  <2>3. /\ x \in CallRecords /\ x.stage = "served" /\ x.request = call[c].request
        /\ x.sends = call[c].sends
        /\ x.applied = IF takes THEN call[c].applied + 1 ELSE call[c].applied
    <3> DEFINE n == IF takes THEN call[c].applied + 1 ELSE call[c].applied
    <3>1. PICK y \in CallRecords : y = call[c]
          BY <1>1
    <3>2. PICK m \in Nat : m = n
          BY <3>1 DEF CallRecords
    <3>3. LET z == [y EXCEPT !.stage = "served", !.applied = m]
          IN /\ z \in CallRecords /\ z.stage = "served" /\ z.request = y.request
             /\ z.sends = y.sends /\ z.applied = m
          BY DEF CallRecords
    <3> QED
        BY <3>1, <3>2, <3>3
  <2>4. Sound(c, x, hints, declares)
    <3> HIDE DEF x
    <3>1. declares \in {"reads", "changes"}
          BY DEF CallsInv
    <3>2. takes => Effective(r, hints, declares)
          BY <1>1, <2>1, <3>1 DEF Sound, Outstanding, Effective, StillReads
    <3>3. r.op = "write" /\ ~again => takes
          BY DEF Changes, StillReads
    <3>4. call[c].applied \in Nat
          BY <1>1 DEF CallRecords
    <3>5. takes => ~again
          OBVIOUS
    <3> HIDE DEF takes
    <3> QED
        BY <1>1, <2>1, <2>3, <3>2, <3>3, <3>4, <3>5 DEF Sound, Outstanding, Recognises, Resenders
  <2>5. pc[c] = "calling" /\ call[c].request \in Meaningful(k)
        BY <2>1 DEF CallsInv
  <2> HIDE DEF x
  <2> QED
      BY <2>1, <2>2, <2>3, <2>4, <2>5, NothingSound, SameOnward, OneCall
<1>7. ASSUME NEW c \in Callers, Decline(c) PROVE CallsInv'
  <2>1. /\ Fail(c) /\ Ended(c, ErrorOf(connector.kind).declined, 0) /\ Same
        /\ call[c].stage = "sent" /\ ~(Recognises(connector.kind) /\ call[c].applied > 0)
        BY <1>7 DEF Decline
  <2>2. call[c].sends = 0 \/ Recognises(connector.kind) => call[c].applied = 0
        BY <1>1, <2>1 DEF Sound, CallRecords
  <2> QED
      BY <1>1, <2>1, <2>2, ErrorTable, EndedStep
<1>8. ASSUME NEW c \in Callers, Answer(c) PROVE CallsInv'
  <2>1. /\ call[c].stage = "served" /\ Succeed(c) /\ Same
        /\ told' = [request |-> call[c].request, applied |-> call[c].applied,
                    sends |-> call[c].sends, answers |-> 1, outcome |-> "ok"]
        /\ call' = [call EXCEPT ![c] = NoCall]
        BY <1>8 DEF Answer
  <2>2. /\ \A d \in Callers \ {c} : pc'[d] = pc[d]
        /\ pc'[c] = "idle"
        BY <2>1 DEF Succeed, TypeOK
  <2>3. /\ call[c].applied \in Nat
        /\ call[c].request.op = "write" => call[c].applied > 0
        /\ call[c].applied > 0 => Effective(call[c].request, hints, declares)
        BY <1>1, <2>1 DEF Sound, CallRecords
  <2>4. ToldSound' /\ ErrorsTrue'
        BY <2>1, <2>3 DEF ToldSound, ErrorsTrue, Effective, Unseen, Same
  <2>5. NoCall.stage = "none"
        BY DEF NoCall
  <2> QED
      BY <2>1, <2>2, <2>4, <2>5, NoCallSound, SameOnward, OneCall
<1>9. ASSUME NEW c \in Callers, Garble(c) PROVE CallsInv'
  <2>1. /\ Fail(c) /\ Ended(c, ErrorOf(connector.kind).garbled, 1) /\ Same
        /\ connector.kind \in Parsing
        BY <1>9 DEF Garble
  <2> QED
      BY <1>1, <2>1, ErrorTable, EndedStep
<1>10. ASSUME NEW c \in Callers, Lose(c) PROVE CallsInv'
  <2>1. Fail(c) /\ Ended(c, ErrorOf(connector.kind).lost, 0) /\ Same
        BY <1>10 DEF Lose
  <2> QED
      BY <1>1, <2>1, ErrorTable, EndedStep
<1>11. ASSUME NEW c \in Callers, Resend(c) PROVE CallsInv'
  <2> DEFINE x == [call[c] EXCEPT !.stage = "sent", !.sends = call[c].sends + 1]
  <2>1. /\ call' = [call EXCEPT ![c] = x] /\ call[c].stage \in {"sent", "served"}
        /\ connector.kind \in Resenders
        BY <1>11 DEF Resend, CallsInv
  <2>2. Same /\ told' = Nothing /\ pc' = pc
        BY <1>11 DEF Resend, Quiet, Same, vars
  <2>3. /\ x \in CallRecords /\ x.stage = "sent" /\ x.request = call[c].request
        /\ x.sends = call[c].sends + 1 /\ x.applied = call[c].applied
    <3>1. PICK y \in CallRecords : y = call[c]
          BY <1>1
    <3>2. PICK m \in Nat : m = y.sends + 1
          BY DEF CallRecords
    <3>3. LET z == [y EXCEPT !.stage = "sent", !.sends = m]
          IN /\ z \in CallRecords /\ z.stage = "sent" /\ z.request = y.request
             /\ z.sends = m /\ z.applied = y.applied
          BY DEF CallRecords
    <3> QED
        BY <3>1, <3>2, <3>3
  <2>4. Sound(c, x, hints, declares)
    <3>1. x.sends # 0
          BY <1>1, <2>3 DEF CallRecords
    <3> HIDE DEF x
    <3> QED
        BY <1>1, <2>1, <2>3, <3>1 DEF Sound, Outstanding
  <2>5. pc[c] = "calling" /\ call[c].request \in Meaningful(connector.kind)
        BY <2>1 DEF CallsInv
  <2> HIDE DEF x
  <2> QED
      BY <2>1, <2>2, <2>3, <2>4, <2>5, NothingSound, SameOnward, OneCall
<1>12. ASSUME NEW c \in Callers, CancelCall(c) PROVE CallsInv'
  <2>1. /\ call' = [call EXCEPT ![c] = NoCall] /\ Same /\ told' = Nothing
        /\ \A d \in Callers \ {c} : pc'[d] = pc[d]
        /\ pc'[c] = "idle"
        BY <1>12 DEF CancelCall, Cancel, Quiet, Same, TypeOK
  <2>2. NoCall.stage = "none"
        BY DEF NoCall
  <2> QED
      BY <2>1, <2>2, NoCallSound, NothingSound, SameOnward, OneCall
<1>13. CASE Around \/ Upgrade \/ UNCHANGED callVars
  <2>1. /\ UNCHANGED <<call, pc>> /\ (told' = Nothing \/ (told' = told /\ Same))
        /\ Onward
    <3>1. CASE Around
          BY <3>1 DEF Around, Leak, Elapse, Reset, Quiet, Onward, CallsInv
    <3>2. CASE Upgrade
          BY <3>2 DEF Upgrade, Onward, CallsInv, vars
    <3>3. CASE UNCHANGED callVars
          BY <3>3 DEF Same, Onward, CallsInv, callVars, vars
    <3> QED
        BY <1>13, <3>1, <3>2, <3>3
  <2>2. ToldSound' /\ ErrorsTrue'
    <3>1. CASE told' = Nothing
          BY <3>1, NothingSound
    <3>2. CASE told' = told /\ Same
          BY <3>2 DEF CallsInv, ToldSound, ErrorsTrue, Effective, Unseen, Same
    <3> QED
        BY <2>1, <3>1, <3>2
  <2>3. \A c \in Callers : Sound(c, call[c], hints', declares')
        BY <1>1, <2>1, SoundStays
  <2>4. ASSUME NEW c \in Callers
        PROVE  Sound(c, call[c], hints, declares)' <=> Sound(c, call[c], hints', declares')
        BY <2>1 DEF Sound, Unseen, Effective, Onward
  <2> QED
      BY <2>1, <2>2, <2>3, <2>4 DEF CallsInv, Onward
<1> QED
    BY <1>2, <1>3, <1>4, <1>5, <1>6, <1>7, <1>8, <1>9, <1>10, <1>11, <1>12, <1>13
    DEF NextCalls

(* The invariant holds throughout.                                         *)
LEMMA CallsAlways == SpecCalls => []CallsInv
<1>1. CallsInv /\ IInv /\ [NextCalls]_callVars => CallsInv'
      BY CallsNext DEF IInv
<1>2. SpecCalls => []IInv
      BY CallsImplementCircuit, InvHolds, PTL
<1> QED
    BY <1>1, <1>2, CallsInit, PTL DEF SpecCalls

(* What a read-only connector changes at the far side, it changes through  *)
(* a read that does not show it: a covert one, a statement inside a query, *)
(* or a tool of which its first listing says otherwise (the checks at the  *)
(* head of every read and write).                                          *)
THEOREM ReadOnlyConnectorsOnlyRead == SpecCalls => []ReadOnlyHolds
<1>1. CallsInv => ReadOnlyHolds
  <2> SUFFICES ASSUME CallsInv, connector.readOnly, NEW r \in Effects
               PROVE  /\ r.op = "read" /\ connector.kind \in ReadsMayChange
                      /\ \/ r.what \in {"covert", "hidden"}
                         \/ connector.kind = "mcp" /\ Outdated
      BY DEF ReadOnlyHolds
  <2>1. Effective(r, hints, declares)
    <3>1. CASE \E c \in Callers : call[c].applied > 0 /\ r = call[c].request
          BY <3>1 DEF CallsInv, Sound
    <3>2. CASE told.applied > 0 /\ r = told.request
          BY <3>2 DEF CallsInv, ToldSound
    <3> QED
        BY <3>1, <3>2 DEF Effects
  <2>2. /\ r.op = "read"
        /\ r.what \in {"covert", "hidden"} \/ (connector.kind = "mcp" /\ hints = "reads")
        BY <2>1 DEF Effective, Unseen
  <2>3. r.what \in {"change", "hidden", "covert"} /\ connector.kind \in ReadsMayChange
        BY <2>1, <2>2 DEF Effective, Changes
  <2>4. connector.kind = "mcp" /\ r.what = "change" => declares = "changes"
        BY <2>1, <2>2 DEF Effective
  <2> QED
      BY <2>2, <2>3, <2>4 DEF Outdated
<1> QED
    BY <1>1, CallsAlways, PTL

(* What the caller is told agrees with what happened at the far side, for  *)
(* every kind's way of naming a failure (connectors/errors.py), but for    *)
(* the answers that came and could not be read.                            *)
THEOREM CallersAreToldTheTruth == SpecCalls => []ErrorsTrue
<1>1. CallsInv => ErrorsTrue
      BY DEF CallsInv
<1> QED
    BY <1>1, CallsAlways, PTL

(* A request of a kind whose driver does not repeat it takes effect at     *)
(* most once (call_with_retry is only given describe).                     *)
THEOREM RequestsApplyOnce == SpecCalls => []AppliedOnce
<1>1. CallsInv => AppliedOnce
      BY DEF CallsInv, Sound, AppliedOnce
<1> QED
    BY <1>1, CallsAlways, PTL
==============================================================================
