---------------------------- MODULE CircuitBreaker ----------------------------
(***************************************************************************)
(* The resilience of one connector (connectors/resilience.py): the rate    *)
(* limiter, the circuit breaker behind it, and the callers, one of which   *)
(* retries (connectors/retry.py: it calls the wrapped connector, so each   *)
(* attempt of its own passes the limiter and the breaker).  A caller may   *)
(* give up waiting (asyncio.wait_for in analytics/refresh.py): its call is *)
(* cancelled, which `except Exception` does not see.                       *)
(*                                                                         *)
(* The breaker's lock is never held across an await, so a decision and a   *)
(* report are one step each; what interleaves is the calls in between.     *)
(***************************************************************************)
EXTENDS Naturals

CONSTANTS
  Callers,      \* the tasks that call the connector, one call each at a time
  Retriers,     \* those that call it through call_with_retry
  MaxAttempts,  \* call_with_retry's max_attempts
  Threshold,    \* CircuitBreaker.failure_threshold
  MaxCalls      \* RateLimit.max_calls

ASSUME RetriersAssumption == Retriers \subseteq Callers
ASSUME LimitsAssumption ==
  MaxAttempts \in Nat \ {0} /\ Threshold \in Nat \ {0} /\ MaxCalls \in Nat \ {0}

VARIABLES
  state,          \* _state
  failures,       \* _consecutive_failures, up to the threshold it is compared with
  cooling,        \* _retry_after() > 0
  trialInFlight,  \* _half_open_in_flight
  bucket,         \* the limiter's level
  pc,             \* where each caller stands
  attempt,        \* the attempt a caller is making
  trial,          \* history: the callers admitted as the trial and not back yet
  straggled,      \* history: a call other than the trial reported, or the operator
                  \* reset the circuit, while it was not closed
  lost            \* history: a trial was cancelled

circuit == <<state, failures, cooling, trialInFlight>>
seen == <<straggled, lost>>
vars == <<circuit, bucket, pc, attempt, trial, seen>>

Init ==
  /\ state = "closed" /\ failures = 0 /\ cooling = FALSE /\ trialInFlight = FALSE
  /\ bucket = 0
  /\ pc = [c \in Callers |-> "idle"] /\ attempt = [c \in Callers |-> 0]
  /\ trial = {} /\ straggled = FALSE /\ lost = FALSE

------------------------------------------------------------------------------
(* The limiter: the leaky bucket of aiolimiter.  Waiting is not failure.   *)

Submit(c) ==
  /\ pc[c] = "idle"
  /\ pc' = [pc EXCEPT ![c] = "throttled"]
  /\ attempt' = [attempt EXCEPT ![c] = 1]
  /\ UNCHANGED <<circuit, bucket, trial, seen>>

Leak ==
  /\ bucket > 0
  /\ bucket' = bucket - 1
  /\ UNCHANGED <<circuit, pc, attempt, trial, seen>>

------------------------------------------------------------------------------
(* What follows a rejection or a failure: the next attempt, or the caller  *)
(* sees the error.                                                         *)
AttemptFails(c) ==
  IF c \in Retriers /\ attempt[c] < MaxAttempts
  THEN /\ pc' = [pc EXCEPT ![c] = "throttled"]
       /\ attempt' = [attempt EXCEPT ![c] = @ + 1]
  ELSE /\ pc' = [pc EXCEPT ![c] = "idle"]
       /\ UNCHANGED attempt

(* The limiter lets a call through; the breaker decides in the same step,  *)
(* since nothing is awaited in between.                                    *)
Acquire(c) ==
  /\ pc[c] = "throttled" /\ bucket < MaxCalls
  /\ bucket' = bucket + 1

(* CircuitBreaker._admit: through while closed, as the trial when the      *)
(* reset timeout is over, else rejected without being attempted.           *)
Admit(c) ==
  /\ Acquire(c) /\ state = "closed"
  /\ pc' = [pc EXCEPT ![c] = "calling"]
  /\ UNCHANGED <<circuit, attempt, trial, seen>>

(* (In the mutant the trial under way is not looked at.)                   *)
TrialDue_Always == state # "closed" /\ ~cooling

TrialDue ==
  \/ state = "open" /\ ~cooling
  \/ state = "half_open" /\ ~trialInFlight

AdmitTrial(c) ==
  /\ Acquire(c) /\ TrialDue
  /\ state' = "half_open" /\ trialInFlight' = TRUE
  /\ pc' = [pc EXCEPT ![c] = "calling"]
  /\ trial' = trial \cup {c}
  /\ UNCHANGED <<failures, cooling, attempt, seen>>

Reject(c) ==
  /\ Acquire(c) /\ state # "closed" /\ ~TrialDue
  /\ AttemptFails(c)
  /\ UNCHANGED <<circuit, trial, seen>>

------------------------------------------------------------------------------

(* A caller's call is over.                                                *)
Back(c) ==
  /\ trial' = trial \ {c}
  /\ straggled' = (straggled \/ (state # "closed" /\ c \notin trial))

(* (In the mutant the count survives a success.)                           *)
RecordSuccess_KeepsCount ==
  state' = "closed" /\ trialInFlight' = FALSE /\ UNCHANGED <<failures, cooling>>

RecordSuccess ==
  state' = "closed" /\ failures' = 0 /\ trialInFlight' = FALSE /\ UNCHANGED cooling

(* The failure that opens the circuit: that of a trial, or one that brings *)
(* the count to the threshold.                                             *)
Trips == state = "half_open" \/ failures + 1 >= Threshold

(* (In the mutant a failed trial is only counted.)                         *)
RecordFailure_OnlyCounts ==
  /\ failures' = IF failures < Threshold THEN failures + 1 ELSE failures
  /\ IF state = "closed" /\ Trips
     THEN state' = "open" /\ cooling' = TRUE
     ELSE UNCHANGED <<state, cooling>>
  /\ UNCHANGED trialInFlight

RecordFailure ==
  /\ failures' = IF failures < Threshold THEN failures + 1 ELSE failures
  /\ trialInFlight' = FALSE
  /\ IF Trips THEN state' = "open" /\ cooling' = TRUE ELSE UNCHANGED <<state, cooling>>

Succeed(c) ==
  /\ pc[c] = "calling"
  /\ RecordSuccess
  /\ pc' = [pc EXCEPT ![c] = "idle"]
  /\ Back(c)
  /\ UNCHANGED <<bucket, attempt, lost>>

Fail(c) ==
  /\ pc[c] = "calling"
  /\ RecordFailure
  /\ AttemptFails(c)
  /\ Back(c)
  /\ UNCHANGED <<bucket, lost>>

(* The call is cancelled: nothing is recorded.                             *)
Cancel(c) ==
  /\ pc[c] # "idle"
  /\ pc' = [pc EXCEPT ![c] = "idle"]
  /\ trial' = trial \ {c}
  /\ lost' = (lost \/ c \in trial)
  /\ UNCHANGED <<circuit, bucket, attempt, straggled>>

(* The reset timeout runs out.                                             *)
Elapse ==
  /\ cooling
  /\ cooling' = FALSE
  /\ UNCHANGED <<state, failures, trialInFlight, bucket, pc, attempt, trial, seen>>

(* CircuitBreaker.reset, which an operator would call.                     *)
Reset ==
  /\ state # "closed"
  /\ RecordSuccess
  /\ straggled' = TRUE
  /\ UNCHANGED <<bucket, pc, attempt, trial, lost>>

Next ==
  \/ \E c \in Callers :
       \/ Submit(c) \/ Admit(c) \/ AdmitTrial(c) \/ Reject(c)
       \/ Succeed(c) \/ Fail(c) \/ Cancel(c)
  \/ Leak
  \/ Elapse
  \/ Reset

Spec == Init /\ [][Next]_vars

(* Time passes, and the event loop runs every task that can run.  The      *)
(* limiter wakes its waiters in turn, and every connector call ends.       *)
Progress(c) == Admit(c) \/ AdmitTrial(c) \/ Reject(c)
Returns(c) == Succeed(c) \/ Fail(c)

Fairness ==
  /\ WF_vars(Leak) /\ WF_vars(Elapse)
  /\ \A c \in Callers : SF_vars(Progress(c)) /\ WF_vars(Returns(c))

FairSpec == Spec /\ Fairness

------------------------------------------------------------------------------

(* Shape of the state.                                                     *)
TypeOK ==
  /\ state \in {"closed", "open", "half_open"} /\ failures \in 0 .. Threshold
  /\ cooling \in BOOLEAN /\ trialInFlight \in BOOLEAN
  /\ bucket \in 0 .. MaxCalls
  /\ pc \in [Callers -> {"idle", "throttled", "calling"}]
  /\ attempt \in [Callers -> 0 .. MaxAttempts]
  /\ trial \in SUBSET Callers /\ straggled \in BOOLEAN /\ lost \in BOOLEAN

(* The breaker rejects only a connector that failed `failure_threshold`    *)
(* times since it last succeeded, whatever calls report in between, late   *)
(* or not; and it never lets through one that did.                         *)
OpensAtThreshold == state = "closed" <=> failures < Threshold

(* "Half-open lets exactly one call through": one trial at a time, and the *)
(* flag that holds the others off stands for a call that will report.      *)
(* Neither survives a call that reports late, the second none that is      *)
(* cancelled.                                                              *)
(* (The code does not: README, "Known disagreements".)                     *)
TrialIsAlone == \A c, d \in trial : c = d

OneTrial ==
  /\ trialInFlight <=> state = "half_open"
  /\ ~straggled => TrialIsAlone /\ (trial # {} => state = "half_open")
  /\ ~straggled /\ ~lost => (state = "half_open" => trial # {})

(* A connector that no longer fails, and that is still called, gets its    *)
(* circuit closed again, unless a trial was cancelled.                     *)
SomeFail == \E c \in Callers : Fail(c)
SomeSubmit == \E c \in Callers : Submit(c)
SomeCancel == \E c \in Callers : Cancel(c)

Recovers ==
  (<>[][~SomeFail /\ ~SomeCancel]_vars /\ []<><<SomeSubmit>>_vars /\ []~lost)
    => []<>(state = "closed")

==============================================================================
