---------------------------- MODULE CircuitBreaker ----------------------------
(***************************************************************************)
(* PostgresVectorStore._connect: three attempts (retry_with_backoff)       *)
(* around a CircuitBreaker whose fields the event loop and the pool        *)
(* threads share without a lock.  A thread can be interrupted wherever it  *)
(* makes a call, so between a test of a field and the assignment that      *)
(* follows the log message.                                                *)
(***************************************************************************)
EXTENDS Naturals, FiniteSets

CONSTANTS
  Threads,            \* the event loop and the pool threads that use the store
  FailureThreshold,
  SuccessThreshold,
  MaxRetries

ASSUME BreakerAssumption ==
  /\ IsFiniteSet(Threads)
  /\ {FailureThreshold, SuccessThreshold, MaxRetries} \subseteq Nat \ {0}

VARIABLES
  up,         \* the database answers
  state,      \* of the breaker
  failures,   \* failure_count, up to FailureCap
  successes,  \* success_count
  expired,    \* recovery_timeout has passed since last_failure_time
  conn,       \* where each thread is in _connect
  burst       \* history: failed connections since one succeeded or the timeout expired

breakerVars == <<state, failures, successes, expired, conn, burst>>

\* Nothing tells larger values apart.
FailureCap == FailureThreshold

\* As many rounds as there are threads, and in each round the threshold of
\* failures and one more of every thread.
BurstBound == Cardinality(Threads) * (FailureThreshold + Cardinality(Threads) + 1)

Lower(a, b) == IF a < b THEN a ELSE b

Out == [pc |-> "out", attempt |-> 0]

BreakerTypeOK ==
  /\ up \in BOOLEAN
  /\ state \in {"closed", "open", "half_open"}
  /\ failures \in 0..FailureCap
  /\ successes \in 0..(SuccessThreshold + Cardinality(Threads))
  /\ expired \in BOOLEAN
  /\ conn \in [Threads -> [pc : {"out", "enter", "probe", "connect", "succeeded", "close",
                                 "failed", "trip", "open", "connected", "raised"},
                           attempt : 0..MaxRetries]]
  /\ burst \in 0..(BurstBound + 1)

AtConn(t, pc) == conn[t].pc = pc
GoConn(t, pc) == conn' = [conn EXCEPT ![t].pc = pc]

-------------------------------------------------------------------------------

\* A caller enters _connect, and leaves it again.
Call(t)  == conn' = [conn EXCEPT ![t] = [pc |-> "enter", attempt |-> 1]]
Leave(t) == conn' = [conn EXCEPT ![t] = Out]

\* retry_with_backoff, after any failure, a rejection by the breaker included.
Retry(t) ==
  conn' = [conn EXCEPT ![t] =
             IF @.attempt < MaxRetries THEN [pc |-> "enter", attempt |-> @.attempt + 1]
                                       ELSE [@ EXCEPT !.pc = "raised"]]

\* CircuitBreaker.call: the test of the state and of the time.
Enter(t) ==
  /\ AtConn(t, "enter")
  /\ IF state # "open" THEN GoConn(t, "connect")
     ELSE IF expired THEN GoConn(t, "probe") ELSE Retry(t)
  /\ UNCHANGED <<state, failures, successes, expired, burst>>

Probe(t) ==
  /\ AtConn(t, "probe")
  /\ state' = "half_open" /\ successes' = 0
  /\ GoConn(t, "connect")
  /\ UNCHANGED <<failures, expired, burst>>

\* psycopg.connect.
Connect(t) ==
  /\ AtConn(t, "connect")
  /\ GoConn(t, IF up THEN "succeeded" ELSE "failed")
  /\ burst' = IF up THEN 0 ELSE Lower(burst + 1, BurstBound + 1)
  /\ UNCHANGED <<state, failures, successes, expired>>

\* A broken variant: successes count only when there was no failure before.
SucceedClean(t) ==
  /\ AtConn(t, "succeeded")
  /\ failures' = failures
  /\ successes' = IF state = "half_open" /\ failures = 0 THEN successes + 1 ELSE successes
  /\ GoConn(t, IF successes' >= SuccessThreshold THEN "close" ELSE "connected")
  /\ UNCHANGED <<state, expired, burst>>

\* _on_success, up to the message; then the assignments after it.
Succeed(t) ==
  /\ AtConn(t, "succeeded")
  /\ failures' = 0
  /\ successes' = IF state = "half_open" THEN successes + 1 ELSE successes
  /\ GoConn(t, IF state = "half_open" /\ successes' >= SuccessThreshold
               THEN "close" ELSE "connected")
  /\ UNCHANGED <<state, expired, burst>>

Close(t) ==
  /\ AtConn(t, "close")
  /\ state' = "closed" /\ successes' = 0
  /\ GoConn(t, "connected")
  /\ UNCHANGED <<failures, expired, burst>>

\* _on_failure: the count; the time and the decision; the assignment.
Blame(t) ==
  /\ AtConn(t, "failed")
  /\ failures' = Lower(failures + 1, FailureCap)
  /\ GoConn(t, "trip")
  /\ UNCHANGED <<state, successes, expired, burst>>

Trips == state = "half_open" \/ failures >= FailureThreshold

\* A broken variant: the time of the failure is not kept.
TripUntimed(t) ==
  /\ AtConn(t, "trip")
  /\ IF Trips THEN GoConn(t, "open") ELSE Retry(t)
  /\ UNCHANGED <<state, failures, successes, expired, burst>>

Trip(t) ==
  /\ AtConn(t, "trip")
  /\ expired' = FALSE
  /\ IF Trips THEN GoConn(t, "open") ELSE Retry(t)
  /\ UNCHANGED <<state, failures, successes, burst>>

Open(t) ==
  /\ AtConn(t, "open")
  /\ state' = "open"
  /\ Retry(t)
  /\ UNCHANGED <<failures, successes, expired, burst>>

ConnStep(t) ==
  \/ Enter(t) \/ Probe(t) \/ Connect(t) \/ Succeed(t) \/ Close(t)
  \/ Blame(t) \/ Trip(t) \/ Open(t)

BreakerTick ==
  /\ ~expired
  /\ expired' = TRUE
  /\ burst' = 0
  /\ UNCHANGED <<state, failures, successes, conn>>

\* A new breaker.
FreshBreaker ==
  /\ state' = "closed" /\ failures' = 0 /\ successes' = 0 /\ expired' = TRUE
  /\ conn' = [t \in Threads |-> Out]
  /\ burst' = 0

BreakerInit ==
  /\ up = TRUE
  /\ state = "closed" /\ failures = 0 /\ successes = 0 /\ expired = TRUE
  /\ conn = [t \in Threads |-> Out]
  /\ burst = 0
===============================================================================
