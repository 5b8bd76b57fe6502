---------------------------- MODULE PgBackend_proofs ---------------------------
(***************************************************************************)
(* Theorems about PgBackend and its CircuitBreaker, for every number of    *)
(* threads, stores and documents and all thresholds of the breaker.        *)
(***************************************************************************)
EXTENDS PgBackend, FiniteSetTheorems, TLAPS

-------------------------------------------------------------------------------
(* Counting threads                                                        *)

N == Cardinality(Threads)

Pcs == {"out", "enter", "probe", "connect", "succeeded", "close", "failed", "trip", "open",
        "connected", "raised"}
ConnRec == [pc : Pcs, attempt : 0..MaxRetries]

\* The threads that are at one of some steps, and how many they are.
PcIn(cn, S) == {t \in Threads : cn[t].pc \in S}
Num(cn, S)  == Cardinality(PcIn(cn, S))

LEMMA NumType ==
  ASSUME NEW cn, NEW S
  PROVE  /\ Num(cn, S) \in Nat /\ N \in Nat /\ Num(cn, S) <= N
         /\ IsFiniteSet(PcIn(cn, S)) /\ PcIn(cn, S) \subseteq Threads
<1>1. PcIn(cn, S) \subseteq Threads /\ IsFiniteSet(Threads)
  BY BreakerAssumption DEF PcIn, BreakerAssumption
<1> QED
  BY <1>1, FS_Subset, FS_CardinalityType DEF Num, N

LEMMA SomeThread == N \in Nat /\ N >= 1
<1>1. Loop \in Threads /\ IsFiniteSet(Threads)
  BY BackendAssumption, BreakerAssumption DEF BackendAssumption, BreakerAssumption
<1>2. N \in Nat /\ N # 0
  BY <1>1, FS_CardinalityType, FS_EmptySet DEF N
<1> QED
  BY <1>2

\* A thread that moves leaves one set of steps and joins another.
LEMMA NumStep ==
  ASSUME NEW cn \in [Threads -> ConnRec], NEW t \in Threads, NEW r \in ConnRec, NEW S
  PROVE  Num([cn EXCEPT ![t] = r], S) =
           IF r.pc \in S THEN IF cn[t].pc \in S THEN Num(cn, S) ELSE Num(cn, S) + 1
                         ELSE IF cn[t].pc \in S THEN Num(cn, S) - 1 ELSE Num(cn, S)
<1> DEFINE A == PcIn(cn, S)
           B == PcIn([cn EXCEPT ![t] = r], S)
<1>1. IsFiniteSet(A)
  BY NumType
<1>2. t \in A <=> cn[t].pc \in S
  BY DEF PcIn
<1>3. CASE r.pc \in S
  <2>1. B = A \cup {t}
    BY <1>3 DEF PcIn
  <2> HIDE DEF A, B
  <2>2. Cardinality(B) = IF t \in A THEN Cardinality(A) ELSE Cardinality(A) + 1
    BY <1>1, <2>1, FS_AddElement
  <2> QED
    BY <1>2, <1>3, <2>2 DEF Num, A, B
<1>4. CASE r.pc \notin S
  <2>1. B = A \ {t}
    BY <1>4 DEF PcIn
  <2> HIDE DEF A, B
  <2>2. Cardinality(B) = IF t \in A THEN Cardinality(A) - 1 ELSE Cardinality(A)
    BY <1>1, <2>1, FS_RemoveElement
  <2> QED
    BY <1>2, <1>4, <2>2 DEF Num, A, B
<1> QED
  BY <1>3, <1>4

\* More steps, more threads at them; a thread is at one step only.
LEMMA NumMonotone ==
  ASSUME NEW cn, NEW S, NEW T, S \subseteq T
  PROVE  Num(cn, S) <= Num(cn, T)
<1>1. PcIn(cn, S) \subseteq PcIn(cn, T)
  BY DEF PcIn
<1> QED
  BY <1>1, NumType, FS_Subset DEF Num

LEMMA NumDisjoint ==
  ASSUME NEW cn, NEW S, NEW T, S \cap T = {}
  PROVE  Num(cn, S) + Num(cn, T) <= N
<1> DEFINE A == PcIn(cn, S)
           B == PcIn(cn, T)
<1>1. /\ IsFiniteSet(A) /\ IsFiniteSet(B) /\ A \cup B \subseteq Threads /\ IsFiniteSet(Threads)
      /\ Cardinality(A) \in Nat /\ Cardinality(B) \in Nat
  BY NumType, BreakerAssumption DEF BreakerAssumption, Num
<1>2. A \cap B = {}
  BY DEF PcIn
<1>3. Cardinality(A \cup B) = Cardinality(A) + Cardinality(B)
  <2> HIDE DEF A, B
  <2>1. Cardinality(A \cup B) = Cardinality(A) + Cardinality(B) - Cardinality(A \cap B)
    BY <1>1, FS_Union
  <2>2. Cardinality(A \cap B) = 0
    BY <1>2, FS_EmptySet
  <2> QED
    BY <1>1, <2>1, <2>2
<1>4. Cardinality(A \cup B) <= N
  BY <1>1, FS_Subset DEF N
<1> QED
  BY <1>3, <1>4 DEF Num

\* A thread that is at one of some steps makes their number positive.
LEMMA NumSome ==
  ASSUME NEW cn, NEW t \in Threads, NEW S, cn[t].pc \in S
  PROVE  Num(cn, S) >= 1
<1>1. t \in PcIn(cn, S) /\ IsFiniteSet(PcIn(cn, S))
  BY NumType DEF PcIn
<1>2. Num(cn, S) # 0
  BY <1>1, FS_EmptySet DEF Num
<1> QED
  BY <1>2, NumType

LEMMA Multiples ==
  ASSUME NEW a \in Nat, NEW b \in Nat
  PROVE  a * b \in Nat /\ (a + 1) * b = a * b + b
OBVIOUS

LEMMA MultiplesGrow ==
  ASSUME NEW a \in Nat, NEW b \in Nat, NEW c \in Nat, a <= c
  PROVE  a * b <= c * b
<1>1. PICK d \in Nat : c = a + d
  <2>1. c - a \in Nat /\ c = a + (c - a)
    OBVIOUS
  <2> QED
    BY <2>1
<1>2. c * b = a * b + d * b
  BY <1>1
<1>3. d * b \in Nat /\ a * b \in Nat
  BY <1>1
<1> QED
  BY <1>2, <1>3
-------------------------------------------------------------------------------
(* Types of the breaker                                                    *)

\* A success counts beyond the threshold only while a thread that has counted one
\* is about to close the breaker.
SuccessesFit == successes + 1 <= SuccessThreshold + Num(conn, {"close"})

BreakerInv == BreakerTypeOK /\ SuccessesFit

LEMMA BreakerTypes ==
  ASSUME BreakerTypeOK
  PROVE  /\ conn \in [Threads -> ConnRec]
         /\ failures \in Nat /\ failures <= FailureThreshold /\ FailureThreshold \in Nat \ {0}
         /\ SuccessThreshold \in Nat \ {0} /\ successes \in Nat
         /\ state \in {"closed", "open", "half_open"}
         /\ expired \in BOOLEAN
         /\ burst \in Nat /\ BurstBound \in Nat /\ burst <= BurstBound + 1
<1>1. FailureThreshold \in Nat \ {0} /\ SuccessThreshold \in Nat \ {0}
  BY BreakerAssumption DEF BreakerAssumption
<1>2. BurstBound \in Nat
  BY <1>1, SomeThread, Multiples DEF BurstBound, N
<1>3. N \in Nat
  BY SomeThread
<1> QED
  BY <1>1, <1>2, <1>3 DEF BreakerTypeOK, ConnRec, Pcs, FailureCap, N

\* What a step of a thread does to conn.
LEMMA GoConnMoves ==
  ASSUME BreakerTypeOK, NEW t \in Threads, NEW pc \in Pcs, GoConn(t, pc)
  PROVE  \E r \in ConnRec : r.pc = pc /\ conn' = [conn EXCEPT ![t] = r]
<1> DEFINE r == [conn[t] EXCEPT !.pc = pc]
<1>1. conn[t] \in ConnRec
  BY BreakerTypes
<1>2. r \in ConnRec /\ r.pc = pc
  BY <1>1 DEF ConnRec
<1>3. conn' = [conn EXCEPT ![t] = r]
  BY DEF GoConn
<1> QED
  BY <1>2, <1>3

LEMMA RetryMoves ==
  ASSUME BreakerTypeOK, NEW t \in Threads, Retry(t)
  PROVE  \E r \in ConnRec : r.pc \in {"enter", "raised"} /\ conn' = [conn EXCEPT ![t] = r]
<1>1. conn[t] \in ConnRec /\ MaxRetries \in Nat
  BY BreakerTypes, BreakerAssumption DEF BreakerAssumption
<1> DEFINE r == IF conn[t].attempt < MaxRetries
                THEN [pc |-> "enter", attempt |-> conn[t].attempt + 1]
                ELSE [conn[t] EXCEPT !.pc = "raised"]
<1>2. r \in ConnRec /\ r.pc \in {"enter", "raised"}
  BY <1>1 DEF ConnRec, Pcs
<1>3. conn' = [conn EXCEPT ![t] = r]
  BY DEF Retry
<1> HIDE DEF r
<1> QED
  BY <1>2, <1>3

\* The steps of a thread in _connect, as moves.
Moves(t, from, to) ==
  conn[t].pc \in from /\ \E r \in ConnRec : r.pc \in to /\ conn' = [conn EXCEPT ![t] = r]

LEMMA ConnMoves ==
  ASSUME BreakerTypeOK, NEW t \in Threads
  PROVE  /\ Enter(t) => /\ state # "open" => Moves(t, {"enter"}, {"connect"})
                        /\ state = "open" /\ expired => Moves(t, {"enter"}, {"probe"})
                        /\ state = "open" /\ ~expired => Moves(t, {"enter"}, {"enter", "raised"})
         /\ Probe(t) => Moves(t, {"probe"}, {"connect"})
         /\ Connect(t) => Moves(t, {"connect"}, {IF up THEN "succeeded" ELSE "failed"})
         /\ Succeed(t) => Moves(t, {"succeeded"},
                            {IF state = "half_open" /\ successes' >= SuccessThreshold
                             THEN "close" ELSE "connected"})
         /\ Close(t) => Moves(t, {"close"}, {"connected"})
         /\ Blame(t) => Moves(t, {"failed"}, {"trip"})
         /\ Trip(t) => Moves(t, {"trip"}, IF Trips THEN {"open"} ELSE {"enter", "raised"})
         /\ Open(t) => Moves(t, {"open"}, {"enter", "raised"})
<1> USE GoConnMoves, RetryMoves DEF Moves, AtConn, Pcs
<1>1. Enter(t) => /\ state # "open" => Moves(t, {"enter"}, {"connect"})
                  /\ state = "open" /\ expired => Moves(t, {"enter"}, {"probe"})
                  /\ state = "open" /\ ~expired => Moves(t, {"enter"}, {"enter", "raised"})
  BY DEF Enter
<1>2. Probe(t) => Moves(t, {"probe"}, {"connect"})
  BY DEF Probe
<1>3. Connect(t) => Moves(t, {"connect"}, {IF up THEN "succeeded" ELSE "failed"})
  BY DEF Connect
<1>4. Succeed(t) => Moves(t, {"succeeded"},
                      {IF state = "half_open" /\ successes' >= SuccessThreshold
                       THEN "close" ELSE "connected"})
  BY DEF Succeed
<1>5. Close(t) => Moves(t, {"close"}, {"connected"})
  BY DEF Close
<1>6. Blame(t) => Moves(t, {"failed"}, {"trip"})
  BY DEF Blame
<1>7. Trip(t) => Moves(t, {"trip"}, IF Trips THEN {"open"} ELSE {"enter", "raised"})
  BY DEF Trip
<1>8. Open(t) => Moves(t, {"open"}, {"enter", "raised"})
  BY DEF Open
<1> QED
  BY <1>1, <1>2, <1>3, <1>4, <1>5, <1>6, <1>7, <1>8

\* A move changes the number of threads at some steps by at most its own thread.
LEMMA MoveCounts ==
  ASSUME BreakerTypeOK, NEW t \in Threads, NEW from, NEW to, Moves(t, from, to), NEW S
  PROVE  /\ conn' \in [Threads -> ConnRec]
         /\ from \subseteq S /\ to \subseteq S => Num(conn', S) = Num(conn, S)
         /\ from \cap S = {} /\ to \cap S = {} => Num(conn', S) = Num(conn, S)
         /\ from \subseteq S /\ to \cap S = {} => Num(conn', S) + 1 = Num(conn, S)
         /\ from \cap S = {} /\ to \subseteq S => Num(conn', S) = Num(conn, S) + 1
<1>1. PICK r \in ConnRec : r.pc \in to /\ conn' = [conn EXCEPT ![t] = r]
  BY DEF Moves
<1>2. conn \in [Threads -> ConnRec] /\ conn[t].pc \in from
  BY BreakerTypes DEF Moves
<1>3. Num(conn', S) = IF r.pc \in S THEN IF conn[t].pc \in S THEN Num(conn, S) ELSE Num(conn, S) + 1
                      ELSE IF conn[t].pc \in S THEN Num(conn, S) - 1 ELSE Num(conn, S)
  BY <1>1, <1>2, NumStep
<1>4. Num(conn, S) \in Nat
  BY NumType
<1> QED
  BY <1>1, <1>2, <1>3, <1>4

LEMMA BreakerInitInv == BreakerInit => BreakerInv
<1> SUFFICES ASSUME BreakerInit PROVE BreakerInv
  OBVIOUS
<1>1. /\ FailureThreshold \in Nat \ {0} /\ SuccessThreshold \in Nat \ {0} /\ MaxRetries \in Nat
      /\ N \in Nat
  BY BreakerAssumption, SomeThread DEF BreakerAssumption
<1>2. BurstBound \in Nat
  BY <1>1, Multiples DEF BurstBound, N
<1>3. BreakerTypeOK
  BY <1>1, <1>2 DEF BreakerInit, BreakerTypeOK, FailureCap, N, Out
<1> QED
  BY <1>1, <1>3, NumType DEF BreakerInv, BreakerInit, SuccessesFit

LEMMA ConnStepTypes ==
  ASSUME BreakerInv, up' = up, NEW t \in Threads, ConnStep(t)
  PROVE  BreakerInv'
<1> DEFINE closing == Num(conn, {"close"})
<1>1. BreakerTypeOK /\ successes + 1 <= SuccessThreshold + closing /\ closing \in Nat
  BY NumType DEF BreakerInv, SuccessesFit
<1>2. conn' \in [Threads -> ConnRec]
  <2>1. \E from, to : Moves(t, from, to)
    BY <1>1, ConnMoves DEF ConnStep, Connect, Enter
  <2> QED
    BY <1>1, <2>1, MoveCounts
<1>3. failures' \in 0..FailureCap
  BY <1>1, BreakerTypes DEF ConnStep, Enter, Probe, Connect, Succeed, Close, Blame, Trip, Open,
     Lower, FailureCap
<1>4. state' \in {"closed", "open", "half_open"} /\ expired' \in BOOLEAN /\ up' \in BOOLEAN
  BY <1>1 DEF ConnStep, Enter, Probe, Connect, Succeed, Close, Blame, Trip, Open, BreakerTypeOK
<1>5. burst' \in 0..(BurstBound + 1)
  BY <1>1, BreakerTypes DEF ConnStep, Enter, Probe, Connect, Succeed, Close, Blame, Trip, Open,
     Lower
<1>6. successes' \in Nat /\ SuccessesFit'
  <2>1. CASE Succeed(t)
    <3>1. CASE state = "half_open" /\ successes' >= SuccessThreshold
      <4>1. Num(conn', {"close"}) = closing + 1
        BY <1>1, <2>1, <3>1, ConnMoves, MoveCounts
      <4> QED
        BY <1>1, <2>1, <3>1, <4>1, BreakerTypes DEF Succeed, SuccessesFit
    <3>2. CASE state = "half_open" /\ ~(successes' >= SuccessThreshold)
      BY <1>1, <2>1, <3>2, BreakerTypes, NumType DEF Succeed, SuccessesFit
    <3>3. CASE state # "half_open"
      <4>1. Num(conn', {"close"}) = closing
        BY <1>1, <2>1, <3>3, ConnMoves, MoveCounts
      <4> QED
        BY <1>1, <2>1, <3>3, <4>1, BreakerTypes DEF Succeed, SuccessesFit
    <3> QED
      BY <3>1, <3>2, <3>3
  <2>2. CASE Probe(t) \/ Close(t)
    BY <1>1, <2>2, BreakerTypes, NumType DEF Probe, Close, SuccessesFit
  <2>3. CASE Enter(t) \/ Connect(t) \/ Blame(t) \/ Trip(t) \/ Open(t)
    <3>1. successes' = successes
      BY <2>3 DEF Enter, Connect, Blame, Trip, Open
    <3>2. \E from, to : Moves(t, from, to) /\ "close" \notin from \cup to
      BY <1>1, <2>3, ConnMoves, BreakerTypes
    <3>3. Num(conn', {"close"}) = closing
      BY <1>1, <3>2, MoveCounts
    <3> QED
      BY <1>1, <3>1, <3>3, BreakerTypes DEF SuccessesFit
  <2> QED
    BY <2>1, <2>2, <2>3 DEF ConnStep
<1>7. successes' \in 0..(SuccessThreshold + N)
  BY <1>1, <1>6, NumType, BreakerTypes DEF SuccessesFit
<1> QED
  BY <1>2, <1>3, <1>4, <1>5, <1>6, <1>7 DEF BreakerInv, BreakerTypeOK, ConnRec, Pcs, N
-------------------------------------------------------------------------------
(* A dead database is left in peace                                        *)

\* In a round, failures reach the threshold and each thread fails once more.
Round == FailureThreshold + N + 1

\* Threads whose next step may restart a round: it comes from a time when the
\* database answered or the timeout had passed.
StalePcs == {"succeeded", "close", "probe"}

\* Steps from which a thread may connect before the breaker stops it.
Callable == {"out", "enter", "connect", "connected", "raised"}
AblePcs(st, fl) ==
  IF st = "open" THEN {"connect"}
  ELSE IF st = "closed" /\ fl < FailureThreshold THEN Callable \cup {"trip"} ELSE Callable
Left(st, fl) == IF st = "closed" THEN FailureThreshold - fl ELSE 0

\* Before the timeout has passed: how many failed connections can be to come.
UnexpiredRest(st, fl, cn) ==
  Num(cn, StalePcs) * Round
    + (IF Num(cn, StalePcs) = N THEN 0 ELSE Left(st, fl) + Num(cn, AblePcs(st, fl)))

\* After the timeout and before the first failure is counted, each thread either
\* fails or is about to probe.
UnfailedPcs == Pcs \ {"failed", "trip"}
ExpiredRest(cn) ==
  IF Num(cn, UnfailedPcs) = N THEN N * Round
  ELSE Num(cn, UnfailedPcs) * Round + FailureThreshold + N - Num(cn, UnfailedPcs)

Rest == IF expired THEN ExpiredRest(conn) ELSE UnexpiredRest(state, failures, conn)

BurstInv == burst + Rest <= BurstBound

LEMMA RoundType == Round \in Nat /\ Round = FailureThreshold + N + 1 /\ BurstBound = N * Round
BY SomeThread, BreakerAssumption DEF Round, BurstBound, BreakerAssumption, N

\* What is left of a round is less than a round.
LEMMA RoundLeft ==
  ASSUME NEW st, NEW fl \in Nat, fl <= FailureThreshold, NEW cn
  PROVE  /\ Left(st, fl) \in Nat /\ Left(st, fl) <= FailureThreshold
         /\ Num(cn, AblePcs(st, fl)) \in Nat /\ Num(cn, StalePcs) \in Nat
         /\ Num(cn, AblePcs(st, fl)) + Num(cn, StalePcs) <= N
<1>1. Left(st, fl) \in Nat /\ Left(st, fl) <= FailureThreshold
  BY BreakerAssumption DEF Left, BreakerAssumption
<1>2. AblePcs(st, fl) \cap StalePcs = {}
  BY DEF AblePcs, StalePcs, Callable
<1> QED
  BY <1>1, <1>2, NumDisjoint, NumType

LEMMA UnexpiredBound ==
  ASSUME NEW st, NEW fl \in Nat, fl <= FailureThreshold, NEW cn
  PROVE  /\ UnexpiredRest(st, fl, cn) \in Nat
         /\ UnexpiredRest(st, fl, cn) <= BurstBound
         /\ \A s \in Nat : s + 1 = Num(cn, StalePcs) => (s + 1) * Round <= UnexpiredRest(st, fl, cn)
         /\ \A k \in Nat : Num(cn, StalePcs) <= k /\ k < N =>
              UnexpiredRest(st, fl, cn) <= k * Round + FailureThreshold + N - k
<1> DEFINE s == Num(cn, StalePcs)
           l == Left(st, fl)
           a == Num(cn, AblePcs(st, fl))
           u == UnexpiredRest(st, fl, cn)
<1>1. /\ s \in Nat /\ l \in Nat /\ a \in Nat /\ N \in Nat /\ N >= 1 /\ s <= N /\ Round \in Nat
      /\ l <= FailureThreshold /\ a + s <= N /\ FailureThreshold \in Nat
      /\ Round = FailureThreshold + N + 1 /\ BurstBound = N * Round
  BY RoundLeft, SomeThread, RoundType, NumType, BreakerAssumption DEF BreakerAssumption
<1>2. u = s * Round + (IF s = N THEN 0 ELSE l + a)
  BY DEF UnexpiredRest
<1> HIDE DEF s, l, a, u
<1>3. s * Round \in Nat
  BY <1>1, Multiples
<1>4. u \in Nat /\ s * Round <= u
  BY <1>1, <1>2, <1>3
<1>5. ASSUME NEW k \in Nat, s <= k, k < N
      PROVE  u <= k * Round + FailureThreshold + N - k
  <2>1. u <= s * Round + FailureThreshold + N - s
    BY <1>1, <1>2, <1>3, <1>5
  <2>2. CASE s = k
    BY <2>1, <2>2
  <2>3. CASE s + 1 <= k
    <3>1. (s + 1) * Round <= k * Round /\ (s + 1) * Round = s * Round + Round
      BY <1>1, <1>5, <2>3, Multiples, MultiplesGrow
    <3>2. k * Round \in Nat
      BY <1>1, <1>5, Multiples
    <3> DEFINE p == s * Round
               q == k * Round
    <3>3. p \in Nat /\ q \in Nat /\ p + Round <= q /\ u <= p + FailureThreshold + N - s
      BY <1>1, <1>3, <2>1, <3>1, <3>2
    <3> HIDE DEF p, q
    <3>4. u <= q + FailureThreshold + N - k
      BY <1>1, <1>4, <1>5, <3>3
    <3> QED
      BY <3>4 DEF q
  <2> QED
    BY <1>1, <1>5, <2>2, <2>3
<1>6. u <= BurstBound
  <2>1. CASE s = N
    BY <1>1, <1>2, <1>3, <2>1
  <2>2. CASE s # N
    <3>1. PICK k \in Nat : k + 1 = N
      <4>1. N - 1 \in Nat /\ (N - 1) + 1 = N
        BY <1>1
      <4> QED
        BY <4>1
    <3>2. u <= k * Round + FailureThreshold + N - k
      BY <1>1, <1>5, <2>2, <3>1
    <3>3. (k + 1) * Round = k * Round + Round /\ k * Round \in Nat
      BY <1>1, <3>1, Multiples
    <3> QED
      BY <1>1, <1>4, <3>1, <3>2, <3>3
  <2> QED
    BY <2>1, <2>2
<1>7. \A r \in Nat : r + 1 = s => (r + 1) * Round <= u
  BY <1>4
<1> QED
  BY <1>4, <1>5, <1>6, <1>7 DEF s, u

LEMMA ExpiredBound ==
  ASSUME NEW cn
  PROVE  ExpiredRest(cn) \in Nat /\ ExpiredRest(cn) <= BurstBound
<1> DEFINE k == Num(cn, UnfailedPcs)
           e == ExpiredRest(cn)
<1>1. /\ k \in Nat /\ k <= N /\ N \in Nat /\ N >= 1 /\ FailureThreshold \in Nat /\ Round \in Nat
      /\ Round = FailureThreshold + N + 1 /\ BurstBound = N * Round
  BY SomeThread, RoundType, NumType, BreakerAssumption DEF BreakerAssumption
<1>2. e = IF k = N THEN N * Round ELSE k * Round + FailureThreshold + N - k
  BY DEF ExpiredRest
<1> HIDE DEF k, e
<1>3. N * Round \in Nat /\ k * Round \in Nat
  BY <1>1, Multiples
<1>4. CASE k = N
  <2> DEFINE q == N * Round
  <2>1. q \in Nat /\ e = q /\ BurstBound = q
    BY <1>1, <1>2, <1>3, <1>4
  <2> HIDE DEF q
  <2> QED
    BY <2>1 DEF e
<1>5. CASE k # N
  <2>1. (k + 1) * Round <= N * Round /\ (k + 1) * Round = k * Round + Round
    BY <1>1, <1>5, Multiples, MultiplesGrow
  <2> DEFINE p == k * Round
             q == N * Round
  <2>2. /\ p \in Nat /\ q \in Nat /\ p + Round <= q
        /\ e = p + FailureThreshold + N - k /\ BurstBound = q
    BY <1>1, <1>2, <1>3, <1>5, <2>1
  <2> HIDE DEF p, q
  <2>3. e \in Nat /\ e <= BurstBound
    BY <1>1, <1>5, <2>2
  <2> QED
    BY <2>3 DEF e
<1> QED
  BY <1>4, <1>5 DEF e

LEMMA RestBound == BreakerTypeOK => Rest \in Nat /\ Rest <= BurstBound
<1> SUFFICES ASSUME BreakerTypeOK PROVE Rest \in Nat /\ Rest <= BurstBound
  OBVIOUS
<1>1. failures \in Nat /\ failures <= FailureThreshold
  BY BreakerTypes
<1> QED
  BY <1>1, UnexpiredBound, ExpiredBound DEF Rest
\* A stale step is paid for by its thread, which is not stale any more.
LEMMA StaleStepPays ==
  ASSUME BreakerTypeOK, BreakerTypeOK', NEW t \in Threads, NEW from, NEW to,
         Moves(t, from, to), from \subseteq StalePcs, to \cap StalePcs = {}
  PROVE  UnexpiredRest(state', failures', conn') <= UnexpiredRest(state, failures, conn)
<1> DEFINE s == Num(conn', StalePcs)
           u == UnexpiredRest(state', failures', conn')
           v == UnexpiredRest(state, failures, conn)
<1>1. s + 1 = Num(conn, StalePcs) /\ s \in Nat
  BY MoveCounts, NumType
<1>2. s < N /\ N \in Nat
  BY <1>1, NumType
<1>3. /\ failures \in Nat /\ failures <= FailureThreshold
      /\ failures' \in Nat /\ failures' <= FailureThreshold /\ FailureThreshold \in Nat
  BY BreakerAssumption DEF BreakerTypeOK, FailureCap, BreakerAssumption
<1>4. v \in Nat /\ u \in Nat /\ (s + 1) * Round <= v
  BY <1>1, <1>3, UnexpiredBound
<1>5. u <= s * Round + FailureThreshold + N - s
  <2>1. Num(conn', StalePcs) <= s /\ s \in Nat
    BY <1>1
  <2> HIDE DEF s
  <2>2. \A k \in Nat : Num(conn', StalePcs) <= k /\ k < N =>
          u <= k * Round + FailureThreshold + N - k
    BY <1>3, UnexpiredBound
  <2> QED
    BY <1>2, <2>1, <2>2
<1>6. (s + 1) * Round = s * Round + Round /\ s * Round \in Nat /\ Round = FailureThreshold + N + 1
  BY <1>1, RoundType, Multiples
<1> DEFINE p == s * Round
<1>7. p \in Nat /\ p + Round <= v /\ u <= p + FailureThreshold + N - s
  BY <1>4, <1>5, <1>6
<1> HIDE DEF p, u, v, s
<1>8. u <= v
  BY <1>1, <1>2, <1>3, <1>4, <1>6, <1>7
<1> QED
  BY <1>8 DEF u, v

\* When as many threads are stale as before, and no more of the others can connect
\* in this round, the rest has not grown.
LEMMA RestFromParts ==
  ASSUME NEW st, NEW fl \in Nat, fl <= FailureThreshold, NEW cn,
         NEW su, NEW gl \in Nat, gl <= FailureThreshold, NEW dn, NEW x \in Nat,
         Num(dn, StalePcs) = Num(cn, StalePcs), Num(cn, StalePcs) # N \/ x = 0,
         Left(su, gl) + Num(dn, AblePcs(su, gl)) + x <= Left(st, fl) + Num(cn, AblePcs(st, fl))
  PROVE  UnexpiredRest(su, gl, dn) + x <= UnexpiredRest(st, fl, cn)
<1> DEFINE p == Num(cn, StalePcs) * Round
           a == Left(st, fl) + Num(cn, AblePcs(st, fl))
           b == Left(su, gl) + Num(dn, AblePcs(su, gl))
<1>1. p \in Nat /\ a \in Nat /\ b \in Nat /\ b + x <= a
  <2>1. /\ Left(st, fl) \in Nat /\ Num(cn, AblePcs(st, fl)) \in Nat
        /\ Left(su, gl) \in Nat /\ Num(dn, AblePcs(su, gl)) \in Nat
        /\ Num(cn, StalePcs) \in Nat /\ Round \in Nat
    BY RoundLeft, RoundType
  <2> QED
    BY <2>1, Multiples
<1>2. /\ UnexpiredRest(st, fl, cn) = p + (IF Num(cn, StalePcs) = N THEN 0 ELSE a)
      /\ UnexpiredRest(su, gl, dn) = p + (IF Num(cn, StalePcs) = N THEN 0 ELSE b)
  BY DEF UnexpiredRest
<1> HIDE DEF p, a, b
<1> QED
  BY <1>1, <1>2

\* Steps of threads in _connect while the timeout has not passed.
LEMMA UnexpiredStep ==
  ASSUME BreakerInv, BreakerInv', ~expired, up' = up, NEW t \in Threads, ConnStep(t),
         ~(Connect(t) /\ up)
  PROVE  IF Connect(t)
         THEN UnexpiredRest(state', failures', conn') + 1 <= UnexpiredRest(state, failures, conn)
         ELSE UnexpiredRest(state', failures', conn') <= UnexpiredRest(state, failures, conn)
<1> DEFINE stale == Num(conn, StalePcs)
           able == Num(conn, AblePcs(state, failures))
           able2 == Num(conn', AblePcs(state', failures'))
           left == Left(state, failures)
           left2 == Left(state', failures')
           v == UnexpiredRest(state, failures, conn)
           u == UnexpiredRest(state', failures', conn')
<1>1. BreakerTypeOK /\ BreakerTypeOK'
  BY DEF BreakerInv
<1>2. /\ failures \in Nat /\ failures <= FailureThreshold
      /\ failures' \in Nat /\ failures' <= FailureThreshold
      /\ FailureThreshold \in Nat \ {0}
      /\ state \in {"closed", "open", "half_open"}
  BY <1>1, BreakerAssumption DEF BreakerTypeOK, FailureCap, BreakerAssumption
<1>3. /\ left \in Nat /\ left2 \in Nat /\ able \in Nat /\ able2 \in Nat /\ stale \in Nat
      /\ N \in Nat
  BY <1>2, RoundLeft, SomeThread
<1>4. ASSUME NEW x \in Nat, Num(conn', StalePcs) = stale, stale # N \/ x = 0,
             left2 + able2 + x <= left + able
      PROVE  u + x <= v
  BY <1>2, <1>4, RestFromParts
<1>5. u \in Nat /\ v \in Nat
  BY <1>2, UnexpiredBound
<1>6. ASSUME Num(conn', StalePcs) = stale, left2 + able2 <= left + able
      PROVE  u <= v
  <2>1. left2 + able2 + 0 <= left + able
    BY <1>3, <1>6
  <2>2. u + 0 <= v
    BY <1>4, <1>6, <2>1
  <2> QED
    BY <1>5, <2>2
<1>7. Enter(t) \/ Probe(t) \/ Connect(t) \/ Succeed(t) \/ Close(t) \/ Blame(t) \/ Trip(t) \/ Open(t)
  BY DEF ConnStep
<1>8. ASSUME Connect(t) PROVE u + 1 <= v
  <2>1. Moves(t, {"connect"}, {"failed"}) /\ state' = state /\ failures' = failures
    BY <1>1, <1>8, ConnMoves DEF Connect
  <2>2. able2 + 1 = able
    <3> DEFINE A == AblePcs(state, failures)
    <3>1. {"connect"} \subseteq A /\ {"failed"} \cap A = {}
      BY DEF AblePcs, Callable
    <3> HIDE DEF A
    <3>2. Num(conn', A) + 1 = Num(conn, A)
      BY <1>1, <2>1, <3>1, MoveCounts
    <3> QED
      BY <2>1, <3>2 DEF A
  <2>3. Num(conn', StalePcs) = stale
    BY <1>1, <2>1, MoveCounts DEF StalePcs
  <2>4. stale # N
    <3>1. conn[t].pc \in {"connect"} /\ {"connect"} \cap StalePcs = {}
      BY <2>1 DEF Moves, StalePcs
    <3>2. Num(conn, {"connect"}) + stale <= N /\ Num(conn, {"connect"}) >= 1
      BY <3>1, NumDisjoint, NumSome
    <3> QED
      BY <1>3, <3>2, NumType
  <2>5. left2 = left
    BY <2>1
  <2>6. left2 + able2 + 1 <= left + able
    BY <1>3, <2>2, <2>5
  <2> QED
    BY <1>4, <2>3, <2>4, <2>6
<1>9. ASSUME Probe(t) \/ Close(t) PROVE u <= v
  <2>1. Moves(t, {"probe"}, {"connect"}) \/ Moves(t, {"close"}, {"connected"})
    BY <1>1, <1>9, ConnMoves
  <2> QED
    BY <1>1, <2>1, StaleStepPays DEF StalePcs
<1>10. ASSUME Succeed(t) PROVE u <= v
  <2>1. CASE state = "half_open" /\ successes' >= SuccessThreshold
    <3>1. Moves(t, {"succeeded"}, {"close"}) /\ state' = state
      BY <1>1, <1>10, <2>1, ConnMoves DEF Succeed
    <3>2. Num(conn', StalePcs) = stale
      BY <1>1, <3>1, MoveCounts DEF StalePcs
    <3>3. AblePcs(state, failures) = Callable /\ AblePcs(state', failures') = Callable
      BY <2>1, <3>1 DEF AblePcs
    <3>4. able2 = able
      BY <1>1, <3>1, <3>3, MoveCounts DEF Callable
    <3>5. left = 0 /\ left2 = 0
      BY <2>1, <3>1 DEF Left
    <3> QED
      BY <1>3, <1>6, <3>2, <3>4, <3>5
  <2>2. CASE ~(state = "half_open" /\ successes' >= SuccessThreshold)
    <3>1. Moves(t, {"succeeded"}, {"connected"})
      BY <1>1, <1>10, <2>2, ConnMoves
    <3> QED
      BY <1>1, <3>1, StaleStepPays DEF StalePcs
  <2> QED
    BY <2>1, <2>2
<1>11. ASSUME Enter(t) PROVE u <= v
  <2>1. state' = state /\ failures' = failures
    BY <1>11 DEF Enter
  <2>2. CASE state # "open"
    <3>1. Moves(t, {"enter"}, {"connect"})
      BY <1>1, <1>11, <2>2, ConnMoves
    <3>2. Num(conn', StalePcs) = stale
      BY <1>1, <3>1, MoveCounts DEF StalePcs
    <3>3. able2 = able
      <4> DEFINE A == AblePcs(state, failures)
      <4>1. {"enter"} \subseteq A /\ {"connect"} \subseteq A
        BY <2>2 DEF AblePcs, Callable
      <4> HIDE DEF A
      <4>2. Num(conn', A) = Num(conn, A)
        BY <1>1, <3>1, <4>1, MoveCounts
      <4> QED
        BY <2>1, <4>2 DEF A
    <3> QED
      BY <1>3, <1>6, <2>1, <3>2, <3>3
  <2>3. CASE state = "open"
    <3>1. Moves(t, {"enter"}, {"enter", "raised"})
      BY <1>1, <1>11, <2>3, ConnMoves
    <3>2. Num(conn', StalePcs) = stale
      BY <1>1, <3>1, MoveCounts DEF StalePcs
    <3>3. AblePcs(state, failures) = {"connect"} /\ AblePcs(state', failures') = {"connect"}
      BY <2>1, <2>3 DEF AblePcs
    <3>4. able2 = able
      BY <1>1, <3>1, <3>3, MoveCounts
    <3> QED
      BY <1>3, <1>6, <2>1, <3>2, <3>4
  <2> QED
    BY <2>2, <2>3
<1>12. ASSUME Blame(t) PROVE u <= v
  <2>1. /\ Moves(t, {"failed"}, {"trip"}) /\ state' = state
        /\ failures' = Lower(failures + 1, FailureCap)
    BY <1>1, <1>12, ConnMoves DEF Blame
  <2>2. Num(conn', StalePcs) = stale
    BY <1>1, <2>1, MoveCounts DEF StalePcs
  <2>3. Num(conn', Callable) = Num(conn, Callable) /\ Num(conn', {"connect"}) = Num(conn, {"connect"})
    BY <1>1, <2>1, MoveCounts DEF Callable
  <2>4. Num(conn', Callable \cup {"trip"}) = Num(conn, Callable \cup {"trip"}) + 1
    <3> DEFINE A == Callable \cup {"trip"}
    <3>1. {"failed"} \cap A = {} /\ {"trip"} \subseteq A
      BY DEF Callable
    <3> HIDE DEF A
    <3>2. Num(conn', A) = Num(conn, A) + 1
      BY <1>1, <2>1, <3>1, MoveCounts
    <3> QED
      BY <3>2 DEF A
  <2>5. CASE state # "closed"
    <3>1. AblePcs(state', failures') = AblePcs(state, failures)
          /\ AblePcs(state, failures) \in {Callable, {"connect"}} /\ left2 = left
      BY <2>1, <2>5 DEF AblePcs, Left
    <3> QED
      BY <1>3, <1>6, <2>2, <2>3, <3>1
  <2>6. CASE state = "closed" /\ failures < FailureThreshold
    <3>1. failures' = failures + 1
      BY <1>2, <2>1, <2>6 DEF Lower, FailureCap
    <3>2. left2 + 1 = left /\ AblePcs(state, failures) = Callable \cup {"trip"}
      BY <1>2, <2>1, <2>6, <3>1 DEF Left, AblePcs
    <3>3. able2 <= able + 1
      <4>1. CASE failures' < FailureThreshold
        <5>1. AblePcs(state', failures') = Callable \cup {"trip"}
          BY <2>1, <2>6, <4>1 DEF AblePcs
        <5> QED
          BY <1>3, <2>4, <3>2, <5>1
      <4>2. CASE ~(failures' < FailureThreshold)
        <5>1. AblePcs(state', failures') = Callable
          BY <2>1, <2>6, <4>2 DEF AblePcs
        <5>2. Num(conn, Callable) <= Num(conn, Callable \cup {"trip"})
          BY NumMonotone
        <5> QED
          BY <1>3, <2>3, <3>2, <5>1, <5>2
      <4> QED
        BY <4>1, <4>2
    <3> QED
      BY <1>3, <1>6, <2>2, <3>2, <3>3
  <2>7. CASE state = "closed" /\ ~(failures < FailureThreshold)
    <3>1. failures' = failures
      BY <1>2, <2>1, <2>7 DEF Lower, FailureCap
    <3>2. AblePcs(state, failures) = Callable /\ AblePcs(state', failures') = Callable /\ left2 = left
      BY <2>1, <2>7, <3>1 DEF AblePcs
    <3> QED
      BY <1>3, <1>6, <2>2, <2>3, <3>2
  <2> QED
    BY <2>5, <2>6, <2>7
<1>13. ASSUME Trip(t) PROVE u <= v
  <2>1. Moves(t, {"trip"}, IF Trips THEN {"open"} ELSE {"enter", "raised"})
        /\ state' = state /\ failures' = failures
    BY <1>1, <1>13, ConnMoves DEF Trip
  <2>2. Num(conn', StalePcs) = stale
    <3>1. (IF Trips THEN {"open"} ELSE {"enter", "raised"}) \cap StalePcs = {}
      BY DEF StalePcs
    <3> QED
      BY <1>1, <2>1, <3>1, MoveCounts DEF StalePcs
  <2> DEFINE A == AblePcs(state, failures)
  <2>3. Num(conn', A) <= Num(conn, A)
    <3>1. CASE Trips
      <4>1. "open" \notin A /\ ("trip" \in A \/ "trip" \notin A)
        BY DEF AblePcs, Callable
      <4> HIDE DEF A
      <4>2. Num(conn', A) = Num(conn, A) \/ Num(conn', A) + 1 = Num(conn, A)
        BY <1>1, <2>1, <3>1, <4>1, MoveCounts
      <4> QED
        BY <4>2, NumType
    <3>2. CASE ~Trips
      <4>1. \/ {"trip", "enter", "raised"} \subseteq A
            \/ {"trip", "enter", "raised"} \cap A = {}
        BY <1>2, <3>2 DEF AblePcs, Callable, Trips
      <4> HIDE DEF A
      <4>2. Num(conn', A) = Num(conn, A)
        BY <1>1, <2>1, <3>2, <4>1, MoveCounts
      <4> QED
        BY <4>2, NumType
    <3> QED
      BY <3>1, <3>2
  <2> QED
    BY <1>3, <1>6, <2>1, <2>2, <2>3
<1>14. ASSUME Open(t) PROVE u <= v
  <2>1. Moves(t, {"open"}, {"enter", "raised"}) /\ state' = "open"
    BY <1>1, <1>14, ConnMoves DEF Open
  <2>2. Num(conn', StalePcs) = stale
    BY <1>1, <2>1, MoveCounts DEF StalePcs
  <2>3. AblePcs(state', failures') = {"connect"} /\ left2 = 0
    BY <2>1 DEF AblePcs, Left
  <2>4. Num(conn', {"connect"}) = Num(conn, {"connect"})
    BY <1>1, <2>1, MoveCounts
  <2>5. Num(conn, {"connect"}) <= able
    <3>1. {"connect"} \subseteq AblePcs(state, failures)
      BY DEF AblePcs, Callable
    <3> QED
      BY <3>1, NumMonotone
  <2> QED
    BY <1>3, <1>6, <2>2, <2>3, <2>4, <2>5
<1> QED
  BY <1>5, <1>7, <1>8, <1>9, <1>10, <1>11, <1>12, <1>13, <1>14
\* Steps of threads in _connect after the timeout: the first failure that is
\* counted ends that time.
LEMMA ExpiredStep ==
  ASSUME BreakerInv, BreakerInv', expired, up' = up, NEW t \in Threads, ConnStep(t),
         ~(Connect(t) /\ up)
  PROVE  /\ Connect(t) => expired' /\ ExpiredRest(conn') + 1 <= ExpiredRest(conn)
         /\ Trip(t) => ~expired' /\ UnexpiredRest(state', failures', conn') <= ExpiredRest(conn)
         /\ ~Connect(t) /\ ~Trip(t) => expired' /\ ExpiredRest(conn') <= ExpiredRest(conn)
<1> DEFINE k == Num(conn, UnfailedPcs)
<1>1. BreakerTypeOK /\ BreakerTypeOK'
  BY DEF BreakerInv
<1>2. /\ k \in Nat /\ k <= N /\ N \in Nat /\ N >= 1 /\ Round \in Nat
      /\ FailureThreshold \in Nat /\ Round = FailureThreshold + N + 1
  BY NumType, SomeThread, RoundType, BreakerAssumption DEF BreakerAssumption
<1>3. ASSUME Connect(t) PROVE expired' /\ ExpiredRest(conn') + 1 <= ExpiredRest(conn)
  <2>1. Moves(t, {"connect"}, {"failed"}) /\ expired'
    BY <1>1, <1>3, ConnMoves DEF Connect
  <2>2. Num(conn', UnfailedPcs) + 1 = k
    <3>1. {"connect"} \subseteq UnfailedPcs /\ {"failed"} \cap UnfailedPcs = {}
      BY DEF UnfailedPcs, Pcs
    <3> QED
      BY <1>1, <2>1, <3>1, MoveCounts
  <2> DEFINE j == Num(conn', UnfailedPcs)
             p == j * Round
             q == k * Round
             w == N * Round
  <2>3. /\ j \in Nat /\ j + 1 = k /\ p \in Nat /\ q = p + Round /\ w \in Nat
        /\ (k = N => q = w)
    BY <1>2, <2>2, NumType, Multiples
  <2>4. /\ ExpiredRest(conn') = IF j = N THEN w ELSE p + FailureThreshold + N - j
        /\ ExpiredRest(conn) = IF k = N THEN w ELSE q + FailureThreshold + N - k
    BY DEF ExpiredRest
  <2> HIDE DEF j, p, q, w, k
  <2>5. ExpiredRest(conn') + 1 <= ExpiredRest(conn)
    BY <1>2, <2>3, <2>4
  <2> QED
    BY <2>1, <2>5
<1>4. ASSUME Trip(t)
      PROVE  ~expired' /\ UnexpiredRest(state', failures', conn') <= ExpiredRest(conn)
  <2>1. Moves(t, {"trip"}, IF Trips THEN {"open"} ELSE {"enter", "raised"}) /\ ~expired'
    BY <1>1, <1>4, ConnMoves DEF Trip
  <2>2. Num(conn', StalePcs) = Num(conn, StalePcs)
    <3>1. (IF Trips THEN {"open"} ELSE {"enter", "raised"}) \cap StalePcs = {}
      BY DEF StalePcs
    <3> QED
      BY <1>1, <2>1, <3>1, MoveCounts DEF StalePcs
  <2>3. Num(conn', StalePcs) <= k
    <3>1. StalePcs \subseteq UnfailedPcs
      BY DEF StalePcs, UnfailedPcs, Pcs
    <3> QED
      BY <2>2, <3>1, NumMonotone
  <2>4. k < N
    <3>1. conn[t].pc \in {"trip"} /\ {"trip"} \cap UnfailedPcs = {}
      BY <2>1 DEF Moves, UnfailedPcs
    <3>2. Num(conn, {"trip"}) + k <= N /\ Num(conn, {"trip"}) >= 1
      BY <3>1, NumDisjoint, NumSome
    <3> QED
      BY <1>2, <3>2, NumType
  <2>5. ExpiredRest(conn) = k * Round + FailureThreshold + N - k
    BY <1>2, <2>4 DEF ExpiredRest
  <2>6. failures' \in Nat /\ failures' <= FailureThreshold
    BY <1>1, <1>2 DEF BreakerTypeOK, FailureCap
  <2> HIDE DEF k
  <2>7. \A m \in Nat : Num(conn', StalePcs) <= m /\ m < N =>
          UnexpiredRest(state', failures', conn') <= m * Round + FailureThreshold + N - m
    BY <2>6, UnexpiredBound
  <2> QED
    BY <1>2, <2>1, <2>3, <2>4, <2>5, <2>7
<1>5. ASSUME ~Connect(t), ~Trip(t) PROVE expired' /\ ExpiredRest(conn') <= ExpiredRest(conn)
  <2>1. Enter(t) \/ Probe(t) \/ Succeed(t) \/ Close(t) \/ Blame(t) \/ Open(t)
    BY <1>5 DEF ConnStep
  <2>2. expired'
    BY <2>1 DEF Enter, Probe, Succeed, Close, Blame, Open
  <2>3. ASSUME NEW from, NEW to, Moves(t, from, to),
               \/ from \subseteq UnfailedPcs /\ to \subseteq UnfailedPcs
               \/ from \cap UnfailedPcs = {} /\ to \cap UnfailedPcs = {}
        PROVE  Num(conn', UnfailedPcs) = k
    BY <1>1, <2>3, MoveCounts
  <2>4. Num(conn', UnfailedPcs) = k
    <3>1. {"enter", "raised", "connect", "probe", "succeeded", "close", "connected", "open"}
            \subseteq UnfailedPcs /\ {"failed", "trip"} \cap UnfailedPcs = {}
      BY DEF UnfailedPcs, Pcs
    <3>2. CASE Enter(t)
      <4>1. \/ Moves(t, {"enter"}, {"connect"}) \/ Moves(t, {"enter"}, {"probe"})
            \/ Moves(t, {"enter"}, {"enter", "raised"})
        BY <1>1, <3>2, ConnMoves DEF BreakerTypeOK
      <4> QED
        BY <2>3, <3>1, <4>1
    <3>3. CASE Probe(t)
      <4>1. Moves(t, {"probe"}, {"connect"})
        BY <1>1, <3>3, ConnMoves
      <4> QED
        BY <2>3, <3>1, <4>1
    <3>4. CASE Succeed(t)
      <4>1. Moves(t, {"succeeded"}, {"close"}) \/ Moves(t, {"succeeded"}, {"connected"})
        BY <1>1, <3>4, ConnMoves
      <4> QED
        BY <2>3, <3>1, <4>1
    <3>5. CASE Close(t)
      <4>1. Moves(t, {"close"}, {"connected"})
        BY <1>1, <3>5, ConnMoves
      <4> QED
        BY <2>3, <3>1, <4>1
    <3>6. CASE Blame(t)
      <4>1. Moves(t, {"failed"}, {"trip"})
        BY <1>1, <3>6, ConnMoves
      <4>2. {"failed"} \cap UnfailedPcs = {} /\ {"trip"} \cap UnfailedPcs = {}
        BY <3>1
      <4> QED
        BY <2>3, <4>1, <4>2
    <3>7. CASE Open(t)
      <4>1. Moves(t, {"open"}, {"enter", "raised"})
        BY <1>1, <3>7, ConnMoves
      <4> QED
        BY <2>3, <3>1, <4>1
    <3> QED
      BY <2>1, <3>2, <3>3, <3>4, <3>5, <3>6, <3>7
  <2>5. ExpiredRest(conn') = ExpiredRest(conn) /\ ExpiredRest(conn) \in Nat
    BY <2>4, ExpiredBound DEF ExpiredRest
  <2> QED
    BY <2>2, <2>5
<1> QED
  BY <1>3, <1>4, <1>5

LEMMA Transfer ==
  ASSUME NEW a \in Nat, NEW b \in Nat, NEW c \in Nat, NEW d \in Nat, NEW bound \in Nat,
         a + b <= bound, (c = a /\ d <= b) \/ (c <= a + 1 /\ d + 1 <= b)
  PROVE  c + d <= bound
OBVIOUS

LEMMA BurstConnStep ==
  ASSUME BreakerInv, BreakerInv', BurstInv, up' = up, NEW t \in Threads, ConnStep(t)
  PROVE  BurstInv'
<1>1. /\ burst \in Nat /\ BurstBound \in Nat /\ Rest \in Nat /\ Rest <= BurstBound
      /\ burst + Rest <= BurstBound
  BY RestBound, BreakerTypes DEF BreakerInv, BurstInv
<1>2. (Rest \in Nat /\ Rest <= BurstBound)'
  <2>1. failures' \in Nat /\ failures' <= FailureThreshold
    BY BreakerAssumption DEF BreakerInv, BreakerTypeOK, FailureCap, BreakerAssumption
  <2> QED
    BY <2>1, UnexpiredBound, ExpiredBound DEF Rest
<1>3. expired \in BOOLEAN /\ BurstBound' = BurstBound
  BY DEF BreakerInv, BreakerTypeOK, BurstBound
<1>4. CASE Connect(t) /\ up
  <2>1. burst' = 0
    BY <1>4 DEF Connect
  <2> QED
    BY <1>2, <2>1 DEF BurstInv
<1>5. CASE Connect(t) /\ ~up
  <2>1. Rest' + 1 <= Rest
    <3>1. CASE expired
      BY <1>5, <3>1, ExpiredStep DEF Rest
    <3>2. CASE ~expired
      BY <1>5, <3>2, UnexpiredStep DEF Rest, Connect
    <3> QED
      BY <3>1, <3>2
  <2>2. burst' = Lower(burst + 1, BurstBound + 1)
    BY <1>5 DEF Connect
  <2>3. burst' <= burst + 1 /\ burst' \in Nat
    BY <1>1, <2>2 DEF Lower
  <2> QED
    <3>1. Rest' \in Nat /\ BurstBound' = BurstBound
      BY <1>2, <1>3
    <3>2. burst' + Rest' <= BurstBound
      BY <1>1, <2>1, <2>3, <3>1, Transfer
    <3> QED
      BY <3>1, <3>2 DEF BurstInv
<1>6. CASE ~Connect(t)
  <2>1. burst' = burst
    BY <1>6 DEF ConnStep, Enter, Probe, Succeed, Close, Blame, Trip, Open
  <2>2. Rest' <= Rest
    <3>1. CASE expired
      BY <1>6, <3>1, ExpiredStep DEF Rest
    <3>2. CASE ~expired
      <4>1. ~expired'
        BY <1>3, <1>6, <3>2 DEF ConnStep, Enter, Probe, Succeed, Close, Blame, Trip, Open
      <4> QED
        BY <1>6, <3>2, <4>1, UnexpiredStep DEF Rest
    <3> QED
      BY <3>1, <3>2
  <2> QED
    <3>1. Rest' \in Nat /\ BurstBound' = BurstBound
      BY <1>2, <1>3
    <3>2. burst' + Rest' <= BurstBound
      BY <1>1, <2>1, <2>2, <3>1, Transfer
    <3> QED
      BY <3>1, <3>2 DEF BurstInv
<1> QED
  BY <1>4, <1>5, <1>6

\* A thread that enters _connect or leaves it.
LEMMA OutsideStep ==
  ASSUME BreakerInv, BurstInv, up' = up, NEW t \in Threads,
         UNCHANGED <<state, failures, successes, expired, burst>>,
         \/ AtConn(t, "out") /\ Call(t)
         \/ (AtConn(t, "connected") \/ AtConn(t, "raised")) /\ Leave(t)
  PROVE  BreakerInv' /\ BurstInv'
<1>1. BreakerTypeOK /\ MaxRetries \in Nat \ {0}
  BY BreakerAssumption DEF BreakerInv, BreakerAssumption
<1>2. Moves(t, {"out", "connected", "raised"}, {"out", "enter"})
  <2>1. Out \in ConnRec /\ [pc |-> "enter", attempt |-> 1] \in ConnRec
    BY <1>1 DEF Out, ConnRec, Pcs
  <2> QED
    BY <2>1 DEF Moves, AtConn, Call, Leave, Out
<1>3. /\ Num(conn', {"close"}) = Num(conn, {"close"})
      /\ Num(conn', StalePcs) = Num(conn, StalePcs)
      /\ Num(conn', UnfailedPcs) = Num(conn, UnfailedPcs)
      /\ Num(conn', AblePcs(state, failures)) = Num(conn, AblePcs(state, failures))
      /\ conn' \in [Threads -> ConnRec]
  <2> DEFINE A == AblePcs(state, failures)
             F == {"out", "connected", "raised"}
             T == {"out", "enter"}
  <2>1. /\ F \cap {"close"} = {} /\ T \cap {"close"} = {}
        /\ F \cap StalePcs = {} /\ T \cap StalePcs = {}
        /\ F \subseteq UnfailedPcs /\ T \subseteq UnfailedPcs
        /\ \/ F \cap A = {} /\ T \cap A = {}
           \/ F \subseteq A /\ T \subseteq A
    BY DEF StalePcs, UnfailedPcs, Pcs, AblePcs, Callable
  <2>2. Moves(t, F, T)
    BY <1>2
  <2> HIDE DEF A, F, T
  <2>3. Num(conn', A) = Num(conn, A)
    BY <1>1, <2>1, <2>2, MoveCounts
  <2>4. /\ Num(conn', {"close"}) = Num(conn, {"close"})
        /\ Num(conn', StalePcs) = Num(conn, StalePcs)
        /\ Num(conn', UnfailedPcs) = Num(conn, UnfailedPcs)
        /\ conn' \in [Threads -> ConnRec]
    BY <1>1, <2>1, <2>2, MoveCounts
  <2> QED
    BY <2>3, <2>4 DEF A
<1>4. BreakerInv'
  BY <1>3 DEF BreakerInv, BreakerTypeOK, SuccessesFit, ConnRec, Pcs
<1>5. BurstInv'
  BY <1>3 DEF BurstInv, Rest, UnexpiredRest, ExpiredRest
<1> QED
  BY <1>4, <1>5

\* A time-out, or a breaker of a new process, starts the count again.
LEMMA CountAgain ==
  ASSUME BreakerTypeOK, burst = 0 PROVE BurstInv
<1>1. Rest \in Nat /\ Rest <= BurstBound
  BY RestBound
<1> QED
  BY <1>1 DEF BurstInv
LEMMA BreakerStep ==
  ASSUME BreakerInv, BurstInv, [Next]_vars
  PROVE  BreakerInv' /\ BurstInv'
<1>1. BreakerTypeOK
  BY DEF BreakerInv
<1>2. ASSUME UNCHANGED breakerVars, up' \in BOOLEAN PROVE BreakerInv' /\ BurstInv'
  <2>1. BreakerInv'
    BY <1>1, <1>2 DEF BreakerInv, BreakerTypeOK, SuccessesFit, breakerVars
  <2>2. BurstInv'
    BY <1>2 DEF BurstInv, Rest, breakerVars
  <2> QED
    BY <2>1, <2>2
<1>3. up \in BOOLEAN
  BY <1>1 DEF BreakerTypeOK
<1>4. ASSUME NEW t \in Threads, Progress(t) PROVE BreakerInv' /\ BurstInv'
  <2>1. CASE EnsureStore(t) \/ CheckDuplicate(t) \/ AddDoc(t) \/ DeleteDocs(t)
    BY <1>2, <1>3, <2>1 DEF EnsureStore, CheckDuplicate, AddDoc, DeleteDocs
  <2>2. CASE ConnectVectors(t)
    BY <2>2, OutsideStep DEF ConnectVectors
  <2>3. CASE AddVector(t) \/ DeleteVectors(t) \/ QueryVectors(t)
    <3>1. /\ AtConn(t, "connected") \/ AtConn(t, "raised")
          /\ Leave(t) /\ up' = up /\ UNCHANGED <<state, failures, successes, expired, burst>>
      BY <2>3 DEF AddVector, DeleteVectors, QueryVectors, Works, Fails
    <3> QED
      BY <3>1, OutsideStep
  <2>4. CASE StepConnect(t)
    <3>1. ConnStep(t) /\ up' = up
      BY <2>4 DEF StepConnect
    <3>2. BreakerInv'
      BY <3>1, ConnStepTypes
    <3> QED
      BY <3>1, <3>2, BurstConnStep
  <2> QED
    BY <1>4, <2>1, <2>2, <2>3, <2>4 DEF Progress
<1>5. ASSUME NEW t, NEW kind, NEW s, NEW d, Begin(t, kind, s, d) PROVE BreakerInv' /\ BurstInv'
  BY <1>2, <1>3, <1>5 DEF Begin
<1>6. ASSUME NEW s, BeginDelete(Loop, s) PROVE BreakerInv' /\ BurstInv'
  BY <1>2, <1>3, <1>6 DEF BeginDelete
<1>7. ASSUME BreakerTypeOK', burst' = 0 PROVE BurstInv'
  <2>1. (Rest \in Nat /\ Rest <= BurstBound)'
    <3>1. failures' \in Nat /\ failures' <= FailureThreshold
      BY <1>7, BreakerAssumption DEF BreakerTypeOK, FailureCap, BreakerAssumption
    <3> QED
      BY <3>1, UnexpiredBound, ExpiredBound DEF Rest
  <2> QED
    BY <1>7, <2>1 DEF BurstInv
<1>8. CASE Tick
  <2>1. BreakerTypeOK'
    BY <1>1, <1>8, BreakerTypes DEF Tick, BreakerTick, BreakerTypeOK
  <2>2. SuccessesFit'
    BY <1>8 DEF Tick, BreakerTick, BreakerInv, SuccessesFit
  <2>3. burst' = 0
    BY <1>8 DEF Tick, BreakerTick
  <2> QED
    BY <1>7, <2>1, <2>2, <2>3 DEF BreakerInv
<1>9. CASE DatabaseChanges
  BY <1>2, <1>3, <1>9 DEF DatabaseChanges
<1>10. CASE Restart
  <2>1. BreakerTypeOK' /\ burst' = 0
    <3>1. /\ FailureThreshold \in Nat \ {0} /\ SuccessThreshold \in Nat \ {0} /\ MaxRetries \in Nat
          /\ N \in Nat /\ BurstBound \in Nat
      BY <1>1, BreakerAssumption, SomeThread, BreakerTypes DEF BreakerAssumption
    <3> QED
      BY <1>10, <3>1, <1>3 DEF Restart, FreshBreaker, BreakerTypeOK, FailureCap, N, Out
  <2>2. SuccessesFit'
    BY <1>10, NumType, BreakerAssumption DEF Restart, FreshBreaker, SuccessesFit, BreakerAssumption
  <2> QED
    BY <1>7, <2>1, <2>2 DEF BreakerInv
<1>11. CASE UNCHANGED vars
  BY <1>2, <1>3, <1>11 DEF vars
<1> QED
  BY <1>4, <1>5, <1>6, <1>8, <1>9, <1>10, <1>11 DEF Next, Search

\* Within a recovery timeout a database that does not answer sees a bounded number
\* of connections, whatever the number of calls and retries and however the
\* unlocked steps of the breaker interleave.
THEOREM DeadDatabaseLeftInPeace == Spec => []BurstBounded
<1>1. Init => BreakerInv /\ BurstInv
  BY BreakerInitInv, CountAgain DEF Init, BreakerInit, BreakerInv
<1>2. BreakerInv /\ BurstInv /\ [Next]_vars => BreakerInv' /\ BurstInv'
  BY BreakerStep
<1>3. BreakerInv /\ BurstInv => BurstBounded
  <2> SUFFICES ASSUME BreakerInv, BurstInv PROVE BurstBounded
    OBVIOUS
  <2>1. burst \in Nat /\ BurstBound \in Nat /\ Rest \in Nat /\ burst + Rest <= BurstBound
    BY RestBound, BreakerTypes DEF BreakerInv, BurstInv
  <2> DEFINE r == Rest
  <2>2. r \in Nat /\ burst + r <= BurstBound
    BY <2>1
  <2> HIDE DEF r
  <2> QED
    BY <2>1, <2>2 DEF BurstBounded
<1> QED
  BY <1>1, <1>2, <1>3, PTL DEF Spec

-------------------------------------------------------------------------------
(* What was acknowledged stands                                            *)

OpRec == [kind : {"idle", "upload", "delete", "search"},
          pc : {"idle", "ensure", "check", "vectors", "docs", "cascade"},
          store : Stores \cup {""}, doc : Docs \cup {""}]

TablesFit ==
  /\ listed \subseteq Stores /\ pgStores \subseteq Stores
  /\ docs \in [Stores -> Seq(Docs)] /\ rows \in [Stores -> SUBSET Paths]
  /\ op \in [Threads -> OpRec]
  /\ kept \subseteq Stores \X Docs /\ gone \subseteq Stores

\* What a thread does: only the event loop writes; a deletion has nothing left to
\* keep, and nothing left of the documents when it comes to the vectors; and an
\* upload goes into a store that is not gone.
OpFits(t) ==
  LET o == op[t] IN
  /\ t # Loop => o.kind \in {"idle", "search"}
  /\ o.pc # "idle" => o.store \in Stores
  /\ o.kind = "upload" => o.doc \in Docs /\ o.store \notin gone
  /\ o.pc \in {"check", "docs"} => o.kind = "upload"
  /\ o.pc = "cascade" => o.kind = "delete"
  /\ o.kind = "delete" => o.pc \in {"cascade", "vectors"} /\ \A k \in kept : k[1] # o.store
  /\ o.kind = "delete" /\ o.pc = "vectors" => docs[o.store] = <<>>

OpsFit == \A t \in Threads : OpFits(t)

DataInv == TablesFit /\ OpsFit /\ UploadsStand /\ DeletionsStand

\* A step that changes nothing but what one thread does.
LEMMA OpStep ==
  ASSUME DataInv, NEW t \in Threads, NEW o \in OpRec, op' = [op EXCEPT ![t] = o],
         listed' \subseteq Stores, pgStores' \subseteq Stores,
         docs' = docs, rows' \in [Stores -> SUBSET Paths],
         \A s \in Stores : rows'[s] = rows[s] \/ (op[t].kind = "upload" /\ s = op[t].store),
         \A k \in kept' \ kept : /\ op[t].kind = "upload" /\ k \in Stores \X Docs
                                /\ k[2] \in InTable(k[1]),
         gone' \subseteq gone,
         OpFits(t)'
  PROVE  DataInv'
<1>1. TablesFit'
  BY DEF DataInv, TablesFit
<1>2. OpsFit'
  <2> SUFFICES ASSUME NEW u \in Threads, u # t PROVE OpFits(u)'
    BY DEF OpsFit
  <2>1. op'[u] = op[u] /\ OpFits(u) /\ OpFits(t)
    BY DEF DataInv, TablesFit, OpsFit
  <2>2. op[u].kind = "delete" => kept' \subseteq kept
    BY <2>1 DEF OpFits
  <2> QED
    BY <2>1, <2>2 DEF OpFits
<1>3. UploadsStand'
  BY DEF DataInv, UploadsStand, InTable
<1>4. DeletionsStand'
  <2> SUFFICES ASSUME NEW s \in gone' PROVE docs'[s] = <<>> /\ rows'[s] = {}
    BY DEF DeletionsStand
  <2>1. s \in gone /\ s \in Stores /\ docs[s] = <<>> /\ rows[s] = {}
    BY DEF DataInv, DeletionsStand, TablesFit
  <2>2. ~(op[t].kind = "upload" /\ s = op[t].store)
    BY <2>1 DEF DataInv, OpsFit, OpFits
  <2> QED
    BY <2>1, <2>2
<1> QED
  BY <1>1, <1>2, <1>3, <1>4 DEF DataInv

\* Going on with the next step of what a thread does.
LEMMA GoFits ==
  ASSUME DataInv, NEW t \in Threads,
         NEW pc \in {"idle", "ensure", "check", "vectors", "docs", "cascade"}, Go(t, pc)
  PROVE  \E o \in OpRec : /\ o.kind = op[t].kind /\ o.pc = pc /\ o.store = op[t].store
                          /\ o.doc = op[t].doc
                          /\ op' = [op EXCEPT ![t] = o] /\ op'[t] = o
<1> DEFINE o == [op[t] EXCEPT !.pc = pc]
<1>1. op[t] \in OpRec /\ op \in [Threads -> OpRec]
  BY DEF DataInv, TablesFit
<1>2. o \in OpRec /\ o.kind = op[t].kind /\ o.pc = pc /\ o.store = op[t].store /\ o.doc = op[t].doc
  BY <1>1 DEF OpRec
<1>3. op' = [op EXCEPT ![t] = o]
  BY DEF Go
<1>4. op'[t] = o
  BY <1>1, <1>3
<1> HIDE DEF o
<1> QED
  BY <1>2, <1>3, <1>4

\* A thread that is done fits.
LEMMA EndFits ==
  ASSUME DataInv, NEW t \in Threads, End(t)
  PROVE  Idle \in OpRec /\ op' = [op EXCEPT ![t] = Idle] /\ op'[t] = Idle /\ OpFits(t)'
<1>1. Idle \in OpRec /\ op' = [op EXCEPT ![t] = Idle] /\ op'[t] = Idle
  BY DEF DataInv, TablesFit, End, Idle, OpRec
<1>2. Idle.kind = "idle" /\ Idle.pc = "idle"
  BY DEF Idle
<1>3. op'[t].kind = "idle" /\ op'[t].pc = "idle"
  BY <1>1, <1>2
<1> QED
  BY <1>1, <1>3 DEF OpFits
LEMMA DataStep ==
  ASSUME DataInv, [Next]_vars
  PROVE  DataInv'
<1>1. ASSUME UNCHANGED <<listed, tables, op, ledger>> PROVE DataInv'
  BY <1>1 DEF DataInv, TablesFit, OpsFit, OpFits, UploadsStand, DeletionsStand, InTable, tables, ledger
<1>2. /\ listed \subseteq Stores /\ pgStores \subseteq Stores
      /\ docs \in [Stores -> Seq(Docs)] /\ rows \in [Stores -> SUBSET Paths]
      /\ op \in [Threads -> OpRec] /\ kept \subseteq Stores \X Docs /\ gone \subseteq Stores
  BY DEF DataInv, TablesFit
<1>3. ASSUME NEW t \in Threads PROVE OpFits(t)
  BY DEF DataInv, OpsFit
<1>4. ASSUME NEW t \in Threads, EnsureStore(t) PROVE DataInv'
  <2>1. op[t].store \in Stores
    BY <1>3, <1>4 DEF EnsureStore, At, OpFits
  <2>2. CASE up
    <3> DEFINE pc == After(op[t].kind)
    <3>1. /\ Go(t, pc) /\ pc \in {"check", "vectors"} /\ pgStores' \subseteq Stores
          /\ UNCHANGED <<listed, docs, rows, kept, gone>>
      BY <1>2, <1>4, <2>1, <2>2 DEF EnsureStore, After, ledger
    <3>2. op[t].kind # "delete" /\ (pc = "check" => op[t].kind = "upload")
      BY <1>3, <1>4 DEF EnsureStore, At, OpFits, After
    <3> HIDE DEF pc
    <3>3. PICK o \in OpRec : /\ o.kind = op[t].kind /\ o.pc = pc /\ o.store = op[t].store
                             /\ o.doc = op[t].doc
                             /\ op' = [op EXCEPT ![t] = o] /\ op'[t] = o
      BY <3>1, GoFits
    <3>4. OpFits(t)'
      BY <1>3, <2>1, <3>1, <3>2, <3>3 DEF OpFits
    <3> QED
      BY <1>2, <3>1, <3>3, <3>4, OpStep
  <2>3. CASE ~up
    <3>1. End(t) /\ UNCHANGED <<listed, pgStores, docs, rows, kept, gone>>
      BY <1>4, <2>3 DEF EnsureStore, ledger
    <3> QED
      BY <1>2, <3>1, EndFits, OpStep
  <2> QED
    BY <2>2, <2>3
<1>5. ASSUME NEW t \in Threads, CheckDuplicate(t) PROVE DataInv'
  <2>1. /\ UNCHANGED <<listed, pgStores, docs, rows, gone>>
        /\ op[t].kind = "upload" /\ op[t].store \in Stores
        /\ \A k \in kept' \ kept : k \in {op[t].store} \X InTable(op[t].store)
    BY <1>3, <1>5 DEF CheckDuplicate, At, OpFits, tables
  <2>4. \A k \in kept' \ kept : k \in Stores \X Docs /\ k[2] \in InTable(k[1])
    BY <1>2, <2>1 DEF InTable
  <2>2. CASE Go(t, "vectors")
    <3>1. PICK o \in OpRec : /\ o.kind = op[t].kind /\ o.pc = "vectors" /\ o.store = op[t].store
                             /\ o.doc = op[t].doc
                             /\ op' = [op EXCEPT ![t] = o] /\ op'[t] = o
      BY <2>2, GoFits
    <3>2. OpFits(t)'
      BY <1>3, <2>1, <3>1 DEF OpFits
    <3> QED
      BY <1>2, <2>1, <2>4, <3>1, <3>2, OpStep
  <2>3. CASE End(t)
    BY <1>2, <2>1, <2>3, <2>4, EndFits, OpStep
  <2> QED
    BY <1>5, <2>2, <2>3 DEF CheckDuplicate
<1>6. ASSUME NEW t \in Threads, ConnectVectors(t) \/ StepConnect(t) PROVE DataInv'
  BY <1>1, <1>6 DEF ConnectVectors, StepConnect
<1>7. ASSUME NEW t \in Threads, AddVector(t) PROVE DataInv'
  <2>1. /\ op[t].kind = "upload" /\ op[t].pc = "vectors" /\ Go(t, "docs")
        /\ UNCHANGED <<listed, pgStores, docs, kept, gone>>
    BY <1>7 DEF AddVector, At, ledger
  <2>2. op[t].store \in Stores /\ op[t].doc \in Docs
    BY <1>3, <2>1 DEF OpFits
  <2>3. /\ rows' \in [Stores -> SUBSET Paths]
        /\ \A s \in Stores : rows'[s] = rows[s] \/ (op[t].kind = "upload" /\ s = op[t].store)
    <3>1. PICK p \in Paths : p = PathOf[op[t].doc]
      BY <2>2 DEF Paths
    <3>2. rows' = [rows EXCEPT ![op[t].store] = @ \cup {p}] \/ rows' = rows
      BY <1>7, <3>1 DEF AddVector
    <3> QED
      BY <1>2, <2>1, <2>2, <3>2
  <2>4. PICK o \in OpRec : /\ o.kind = op[t].kind /\ o.pc = "docs" /\ o.store = op[t].store
                           /\ o.doc = op[t].doc
                           /\ op' = [op EXCEPT ![t] = o] /\ op'[t] = o
    BY <2>1, GoFits
  <2>5. OpFits(t)'
    BY <1>3, <2>1, <2>2, <2>4 DEF OpFits
  <2> QED
    BY <1>2, <2>1, <2>3, <2>4, <2>5, OpStep
<1>8. ASSUME NEW t \in Threads, QueryVectors(t) PROVE DataInv'
  <2>1. End(t) /\ UNCHANGED <<listed, pgStores, docs, rows, kept, gone>>
    BY <1>8 DEF QueryVectors, tables, ledger
  <2> QED
    BY <1>2, <2>1, EndFits, OpStep
<1>9. ASSUME NEW t \in Threads, DeleteVectors(t) PROVE DataInv'
  <2>1. /\ op[t].kind = "delete" /\ op[t].pc = "vectors" /\ End(t)
        /\ UNCHANGED <<listed, pgStores, docs, kept>>
    BY <1>9 DEF DeleteVectors, At
  <2>2. op[t].store \in Stores /\ docs[op[t].store] = <<>> /\ t = Loop
    BY <1>3, <2>1 DEF OpFits
  <2>3. CASE UNCHANGED <<rows, gone>>
    BY <1>2, <2>1, <2>3, EndFits, OpStep
  <2>4. CASE /\ rows' = [rows EXCEPT ![op[t].store] = {}]
             /\ gone' = gone \cup {op[t].store}
    <3>1. TablesFit' /\ UploadsStand'
      BY <1>2, <2>1, <2>2, <2>4, EndFits DEF TablesFit, DataInv, UploadsStand, InTable
    <3>2. DeletionsStand'
      BY <1>2, <2>1, <2>2, <2>4 DEF DataInv, DeletionsStand
    <3>3. OpsFit'
      <4> SUFFICES ASSUME NEW u \in Threads, u # t PROVE OpFits(u)'
        BY <2>1, EndFits DEF OpsFit
      <4>1. op'[u] = op[u] /\ OpFits(u) /\ op[u].kind \in {"idle", "search"}
        BY <1>2, <1>3, <2>1, <2>2, EndFits DEF OpFits
      <4> QED
        BY <4>1 DEF OpFits
    <3> QED
      BY <3>1, <3>2, <3>3 DEF DataInv
  <2> QED
    BY <1>9, <2>3, <2>4 DEF DeleteVectors
<1>10. ASSUME NEW t \in Threads, AddDoc(t) PROVE DataInv'
  <2> DEFINE s == op[t].store
             d == op[t].doc
  <2>1. /\ op[t].kind = "upload" /\ End(t) /\ t = Loop /\ s \in Stores /\ d \in Docs /\ s \notin gone
        /\ UNCHANGED <<listed, pgStores, rows, gone>>
    BY <1>3, <1>10 DEF AddDoc, At, OpFits
  <2>2. CASE UNCHANGED <<docs, kept>>
    BY <1>2, <2>1, <2>2, EndFits, OpStep
  <2>3. CASE docs' = [docs EXCEPT ![s] = Append(@, d)] /\ kept' = kept \cup {<<s, d>>}
    <3>1. TablesFit'
      <4>1. Append(docs[s], d) \in Seq(Docs)
        BY <1>2, <2>1
      <4>2. docs' \in [Stores -> Seq(Docs)] /\ kept' \subseteq Stores \X Docs
        BY <1>2, <2>1, <2>3, <4>1
      <4> QED
        BY <1>2, <2>1, <4>2, EndFits DEF TablesFit
    <3>2. UploadsStand'
      <4> SUFFICES ASSUME NEW k \in kept' PROVE k[2] \in InTable(k[1])'
        BY DEF UploadsStand
      <4>1. docs[s] \in Seq(Docs) /\ docs'[s] = Append(docs[s], d)
        BY <1>2, <2>1, <2>3
      <4>2. /\ \A i \in DOMAIN docs[s] : i \in DOMAIN docs'[s] /\ docs'[s][i] = docs[s][i]
            /\ Len(docs[s]) + 1 \in DOMAIN docs'[s] /\ docs'[s][Len(docs[s]) + 1] = d
        BY <2>1, <4>1
      <4>3. CASE k \in kept
        <5>1. k[1] \in Stores /\ k[2] \in InTable(k[1])
          BY <1>2, <4>3 DEF DataInv, UploadsStand
        <5>2. PICK i \in DOMAIN docs[k[1]] : docs[k[1]][i] = k[2]
          BY <5>1 DEF InTable
        <5>3. i \in DOMAIN docs'[k[1]] /\ docs'[k[1]][i] = k[2]
          BY <1>2, <2>3, <4>2, <5>1, <5>2
        <5> QED
          BY <5>3 DEF InTable
      <4>4. CASE k = <<s, d>>
        BY <4>2, <4>4 DEF InTable
      <4> QED
        BY <2>3, <4>3, <4>4
    <3>3. DeletionsStand'
      BY <1>2, <2>1, <2>3 DEF DataInv, DeletionsStand
    <3>4. OpsFit'
      <4> SUFFICES ASSUME NEW u \in Threads, u # t PROVE OpFits(u)'
        BY <2>1, EndFits DEF OpsFit
      <4>1. op'[u] = op[u] /\ OpFits(u) /\ op[u].kind \in {"idle", "search"}
        BY <1>2, <1>3, <2>1, EndFits DEF OpFits
      <4> QED
        BY <2>1, <4>1 DEF OpFits
    <3> QED
      BY <3>1, <3>2, <3>3, <3>4 DEF DataInv
  <2> QED
    BY <1>10, <2>2, <2>3 DEF AddDoc
<1>11. ASSUME NEW t \in Threads, DeleteDocs(t) PROVE DataInv'
  <2> DEFINE s == op[t].store
  <2>1. /\ op[t].kind = "delete" /\ t = Loop /\ s \in Stores /\ \A k \in kept : k[1] # s
        /\ UNCHANGED <<listed, rows, kept, gone>>
    BY <1>3, <1>11 DEF DeleteDocs, At, OpFits, ledger
  <2>2. CASE ~up
    <3>1. End(t) /\ UNCHANGED <<pgStores, docs>>
      BY <1>11, <2>2 DEF DeleteDocs
    <3> QED
      BY <1>2, <2>1, <3>1, EndFits, OpStep
  <2>3. CASE up
    <3>1. Go(t, "vectors") /\ pgStores' = pgStores \ {s} /\ docs' = [docs EXCEPT ![s] = <<>>]
      BY <1>11, <2>3 DEF DeleteDocs
    <3>2. PICK o \in OpRec : /\ o.kind = op[t].kind /\ o.pc = "vectors" /\ o.store = op[t].store
                             /\ o.doc = op[t].doc
                             /\ op' = [op EXCEPT ![t] = o] /\ op'[t] = o
      BY <3>1, GoFits
    <3>3. TablesFit'
      BY <1>2, <2>1, <3>1, <3>2 DEF TablesFit
    <3>4. UploadsStand'
      BY <1>2, <2>1, <3>1 DEF DataInv, UploadsStand, InTable
    <3>5. DeletionsStand'
      BY <1>2, <2>1, <3>1 DEF DataInv, DeletionsStand
    <3>6. OpFits(t)'
      BY <1>2, <1>3, <2>1, <3>1, <3>2 DEF OpFits
    <3>7. ASSUME NEW u \in Threads, u # t PROVE OpFits(u)'
      <4>1. op'[u] = op[u] /\ OpFits(u) /\ op[u].kind \in {"idle", "search"}
        BY <1>2, <1>3, <2>1, <3>2, <3>7 DEF OpFits
      <4> QED
        BY <2>1, <4>1 DEF OpFits
    <3> QED
      BY <3>3, <3>4, <3>5, <3>6, <3>7 DEF DataInv, OpsFit
  <2> QED
    BY <2>2, <2>3
<1>12. ASSUME NEW t \in Threads, NEW kind \in {"upload", "search"}, NEW s \in Stores,
              NEW d \in Docs \cup {""}, kind = "upload" => t = Loop /\ d \in Docs,
              Begin(t, kind, s, d)
       PROVE  DataInv'
  <2> DEFINE o == [kind |-> kind, store |-> s, doc |-> d,
                   pc |-> IF s \in listed THEN After(kind) ELSE "ensure"]
  <2>1. /\ op' = [op EXCEPT ![t] = o] /\ listed' = listed \cup {s}
        /\ UNCHANGED <<pgStores, docs, rows, kept>>
        /\ gone' = IF kind = "upload" THEN gone \ {s} ELSE gone
    BY <1>12 DEF Begin, tables
  <2>2. /\ o \in OpRec /\ o.kind = kind /\ o.store = s /\ o.doc = d
        /\ o.pc \in {"ensure", "check", "vectors"} /\ (o.pc = "check" => kind = "upload")
    BY <1>12 DEF OpRec, After
  <2> HIDE DEF o
  <2>3. op'[t] = o
    BY <1>2, <2>1
  <2>4. OpFits(t)'
    <3>1. op'[t].kind = kind /\ op'[t].store = s /\ op'[t].doc = d
          /\ op'[t].pc \in {"ensure", "check", "vectors"} /\ (op'[t].pc = "check" => kind = "upload")
      BY <2>2, <2>3
    <3>2. kind = "upload" => s \notin gone'
      BY <2>1
    <3> QED
      BY <1>12, <3>1, <3>2 DEF OpFits
  <2> QED
    BY <1>2, <1>12, <2>1, <2>2, <2>4, OpStep
<1>13. ASSUME NEW s \in Stores, BeginDelete(Loop, s) PROVE DataInv'
  <2> DEFINE o == [kind |-> "delete", store |-> s, doc |-> "", pc |-> "cascade"]
  <2>1. /\ op' = [op EXCEPT ![Loop] = o] /\ listed' = listed \ {s}
        /\ UNCHANGED <<pgStores, docs, rows, gone>>
        /\ kept' = {k \in kept : k[1] # s}
    BY <1>13 DEF BeginDelete, tables
  <2>2. /\ o \in OpRec /\ o.kind = "delete" /\ o.store = s /\ o.pc = "cascade"
    BY <1>13 DEF OpRec
  <2>3. Loop \in Threads
    BY BackendAssumption DEF BackendAssumption
  <2> HIDE DEF o
  <2>4. op'[Loop] = o
    BY <1>2, <2>1, <2>3
  <2>5. OpFits(Loop)'
    BY <1>13, <2>1, <2>2, <2>4 DEF OpFits
  <2> QED
    BY <1>2, <1>13, <2>1, <2>2, <2>3, <2>5, OpStep
<1>14. CASE Restart
  <2>1. listed' = pgStores /\ UNCHANGED <<pgStores, docs, rows, kept, gone>>
    BY <1>14 DEF Restart, tables, ledger
  <2>2. op' = [t \in Threads |-> Idle] /\ Idle \in OpRec
    BY <1>14 DEF Restart, Idle, OpRec
  <2>3. TablesFit' /\ UploadsStand' /\ DeletionsStand'
    BY <1>2, <2>1, <2>2 DEF TablesFit, DataInv, UploadsStand, DeletionsStand, InTable
  <2>4. OpsFit'
    BY <2>2 DEF OpsFit, OpFits, Idle
  <2> QED
    BY <2>3, <2>4 DEF DataInv
<1>15. CASE Tick \/ DatabaseChanges \/ UNCHANGED vars
  BY <1>1, <1>15 DEF Tick, DatabaseChanges, vars, tables, ledger
<1>16. ASSUME NEW t \in Searchers, Search(t) PROVE DataInv'
  <2>1. PICK s \in Stores : Begin(t, "search", s, "")
    BY <1>16 DEF Search
  <2> QED
    BY <1>12, <2>1 DEF Searchers
<1>17. ASSUME NEW s \in Stores, NEW d \in Offered, Begin(Loop, "upload", s, d) PROVE DataInv'
  BY <1>12, <1>17, BackendAssumption DEF BackendAssumption
<1>18. ASSUME NEW t \in Threads, Progress(t) PROVE DataInv'
  BY <1>4, <1>5, <1>6, <1>7, <1>8, <1>9, <1>10, <1>11, <1>18 DEF Progress
<1> QED
  BY <1>13, <1>14, <1>15, <1>16, <1>17, <1>18 DEF Next

\* A document whose upload succeeded is in the database until its store is
\* deleted, and a store whose deletion succeeded has nothing there until the next
\* upload, through all outages, restarts and states of the breaker (and every
\* variable holds a value of its kind).
THEOREM AcknowledgedStandsAlways == Spec => []AcknowledgedStands
<1>1. Init => DataInv /\ BreakerInv /\ BurstInv
  <2>1. Init => DataInv
    <3> SUFFICES ASSUME Init PROVE DataInv
      OBVIOUS
    <3>1. op = [t \in Threads |-> Idle] /\ Idle \in OpRec
      BY DEF Init, Idle, OpRec
    <3>2. /\ docs \in [Stores -> Seq(Docs)]
          /\ \A s \in Stores : InTable(s) \subseteq Docs
      BY BackendAssumption DEF Init, BackendAssumption, InTable
    <3>3. rows \in [Stores -> SUBSET Paths]
      <4>1. \A s \in Stores : {PathOf[d] : d \in InTable(s)} \in SUBSET Paths
        BY <3>2 DEF Paths
      <4> QED
        BY <4>1 DEF Init
    <3>5. pgStores \subseteq Stores /\ listed = pgStores /\ kept \subseteq Stores \X Docs /\ gone = {}
      BY DEF Init
    <3>6. TablesFit
      BY <3>1, <3>2, <3>3, <3>5 DEF TablesFit
    <3>7. UploadsStand /\ DeletionsStand
      BY DEF Init, UploadsStand, DeletionsStand
    <3>4. OpsFit
      BY <3>1 DEF OpsFit, OpFits, Idle
    <3> QED
      BY <3>4, <3>6, <3>7 DEF DataInv
  <2> QED
    BY <2>1, BreakerInitInv, CountAgain DEF Init, BreakerInit, BreakerInv
<1>2. DataInv /\ BreakerInv /\ BurstInv /\ [Next]_vars => DataInv' /\ BreakerInv' /\ BurstInv'
  BY BreakerStep, DataStep
<1>3. DataInv /\ BreakerInv => AcknowledgedStands
  BY DEF DataInv, BreakerInv, TablesFit, OpRec, AcknowledgedStands, TypeOK
<1> QED
  BY <1>1, <1>2, <1>3, PTL DEF Spec
===============================================================================
