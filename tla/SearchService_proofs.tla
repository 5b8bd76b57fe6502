------------------------- MODULE SearchService_proofs -------------------------
(***************************************************************************)
(* Theorems about SearchService, for every number of stores, queries and   *)
(* modes, every cache, clock and number of changes.                        *)
(***************************************************************************)
EXTENDS SearchService, FiniteSetTheorems, TLAPS

-------------------------------------------------------------------------------
(* Lemmas about the cache                                                  *)

Keys     == [query : Queries, store : Stores, mode : Modes \cup {"any"}]
Results  == [question : Questions, version : Nat \ {0}]
EntryRec == [key : Keys, result : Results, until : Int, age : Nat]

\* An entry but for its age.
SameBut(e, f) == e.key = f.key /\ e.result = f.result /\ e.until = f.until

KeysDiffer(C) == \A e, f \in C : e.key = f.key => e = f

LEMMA OneMore ==
  ASSUME NEW C, IsFiniteSet(C), NEW x
  PROVE  IsFiniteSet(C \cup {x}) /\ Cardinality(C \cup {x}) <= Cardinality(C) + 1
<1>1. Cardinality(C) \in Nat
  BY FS_CardinalityType
<1> QED
  BY <1>1, FS_AddElement

\* A question is cached under a key.
LEMMA KeyType ==
  ASSUME NEW backend, NEW question \in Questions
  PROVE  KeyOf(backend, question) \in Keys
BY DEF KeyOf, Questions, Keys

\* Ageing changes the age of the entries and nothing else.
LEMMA AgedProperties ==
  ASSUME NEW C, IsFiniteSet(C), C \subseteq EntryRec
  PROVE  /\ Aged(C) \subseteq EntryRec
         /\ \A e \in Aged(C) : \E f \in C : SameBut(e, f)
         /\ IsFiniteSet(Aged(C)) /\ Cardinality(Aged(C)) <= Cardinality(C)
         /\ KeysDiffer(C) => KeysDiffer(Aged(C))
<1> DEFINE older(e) == {f \in C : f.age < e.age}
           next(e) == [e EXCEPT !.age = 1 + Cardinality(older(e))]
<1>1. \A e \in C : Cardinality(older(e)) \in Nat
  <2> SUFFICES ASSUME NEW e \in C PROVE Cardinality(older(e)) \in Nat
    OBVIOUS
  <2>1. older(e) \in SUBSET C
    OBVIOUS
  <2> HIDE DEF older
  <2> QED
    BY <2>1, FS_Subset, FS_CardinalityType
<1>2. Aged(C) = {next(e) : e \in C}
  BY DEF Aged
<1> HIDE DEF older
<1>3. \A e \in C : next(e) \in EntryRec /\ SameBut(next(e), e)
  BY <1>1 DEF EntryRec, SameBut
<1> HIDE DEF next
<1>4. IsFiniteSet(Aged(C)) /\ Cardinality(Aged(C)) <= Cardinality(C)
  <2> DEFINE g == [e \in C |-> next(e)]
  <2>1. g \in Surjection(C, Aged(C))
    BY <1>2 DEF Surjection
  <2> HIDE DEF g
  <2> QED
    BY <2>1, FS_Surjection
<1>5. ASSUME KeysDiffer(C), NEW a \in Aged(C), NEW b \in Aged(C), a.key = b.key PROVE a = b
  <2>1. PICK e \in C : a = next(e)
    BY <1>2
  <2>2. PICK f \in C : b = next(f)
    BY <1>2
  <2>3. e.key = f.key
    BY <1>3, <1>5, <2>1, <2>2 DEF SameBut
  <2> QED
    BY <1>5, <2>1, <2>2, <2>3 DEF KeysDiffer
<1> QED
  BY <1>2, <1>3, <1>4, <1>5 DEF KeysDiffer

\* A set of finite sets that is not empty has a smallest member.
LEMMA LeastSubset ==
  ASSUME NEW S, IsFiniteSet(S), NEW T \in SUBSET SUBSET S, T # {}
  PROVE  \E u \in T : \A v \in T : v \subseteq u => v = u
<1>1. FiniteSubsetsOf(S) = SUBSET S
  BY FS_FiniteSubsetsOfFinite
<1>2. IsWellFoundedOn(StrictSubsetOrdering(S), SUBSET S)
  BY <1>1, FS_StrictSubsetOrderingWellFounded
<1>3. \E u \in T : \A v \in T : ~(<<v, u>> \in StrictSubsetOrdering(S))
  BY <1>2, WFMin
<1> QED
  BY <1>3 DEF StrictSubsetOrdering

\* A cache that is not empty has a least recently used entry.
LEMMA LeastRecentIn ==
  ASSUME NEW C, IsFiniteSet(C), C \subseteq EntryRec, C # {}
  PROVE  LeastRecent(C) \in C
<1> DEFINE Oldest(v) == \E e \in v : \A f \in v : f.age <= e.age
           Bad == {v \in SUBSET C : v # {} /\ ~Oldest(v)}
<1>1. Bad = {}
  <2> SUFFICES ASSUME Bad # {} PROVE FALSE
    OBVIOUS
  <2>1. PICK v \in Bad : \A w \in Bad : w \subseteq v => w = v
    <3>1. Bad \in SUBSET SUBSET C
      OBVIOUS
    <3> HIDE DEF Bad
    <3> QED
      BY <3>1, LeastSubset
  <2>2. PICK x \in v : TRUE
    OBVIOUS
  <2>3. \A e \in v : e.age \in Nat
    BY DEF EntryRec
  <2> DEFINE w == v \ {x}
  <2>4. w \notin Bad
    BY <2>1, <2>2
  <2>5. CASE w = {}
    BY <2>2, <2>3, <2>5
  <2>6. CASE w # {}
    <3>1. PICK m \in w : \A f \in w : f.age <= m.age
      BY <2>4, <2>6
    <3>2. CASE x.age <= m.age
      BY <3>1, <3>2
    <3>3. CASE ~(x.age <= m.age)
      <4>1. \A f \in v : f.age <= x.age
        BY <2>2, <2>3, <3>1, <3>3
      <4> QED
        BY <2>2, <4>1
    <3> QED
      BY <3>2, <3>3
  <2> QED
    BY <2>5, <2>6
<1>2. Oldest(C)
  BY <1>1
<1> QED
  BY <1>2 DEF LeastRecent

\* A lookup keeps the entries of a cache.
LEMMA TouchProperties ==
  ASSUME NEW C, IsFiniteSet(C), C \subseteq EntryRec, KeysDiffer(C),
         NEW key, \E e \in C : e.key = key
  PROVE  /\ Touch(C, key) \subseteq EntryRec
         /\ \A e \in Touch(C, key) : \E f \in C : SameBut(e, f)
         /\ IsFiniteSet(Touch(C, key)) /\ Cardinality(Touch(C, key)) <= Cardinality(C)
         /\ KeysDiffer(Touch(C, key))
<1> DEFINE x == Entry(C, key)
           r == Without(C, key)
           y == [x EXCEPT !.age = 0]
<1>1. x \in C /\ x.key = key
  BY DEF Entry
<1>2. r = C \ {x}
  BY <1>1 DEF Without, KeysDiffer
<1>3. IsFiniteSet(r) /\ Cardinality(r) = Cardinality(C) - 1 /\ r \subseteq EntryRec
  BY <1>1, <1>2, FS_RemoveElement
<1>4. KeysDiffer(r) /\ \A e \in r : e.key # key
  BY DEF KeysDiffer, Without
<1>5. y \in EntryRec /\ SameBut(y, x)
  BY <1>1 DEF EntryRec, SameBut
<1>6. Touch(C, key) = Aged(r) \cup {y}
  BY DEF Touch
<1> HIDE DEF x, r, y
<1>7. /\ Aged(r) \subseteq EntryRec
      /\ \A e \in Aged(r) : \E f \in r : SameBut(e, f)
      /\ IsFiniteSet(Aged(r)) /\ Cardinality(Aged(r)) <= Cardinality(r)
      /\ KeysDiffer(Aged(r))
  BY <1>3, <1>4, AgedProperties
<1>8. IsFiniteSet(Touch(C, key)) /\ Cardinality(Touch(C, key)) <= Cardinality(C)
  <2>1. /\ IsFiniteSet(Aged(r) \cup {y})
        /\ Cardinality(Aged(r) \cup {y}) <= Cardinality(Aged(r)) + 1
    BY <1>7, OneMore
  <2>2. Cardinality(Aged(r)) \in Nat /\ Cardinality(r) \in Nat /\ Cardinality(C) \in Nat
        /\ Cardinality(Aged(r) \cup {y}) \in Nat
    BY <1>3, <1>7, <2>1, FS_CardinalityType
  <2> QED
    BY <1>3, <1>6, <1>7, <2>1, <2>2
<1>9. \A e \in Aged(r) : e.key # y.key
  BY <1>1, <1>4, <1>5, <1>7 DEF SameBut
<1>10. KeysDiffer(Touch(C, key))
  BY <1>6, <1>7, <1>9 DEF KeysDiffer
<1>11. \A e \in Touch(C, key) : \E f \in C : SameBut(e, f)
  BY <1>1, <1>2, <1>5, <1>6, <1>7
<1> QED
  BY <1>5, <1>6, <1>7, <1>8, <1>10, <1>11

\* An answer put into a cache is added to what was there, and the in-memory cache
\* stays within its size.
LEMMA PutProperties ==
  ASSUME NEW C, IsFiniteSet(C), C \subseteq EntryRec, KeysDiffer(C), NEW backend,
         backend = "memory" => Cardinality(C) <= CacheMax,
         NEW key \in Keys, NEW result \in Results, NEW now \in Nat
  PROVE  LET P == Put(backend, C, key, result, now) IN
         /\ P \subseteq EntryRec
         /\ \A e \in P : \/ \E f \in C : SameBut(e, f)
                         \/ e = [key |-> key, result |-> result, until |-> now + TTL, age |-> 0]
         /\ IsFiniteSet(P) /\ (backend = "memory" => Cardinality(P) <= CacheMax)
         /\ KeysDiffer(P)
<1> DEFINE r == Without(Live(C, now), key)
           k == IF backend = "memory" /\ Cardinality(r) >= CacheMax
                THEN r \ {LeastRecent(r)} ELSE r
           y == [key |-> key, result |-> result, until |-> now + TTL, age |-> 0]
<1>0. CacheMax \in Nat \ {0} /\ TTL \in Nat
  BY CacheAssumption DEF CacheAssumption
<1>1. r \subseteq C /\ \A e \in r : e.key # key
  BY DEF Without, Live
<1>2. y \in EntryRec /\ y.key = key
  BY <1>0 DEF EntryRec
<1>3. Put(backend, C, key, result, now) = Aged(k) \cup {y}
  BY DEF Put
<1> HIDE DEF r, y
<1>4. IsFiniteSet(r) /\ Cardinality(r) <= Cardinality(C) /\ Cardinality(r) \in Nat
      /\ Cardinality(C) \in Nat
  BY <1>1, FS_Subset, FS_CardinalityType
<1>5. k \subseteq r /\ IsFiniteSet(k) /\ Cardinality(k) \in Nat
      /\ (backend = "memory" => Cardinality(k) + 1 <= CacheMax)
  <2>1. CASE backend = "memory" /\ Cardinality(r) >= CacheMax
    <3>1. r # {}
      BY <1>0, <1>4, <2>1, FS_EmptySet
    <3>2. LeastRecent(r) \in r
      BY <1>1, <1>4, <3>1, LeastRecentIn
    <3>3. k = r \ {LeastRecent(r)}
      BY <2>1
    <3>4. IsFiniteSet(k) /\ Cardinality(k) = Cardinality(r) - 1
      BY <1>4, <3>2, <3>3, FS_RemoveElement
    <3> HIDE DEF k
    <3> QED
      BY <1>0, <1>4, <2>1, <3>3, <3>4, FS_CardinalityType
  <2>2. CASE ~(backend = "memory" /\ Cardinality(r) >= CacheMax)
    <3>1. k = r
      BY <2>2
    <3> HIDE DEF k
    <3> QED
      BY <1>0, <1>4, <2>2, <3>1
  <2> QED
    BY <2>1, <2>2
<1> HIDE DEF k
<1>6. KeysDiffer(k) /\ k \subseteq EntryRec
  BY <1>1, <1>5 DEF KeysDiffer
<1>7. /\ Aged(k) \subseteq EntryRec
      /\ \A e \in Aged(k) : \E f \in k : SameBut(e, f)
      /\ IsFiniteSet(Aged(k)) /\ Cardinality(Aged(k)) <= Cardinality(k)
      /\ KeysDiffer(Aged(k))
  BY <1>5, <1>6, AgedProperties
<1>8. /\ IsFiniteSet(Aged(k) \cup {y})
      /\ backend = "memory" => Cardinality(Aged(k) \cup {y}) <= CacheMax
  <2>1. /\ IsFiniteSet(Aged(k) \cup {y})
        /\ Cardinality(Aged(k) \cup {y}) <= Cardinality(Aged(k)) + 1
    BY <1>7, OneMore
  <2>2. Cardinality(Aged(k)) \in Nat /\ Cardinality(Aged(k) \cup {y}) \in Nat
    BY <1>7, <2>1, FS_CardinalityType
  <2> QED
    BY <1>0, <1>5, <1>7, <2>1, <2>2
<1>9. \A e \in Aged(k) : e.key # y.key
  BY <1>1, <1>2, <1>5, <1>7 DEF SameBut
<1>10. KeysDiffer(Aged(k) \cup {y})
  BY <1>7, <1>9 DEF KeysDiffer
<1>11. \A e \in Aged(k) \cup {y} : (\E f \in C : SameBut(e, f)) \/ e = y
  BY <1>1, <1>5, <1>7
<1>12. y = [key |-> key, result |-> result, until |-> now + TTL, age |-> 0]
  BY DEF y
<1> QED
  BY <1>2, <1>3, <1>7, <1>8, <1>10, <1>11, <1>12

-------------------------------------------------------------------------------
(* Lemmas about the order of a batch                                       *)

Ask == [query : Queries, store : Stores, priority : Int]

\* A query with another before it has a later place than that one.
LEMMA RankOrders ==
  ASSUME NEW q \in Seq(Ask)
  PROVE  /\ \A i \in DOMAIN q : Rank(q, i) \in 1..Len(q)
         /\ \A i, j \in DOMAIN q : Before(q, i, j) => Rank(q, i) < Rank(q, j)
         /\ \A i, j \in DOMAIN q : i # j => Before(q, i, j) \/ Before(q, j, i)
<1> DEFINE n == Len(q)
           first(i) == {j \in DOMAIN q : Before(q, j, i)}
<1>1. n \in Nat /\ DOMAIN q = 1..n
  OBVIOUS
<1>2. \A i \in 1..n : q[i].priority \in Int
  <2>1. \A i \in 1..n : q[i] \in Ask
    OBVIOUS
  <2> QED
    BY <2>1 DEF Ask
<1>3. IsFiniteSet(1..n) /\ Cardinality(1..n) = n
  BY <1>1, FS_Interval
<1>4. \A i \in 1..n : first(i) \in SUBSET (1..n) /\ i \notin first(i)
  BY <1>2 DEF Before
<1>5. \A i \in 1..n : Rank(q, i) = 1 + Cardinality(first(i))
  BY DEF Rank
<1>6. \A i, j \in 1..n : Before(q, i, j) => i \in first(j) /\ first(i) \subseteq first(j)
  <2> SUFFICES ASSUME NEW i \in 1..n, NEW j \in 1..n, Before(q, i, j),
                      NEW k \in first(i)
               PROVE  Before(q, k, j)
    BY <1>1
  <2>1. k \in 1..n /\ Before(q, k, i)
    BY <1>1
  <2> QED
    BY <1>2, <2>1 DEF Before
<1>7. \A i, j \in 1..n : i # j => Before(q, i, j) \/ Before(q, j, i)
  BY <1>2 DEF Before
<1> HIDE DEF n, first
<1>8. ASSUME NEW i \in 1..n PROVE Cardinality(first(i)) \in Nat /\ Rank(q, i) \in 1..n
  <2>1. IsFiniteSet(first(i)) /\ Cardinality(first(i)) \in Nat /\ Cardinality(first(i)) <= n
        /\ Cardinality(first(i)) # n
    BY <1>3, <1>4, FS_Subset, FS_CardinalityType
  <2> QED
    BY <1>1, <1>5, <2>1
<1>9. ASSUME NEW i \in 1..n, NEW j \in 1..n, Before(q, i, j) PROVE Rank(q, i) < Rank(q, j)
  <2>1. first(i) \in SUBSET first(j) /\ first(i) # first(j)
    BY <1>4, <1>6, <1>9
  <2>2. IsFiniteSet(first(j))
    BY <1>3, <1>4, FS_Subset
  <2>3. Cardinality(first(i)) <= Cardinality(first(j)) /\ Cardinality(first(i)) # Cardinality(first(j))
    BY <2>1, <2>2, FS_Subset
  <2> QED
    BY <1>5, <1>8, <2>3
<1> QED
  BY <1>1, <1>7, <1>8, <1>9

\* Sorting yields a list of queries of the same length.
LEMMA SortedProperties ==
  ASSUME NEW q \in Seq(Ask)
  PROVE  Sorted(q) \in Seq(Ask) /\ DOMAIN Sorted(q) = DOMAIN q
<1> DEFINE n == Len(q)
           R == [i \in 1..n |-> Rank(q, i)]
           p == [k \in 1..n |-> CHOOSE i \in DOMAIN q : Rank(q, i) = k]
<1>1. n \in Nat /\ DOMAIN q = 1..n
  OBVIOUS
<1>2. R \in Injection(1..n, 1..n)
  <2>1. R \in [1..n -> 1..n]
    BY <1>1, RankOrders
  <2>2. \A i, j \in 1..n : R[i] = R[j] => i = j
    <3> SUFFICES ASSUME NEW i \in 1..n, NEW j \in 1..n, Rank(q, i) = Rank(q, j), i # j
                 PROVE  FALSE
      OBVIOUS
    <3>1. Rank(q, i) < Rank(q, j) \/ Rank(q, j) < Rank(q, i)
      BY <1>1, RankOrders
    <3>2. Rank(q, i) \in 1..n
      BY <1>1, RankOrders
    <3> QED
      BY <3>1, <3>2
  <2> HIDE DEF R
  <2> QED
    BY <2>1, <2>2 DEF Injection, IsInjective
<1>3. R \in Surjection(1..n, 1..n)
  <2>1. IsFiniteSet(1..n)
    BY <1>1, FS_Interval
  <2> HIDE DEF R
  <2> QED
    BY <1>2, <2>1, FS_Injection
<1>4. \A k \in 1..n : \E i \in 1..n : Rank(q, i) = k
  BY <1>3 DEF Surjection
<1>5. \A k \in 1..n : p[k] \in 1..n /\ Rank(q, p[k]) = k
  BY <1>1, <1>4
<1>6. Sorted(q) = [k \in 1..n |-> q[p[k]]]
  BY DEF Sorted
<1> HIDE DEF p
<1>8. \A k \in 1..n : q[p[k]] \in Ask
  BY <1>1, <1>5
<1>7. Sorted(q) \in Seq(Ask) /\ DOMAIN Sorted(q) = 1..n
  BY <1>1, <1>6, <1>8
<1> QED
  BY <1>1, <1>7

-------------------------------------------------------------------------------
(* Versions                                                                *)

Versions == 0..MaxChanges
Missed   == {s \in Stores : content[s] = 0}

\* Each store has its own versions, drawn from a counter that leaves room for
\* the stores a search may create.
VersionsInv ==
  /\ conf \in Configs
  /\ content \in [Stores -> Versions] /\ made \in Versions
  /\ gone \in [1..MaxChanges -> 0..MaxClock] /\ clock \in 0..MaxClock
  /\ Room >= 0
  /\ \A s \in Stores : content[s] <= made
  /\ \A s, t \in Stores : content[s] # 0 /\ content[s] = content[t] => s = t

\* What a step may do to the stores.
StoresStep ==
  \/ KeepStores
  \/ \E s \in Stores : Change(s, TRUE) /\ (content[s] = 0 \/ Room > 0)
  \/ \E s \in Stores : Change(s, FALSE) /\ content[s] # 0 /\ Room > 0

\* A search that succeeded found a version of the store it asked.
Derived(r) ==
  /\ r.question.store \in Stores /\ r.version \in 1..made
  /\ \A t \in Stores : content[t] = r.version => t = r.question.store

\* The store has nothing older than the version.
NotOlder(r) == content[r.question.store] = 0 \/ r.version <= content[r.question.store]

\* The version was the store's at some time from that time on.
TrueSince(r, time) == content[r.question.store] = r.version \/ gone[r.version] >= time

LEMMA Bounds ==
  /\ MaxChanges \in Nat /\ MaxClock \in Nat /\ TTL \in Nat \ {0} /\ Handshake \in Nat
  /\ MaxChunks \in Nat /\ IsFiniteSet(Stores)
BY ServiceAssumption, CacheAssumption DEF ServiceAssumption, CacheAssumption

LEMMA MissedCount ==
  ASSUME NEW M \in SUBSET Stores
  PROVE  /\ IsFiniteSet(M) /\ Cardinality(M) \in Nat
         /\ \A s \in M : Cardinality(M \ {s}) = Cardinality(M) - 1
         /\ \A s \in Stores \ M : Cardinality(M \cup {s}) = Cardinality(M) + 1
<1>1. IsFiniteSet(M)
  BY Bounds, FS_Subset
<1>2. Cardinality(M) \in Nat
  BY <1>1, FS_CardinalityType
<1> QED
  BY <1>1, <1>2, FS_RemoveElement, FS_AddElement

\* Versions stay within their bound, for a search finds room left for its store.
LEMMA VersionsStep ==
  ASSUME VersionsInv, StoresStep, conf' = conf, clock' \in 0..MaxClock
  PROVE  VersionsInv'
<1> DEFINE M == Missed
<1>1. M \in SUBSET Stores /\ Room = MaxChanges - made - Cardinality(M)
  BY DEF Missed, Room
<1>2. Cardinality(M) \in Nat /\ made \in Nat /\ MaxChanges \in Nat
      /\ made + Cardinality(M) <= MaxChanges
  BY <1>1, MissedCount, Bounds DEF VersionsInv, Versions
<1>3. CASE KeepStores
  BY <1>3 DEF KeepStores, VersionsInv, Room
<1>4. ASSUME NEW s \in Stores, Change(s, TRUE), content[s] = 0 \/ Room > 0
      PROVE  VersionsInv'
  <2>1. /\ content' = [content EXCEPT ![s] = made + 1] /\ made' = made + 1
        /\ gone' = IF content[s] = 0 THEN gone ELSE [gone EXCEPT ![content[s]] = clock]
    BY <1>4 DEF Change
  <2>2. Missed' = M \ {s}
    BY <1>2, <2>1 DEF Missed, VersionsInv
  <2>3. Cardinality(Missed') = IF content[s] = 0 THEN Cardinality(M) - 1 ELSE Cardinality(M)
    <3>1. CASE content[s] = 0
      <4>1. s \in M
        BY <3>1 DEF Missed
      <4> HIDE DEF M
      <4> QED
        BY <1>1, <2>2, <3>1, <4>1, MissedCount
    <3>2. CASE content[s] # 0
      <4>1. M \ {s} = M
        BY <3>2 DEF Missed
      <4> QED
        BY <2>2, <3>2, <4>1
    <3> QED
      BY <3>1, <3>2
  <2> HIDE DEF M
  <2>4. content[s] = 0 => Cardinality(M) >= 1
    <3>1. Cardinality(Missed') \in Nat
      BY <1>1, <2>2, MissedCount
    <3> QED
      BY <1>2, <2>3, <3>1
  <2>5. made + 1 <= MaxChanges /\ made + 1 + Cardinality(Missed') <= MaxChanges
    BY <1>1, <1>2, <1>4, <2>3, <2>4
  <2>6. Room' >= 0
    <3>1. Room' = MaxChanges - made' - Cardinality(Missed')
      BY DEF Room, Missed
    <3>2. Cardinality(Missed') \in Nat
      BY <1>1, <2>2, MissedCount
    <3> QED
      BY <1>2, <2>1, <2>5, <3>1, <3>2
  <2>7. content' \in [Stores -> Versions] /\ made' \in Versions
    BY <1>2, <2>1, <2>5 DEF VersionsInv, Versions
  <2>8. gone' \in [1..MaxChanges -> 0..MaxClock]
    BY <2>1 DEF VersionsInv
  <2>9. \A t \in Stores : content'[t] <= made'
    BY <1>2, <2>1 DEF VersionsInv, Versions
  <2>10. \A t, u \in Stores : content'[t] # 0 /\ content'[t] = content'[u] => t = u
    <3>1. \A t \in Stores : content[t] # made + 1
      BY <1>2 DEF VersionsInv, Versions
    <3> QED
      BY <2>1, <3>1 DEF VersionsInv
  <2> QED
    BY <2>6, <2>7, <2>8, <2>9, <2>10 DEF VersionsInv
<1>5. ASSUME NEW s \in Stores, Change(s, FALSE), content[s] # 0, Room > 0
      PROVE  VersionsInv'
  <2>1. /\ content' = [content EXCEPT ![s] = 0] /\ made' = made
        /\ gone' = [gone EXCEPT ![content[s]] = clock]
    BY <1>5 DEF Change
  <2>2. Missed' = M \cup {s} /\ s \notin M
    BY <1>5, <2>1 DEF Missed, VersionsInv
  <2> HIDE DEF M
  <2>3. Cardinality(Missed') = Cardinality(M) + 1
    BY <1>1, <2>2, MissedCount
  <2>4. Room' >= 0
    <3>1. Room' = MaxChanges - made' - Cardinality(Missed')
      BY DEF Room, Missed
    <3> QED
      BY <1>1, <1>2, <1>5, <2>1, <2>3, <3>1
  <2>5. content' \in [Stores -> Versions] /\ made' \in Versions
    BY <2>1, Bounds DEF VersionsInv, Versions
  <2>6. gone' \in [1..MaxChanges -> 0..MaxClock]
    BY <2>1 DEF VersionsInv
  <2>7. \A t \in Stores : content'[t] <= made'
    BY <1>2, <2>1 DEF VersionsInv
  <2>8. \A t, u \in Stores : content'[t] # 0 /\ content'[t] = content'[u] => t = u
    BY <2>1 DEF VersionsInv
  <2> QED
    BY <2>4, <2>5, <2>6, <2>7, <2>8 DEF VersionsInv
<1> QED
  BY <1>3, <1>4, <1>5 DEF StoresStep

\* What an answer was computed from stays what it was.
LEMMA DerivedStays ==
  ASSUME VersionsInv, StoresStep, NEW r, Derived(r)
  PROVE  /\ Derived(r)' /\ (NotOlder(r) => NotOlder(r)')
         /\ \A time \in Int : time <= clock /\ TrueSince(r, time) => TrueSince(r, time)'
<1>0. made \in Nat /\ clock \in Nat /\ r.version \in 1..MaxChanges /\ r.version # 0
  BY Bounds DEF VersionsInv, Versions, Derived
<1>1. CASE KeepStores
  BY <1>1 DEF KeepStores, Derived, TrueSince, NotOlder
<1>2. ASSUME NEW s \in Stores, NEW new \in BOOLEAN, Change(s, new), new \/ content[s] # 0
      PROVE  /\ Derived(r)' /\ (NotOlder(r) => NotOlder(r)')
             /\ \A time \in Int : time <= clock /\ TrueSince(r, time) => TrueSince(r, time)'
  <2>1. /\ content' = [content EXCEPT ![s] = IF new THEN made + 1 ELSE 0]
        /\ made' = IF new THEN made + 1 ELSE made
        /\ gone' = IF content[s] = 0 THEN gone ELSE [gone EXCEPT ![content[s]] = clock]
    BY <1>2 DEF Change
  <2>2. \A t \in Stores : content'[t] = IF t = s THEN (IF new THEN made + 1 ELSE 0) ELSE content[t]
    BY <2>1 DEF VersionsInv
  <2>3. r.version <= made /\ r.version \in 1..made'
    BY <1>0, <2>1 DEF Derived
  <2>4. Derived(r)'
    BY <1>0, <2>2, <2>3 DEF Derived
  <2>6. NotOlder(r) => NotOlder(r)'
    BY <1>0, <2>2, <2>3 DEF NotOlder, Derived
  <2>5. ASSUME NEW time \in Int, time <= clock, TrueSince(r, time) PROVE TrueSince(r, time)'
    <3>1. CASE content[s] = r.version
      <4>1. gone'[r.version] = clock
        BY <1>0, <2>1, <3>1 DEF VersionsInv
      <4> QED
        BY <2>5, <4>1 DEF TrueSince
    <3>2. CASE content[s] # r.version
      <4>1. gone'[r.version] = gone[r.version]
        BY <1>0, <2>1, <3>2 DEF VersionsInv, Versions
      <4>2. content[r.question.store] = r.version => content'[r.question.store] = r.version
        BY <2>2, <3>2 DEF Derived
      <4> QED
        BY <2>5, <4>1, <4>2 DEF TrueSince
    <3> QED
      BY <3>1, <3>2
  <2> QED
    BY <2>4, <2>5, <2>6
<1> QED
  BY <1>1, <1>2 DEF StoresStep

\* What a search finds is the version its store has when it answers.
LEMMA OutcomesDerived ==
  ASSUME VersionsInv, UNCHANGED <<conf, clock>>,
         NEW question, question.store \in Stores, EnsureStore(question.store)
  PROVE  /\ StoresStep
         /\ \A result \in Outcomes(question) :
              result.question = question /\ (~Failed(result) =>
                /\ Derived(result)'
                /\ result = [question |-> question, version |-> content'[question.store]]
                /\ result.version \in Nat \ {0})
<1> DEFINE s == question.store
<1>1. StoresStep
  BY DEF EnsureStore, StoresStep
<1>2. VersionsInv'
  BY <1>1, VersionsStep DEF VersionsInv
<1>3. ASSUME NEW result \in Outcomes(question)
      PROVE  \/ result = [question |-> question, version |-> 0]
             \/ result = [question |-> question, version |-> content'[s]]
  BY <1>3 DEF Outcomes, Failure, Found
<1>4. content'[s] \in Nat /\ content'[s] <= made' /\ made' \in Nat
  BY <1>2, Bounds DEF VersionsInv, Versions
<1>5. content'[s] # 0 => \A t \in Stores : content'[t] = content'[s] => t = s
  BY <1>2 DEF VersionsInv
<1>6. ASSUME NEW result \in Outcomes(question), ~Failed(result)
      PROVE  /\ Derived(result)'
             /\ result = [question |-> question, version |-> content'[s]]
             /\ result.version \in Nat \ {0}
  <2>1. result = [question |-> question, version |-> content'[s]] /\ content'[s] # 0
    BY <1>3, <1>6 DEF Failed
  <2> QED
    BY <1>4, <1>5, <2>1 DEF Derived
<1> QED
  BY <1>1, <1>3, <1>6

-------------------------------------------------------------------------------
(* The cache                                                               *)

\* An entry answers its key, and what it says was true of the store when it was
\* put into the cache, TTL before it expires.
EntrySound(e) ==
  /\ e \in EntryRec /\ Derived(e.result)
  /\ e.key = KeyOf(conf.backend, e.result.question)
  /\ e.until \in 1..(MaxClock + TTL) /\ e.until <= clock + TTL
  /\ TrueSince(e.result, e.until - TTL)

CacheInv ==
  /\ IsFiniteSet(cache) /\ KeysDiffer(cache)
  /\ conf.backend = "memory" => Cardinality(cache) <= CacheMax
  /\ \A e \in cache : EntrySound(e)

\* What a step of the stores or of the clock leaves alone.
Passes == StoresStep /\ conf' = conf /\ clock' \in 0..MaxClock /\ clock <= clock'

LEMMA EntryStays ==
  ASSUME VersionsInv, Passes, NEW e, EntrySound(e)
  PROVE  EntrySound(e)'
<1> DEFINE r == e.result
           time == e.until - TTL
<1>1. time \in Int /\ time <= clock /\ clock \in Nat /\ clock' \in Nat
  BY Bounds DEF EntrySound, Passes, VersionsInv
<1>2. Derived(r) /\ TrueSince(r, time)
  BY DEF EntrySound
<1>3. Derived(r)' /\ TrueSince(r, time)'
  <2> HIDE DEF r, time
  <2> QED
    BY <1>1, <1>2, DerivedStays DEF Passes
<1>4. e.until <= clock' + TTL
  BY <1>1, Bounds DEF Passes, EntrySound
<1> QED
  BY <1>3, <1>4 DEF EntrySound, Passes

\* An entry is sound whatever its age.
LEMMA AgeIsNothing ==
  ASSUME NEW e, NEW f, EntrySound(f), SameBut(e, f), e \in EntryRec
  PROVE  EntrySound(e)
BY DEF EntrySound, SameBut

LEMMA CacheStays ==
  ASSUME VersionsInv, CacheInv, Passes, cache' = cache \/ cache' = {}
  PROVE  CacheInv'
<1>1. CASE cache' = cache
  <2>1. \A e \in cache' : EntrySound(e)'
    BY <1>1, EntryStays DEF CacheInv
  <2> QED
    BY <1>1, <2>1 DEF CacheInv, Passes
<1>2. CASE cache' = {}
  BY <1>2, FS_EmptySet, CacheAssumption DEF CacheInv, KeysDiffer, CacheAssumption
<1> QED
  BY <1>1, <1>2

\* A hit answers the key, with contents that are not older than the cache allows.
LEMMA HitStep ==
  ASSUME VersionsInv, CacheInv, NEW question \in Questions, SearchHit(question)
  PROVE  /\ CacheInv'
         /\ \E r : /\ reply' = Answer(question, 200, r) /\ Derived(r)'
                   /\ TrueSince(r, clock - TTL + 1)'
                   /\ conf.backend = "memory" => r.question = question
<1>1. Passes
  BY DEF SearchHit, Passes, StoresStep, VersionsInv
<1>2. PICK key : key = KeyOf(conf.backend, question)
  OBVIOUS
<1>3. /\ Holds(cache, key, clock)
      /\ cache' = IF conf.backend = "memory" THEN Touch(cache, key) ELSE cache
      /\ reply' = Answer(question, 200, Entry(cache, key).result)
  BY <1>2 DEF SearchHit
<1>4. cache \subseteq EntryRec
  BY DEF CacheInv, EntrySound
<1>5. PICK e \in cache : e.key = key /\ clock < e.until
  BY <1>3 DEF Holds
<1>6. Entry(cache, key) = e
  <2>1. Entry(cache, key) \in cache /\ Entry(cache, key).key = key
    BY <1>5 DEF Entry
  <2> QED
    BY <1>5, <2>1 DEF CacheInv, KeysDiffer
<1>7. EntrySound(e) /\ EntrySound(e)'
  BY <1>1, EntryStays DEF CacheInv
<1>8. TrueSince(e.result, clock - TTL + 1)'
  <2>1. clock' = clock /\ clock \in Nat /\ gone' \in [1..MaxChanges -> 0..MaxClock]
    BY Bounds DEF SearchHit, KeepStores, VersionsInv
  <2>2. e.until - TTL >= clock' - TTL + 1
    BY <1>5, <1>7, <2>1, Bounds DEF EntrySound
  <2>3. e.result.version \in 1..MaxChanges
    BY <1>7, Bounds DEF EntrySound, Derived, VersionsInv, Versions
  <2>4. gone'[e.result.version] \in Nat
    BY <2>1, <2>3, Bounds
  <2>5. e.until \in Int
    BY <1>7 DEF EntrySound
  <2> QED
    BY <1>7, <2>1, <2>2, <2>4, <2>5, Bounds DEF EntrySound, TrueSince
<1>9. conf.backend = "memory" => e.result.question = question
  BY <1>2, <1>5, <1>7 DEF EntrySound, KeyOf
<1>10. CacheInv'
  <2>1. CASE conf.backend = "memory"
    <3> DEFINE T == Touch(cache, key)
    <3>1. /\ T \subseteq EntryRec /\ \A a \in T : \E b \in cache : SameBut(a, b)
          /\ IsFiniteSet(T) /\ Cardinality(T) <= Cardinality(cache) /\ KeysDiffer(T)
      BY <1>4, <1>5, TouchProperties DEF CacheInv
    <3>2. cache' = T
      BY <1>3, <2>1
    <3> HIDE DEF T
    <3>3. ASSUME NEW a \in T PROVE EntrySound(a)'
      <4>1. PICK b \in cache : SameBut(a, b)
        BY <3>1
      <4>2. EntrySound(b)'
        BY <1>1, EntryStays DEF CacheInv
      <4> QED
        BY <3>1, <4>1, <4>2 DEF EntrySound, SameBut
    <3>4. Cardinality(T) <= CacheMax
      <4>1. Cardinality(T) \in Nat /\ Cardinality(cache) \in Nat /\ CacheMax \in Nat
        BY <3>1, FS_CardinalityType, CacheAssumption DEF CacheInv, CacheAssumption
      <4> QED
        BY <2>1, <3>1, <4>1 DEF CacheInv
    <3> QED
      BY <3>1, <3>2, <3>3, <3>4 DEF CacheInv
  <2>2. CASE conf.backend # "memory"
    <3>1. cache' = cache
      BY <1>3, <2>2
    <3> QED
      BY <1>1, <3>1, CacheStays
  <2> QED
    BY <2>1, <2>2
<1> QED
  BY <1>3, <1>6, <1>7, <1>8, <1>9, <1>10 DEF EntrySound

\* A miss answers with what the store has, and caches it until TTL from now.
LEMMA MissStep ==
  ASSUME VersionsInv, CacheInv, NEW question \in Questions, SearchMiss(question)
  PROVE  /\ Passes /\ CacheInv'
         /\ \E r, code : /\ reply' = Answer(question, code, r) /\ r.question = question
                         /\ \/ code = 404
                            \/ /\ code \in {200, 500} /\ Derived(r)'
                               /\ TrueSince(r, clock - TTL + 1)'
<1>1. EnsureStore(question.store) /\ UNCHANGED <<conf, clock>> /\ question.store \in Stores
  BY DEF SearchMiss, Questions
<1>2. PICK r \in Outcomes(question) :
        /\ IF Cacheable(r) THEN cache' \in CacheAfter(question, r) ELSE cache' = cache
        /\ reply' = Answer(question, CodeOf(r), r)
  BY DEF SearchMiss
<1>3. Passes
  BY <1>1, OutcomesDerived DEF Passes, VersionsInv
<1>4. /\ r.question = question
      /\ ~Failed(r) => /\ Derived(r)' /\ r.version \in Nat \ {0}
                       /\ r = [question |-> question, version |-> content'[question.store]]
  BY <1>1, <1>2, OutcomesDerived
<1>5. CASE Failed(r)
  <2>1. cache' = cache /\ CodeOf(r) = 404
    BY <1>2, <1>5 DEF Cacheable, CodeOf
  <2> QED
    BY <1>2, <1>3, <1>4, <2>1, CacheStays
<1>6. CASE ~Failed(r)
  <2>1. r \in Results /\ Derived(r)' /\ content'[r.question.store] = r.version
    BY <1>4, <1>6 DEF Results
  <2>2. \A time : TrueSince(r, time)'
    BY <2>1 DEF TrueSince
  <2>9. TrueSince(r, clock - TTL + 1)'
    BY <2>1 DEF TrueSince
  <2>3. PICK key, P, y : /\ key = KeyOf(conf.backend, question)
                         /\ P = Put(conf.backend, cache, key, r, clock)
                         /\ y = [key |-> key, result |-> r, until |-> clock + TTL, age |-> 0]
    OBVIOUS
  <2>4. cache' = P \/ cache' = cache
    BY <1>2, <1>6, <2>3 DEF Cacheable, CacheAfter
  <2>5. ASSUME cache' = P PROVE CacheInv'
    <3>1. clock \in Nat /\ clock \in 0..MaxClock /\ cache \subseteq EntryRec
      BY Bounds DEF VersionsInv, CacheInv, EntrySound
    <3>2. key \in Keys
      BY <2>3, KeyType
    <3>3. /\ P \subseteq EntryRec
          /\ \A e \in P : e = y \/ \E f \in cache : SameBut(e, f)
          /\ IsFiniteSet(P) /\ (conf.backend = "memory" => Cardinality(P) <= CacheMax)
          /\ KeysDiffer(P)
      BY <2>1, <2>3, <3>1, <3>2, PutProperties DEF CacheInv
    <3>4. y \in EntryRec
      BY <2>1, <2>3, <3>1, <3>2, Bounds DEF EntryRec
    <3>5. EntrySound(y)'
      <4>1. y.until \in 1..(MaxClock + TTL) /\ y.until <= clock' + TTL
        BY <1>1, <2>3, <3>1, Bounds
      <4>2. y.key = KeyOf(conf.backend, r.question)' /\ y.result = r
        BY <1>1, <1>4, <2>3
      <4> QED
        BY <2>1, <2>2, <3>4, <4>1, <4>2 DEF EntrySound
    <3>6. ASSUME NEW e \in P PROVE EntrySound(e)'
      <4>1. CASE e = y
        BY <3>5, <4>1
      <4>2. CASE \E f \in cache : SameBut(e, f)
        <5>1. PICK f \in cache : SameBut(e, f)
          BY <4>2
        <5>2. EntrySound(f)'
          BY <1>3, EntryStays DEF CacheInv
        <5> QED
          BY <3>3, <5>1, <5>2 DEF EntrySound, SameBut
      <4> QED
        BY <3>3, <4>1, <4>2
    <3> QED
      BY <1>1, <2>5, <3>3, <3>6 DEF CacheInv
  <2>6. ASSUME cache' = cache PROVE CacheInv'
    BY <1>3, <2>6, CacheStays
  <2>7. CacheInv'
    BY <2>4, <2>5, <2>6
  <2>8. PICK code \in {200, 500} : reply' = Answer(question, code, r)
    BY <1>2, <1>6 DEF CodeOf
  <2>10. /\ reply' = Answer(question, code, r) /\ r.question = question
         /\ code \in {200, 500} /\ Derived(r)' /\ TrueSince(r, clock - TTL + 1)'
    BY <1>4, <2>1, <2>8, <2>9
  <2> QED
    BY <1>3, <2>7, <2>10
<1> QED
  BY <1>5, <1>6

-------------------------------------------------------------------------------
(* Batches                                                                 *)

\* A result is true of its store at some time since the time given.
ResultSound(r, time) ==
  r.status = "success" /\ ~Failed(r.result) =>
    Derived(r.result) /\ TrueSince(r.result, time) /\ NotOlder(r.result)

BatchShape ==
  /\ batch = [stage |-> batch.stage, asked |-> batch.asked, parallel |-> batch.parallel,
              results |-> batch.results, begun |-> batch.begun]
  /\ batch.stage \in {"none", "running", "done"} /\ batch.asked \in Seq(Ask)
  /\ batch.begun \in Nat /\ batch.begun <= clock
  /\ batch.results = [i \in DOMAIN batch.asked |-> batch.results[i]]

\* A sequential batch has answered the queries up to some place, and no other.
TurnsKept ==
  ~batch.parallel =>
    \A i, j \in DOMAIN batch.results :
      i < j /\ batch.results[j] # Pending => batch.results[i] # Pending

BatchInv ==
  /\ BatchShape /\ TurnsKept /\ BatchInOrder
  /\ \A i \in DOMAIN batch.results : ResultSound(batch.results[i], batch.begun)

LEMMA ResultStays ==
  ASSUME VersionsInv, Passes, NEW r, NEW time \in Nat, time <= clock, ResultSound(r, time)
  PROVE  ResultSound(r, time)'
<1> DEFINE x == r.result
<1>1. CASE r.status = "success" /\ ~Failed(x)
  <2>1. Derived(x) /\ TrueSince(x, time) /\ NotOlder(x)
    BY <1>1 DEF ResultSound
  <2>2. Derived(x)' /\ TrueSince(x, time)' /\ NotOlder(x)'
    <3> HIDE DEF x
    <3> QED
      BY <2>1, DerivedStays DEF Passes
  <2> QED
    BY <2>2 DEF ResultSound
<1>2. CASE ~(r.status = "success" /\ ~Failed(x))
  BY <1>2 DEF ResultSound
<1> QED
  BY <1>1, <1>2

\* Whatever changes a batch's stage only, or nothing of it, leaves its results sound.
LEMMA BatchStays ==
  ASSUME VersionsInv, BatchInv, Passes,
         batch' = batch \/ batch' = [batch EXCEPT !.stage = "done"]
  PROVE  BatchInv'
<1>1. /\ batch'.asked = batch.asked /\ batch'.results = batch.results
      /\ batch'.parallel = batch.parallel /\ batch'.begun = batch.begun
      /\ batch'.stage \in {"none", "running", "done"}
      /\ batch' = [stage |-> batch'.stage, asked |-> batch.asked, parallel |-> batch.parallel,
                   results |-> batch.results, begun |-> batch.begun]
  BY DEF BatchInv, BatchShape
<1>2. clock \in Nat /\ clock' \in Nat /\ batch.begun \in Nat /\ batch.begun <= clock'
      /\ batch.begun <= clock
  BY Bounds DEF VersionsInv, Passes, BatchInv, BatchShape
<1>3. BatchShape'
  BY <1>1, <1>2 DEF BatchInv, BatchShape
<1>4. TurnsKept' /\ BatchInOrder'
  <2>1. /\ batch'.results = batch.results /\ (batch.parallel <=> batch'.parallel)
    BY <1>1
  <2> QED
    BY <2>1 DEF BatchInv, TurnsKept, BatchInOrder, Failed
<1>5. ASSUME NEW i \in DOMAIN batch.results PROVE ResultSound(batch.results[i], batch.begun)'
  <2>1. PICK r, time : r = batch.results[i] /\ time = batch.begun
    OBVIOUS
  <2>2. ResultSound(r, time)'
    BY <1>2, <2>1, ResultStays DEF BatchInv
  <2> QED
    BY <1>1, <2>1, <2>2 DEF ResultSound, Failed, Derived, TrueSince, NotOlder
<1> QED
  BY <1>1, <1>3, <1>4, <1>5 DEF BatchInv

\* A batch starts with its queries sorted and without results.
LEMMA StartStep ==
  ASSUME VersionsInv, NEW request \in Batches, BatchStart(request)
  PROVE  BatchInv'
<1> DEFINE qs == request.queries
<1>1. qs \in Seq(Ask) /\ request.parallel \in BOOLEAN
  BY ServiceAssumption DEF ServiceAssumption, Ask
<1> HIDE DEF qs
<1>2. PICK asked : asked = IF request.parallel THEN Sorted(qs) ELSE qs
  OBVIOUS
<1>3. /\ batch' = [stage |-> "running", asked |-> asked, parallel |-> request.parallel,
                   results |-> [i \in DOMAIN asked |-> Pending], begun |-> clock]
      /\ clock' = clock /\ clock \in Nat
  BY <1>2, Bounds DEF BatchStart, VersionsInv, qs
<1>4. asked \in Seq(Ask)
  BY <1>1, <1>2, SortedProperties
<1>5. BatchShape'
  BY <1>3, <1>4 DEF BatchShape
<1>6. \A i \in DOMAIN batch'.results : batch'.results[i] = Pending
  BY <1>3
<1>7. \A i \in DOMAIN batch'.results : ResultSound(batch.results[i], batch.begun)'
  BY <1>6 DEF ResultSound, Pending
<1>8. TurnsKept' /\ BatchInOrder'
  BY <1>6 DEF TurnsKept, BatchInOrder, Pending
<1> QED
  BY <1>5, <1>7, <1>8 DEF BatchInv

\* A search of a batch answers with what its store has.
LEMMA BatchSearchStep ==
  ASSUME VersionsInv, BatchInv, NEW i \in DOMAIN batch.results, BatchSearch(i)
  PROVE  Passes /\ BatchInv'
<1> DEFINE question == Question(batch.asked[i].query, batch.asked[i].store, "keyword")
<1>1. /\ IF conf.legacy THEN EnsureStore(question.store) ELSE KeepStores
      /\ UNCHANGED <<conf, clock>>
      /\ \E r \in BatchOutcomes(question) : batch' = [batch EXCEPT !.results[i] = r]
  BY DEF BatchSearch
<1>2. question.store \in Stores
  <2>1. i \in DOMAIN batch.asked /\ batch.asked \in Seq(Ask)
    BY DEF BatchInv, BatchShape
  <2>2. batch.asked[i] \in Ask
    BY <2>1
  <2> QED
    BY <2>2 DEF Question, Ask
<1> HIDE DEF question
<1>3. Passes
  <2>1. StoresStep
    <3>1. CASE conf.legacy
      <4>1. EnsureStore(question.store)
        BY <1>1, <3>1
      <4> QED
        BY <1>1, <1>2, <4>1, OutcomesDerived
    <3>2. CASE ~conf.legacy
      BY <1>1, <3>2 DEF StoresStep
    <3> QED
      BY <3>1, <3>2
  <2> QED
    BY <1>1, <2>1 DEF Passes, VersionsInv
<1>4. PICK r : r \in BatchOutcomes(question) /\ batch' = [batch EXCEPT !.results[i] = r]
  BY <1>1
<1>5. /\ ResultSound(r, batch.begun)'
      /\ r.status = "success" /\ ~Failed(r.result) =>
           r.result.version = content'[r.result.question.store] /\ r.result.version \in Nat \ {0}
  <2>1. CASE conf.legacy
    <3>1. PICK x \in Outcomes(question) : r = [status |-> "success", result |-> x]
      BY <1>4, <2>1 DEF BatchOutcomes
    <3>2. ~Failed(x) => /\ Derived(x)' /\ x.version \in Nat \ {0}
                        /\ x = [question |-> question, version |-> content'[question.store]]
      BY <1>1, <1>2, <2>1, <3>1, OutcomesDerived
    <3>3. ~Failed(x) => /\ Derived(x)' /\ content'[x.question.store] = x.version
                        /\ x.version \in Nat \ {0}
      BY <3>2
    <3> QED
      BY <3>1, <3>3 DEF ResultSound, TrueSince, NotOlder
  <2>2. CASE ~conf.legacy
    BY <1>4, <2>2 DEF BatchOutcomes, ResultSound
  <2> QED
    BY <2>1, <2>2
<1>6. /\ batch'.asked = batch.asked /\ batch'.parallel = batch.parallel
      /\ batch'.begun = batch.begun /\ batch'.stage = batch.stage
      /\ batch'.results = [batch.results EXCEPT ![i] = r]
      /\ batch' = [stage |-> batch'.stage, asked |-> batch'.asked, parallel |-> batch'.parallel,
                   results |-> batch'.results, begun |-> batch'.begun]
  BY <1>4 DEF BatchInv, BatchShape
<1>7. batch.results = [k \in DOMAIN batch.asked |-> batch.results[k]]
  BY DEF BatchInv, BatchShape
<1>8. batch'.results = [k \in DOMAIN batch.asked |-> IF k = i THEN r ELSE batch.results[k]]
  BY <1>6, <1>7
<1>9. clock \in Nat /\ clock' = clock /\ batch.begun \in Nat /\ batch.begun <= clock
  BY <1>1, Bounds DEF VersionsInv, BatchInv, BatchShape
<1>10. BatchShape'
  BY <1>6, <1>8, <1>9 DEF BatchInv, BatchShape
<1>12. ASSUME NEW k \in DOMAIN batch'.results PROVE ResultSound(batch.results[k], batch.begun)'
  <2>1. CASE k = i
    <3>1. batch'.results[k] = r
      BY <1>8, <1>12, <2>1
    <3> QED
      BY <1>5, <3>1 DEF ResultSound, Failed, Derived, TrueSince, NotOlder
  <2>2. CASE k # i
    <3>1. k \in DOMAIN batch.results /\ batch'.results[k] = batch.results[k]
      BY <1>7, <1>8, <1>12, <2>2
    <3>2. PICK x, time : x = batch.results[k] /\ time = batch.begun
      OBVIOUS
    <3>3. ResultSound(x, time)'
      BY <1>3, <1>9, <3>1, <3>2, ResultStays DEF BatchInv
    <3> QED
      BY <1>6, <3>1, <3>2, <3>3 DEF ResultSound, Failed, Derived, TrueSince, NotOlder
  <2> QED
    BY <2>1, <2>2
<1>13. ASSUME ~batch'.parallel PROVE TurnsKept' /\ BatchInOrder'
  <2>0. batch.asked \in Seq(Ask)
    BY DEF BatchInv, BatchShape
  <2>1. /\ \A k \in DOMAIN batch.asked : k < i => batch.results[k] # Pending
        /\ batch.results[i] = Pending /\ i \in DOMAIN batch.asked
    <3>1. i \in DOMAIN batch.asked /\ DOMAIN batch.asked = 1..Len(batch.asked)
      BY <1>7, <2>0
    <3>2. ~batch.parallel
      BY <1>6, <1>13
    <3>3. \A k \in 1..(i - 1) : batch.results[k] # Pending
      BY <3>2 DEF BatchSearch, Turn
    <3>4. \A k \in DOMAIN batch.asked : k < i => k \in 1..(i - 1)
      BY <2>0, <3>1
    <3> QED
      BY <3>1, <3>3, <3>4 DEF BatchSearch
  <2>2. \A k, l \in DOMAIN batch.asked :
          k < l /\ batch.results[l] # Pending => batch.results[k] # Pending
    BY <1>6, <1>7, <1>13 DEF BatchInv, TurnsKept
  <2>3. TurnsKept'
    BY <1>8, <2>0, <2>1, <2>2 DEF TurnsKept
  <2>4. SUFFICES ASSUME NEW k \in DOMAIN batch.asked, NEW l \in DOMAIN batch.asked, k < l,
                        batch'.results[k].status = "success", ~Failed(batch'.results[k].result),
                        batch'.results[l].status = "success", ~Failed(batch'.results[l].result),
                        batch'.results[k].result.question.store
                          = batch'.results[l].result.question.store
                 PROVE  batch'.results[k].result.version <= batch'.results[l].result.version
    BY <1>8, <2>3 DEF BatchInOrder, Failed
  <2>5. CASE k # i /\ l # i
    <3>1. batch'.results[k] = batch.results[k] /\ batch'.results[l] = batch.results[l]
      BY <1>8, <2>5
    <3>2. k \in DOMAIN batch.results /\ l \in DOMAIN batch.results /\ ~batch.parallel
      BY <1>6, <1>7, <1>13
    <3> QED
      BY <2>4, <3>1, <3>2 DEF BatchInv, BatchInOrder
  <2>6. CASE k = i
    <3>1. batch'.results[l] = batch.results[l]
      BY <1>8, <2>0, <2>4, <2>6
    <3> QED
      BY <2>1, <2>2, <2>4, <2>6, <3>1 DEF Pending
  <2>7. CASE k # i /\ l = i
    <3>1. batch'.results[l] = r
      BY <1>8, <2>7
    <3>2. PICK x : x = batch'.results[k].result
      OBVIOUS
    <3>3. ResultSound(batch.results[k], batch.begun)'
      BY <1>8, <1>12
    <3>4. NotOlder(x)'
      BY <2>4, <3>2, <3>3 DEF ResultSound, NotOlder, Failed
    <3> QED
      BY <1>5, <2>4, <3>1, <3>2, <3>4 DEF NotOlder
  <2> QED
    BY <2>5, <2>6, <2>7
<1>14. TurnsKept' /\ BatchInOrder'
  BY <1>13 DEF TurnsKept, BatchInOrder
<1> QED
  BY <1>3, <1>10, <1>12, <1>14 DEF BatchInv

-------------------------------------------------------------------------------
(* A WebSocket session                                                     *)

FrameRec == [kind : {"chunk", "done", "error", "auth_error"}, n : Nat]

SessionRec == [stage : {"closed", "handshake", "streaming", "ended"}, until : Int,
               question : [query : Queries, store : Stores, mode : {"keyword"}] \cup {<<>>},
               producer : {"none", "running", "finished"}, made : Nat,
               queue : Seq(FrameRec), sent : Seq(FrameRec), online : BOOLEAN]

LastFrame(f) == f.kind \in {"done", "error"}

\* While it streams, what is sent and what is queued are, in order, the m
\* chunks produced so far, and the last frame once the producer is finished.
Streaming(p, m, queue, sent) ==
  /\ p \in {"running", "finished"} /\ Len(sent) <= m
  /\ p = "running" => Len(sent) + Len(queue) = m
  /\ p = "finished" => Len(sent) + Len(queue) = m + 1
  /\ \A i \in 1..Len(sent) : sent[i] = Frame("chunk", i)
  /\ \A i \in 1..Len(queue) :
       /\ Len(sent) + i <= m => queue[i] = Frame("chunk", Len(sent) + i)
       /\ Len(sent) + i > m => LastFrame(queue[i])

InOrder(stage, p, m, sent) ==
  \A i \in 1..Len(sent) :
    \/ sent[i].kind = "chunk" /\ sent[i].n = i /\ i <= m
    \/ /\ LastFrame(sent[i]) /\ i = Len(sent) /\ i = m + 1
       /\ stage = "ended" /\ p # "running"
    \/ sent[i].kind = "auth_error" /\ i = 1 /\ Len(sent) = 1 /\ p = "none"

Untouched(w) == w.producer = "none" /\ w.made = 0 /\ w.queue = <<>> /\ w.sent = <<>>

SessionFits(w) ==
  /\ w \in SessionRec /\ InOrder(w.stage, w.producer, w.made, w.sent)
  /\ w.stage \in {"closed", "handshake"} => Untouched(w)
  /\ w.stage = "streaming" => Streaming(w.producer, w.made, w.queue, w.sent)
  /\ w.producer = "running" => w.question # <<>>

SessionInv == SessionFits(ws)

LEMMA AppendFacts ==
  ASSUME NEW S, NEW s \in Seq(S), NEW x \in S
  PROVE  /\ Append(s, x) \in Seq(S) /\ Len(Append(s, x)) = Len(s) + 1
         /\ Append(s, x)[Len(s) + 1] = x
         /\ \A i \in 1..Len(s) : Append(s, x)[i] = s[i]
OBVIOUS

LEMMA TailFacts ==
  ASSUME NEW S, NEW s \in Seq(S), s # <<>>
  PROVE  /\ Len(s) \in Nat \ {0} /\ Head(s) = s[1] /\ s[1] \in S
         /\ Tail(s) \in Seq(S) /\ Len(Tail(s)) = Len(s) - 1
         /\ \A i \in 1..(Len(s) - 1) : Tail(s)[i] = s[i + 1]
OBVIOUS

LEMMA EmptyFits ==
  ASSUME NEW w \in SessionRec, w.sent = <<>>
  PROVE  InOrder(w.stage, w.producer, w.made, w.sent)
<1>1. Len(w.sent) = 0
  OBVIOUS
<1> QED
  BY <1>1 DEF InOrder

LEMMA NoSessionFits == SessionFits(NoSession)
<1>1. <<>> \in Seq(FrameRec)
  OBVIOUS
<1>2. NoSession \in SessionRec
  BY <1>1 DEF NoSession, SessionRec
<1> QED
  BY <1>2, EmptyFits DEF SessionFits, NoSession, Untouched

\* A refused session has sent at most the refusal.
LEMMA RefusalFits ==
  ASSUME NEW w \in SessionRec, w.stage = "ended", w.producer = "none", w.made = 0,
         NEW kind \in {"auth_error", "error"}, w.sent = <<>> \/ w.sent = <<Frame(kind, 0)>>
  PROVE  SessionFits(w)
<1>1. CASE w.sent = <<>>
  BY <1>1, EmptyFits DEF SessionFits
<1>2. CASE w.sent = <<Frame(kind, 0)>>
  <2>1. Len(w.sent) = 1 /\ w.sent[1].kind \in {"auth_error", "error"}
    BY <1>2 DEF Frame
  <2>2. InOrder(w.stage, w.producer, w.made, w.sent)
    BY <2>1 DEF InOrder, LastFrame
  <2> QED
    BY <2>2 DEF SessionFits
<1> QED
  BY <1>1, <1>2

LEMMA RefusalFrame ==
  \A kind \in {"auth_error", "error"} : <<Frame(kind, 0)>> \in Seq(FrameRec)
BY DEF Frame, FrameRec

\* The handshake, and the client leaving.
LEMMA HandshakeStep ==
  ASSUME VersionsInv, SessionInv,
         \/ WsConnect \/ WsRefuse \/ WsLeave
         \/ \E q \in Queries, s \in Stores : WsHello(Question(q, s, "keyword"))
  PROVE  SessionInv'
<1>0. ws \in SessionRec /\ SessionFits(ws)
  BY DEF SessionInv, SessionFits
<1>1. CASE WsConnect
  <2>0. PICK late \in Int : late = clock + Handshake
    BY Bounds, ServiceAssumption DEF VersionsInv
  <2>1. PICK w : w = [ws EXCEPT !.stage = "handshake", !.until = late, !.online = TRUE]
    OBVIOUS
  <2>2. w \in SessionRec
    BY <1>0, <2>1 DEF SessionRec
  <2>3. w.stage = "handshake" /\ w.producer = ws.producer /\ w.made = ws.made
        /\ w.queue = ws.queue /\ w.sent = ws.sent
    BY <1>0, <2>1 DEF SessionRec
  <2>4. Untouched(w)
    BY <1>0, <1>1, <2>3 DEF SessionFits, WsConnect, Untouched
  <2>5. SessionFits(w)
    BY <2>2, <2>3, <2>4, EmptyFits DEF SessionFits, Untouched
  <2> QED
    BY <1>1, <2>0, <2>1, <2>5 DEF WsConnect, SessionInv
<1>2. CASE WsRefuse
  <2>1. PICK w : ws' = w /\ \/ w = [ws EXCEPT !.stage = "ended", !.sent = <<Frame("auth_error", 0)>>]
                            \/ w = [ws EXCEPT !.stage = "ended"]
    BY <1>2 DEF WsRefuse
  <2>2. Untouched(ws)
    BY <1>0, <1>2 DEF WsRefuse, SessionFits
  <2>3. w \in SessionRec
    BY <1>0, <2>1, RefusalFrame DEF SessionRec
  <2>4. w.stage = "ended" /\ w.producer = "none" /\ w.made = 0
        /\ (w.sent = <<>> \/ w.sent = <<Frame("auth_error", 0)>>)
    BY <1>0, <2>1, <2>2 DEF SessionRec, Untouched
  <2> QED
    BY <2>1, <2>3, <2>4, RefusalFits DEF SessionInv
<1>3. CASE WsLeave
  <2>1. PICK w : ws' = w /\ w = [ws EXCEPT !.online = FALSE]
    BY <1>3 DEF WsLeave
  <2>2. w \in SessionRec /\ w.stage = ws.stage /\ w.producer = ws.producer /\ w.made = ws.made
        /\ w.queue = ws.queue /\ w.sent = ws.sent /\ w.question = ws.question
    BY <1>0, <2>1 DEF SessionRec
  <2>3. SessionFits(w)
    BY <1>0, <2>2 DEF SessionFits, Untouched
  <2> QED
    BY <2>1, <2>3 DEF SessionInv
<1>4. ASSUME NEW q \in Queries, NEW s \in Stores, WsHello(Question(q, s, "keyword"))
      PROVE  SessionInv'
  <2>1. Untouched(ws)
    BY <1>0, <1>4 DEF WsHello, SessionFits
  <2>0. PICK question : question = Question(q, s, "keyword")
    OBVIOUS
  <2>2. CASE ws' = [ws EXCEPT !.stage = "streaming", !.producer = "running",
                              !.question = question]
    <3>1. PICK w : ws' = w /\ w = [ws EXCEPT !.stage = "streaming", !.producer = "running",
                                             !.question = question]
      BY <2>2
    <3>2. question \in [query : Queries, store : Stores, mode : {"keyword"}] /\ question # <<>>
      BY <2>0 DEF Question
    <3>3. w \in SessionRec
      BY <1>0, <3>1, <3>2 DEF SessionRec
    <3>4. w.stage = "streaming" /\ w.producer = "running" /\ w.made = 0
          /\ w.queue = <<>> /\ w.sent = <<>> /\ w.question = question
      BY <1>0, <2>1, <3>1 DEF SessionRec, Untouched
    <3>5. Len(w.queue) = 0 /\ Len(w.sent) = 0
      BY <3>4
    <3>6. Streaming(w.producer, w.made, w.queue, w.sent)
      BY <3>4, <3>5 DEF Streaming
    <3>7. SessionFits(w)
      BY <3>2, <3>3, <3>4, <3>6, EmptyFits DEF SessionFits
    <3> QED
      BY <3>1, <3>7 DEF SessionInv
  <2>3. ASSUME NEW kind \in {"auth_error", "error"},
               ws' = [ws EXCEPT !.stage = "ended", !.sent = <<Frame(kind, 0)>>]
        PROVE  SessionInv'
    <3>1. PICK w : ws' = w /\ w = [ws EXCEPT !.stage = "ended", !.sent = <<Frame(kind, 0)>>]
      BY <2>3
    <3>2. w \in SessionRec /\ w.stage = "ended" /\ w.producer = "none" /\ w.made = 0
          /\ w.sent = <<Frame(kind, 0)>>
      BY <1>0, <2>1, <3>1, RefusalFrame DEF SessionRec, Untouched
    <3> QED
      BY <3>1, <3>2, RefusalFits DEF SessionInv
  <2> QED
    BY <1>4, <2>0, <2>2, <2>3 DEF WsHello
<1> QED
  BY <1>1, <1>2, <1>3, <1>4

\* The producer adds the next chunk, or the last frame.
LEMMA OneMoreFrame ==
  ASSUME NEW m \in Nat, NEW queue \in Seq(FrameRec), NEW sent \in Seq(FrameRec),
         Streaming("running", m, queue, sent), NEW f \in FrameRec
  PROVE  /\ f = Frame("chunk", m + 1) => Streaming("running", m + 1, Append(queue, f), sent)
         /\ LastFrame(f) => Streaming("finished", m, Append(queue, f), sent)
<1>1. PICK k \in Nat, l \in Nat : k = Len(queue) /\ l = Len(sent)
  OBVIOUS
<1>2. PICK longer : longer = Append(queue, f)
  OBVIOUS
<1>3. Len(longer) = k + 1 /\ longer[k + 1] = f /\ \A i \in 1..k : longer[i] = queue[i]
  BY <1>1, <1>2, AppendFacts
<1>4. l + k = m
  BY <1>1 DEF Streaming
<1>5. \A i \in 1..k : longer[i] = Frame("chunk", l + i)
  BY <1>1, <1>3, <1>4 DEF Streaming
<1>6. \A i \in 1..(k + 1) : i \in 1..k \/ i = k + 1
  OBVIOUS
<1>7. ASSUME f = Frame("chunk", m + 1) PROVE Streaming("running", m + 1, longer, sent)
  <2>1. ASSUME NEW i \in 1..(k + 1) PROVE longer[i] = Frame("chunk", l + i)
    <3>1. l + (k + 1) = m + 1
      BY <1>4
    <3>2. longer[k + 1] = Frame("chunk", l + (k + 1))
      BY <1>3, <1>7, <3>1
    <3> QED
      BY <1>5, <1>6, <3>2
  <2>2. \A i \in 1..(k + 1) : l + i <= m + 1
    BY <1>4
  <2>3. \A i \in 1..l : sent[i] = Frame("chunk", i)
    BY <1>1 DEF Streaming
  <2>4. l <= m + 1 /\ l + (k + 1) = m + 1
    BY <1>4
  <2> QED
    BY <1>1, <1>3, <2>1, <2>2, <2>3, <2>4 DEF Streaming
<1>8. ASSUME LastFrame(f) PROVE Streaming("finished", m, longer, sent)
  <2>1. ASSUME NEW i \in 1..(k + 1)
        PROVE  /\ l + i <= m => longer[i] = Frame("chunk", l + i)
               /\ l + i > m => LastFrame(longer[i])
    BY <1>3, <1>4, <1>5, <1>6, <1>8
  <2>2. \A i \in 1..l : sent[i] = Frame("chunk", i)
    BY <1>1 DEF Streaming
  <2>3. l <= m /\ l + (k + 1) = m + 1
    BY <1>4
  <2> QED
    BY <1>1, <1>3, <2>1, <2>2, <2>3 DEF Streaming
<1> QED
  BY <1>2, <1>7, <1>8

\* The producer hands over one frame, the next in order, and stops after the last.
LEMMA ProduceStep ==
  ASSUME SessionInv, VersionsInv, Produce
  PROVE  Passes /\ SessionInv'
<1>0. ws \in SessionRec /\ SessionFits(ws) /\ ws.producer = "running"
  BY DEF SessionInv, SessionFits, Produce, ProduceChunk, ProduceDone, ProduceError
<1>1. Passes
  <2>1. StoresStep
    <3>1. CASE ProduceChunk
      <4>1. PICK s : s = ws.question.store
        OBVIOUS
      <4>2. s \in Stores
        <5>1. ws.question \in [query : Queries, store : Stores, mode : {"keyword"}]
          BY <1>0 DEF SessionFits, SessionRec
        <5> QED
          BY <4>1, <5>1
      <4>3. EnsureStore(s) /\ UNCHANGED <<conf, clock>>
        BY <3>1, <4>1 DEF ProduceChunk, Produce
      <4> QED
        BY <4>2, <4>3 DEF EnsureStore, StoresStep
    <3>2. CASE ProduceDone \/ ProduceError
      BY <3>2 DEF ProduceDone, ProduceError, StoresStep
    <3> QED
      BY <3>1, <3>2 DEF Produce
  <2> QED
    BY <2>1, Bounds DEF Produce, Passes, VersionsInv
<1>2. PICK m, queue : m = ws.made /\ queue = ws.queue
  OBVIOUS
<1>3. m \in Nat /\ queue \in Seq(FrameRec) /\ ws.sent \in Seq(FrameRec)
  BY <1>0, <1>2 DEF SessionRec
<1>4. PICK f, w :
        /\ ws' = w
        /\ \/ /\ f = Frame("chunk", m + 1)
              /\ w = [ws EXCEPT !.made = @ + 1, !.queue = Append(@, f)]
           \/ /\ f \in {Frame("done", m), Frame("error", m)}
              /\ w = [ws EXCEPT !.producer = "finished", !.queue = Append(@, f)]
  BY <1>2 DEF Produce, ProduceChunk, ProduceDone, ProduceError, Enqueue
<1>5. f \in FrameRec
  BY <1>3, <1>4 DEF Frame, FrameRec
<1>6. PICK longer \in Seq(FrameRec) : longer = Append(queue, f)
  BY <1>3, <1>5, AppendFacts
<1>7. \/ f = Frame("chunk", m + 1) /\ w = [ws EXCEPT !.made = m + 1, !.queue = longer]
      \/ LastFrame(f) /\ w = [ws EXCEPT !.producer = "finished", !.queue = longer]
  BY <1>2, <1>4, <1>6 DEF LastFrame, Frame
<1>8. w \in SessionRec
  <2>1. CASE w = [ws EXCEPT !.made = m + 1, !.queue = longer]
    <3>1. PICK n \in Nat : n = m + 1
      BY <1>3
    <3>2. w = [ws EXCEPT !.made = n, !.queue = longer]
      BY <2>1, <3>1
    <3> QED
      BY <1>0, <1>6, <3>2 DEF SessionRec
  <2>2. CASE w = [ws EXCEPT !.producer = "finished", !.queue = longer]
    BY <1>0, <1>6, <2>2 DEF SessionRec
  <2> QED
    BY <1>7, <2>1, <2>2
<1>9. /\ w.stage = ws.stage /\ w.sent = ws.sent /\ w.question = ws.question /\ w.queue = longer
      /\ \/ f = Frame("chunk", m + 1) /\ w.made = m + 1 /\ w.producer = "running"
         \/ LastFrame(f) /\ w.made = m /\ w.producer = "finished"
  BY <1>0, <1>2, <1>7 DEF SessionRec
<1>10. ws.stage \notin {"closed", "handshake"}
  BY <1>0 DEF SessionFits, Untouched
<1>11. InOrder(w.stage, w.producer, w.made, w.sent)
  <2>1. \A i \in 1..Len(ws.sent) : ws.sent[i].kind = "chunk" /\ ws.sent[i].n = i /\ i <= m
    BY <1>0, <1>2 DEF SessionFits, InOrder
  <2>2. PICK sent : sent = ws.sent
    OBVIOUS
  <2>3. \A i \in 1..Len(sent) : sent[i].kind = "chunk" /\ sent[i].n = i /\ i <= m + 1
    BY <1>3, <2>1, <2>2
  <2> QED
    BY <1>9, <2>1, <2>2, <2>3 DEF InOrder
<1>12. ASSUME ws.stage = "streaming" PROVE Streaming(w.producer, w.made, w.queue, w.sent)
  <2>1. PICK sent \in Seq(FrameRec) : sent = ws.sent
    BY <1>3
  <2>2. Streaming("running", m, queue, sent)
    BY <1>0, <1>2, <1>12, <2>1 DEF SessionFits
  <2> QED
    BY <1>3, <1>5, <1>6, <1>9, <2>1, <2>2, OneMoreFrame
<1>13. SessionFits(w)
  BY <1>0, <1>8, <1>9, <1>10, <1>11, <1>12 DEF SessionFits
<1> QED
  BY <1>1, <1>4, <1>13 DEF SessionInv

\* The handler takes the first frame: the next chunk, or the last frame.
LEMMA OneFrameLess ==
  ASSUME NEW p, NEW m \in Nat, NEW queue \in Seq(FrameRec), NEW sent \in Seq(FrameRec),
         Streaming(p, m, queue, sent), queue # <<>>,
         NEW f, f = Head(queue)
  PROVE  /\ f \in FrameRec
         /\ \/ /\ f.kind = "chunk" /\ Streaming(p, m, Tail(queue), Append(sent, f))
               /\ InOrder("streaming", p, m, Append(sent, f))
            \/ LastFrame(f) /\ InOrder("ended", p, m, Append(sent, f))
         /\ InOrder("ended", p, m, sent)
<1>1. PICK k \in Nat, l \in Nat : k + 1 = Len(queue) /\ l = Len(sent)
  <2>1. PICK n \in Nat \ {0} : n = Len(queue)
    BY TailFacts
  <2>2. n - 1 \in Nat /\ (n - 1) + 1 = n /\ Len(sent) \in Nat
    OBVIOUS
  <2> QED
    BY <2>1, <2>2
<1>2. f = queue[1] /\ f \in FrameRec
  BY TailFacts
<1>3. PICK rest : rest = Tail(queue)
  OBVIOUS
<1>4. Len(rest) = k /\ \A i \in 1..k : rest[i] = queue[i + 1]
  <2>1. PICK n : n = Len(queue)
    OBVIOUS
  <2>2. k = n - 1
    BY <1>1, <2>1
  <2> QED
    BY <1>3, <2>1, <2>2, TailFacts
<1>5. PICK longer : longer = Append(sent, f)
  OBVIOUS
<1>6. Len(longer) = l + 1 /\ longer[l + 1] = f /\ \A i \in 1..l : longer[i] = sent[i]
  BY <1>1, <1>2, <1>5, AppendFacts
<1>7. \A i \in 1..l : sent[i] = Frame("chunk", i)
  BY <1>1 DEF Streaming
<1>8. ASSUME NEW i \in 1..l PROVE sent[i].kind = "chunk" /\ sent[i].n = i
  <2>1. sent[i] = [kind |-> "chunk", n |-> i]
    BY <1>7 DEF Frame
  <2> QED
    BY <2>1
<1>9. l <= m /\ (p = "running" => l + (k + 1) = m) /\ (p = "finished" => l + (k + 1) = m + 1)
      /\ p \in {"running", "finished"}
  BY <1>1 DEF Streaming
<1>10. \A i \in 1..(k + 1) : /\ l + i <= m => queue[i] = Frame("chunk", l + i)
                             /\ l + i > m => LastFrame(queue[i])
  BY <1>1 DEF Streaming
<1>11. (l + 1 <= m => f = Frame("chunk", l + 1)) /\ (l + 1 > m => LastFrame(f))
  BY <1>2, <1>10
<1>12. InOrder("ended", p, m, sent)
  BY <1>1, <1>8, <1>9 DEF InOrder
<1>13. \A i \in 1..(l + 1) : i \in 1..l \/ i = l + 1
  OBVIOUS
<1>14. CASE l + 1 <= m
  <2>1. f.kind = "chunk" /\ f.n = l + 1
    BY <1>11, <1>14 DEF Frame
  <2>2. \A i \in 1..(l + 1) : longer[i] = Frame("chunk", i)
    BY <1>6, <1>7, <1>11, <1>13, <1>14
  <2>3. ASSUME NEW i \in 1..(l + 1)
        PROVE  longer[i].kind = "chunk" /\ longer[i].n = i /\ i <= m
    <3>1. longer[i] = [kind |-> "chunk", n |-> i]
      BY <2>2 DEF Frame
    <3>2. i <= m
      BY <1>14
    <3> QED
      BY <3>1, <3>2
  <2>4. ASSUME NEW i \in 1..k
        PROVE  /\ (l + 1) + i <= m => rest[i] = Frame("chunk", (l + 1) + i)
               /\ (l + 1) + i > m => LastFrame(rest[i])
    <3>1. i + 1 \in 1..(k + 1) /\ l + (i + 1) = (l + 1) + i
      OBVIOUS
    <3>2. /\ l + (i + 1) <= m => queue[i + 1] = Frame("chunk", l + (i + 1))
          /\ l + (i + 1) > m => LastFrame(queue[i + 1])
      BY <1>10, <3>1
    <3> QED
      BY <1>4, <3>1, <3>2
  <2>5. (p = "running" => (l + 1) + k = m) /\ (p = "finished" => (l + 1) + k = m + 1)
    BY <1>9
  <2>6. Streaming(p, m, rest, longer)
    BY <1>4, <1>6, <1>9, <1>14, <2>2, <2>4, <2>5 DEF Streaming
  <2>7. InOrder("streaming", p, m, longer)
    BY <1>6, <2>3 DEF InOrder
  <2> QED
    BY <1>2, <1>3, <1>5, <1>12, <2>1, <2>6, <2>7
<1>15. CASE l + 1 > m
  <2>1. LastFrame(f) /\ l = m /\ p = "finished"
    BY <1>9, <1>11, <1>15
  <2>2. \A i \in 1..(l + 1) : \/ longer[i].kind = "chunk" /\ longer[i].n = i /\ i <= m
                              \/ LastFrame(longer[i]) /\ i = l + 1 /\ i = m + 1
    BY <1>6, <1>8, <1>13, <2>1
  <2>3. InOrder("ended", p, m, longer)
    BY <1>6, <2>1, <2>2 DEF InOrder
  <2> QED
    BY <1>2, <1>5, <1>12, <2>1, <2>3
<1> QED
  BY <1>14, <1>15

\* The handler sends the next frame, and nothing after the last.
LEMMA SendStep ==
  ASSUME SessionInv, WsSend
  PROVE  SessionInv'
<1>0. ws \in SessionRec /\ SessionFits(ws) /\ ws.stage = "streaming" /\ ws.queue # <<>>
  BY DEF SessionInv, SessionFits, WsSend
<1>1. PICK p, m, queue, sent :
        p = ws.producer /\ m = ws.made /\ queue = ws.queue /\ sent = ws.sent
  OBVIOUS
<1>2. m \in Nat /\ queue \in Seq(FrameRec) /\ sent \in Seq(FrameRec)
  BY <1>0, <1>1 DEF SessionRec
<1>3. Streaming(p, m, queue, sent) /\ queue # <<>>
  BY <1>0, <1>1 DEF SessionFits
<1>4. PICK f : f = Head(queue)
  OBVIOUS
<1>5. /\ f \in FrameRec
      /\ \/ /\ f.kind = "chunk" /\ Streaming(p, m, Tail(queue), Append(sent, f))
            /\ InOrder("streaming", p, m, Append(sent, f))
         \/ LastFrame(f) /\ InOrder("ended", p, m, Append(sent, f))
      /\ InOrder("ended", p, m, sent)
  BY <1>2, <1>3, <1>4, OneFrameLess
<1>6. PICK rest \in Seq(FrameRec), longer \in Seq(FrameRec) :
        rest = Tail(queue) /\ longer = Append(sent, f)
  <2>1. Tail(queue) \in Seq(FrameRec)
    BY <1>2, <1>3, TailFacts
  <2>2. Append(sent, f) \in Seq(FrameRec)
    BY <1>2, <1>5, AppendFacts
  <2> QED
    BY <2>1, <2>2
<1>7. PICK w : /\ ws' = w
               /\ \/ /\ ws.online /\ f.kind = "chunk"
                     /\ w = [ws EXCEPT !.queue = rest, !.sent = longer]
                  \/ /\ ws.online /\ f.kind # "chunk"
                     /\ w = [ws EXCEPT !.queue = rest, !.sent = longer, !.stage = "ended"]
                  \/ /\ ~ws.online
                     /\ w = [ws EXCEPT !.queue = rest, !.stage = "ended"]
  <2>1. PICK w : w = ws'
    OBVIOUS
  <2>2. w = [ws EXCEPT !.queue = Tail(@),
                       !.sent = IF ws.online THEN Append(@, Head(ws.queue)) ELSE @,
                       !.stage = IF ws.online /\ Head(ws.queue).kind = "chunk" THEN @ ELSE "ended"]
    BY <2>1 DEF WsSend
  <2>3. CASE ws.online /\ f.kind = "chunk"
    <3>1. w = [ws EXCEPT !.queue = rest, !.sent = longer, !.stage = ws.stage]
      BY <1>1, <1>4, <1>6, <2>2, <2>3
    <3>2. w = [ws EXCEPT !.queue = rest, !.sent = longer]
      BY <1>0, <3>1 DEF SessionRec
    <3> QED
      BY <2>1, <2>3, <3>2
  <2>4. CASE ws.online /\ f.kind # "chunk"
    <3>1. w = [ws EXCEPT !.queue = rest, !.sent = longer, !.stage = "ended"]
      BY <1>1, <1>4, <1>6, <2>2, <2>4
    <3> QED
      BY <2>1, <2>4, <3>1
  <2>5. CASE ~ws.online
    <3>1. w = [ws EXCEPT !.queue = rest, !.sent = sent, !.stage = "ended"]
      BY <1>1, <1>4, <1>6, <2>2, <2>5
    <3>2. w = [ws EXCEPT !.queue = rest, !.stage = "ended"]
      BY <1>0, <1>1, <3>1 DEF SessionRec
    <3> QED
      BY <2>1, <2>5, <3>2
  <2> QED
    BY <2>3, <2>4, <2>5
<1>8. w \in SessionRec
  BY <1>0, <1>6, <1>7 DEF SessionRec
<1>9. /\ w.producer = p /\ w.made = m /\ w.queue = rest /\ w.question = ws.question
      /\ \/ f.kind = "chunk" /\ w.sent = longer /\ w.stage = "streaming"
         \/ f.kind # "chunk" /\ w.sent = longer /\ w.stage = "ended"
         \/ w.sent = sent /\ w.stage = "ended"
  BY <1>0, <1>1, <1>7 DEF SessionRec
<1>10. InOrder(w.stage, w.producer, w.made, w.sent)
  BY <1>5, <1>6, <1>9 DEF LastFrame
<1>11. w.stage = "streaming" => Streaming(w.producer, w.made, w.queue, w.sent)
  BY <1>5, <1>6, <1>9 DEF LastFrame
<1>12. SessionFits(w)
  BY <1>0, <1>1, <1>8, <1>9, <1>10, <1>11 DEF SessionFits
<1> QED
  BY <1>7, <1>12 DEF SessionInv

-------------------------------------------------------------------------------
(* The inductive invariant                                                 *)

\* An answer that succeeded was true of its store less than TTL ago.
ReplySound(question, code, r) ==
  /\ code \in {200, 400, 404, 500}
  /\ code \in {200, 500} => Derived(r) /\ TrueSince(r, clock - TTL + 1)
  /\ code = 200 /\ conf.backend = "memory" => r.question = question

ReplyInv ==
  \/ reply = NoReply
  \/ \E question, code, r : reply = Answer(question, code, r) /\ ReplySound(question, code, r)

ServiceInv == VersionsInv /\ CacheInv /\ BatchInv /\ SessionInv /\ ReplyInv

LEMMA NoBatchFits == clock \in Nat /\ batch = NoBatch => BatchInv
<1> SUFFICES ASSUME clock \in Nat, batch = NoBatch PROVE BatchInv
  OBVIOUS
<1>1. PICK e : e = <<>>
  OBVIOUS
<1>2. e \in Seq(Ask) /\ DOMAIN e = {} /\ e = [i \in DOMAIN e |-> e[i]]
  BY <1>1
<1>3. /\ batch.stage = "none" /\ batch.asked = e /\ batch.parallel = FALSE
      /\ batch.results = e /\ batch.begun = 0
      /\ batch = [stage |-> "none", asked |-> e, parallel |-> FALSE, results |-> e, begun |-> 0]
  BY <1>1 DEF NoBatch
<1>4. BatchShape
  BY <1>2, <1>3 DEF BatchShape
<1>5. TurnsKept /\ BatchInOrder
  BY <1>2, <1>3 DEF TurnsKept, BatchInOrder
<1> QED
  BY <1>2, <1>3, <1>4, <1>5 DEF BatchInv

LEMMA ServiceInit == Init => ServiceInv
<1> SUFFICES ASSUME Init PROVE ServiceInv
  OBVIOUS
<1>1. VersionsInv
  <2>1. /\ \A s \in Stores : content[s] = 0
        /\ content \in [Stores -> Versions] /\ made \in Versions /\ clock \in 0..MaxClock
        /\ gone \in [1..MaxChanges -> 0..MaxClock] /\ conf \in Configs /\ made = 0
    BY Bounds DEF Init, Versions
  <2>2. {s \in Stores : content[s] = 0} = Stores
    BY <2>1
  <2>3. Room = MaxChanges - 0 - Cardinality(Stores)
    BY <2>1, <2>2 DEF Room
  <2>4. Cardinality(Stores) \in Nat /\ MaxChanges >= Cardinality(Stores) /\ MaxChanges \in Nat
    BY Bounds, FS_CardinalityType, ServiceAssumption DEF ServiceAssumption
  <2>5. Room >= 0
    BY <2>3, <2>4
  <2> QED
    BY <2>1, <2>5 DEF VersionsInv
<1>2. CacheInv
  <2>1. IsFiniteSet({}) /\ Cardinality({}) = 0 /\ CacheMax \in Nat
    BY FS_EmptySet, CacheAssumption DEF CacheAssumption
  <2> QED
    BY <2>1 DEF Init, CacheInv, KeysDiffer
<1>3. BatchInv
  BY NoBatchFits DEF Init
<1>4. SessionInv
  BY NoSessionFits DEF Init, SessionInv
<1>5. ReplyInv
  BY DEF Init, ReplyInv
<1> QED
  BY <1>1, <1>2, <1>3, <1>4, <1>5 DEF ServiceInv

\* The multimodal search answers with what the store has.
LEMMA MultimodalStep ==
  ASSUME VersionsInv, NEW q, NEW s \in Stores, SearchMultimodal(q, s)
  PROVE  Passes /\ ReplyInv'
<1>1. PICK question : question = Question(q, s, "multimodal")
  OBVIOUS
<1>2. question.store = s
  BY <1>1 DEF Question
<1>3. EnsureStore(question.store) /\ UNCHANGED <<conf, clock>>
  BY <1>2 DEF SearchMultimodal
<1>4. PICK r \in Outcomes(question) :
        reply' = Answer(question, IF Failed(r) THEN 400 ELSE 200, r)
  BY <1>1 DEF SearchMultimodal
<1>5. /\ StoresStep /\ r.question = question
      /\ ~Failed(r) => Derived(r)' /\ r = [question |-> question, version |-> content'[question.store]]
  BY <1>2, <1>3, <1>4, OutcomesDerived
<1>6. Passes
  BY <1>3, <1>5 DEF Passes, VersionsInv
<1>7. PICK code : /\ reply' = Answer(question, code, r)
                  /\ code = 400 \/ (code = 200 /\ ~Failed(r))
  BY <1>4
<1>8. ~Failed(r) => TrueSince(r, clock - TTL + 1)'
  BY <1>5 DEF TrueSince
<1>9. ReplySound(question, code, r)'
  BY <1>5, <1>7, <1>8 DEF ReplySound
<1> QED
  BY <1>6, <1>7, <1>9 DEF ReplyInv

\* What neither answers, nor caches, nor serves a batch or a session.
LEMMA Bystanders ==
  ASSUME VersionsInv, CacheInv, BatchInv, Passes, cache' = cache, batch' = batch
  PROVE  VersionsInv' /\ CacheInv' /\ BatchInv'
BY VersionsStep, CacheStays, BatchStays DEF Passes

LEMMA SearchStep ==
  ASSUME ServiceInv, NEW question \in conf.asked,
         \/ SearchHit(question) \/ SearchMiss(question)
         \/ SearchMultimodal(question.query, question.store)
  PROVE  ServiceInv'
<1>0. VersionsInv /\ CacheInv /\ BatchInv /\ SessionInv
  BY DEF ServiceInv
<1>1. question \in Questions
  BY <1>0, ServiceAssumption DEF VersionsInv, ServiceAssumption, Questions
<1>2. CASE SearchHit(question)
  <2>1. CacheInv'
    BY <1>0, <1>1, <1>2, HitStep
  <2>2. PICK r : /\ reply' = Answer(question, 200, r) /\ Derived(r)'
                 /\ TrueSince(r, clock - TTL + 1)'
                 /\ conf.backend = "memory" => r.question = question
    BY <1>0, <1>1, <1>2, HitStep
  <2>3. Passes /\ UNCHANGED <<conf, ws, batch>>
    BY <1>0, <1>2 DEF SearchHit, Passes, StoresStep, VersionsInv
  <2>4. ReplySound(question, 200, r)'
    BY <2>2, <2>3 DEF ReplySound
  <2>5. ReplyInv'
    BY <2>2, <2>4 DEF ReplyInv
  <2>6. SessionInv'
    BY <1>0, <2>3 DEF SessionInv
  <2>7. VersionsInv' /\ BatchInv'
    BY <1>0, <2>3, VersionsStep, BatchStays DEF Passes
  <2> QED
    BY <2>1, <2>5, <2>6, <2>7 DEF ServiceInv
<1>3. CASE SearchMiss(question)
  <2>1. CacheInv' /\ Passes
    BY <1>0, <1>1, <1>3, MissStep
  <2>2. PICK r, code : /\ reply' = Answer(question, code, r) /\ r.question = question
                       /\ \/ code = 404
                          \/ /\ code \in {200, 500} /\ Derived(r)'
                             /\ TrueSince(r, clock - TTL + 1)'
    BY <1>0, <1>1, <1>3, MissStep
  <2>3. UNCHANGED <<conf, ws, batch>>
    BY <1>3 DEF SearchMiss
  <2>4. ReplySound(question, code, r)'
    BY <2>2, <2>3 DEF ReplySound
  <2>5. ReplyInv'
    BY <2>2, <2>4 DEF ReplyInv
  <2>6. SessionInv'
    BY <1>0, <2>3 DEF SessionInv
  <2>7. VersionsInv' /\ BatchInv'
    BY <1>0, <2>1, <2>3, VersionsStep, BatchStays DEF Passes
  <2> QED
    BY <2>1, <2>5, <2>6, <2>7 DEF ServiceInv
<1>4. CASE SearchMultimodal(question.query, question.store)
  <2>1. PICK q, s : q = question.query /\ s = question.store
    OBVIOUS
  <2>2. s \in Stores /\ SearchMultimodal(q, s)
    BY <1>1, <1>4, <2>1 DEF Questions
  <2>3. Passes /\ ReplyInv'
    BY <1>0, <2>2, MultimodalStep
  <2>4. UNCHANGED <<cache, ws, batch>>
    BY <1>4 DEF SearchMultimodal
  <2>5. SessionInv'
    BY <1>0, <2>4 DEF SessionInv
  <2> QED
    BY <1>0, <2>3, <2>4, <2>5, Bystanders DEF ServiceInv
<1> QED
  BY <1>2, <1>3, <1>4

LEMMA ServiceStep ==
  ASSUME ServiceInv, Next
  PROVE  ServiceInv'
<1>0. VersionsInv /\ CacheInv /\ BatchInv /\ SessionInv
  BY DEF ServiceInv
<1>1. ASSUME NEW s \in Stores, Upload(s) \/ CreateStore(s) \/ DeleteStore(s)
      PROVE  ServiceInv'
  <2>1. StoresStep
    <3>1. CASE Upload(s)
      BY <3>1 DEF Upload, StoresStep
    <3>2. CASE CreateStore(s)
      BY <3>2 DEF CreateStore, StoresStep
    <3>3. CASE DeleteStore(s)
      BY <3>3 DEF DeleteStore, StoresStep
    <3> QED
      BY <1>1, <3>1, <3>2, <3>3
  <2>2. reply' = NoReply /\ UNCHANGED <<conf, clock, cache, ws, batch>>
    BY <1>1 DEF Upload, CreateStore, DeleteStore
  <2>3. Passes
    BY <1>0, <2>1, <2>2, Bounds DEF Passes, VersionsInv
  <2>4. SessionInv' /\ ReplyInv'
    BY <1>0, <2>2 DEF SessionInv, ReplyInv
  <2> QED
    BY <1>0, <2>2, <2>3, <2>4, Bystanders DEF ServiceInv
<1>2. ASSUME NEW question \in conf.asked,
             \/ SearchHit(question) \/ SearchMiss(question)
             \/ SearchMultimodal(question.query, question.store)
      PROVE  ServiceInv'
  BY <1>2, SearchStep
<1>3. ASSUME \/ WsConnect \/ WsRefuse \/ WsLeave
             \/ \E q \in Queries, s \in Stores : WsHello(Question(q, s, "keyword"))
      PROVE  ServiceInv'
  <2>1. SessionInv'
    BY <1>0, <1>3, HandshakeStep
  <2>2. KeepStores /\ reply' = NoReply /\ UNCHANGED <<conf, clock, cache, batch>>
    BY <1>3 DEF WsConnect, WsRefuse, WsLeave, WsHello
  <2>3. Passes
    BY <1>0, <2>2, Bounds DEF Passes, StoresStep, VersionsInv
  <2> QED
    BY <1>0, <2>1, <2>2, <2>3, Bystanders DEF ServiceInv, ReplyInv
<1>4. CASE Produce
  <2>1. Passes /\ SessionInv'
    BY <1>0, <1>4, ProduceStep
  <2>2. reply' = NoReply /\ UNCHANGED <<cache, batch>>
    BY <1>4 DEF Produce
  <2> QED
    BY <1>0, <2>1, <2>2, Bystanders DEF ServiceInv, ReplyInv
<1>5. CASE WsSend
  <2>1. SessionInv'
    BY <1>0, <1>5, SendStep
  <2>2. KeepStores /\ reply' = NoReply /\ UNCHANGED <<conf, clock, cache, batch>>
    BY <1>5 DEF WsSend
  <2>3. Passes
    BY <1>0, <2>2, Bounds DEF Passes, StoresStep, VersionsInv
  <2> QED
    BY <1>0, <2>1, <2>2, <2>3, Bystanders DEF ServiceInv, ReplyInv
<1>6. ASSUME NEW request \in Batches, BatchStart(request) PROVE ServiceInv'
  <2>1. BatchInv'
    BY <1>0, <1>6, StartStep
  <2>2. KeepStores /\ reply' = NoReply /\ UNCHANGED <<conf, clock, cache, ws>>
    BY <1>6 DEF BatchStart
  <2>3. Passes
    BY <1>0, <2>2, Bounds DEF Passes, StoresStep, VersionsInv
  <2>4. VersionsInv' /\ CacheInv'
    BY <1>0, <2>2, <2>3, VersionsStep, CacheStays DEF Passes
  <2> QED
    BY <1>0, <2>1, <2>2, <2>4 DEF ServiceInv, ReplyInv, SessionInv
<1>7. ASSUME NEW i \in DOMAIN batch.results, BatchSearch(i) PROVE ServiceInv'
  <2>1. Passes /\ BatchInv'
    BY <1>0, <1>7, BatchSearchStep
  <2>2. reply' = NoReply /\ UNCHANGED <<cache, ws>>
    BY <1>7 DEF BatchSearch
  <2>3. VersionsInv' /\ CacheInv'
    BY <1>0, <2>1, <2>2, VersionsStep, CacheStays DEF Passes
  <2> QED
    BY <1>0, <2>1, <2>2, <2>3 DEF ServiceInv, ReplyInv, SessionInv
<1>8. CASE BatchFinish
  <2>1. /\ batch' = [batch EXCEPT !.stage = "done"]
        /\ KeepStores /\ reply' = NoReply /\ UNCHANGED <<conf, clock, cache, ws>>
    BY <1>8 DEF BatchFinish
  <2>2. Passes
    BY <1>0, <2>1, Bounds DEF Passes, StoresStep, VersionsInv
  <2>3. VersionsInv' /\ CacheInv' /\ BatchInv'
    BY <1>0, <2>1, <2>2, VersionsStep, CacheStays, BatchStays DEF Passes
  <2> QED
    BY <1>0, <2>1, <2>3 DEF ServiceInv, ReplyInv, SessionInv
<1>9. CASE Restart
  <2>1. /\ cache' = cache \/ cache' = {}
        /\ KeepStores /\ reply' = NoReply /\ ws' = NoSession /\ batch' = NoBatch
        /\ UNCHANGED <<conf, clock>>
    BY <1>9 DEF Restart
  <2>2. Passes /\ clock' \in Nat
    BY <1>0, <2>1, Bounds DEF Passes, StoresStep, VersionsInv
  <2>3. VersionsInv' /\ CacheInv'
    BY <1>0, <2>1, <2>2, VersionsStep, CacheStays DEF Passes
  <2>4. BatchInv'
    <3>1. (clock \in Nat /\ batch = NoBatch => BatchInv)'
      BY NoBatchFits, PTL
    <3> QED
      BY <2>1, <2>2, <3>1
  <2> QED
    BY <2>1, <2>3, <2>4, NoSessionFits DEF ServiceInv, ReplyInv, SessionInv
<1>10. CASE Tick
  <2>1. /\ clock < MaxClock /\ clock' = clock + 1
        /\ KeepStores /\ reply' = NoReply /\ UNCHANGED <<conf, cache, ws, batch>>
    BY <1>10 DEF Tick
  <2>2. Passes
    BY <1>0, <2>1, Bounds DEF Passes, StoresStep, VersionsInv
  <2> QED
    BY <1>0, <2>1, <2>2, Bystanders DEF ServiceInv, ReplyInv, SessionInv
<1> QED
  BY <1>1, <1>2, <1>3, <1>4, <1>5, <1>6, <1>7, <1>8, <1>9, <1>10 DEF Next

LEMMA ServiceStutter ==
  ASSUME ServiceInv, UNCHANGED vars
  PROVE  ServiceInv'
<1>1. VersionsInv' /\ CacheInv' /\ SessionInv' /\ ReplyInv'
  BY DEF ServiceInv, VersionsInv, CacheInv, SessionInv, ReplyInv, vars, Room, EntrySound,
         KeysDiffer, Derived, TrueSince, Failed, ReplySound
<1>2. Passes
  BY Bounds DEF ServiceInv, VersionsInv, vars, Passes, StoresStep, KeepStores
<1>3. BatchInv'
  BY <1>2, BatchStays DEF ServiceInv, vars
<1> QED
  BY <1>1, <1>3 DEF ServiceInv

LEMMA ServiceInvariant == Spec => []ServiceInv
<1>1. ServiceInv /\ [Next]_vars => ServiceInv'
  BY ServiceStep, ServiceStutter
<1> QED
  BY <1>1, ServiceInit, PTL DEF Spec

-------------------------------------------------------------------------------
(* The theorems                                                            *)

LEMMA InvTypes == ServiceInv => TypeOK
<1> SUFFICES ASSUME ServiceInv PROVE TypeOK
  OBVIOUS
<1>0. VersionsInv /\ CacheInv /\ BatchInv /\ SessionInv /\ ReplyInv
  BY DEF ServiceInv
<1>1. \A e \in cache : /\ ~Failed(e.result)
                       /\ e.until \in 1..(MaxClock + TTL)
                       /\ \A f \in cache : e.key = f.key => e = f
  BY <1>0, Bounds DEF CacheInv, EntrySound, KeysDiffer, Derived, Failed, VersionsInv, Versions
<1>2. reply = NoReply \/ reply.code \in {200, 400, 404, 500}
  BY <1>0 DEF ReplyInv, ReplySound, Answer
<1>3. /\ ws.stage \in {"closed", "handshake", "streaming", "ended"}
      /\ ws.producer \in {"none", "running", "finished"}
  BY <1>0 DEF SessionInv, SessionFits, SessionRec
<1>4. batch.stage \in {"none", "running", "done"}
  BY <1>0 DEF BatchInv, BatchShape
<1> QED
  BY <1>0, <1>1, <1>2, <1>3, <1>4 DEF TypeOK, VersionsInv, Versions, CacheInv

LEMMA InvAnswers == ServiceInv => StaleNoLongerThanTTL /\ AnswersTheQuestion
<1> SUFFICES ASSUME ServiceInv PROVE StaleNoLongerThanTTL /\ AnswersTheQuestion
  OBVIOUS
<1>0. VersionsInv /\ ReplyInv
  BY DEF ServiceInv
<1>1. CASE reply = NoReply
  <2>1. reply.code = 0
    BY <1>1 DEF NoReply
  <2> QED
    BY <2>1 DEF StaleNoLongerThanTTL, AnswersTheQuestion
<1>2. ASSUME NEW question, NEW code, NEW r,
             reply = Answer(question, code, r), ReplySound(question, code, r)
      PROVE  StaleNoLongerThanTTL /\ AnswersTheQuestion
  <2>1. reply.code = code /\ reply.question = question /\ reply.result = r
    BY <1>2 DEF Answer
  <2>2. AnswersTheQuestion
    BY <1>2, <2>1 DEF ReplySound, AnswersTheQuestion
  <2>3. ASSUME code \in {200, 500}
        PROVE  content[r.question.store] = r.version \/ clock - gone[r.version] < TTL
    <3>1. Derived(r) /\ TrueSince(r, clock - TTL + 1)
      BY <1>2, <2>3 DEF ReplySound
    <3>2. PICK v, g : v = r.version /\ g = gone[v]
      OBVIOUS
    <3>3. v \in 1..MaxChanges
      BY <1>0, <3>1, <3>2, Bounds DEF Derived, VersionsInv, Versions
    <3>4. g \in Nat /\ clock \in Nat
      BY <1>0, <3>2, <3>3, Bounds DEF VersionsInv
    <3>5. content[r.question.store] = v \/ g >= clock - TTL + 1
      BY <3>1, <3>2 DEF TrueSince
    <3>6. g >= clock - TTL + 1 => clock - g < TTL
      BY <3>4, Bounds
    <3> QED
      BY <3>2, <3>5, <3>6
  <2>4. StaleNoLongerThanTTL
    BY <2>1, <2>3 DEF StaleNoLongerThanTTL
  <2> QED
    BY <2>2, <2>4
<1> QED
  BY <1>0, <1>1, <1>2 DEF ReplyInv

(* Every answer that /api/search and /api/search/multimodal give, from the
   cache or not, whatever is uploaded and deleted meanwhile and whatever the
   cache evicts, was true of its store less than the time to live ago, and
   with the in-memory cache it answers the question that was asked. *)
THEOREM AnswersSound == Spec => []AnswersAreSound
<1>1. ServiceInv => AnswersAreSound
  BY InvTypes, InvAnswers DEF AnswersAreSound
<1> QED
  BY <1>1, ServiceInvariant, PTL

(* However the producer's thread, the handler and the client of a stream
   interleave, the client is sent the chunks in order, none missing, and the
   last frame after all of them (ws_routes.py: _run_stream). *)
THEOREM FramesArriveInOrder == Spec => []FramesInOrder
<1>1. ServiceInv => FramesInOrder
  <2> SUFFICES ASSUME ServiceInv, NEW i \in DOMAIN ws.sent
               PROVE  CASE ws.sent[i].kind = "chunk" -> ws.sent[i].n = i /\ i <= ws.made
                        [] ws.sent[i].kind \in {"done", "error"} ->
                             /\ i = Len(ws.sent) /\ i = ws.made + 1
                             /\ ws.stage = "ended" /\ ws.producer # "running"
                        [] OTHER -> i = 1 /\ Len(ws.sent) = 1 /\ ws.producer = "none"
    BY DEF FramesInOrder
  <2>1. PICK sent, m : sent = ws.sent /\ m = ws.made
    OBVIOUS
  <2>2. sent \in Seq(FrameRec) /\ InOrder(ws.stage, ws.producer, m, sent)
    BY <2>1 DEF ServiceInv, SessionInv, SessionFits, SessionRec
  <2>3. i \in 1..Len(sent)
    BY <2>1, <2>2
  <2>4. \/ sent[i].kind = "chunk" /\ sent[i].n = i /\ i <= m
        \/ /\ sent[i].kind \in {"done", "error"} /\ i = Len(sent) /\ i = m + 1
           /\ ws.stage = "ended" /\ ws.producer # "running"
        \/ sent[i].kind = "auth_error" /\ i = 1 /\ Len(sent) = 1 /\ ws.producer = "none"
    BY <2>2, <2>3 DEF InOrder, LastFrame
  <2> QED
    BY <2>1, <2>4
<1> QED
  BY <1>1, ServiceInvariant, PTL

(* Each answer of a batch was computed from contents that the store it names
   had at some time since the batch began, in whatever order the pool runs
   the queries (batch_routes.py: batch_search). *)
THEOREM BatchStaysCurrent == Spec => []BatchIsCurrent
<1>1. ServiceInv => BatchIsCurrent
  BY DEF ServiceInv, BatchInv, BatchIsCurrent, ResultSound, TrueSince
<1> QED
  BY <1>1, ServiceInvariant, PTL

(* A sequential batch of any length, over stores that are changed, deleted and
   made again between its searches, never answers a later query from older
   contents of a store than an earlier one
   (batch_routes.py: _execute_batch_sequential). *)
THEOREM BatchGoesForward == Spec => []BatchInOrder
<1>1. ServiceInv => BatchInOrder
  BY DEF ServiceInv, BatchInv
<1> QED
  BY <1>1, ServiceInvariant, PTL
===============================================================================
