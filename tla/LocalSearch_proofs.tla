-------------------------- MODULE LocalSearch_proofs --------------------------
(***************************************************************************)
(* Theorems about LocalSearch, for every store, query, ranking and number  *)
(* of threads.                                                             *)
(***************************************************************************)
EXTENDS LocalSearch, FiniteSetTheorems, SequenceTheorems, TLAPS

-----------------------------------------------------------------------------
(* Lemmas about numbers, lists and orders                                  *)

\* A set of numbers that is not empty has a least one, ...
LEMMA Least ==
  ASSUME NEW T \in SUBSET Nat, T # {}
  PROVE  \E m \in T : \A n \in T : m <= n
<1>1. PICK m \in T : \A n \in T : ~(<<n, m>> \in OpToRel(<, Nat))
  BY NatLessThanWellFounded, WFMin
<1>2. \A n \in T : ~(n < m)
  BY <1>1 DEF OpToRel
<1> QED
  BY <1>2

\* ... so that a set that holds the successor of each of its numbers holds all
\* from its first one on.
LEMMA Climb ==
  ASSUME NEW a \in Nat, NEW n \in Nat, NEW T, a \in T, \A i \in a..(n - 1) : i \in T => i + 1 \in T
  PROVE  a..n \subseteq T
<1> SUFFICES ASSUME (a..n) \ T # {} PROVE FALSE
  OBVIOUS
<1>1. PICK m \in (a..n) \ T : \A k \in (a..n) \ T : m <= k
  <2>1. (a..n) \ T \in SUBSET Nat
    OBVIOUS
  <2> QED
    BY <2>1, Least
<1>2. m # a /\ m - 1 \in a..n /\ m - 1 \in T
  BY <1>1
<1> QED
  BY <1>1, <1>2

\* A strict total order of a set, as the set of its pairs.
Orders(P, before) ==
  /\ \A i \in P : <<i, i>> \notin before
  /\ \A i, j, k \in P : <<i, j>> \in before /\ <<j, k>> \in before => <<i, k>> \in before
  /\ \A i, j \in P : i # j => <<i, j>> \in before \/ <<j, i>> \in before

\* Ranks in a strict total order of a finite set number its elements.
LEMMA RanksNumber ==
  ASSUME NEW P, IsFiniteSet(P), NEW before, Orders(P, before)
  PROVE  LET n == Cardinality(P)
             rank(i) == Cardinality({j \in P : <<j, i>> \in before})
         IN  /\ n \in Nat
             /\ \A i \in P : rank(i) \in 0..(n - 1)
             /\ \A i, j \in P : <<i, j>> \in before => rank(i) < rank(j)
             /\ \A k \in 1..n : \E i \in P : rank(i) = k - 1
<1> DEFINE n == Cardinality(P)
           first(i) == {j \in P : <<j, i>> \in before}
           rank(i) == Cardinality(first(i))
<1>1. n \in Nat
  BY FS_CardinalityType
<1>2. \A i \in P : first(i) \in SUBSET P /\ i \notin first(i)
  BY DEF Orders
<1>3. \A i, j \in P : <<i, j>> \in before => i \in first(j) /\ first(i) \subseteq first(j)
  BY DEF Orders
<1> HIDE DEF first, n
<1>4. ASSUME NEW i \in P PROVE rank(i) \in 0..(n - 1)
  <2>1. IsFiniteSet(first(i)) /\ rank(i) \in Nat /\ rank(i) <= n /\ rank(i) # n
    BY <1>2, FS_Subset, FS_CardinalityType DEF n
  <2> HIDE DEF rank
  <2> QED
    BY <1>1, <2>1
<1>5. ASSUME NEW i \in P, NEW j \in P, <<i, j>> \in before PROVE rank(i) < rank(j)
  <2>1. first(i) \in SUBSET first(j) /\ first(i) # first(j) /\ IsFiniteSet(first(j))
    BY <1>2, <1>3, <1>5, FS_Subset
  <2>2. rank(i) <= rank(j) /\ rank(i) # rank(j)
    BY <2>1, FS_Subset
  <2>3. rank(i) \in Int /\ rank(j) \in Int
    BY <1>1, <1>4
  <2> HIDE DEF rank
  <2> QED
    BY <2>2, <2>3
<1> HIDE DEF rank
<1>6. \A k \in 1..n : \E i \in P : rank(i) = k - 1
  <2> DEFINE R == [i \in P |-> rank(i) + 1]
  <2>1. R \in [P -> 1..n]
    BY <1>1, <1>4
  <2>2. \A i, j \in P : R[i] = R[j] => i = j
    <3> SUFFICES ASSUME NEW i \in P, NEW j \in P, rank(i) + 1 = rank(j) + 1, i # j PROVE FALSE
      OBVIOUS
    <3>1. rank(i) \in Int /\ rank(j) \in Int
      BY <1>1, <1>4
    <3>2. rank(i) < rank(j) \/ rank(j) < rank(i)
      BY <1>5 DEF Orders
    <3> QED
      BY <3>1, <3>2
  <2>3. R \in Injection(P, 1..n)
    <3> HIDE DEF R
    <3> QED
      BY <2>1, <2>2 DEF Injection, IsInjective
  <2>4. IsFiniteSet(1..n) /\ Cardinality(1..n) = n
    BY <1>1, FS_Interval
  <2>5. R \in Surjection(P, 1..n)
    <3> HIDE DEF R
    <3> QED
      BY <2>3, <2>4, FS_Injection DEF n
  <2>6. \A k \in 1..n : \E i \in P : R[i] = k
    <3> HIDE DEF R
    <3> QED
      BY <2>5 DEF Surjection
  <2> SUFFICES ASSUME NEW k \in 1..n PROVE \E i \in P : rank(i) = k - 1
    OBVIOUS
  <2>7. PICK i \in P : R[i] = k
    BY <2>6
  <2>8. rank(i) + 1 = k /\ rank(i) \in Int
    BY <1>1, <1>4, <2>7
  <2> QED
    BY <1>1, <2>8
<1> QED
  BY <1>1, <1>4, <1>5, <1>6 DEF rank, first, n

\* p tells which place each entry of a list was taken from.
Enumerates(p, list, s, P, before) ==
  /\ p \in [1..Cardinality(P) -> P]
  /\ \A k \in 1..Cardinality(P) : list[k] = s[p[k]]
  /\ \A k, l \in 1..Cardinality(P) : k < l => p[k] # p[l] /\ <<p[k], p[l]>> \in before
  /\ \A i \in P : \E k \in 1..Cardinality(P) : p[k] = i

\* What is listed in an order is listed once, and in that order.
LEMMA InOrderFacts ==
  ASSUME NEW s, NEW P, IsFiniteSet(P), NEW before, Orders(P, before)
  PROVE  /\ InOrder(s, P, before) \in Seq({s[i] : i \in P})
         /\ Len(InOrder(s, P, before)) = Cardinality(P)
         /\ \E p : Enumerates(p, InOrder(s, P, before), s, P, before)
<1> DEFINE n == Cardinality(P)
           rank(i) == Cardinality({j \in P : <<j, i>> \in before})
           p == [k \in 1..n |-> CHOOSE i \in P : rank(i) = k - 1]
<1>1. /\ n \in Nat
      /\ \A i \in P : rank(i) \in 0..(n - 1)
      /\ \A i, j \in P : <<i, j>> \in before => rank(i) < rank(j)
      /\ \A k \in 1..n : \E i \in P : rank(i) = k - 1
  BY RanksNumber
<1>2. InOrder(s, P, before) = [k \in 1..n |-> s[p[k]]]
  BY DEF InOrder
<1> HIDE DEF rank, n
<1>3. \A k \in 1..n : p[k] \in P /\ rank(p[k]) = k - 1
  BY <1>1
<1>4. p \in [1..n -> P]
  <2>1. p = [k \in 1..n |-> p[k]]
    OBVIOUS
  <2> HIDE DEF p
  <2> QED
    BY <1>3, <2>1
<1> HIDE DEF p
<1>5. ASSUME NEW k \in 1..n, NEW l \in 1..n, k < l
      PROVE  p[k] # p[l] /\ <<p[k], p[l]>> \in before
  <2>1. p[k] # p[l]
    BY <1>1, <1>3, <1>5
  <2>2. <<p[l], p[k]>> \in before => rank(p[l]) < rank(p[k])
    BY <1>1, <1>3
  <2> QED
    BY <1>1, <1>3, <1>5, <2>1, <2>2 DEF Orders
<1>6. ASSUME NEW i \in P PROVE \E k \in 1..n : p[k] = i
  <2> DEFINE k == rank(i) + 1
  <2>1. k \in 1..n /\ k - 1 = rank(i)
    BY <1>1
  <2>2. rank(p[k]) = rank(i) /\ p[k] \in P
    BY <1>3, <2>1
  <2>3. p[k] = i
    <3>1. rank(i) \in Int
      BY <1>1
    <3>2. ~(rank(p[k]) < rank(i)) /\ ~(rank(i) < rank(p[k]))
      BY <2>2, <3>1
    <3> QED
      BY <1>1, <2>2, <3>2 DEF Orders
  <2> QED
    BY <2>1, <2>3
<1> DEFINE list == InOrder(s, P, before)
<1>7. list \in Seq({s[i] : i \in P}) /\ Len(list) = n /\ \A k \in 1..n : list[k] = s[p[k]]
  <2>1. \A k \in 1..n : s[p[k]] \in {s[i] : i \in P}
    BY <1>3
  <2> QED
    BY <1>1, <1>2, <2>1
<1> HIDE DEF list
<1>8. Enumerates(p, list, s, P, before)
  BY <1>4, <1>5, <1>6, <1>7 DEF n, Enumerates
<1> QED
  BY <1>7, <1>8 DEF n, list

\* p lists the places of P in order, and the list holds what s has there.
Picks(p, list, s, P) ==
  /\ p \in [1..Cardinality(P) -> P]
  /\ \A k \in 1..Cardinality(P) : list[k] = s[p[k]]
  /\ \A k, l \in 1..Cardinality(P) : k < l => p[k] < p[l]
  /\ \A i \in P : \E k \in 1..Cardinality(P) : p[k] = i

\* What is picked of a list keeps its order.
LEMMA PickedFacts ==
  ASSUME NEW n \in Nat, NEW P \in SUBSET (1..n), NEW s
  PROVE  /\ IsFiniteSet(P) /\ Cardinality(P) \in 0..n
         /\ Picked(s, P) \in Seq({s[i] : i \in P})
         /\ Len(Picked(s, P)) = Cardinality(P)
         /\ \E p : Picks(p, Picked(s, P), s, P)
<1>0. PICK before : before = {e \in P \X P : e[1] < e[2]}
  OBVIOUS
<1>1. IsFiniteSet(P) /\ Cardinality(P) \in 0..n
  <2>1. IsFiniteSet(1..n) /\ Cardinality(1..n) = n
    BY FS_Interval
  <2>2. IsFiniteSet(P) /\ Cardinality(P) \in Nat /\ Cardinality(P) <= n
    BY <2>1, FS_Subset, FS_CardinalityType
  <2> QED
    BY <2>2
<1>2. \A i, j : <<i, j>> \in before <=> i \in P /\ j \in P /\ i < j
  BY <1>0
<1>3. Picked(s, P) = InOrder(s, P, before)
  BY <1>0 DEF Picked
<1>4. Orders(P, before)
  BY <1>2 DEF Orders
<1>5. PICK p : Enumerates(p, InOrder(s, P, before), s, P, before)
  BY <1>1, <1>4, InOrderFacts
<1>6. InOrder(s, P, before) \in Seq({s[i] : i \in P}) /\ Len(InOrder(s, P, before)) = Cardinality(P)
  BY <1>1, <1>4, InOrderFacts
<1>7. Picks(p, Picked(s, P), s, P)
  BY <1>2, <1>3, <1>5 DEF Enumerates, Picks
<1> QED
  BY <1>1, <1>3, <1>6, <1>7
-----------------------------------------------------------------------------
(* Sums                                                                    *)

\* f is the recursive function inside Total.
Adds(f, numbers, n) == f = [i \in 0..n |-> IF i = 0 THEN 0 ELSE f[i - 1] + numbers[i]]

\* The sum by its recursive function.
LEMMA TotalIs ==
  ASSUME NEW numbers
  PROVE  Total(numbers) = (CHOOSE f : Adds(f, numbers, Len(numbers)))[Len(numbers)]
BY DEF Total, Adds

\* That function exists for every list of numbers.
LEMMA AddsExists ==
  ASSUME NEW numbers, NEW n \in Nat
  PROVE  \E f : Adds(f, numbers, n)
<1> DEFINE T == {m \in Nat : \E f : Adds(f, numbers, m)}
<1>1. 0 \in T
  <2>1. Adds([i \in 0..0 |-> 0], numbers, 0)
    BY DEF Adds
  <2> QED
    BY <2>1
<1>2. ASSUME NEW m \in 0..(n - 1), m \in T PROVE m + 1 \in T
  <2>1. PICK f : Adds(f, numbers, m)
    BY <1>2
  <2> DEFINE g == [i \in 0..(m + 1) |-> IF i <= m THEN f[i] ELSE f[m] + numbers[m + 1]]
  <2>2. f[0] = 0 /\ \A i \in 1..m : f[i] = f[i - 1] + numbers[i]
    BY <2>1 DEF Adds
  <2>3. ASSUME NEW i \in 0..(m + 1) PROVE g[i] = IF i = 0 THEN 0 ELSE g[i - 1] + numbers[i]
    <3>1. CASE i = 0
      BY <2>2, <3>1
    <3>2. CASE i \in 1..m
      BY <2>2, <3>2
    <3>3. CASE i = m + 1
      BY <3>3
    <3> QED
      BY <3>1, <3>2, <3>3
  <2>4. g = [i \in 0..(m + 1) |-> g[i]]
    OBVIOUS
  <2> HIDE DEF g
  <2>5. Adds(g, numbers, m + 1)
    BY <2>3, <2>4, Zenon DEF Adds
  <2> QED
    BY <2>5
<1>3. 0..n \subseteq T
  <2> HIDE DEF T
  <2> QED
    BY <1>1, <1>2, Climb
<1> QED
  BY <1>3

\* A sum is the last of the sums of the beginnings.
LEMMA TotalSteps ==
  ASSUME NEW n \in Nat, NEW numbers \in [1..n -> Int]
  PROVE  \E f : /\ f[0] = 0 /\ f[n] = Total(numbers)
                /\ \A i \in 1..n : f[i] = f[i - 1] + numbers[i]
<1>1. Len(numbers) = n
  OBVIOUS
<1> DEFINE f == CHOOSE f : Adds(f, numbers, n)
<1>2. Adds(f, numbers, n)
  BY AddsExists
<1>3. f[n] = Total(numbers)
  BY <1>1, TotalIs
<1> HIDE DEF f
<1>4. f[0] = 0 /\ \A i \in 1..n : f[i] = f[i - 1] + numbers[i]
  BY <1>2 DEF Adds
<1> QED
  BY <1>3, <1>4

\* The sum of numbers is a number, and not negative when they are not.
LEMMA TotalType ==
  ASSUME NEW n \in Nat, NEW numbers \in [1..n -> Int]
  PROVE  /\ Total(numbers) \in Int
         /\ (\A i \in 1..n : numbers[i] >= 0) => Total(numbers) >= 0
<1>1. PICK f : /\ f[0] = 0 /\ f[n] = Total(numbers)
               /\ \A i \in 1..n : f[i] = f[i - 1] + numbers[i]
  BY TotalSteps
<1> DEFINE T == {m \in 0..n : f[m] \in Int}
           U == {m \in 0..n : f[m] \in Nat}
<1>2. 0 \in T /\ 0 \in U
  BY <1>1
<1>3. ASSUME NEW m \in 0..(n - 1), m \in T PROVE m + 1 \in T
  <2>1. m + 1 \in 1..n /\ (m + 1) - 1 = m
    OBVIOUS
  <2>2. f[m + 1] = f[m] + numbers[m + 1]
    BY <1>1, <2>1
  <2> QED
    BY <1>3, <2>1, <2>2
<1>4. ASSUME \A i \in 1..n : numbers[i] >= 0, NEW m \in 0..(n - 1), m \in U PROVE m + 1 \in U
  <2>1. m + 1 \in 1..n /\ (m + 1) - 1 = m
    OBVIOUS
  <2>2. f[m + 1] = f[m] + numbers[m + 1] /\ numbers[m + 1] \in Nat
    BY <1>1, <1>4, <2>1
  <2> QED
    BY <1>4, <2>1, <2>2
<1>5. 0..n \subseteq T
  <2> HIDE DEF T
  <2> QED
    BY <1>2, <1>3, Climb
<1>6. (\A i \in 1..n : numbers[i] >= 0) => 0..n \subseteq U
  <2> HIDE DEF U
  <2> QED
    BY <1>2, <1>4, Climb
<1> QED
  BY <1>1, <1>5, <1>6

\* A sum of numbers that are not negative is at least each of them.
LEMMA TotalAtLeast ==
  ASSUME NEW n \in Nat, NEW numbers \in [1..n -> Int], NEW j \in 1..n,
         \A i \in 1..n : numbers[i] >= 0
  PROVE  Total(numbers) >= numbers[j]
<1>1. PICK f : /\ f[0] = 0 /\ f[n] = Total(numbers)
               /\ \A i \in 1..n : f[i] = f[i - 1] + numbers[i]
  BY TotalSteps
<1> DEFINE T == {m \in 0..n : f[m] \in Nat /\ (m >= j => f[m] >= numbers[j])}
<1>2. 0 \in T
  BY <1>1
<1>3. ASSUME NEW m \in 0..(n - 1), m \in T PROVE m + 1 \in T
  <2>1. m + 1 \in 1..n /\ (m + 1) - 1 = m /\ numbers[j] \in Int
    OBVIOUS
  <2>2. f[m + 1] = f[m] + numbers[m + 1] /\ numbers[m + 1] \in Nat
    BY <1>1, <2>1
  <2>3. f[m] \in Nat /\ (m >= j => f[m] >= numbers[j])
    BY <1>3
  <2>4. m + 1 = j => numbers[m + 1] = numbers[j]
    OBVIOUS
  <2>5. f[m + 1] \in Nat /\ (m + 1 >= j => f[m + 1] >= numbers[j])
    BY <2>1, <2>2, <2>3, <2>4
  <2> QED
    BY <2>1, <2>5
<1>4. 0..n \subseteq T
  <2> HIDE DEF T
  <2> QED
    BY <1>2, <1>3, Climb
<1> QED
  BY <1>1, <1>4

\* When only one of the numbers is not zero, it is the sum.
LEMMA TotalOfOne ==
  ASSUME NEW n \in Nat, NEW numbers \in [1..n -> Int], NEW j \in 1..n,
         \A i \in 1..n : i # j => numbers[i] = 0
  PROVE  Total(numbers) = numbers[j]
<1>1. PICK f : /\ f[0] = 0 /\ f[n] = Total(numbers)
               /\ \A i \in 1..n : f[i] = f[i - 1] + numbers[i]
  BY TotalSteps
<1> DEFINE T == {m \in 0..n : f[m] = IF m < j THEN 0 ELSE numbers[j]}
<1>2. 0 \in T
  BY <1>1
<1>3. ASSUME NEW m \in 0..(n - 1), m \in T PROVE m + 1 \in T
  <2>1. m + 1 \in 1..n /\ (m + 1) - 1 = m
    OBVIOUS
  <2>2. f[m + 1] = f[m] + numbers[m + 1]
    BY <1>1, <2>1
  <2>3. CASE m + 1 = j
    BY <1>3, <2>1, <2>2, <2>3
  <2>4. CASE m + 1 # j
    BY <1>3, <2>1, <2>2, <2>4
  <2> QED
    BY <2>3, <2>4
<1>4. 0..n \subseteq T
  <2> HIDE DEF T
  <2> QED
    BY <1>2, <1>3, Climb
<1> QED
  BY <1>1, <1>4
-----------------------------------------------------------------------------
(* Greatest, least and first elements                                      *)

\* The greatest number of a bounded set is the one Max chooses.
LEMMA MaxWithin ==
  ASSUME NEW a \in Int, NEW b \in Int, NEW S \in SUBSET (a..b), S # {}
  PROVE  Max(S) \in S /\ \A y \in S : y <= Max(S)
<1> DEFINE T == {n \in Nat : b - n \in S}
<1>1. PICK x \in S : TRUE
  OBVIOUS
<1>2. b - x \in T
  <2>1. x \in Int /\ x <= b
    BY <1>1
  <2>2. b - x \in Nat /\ b - (b - x) = x
    BY <2>1
  <2> QED
    BY <1>1, <2>2
<1>3. PICK m \in T : \A n \in T : m <= n
  BY <1>2, Least
<1>4. b - m \in S
  BY <1>3
<1>5. ASSUME NEW y \in S PROVE b - m >= y
  <2>1. y \in Int /\ y <= b
    OBVIOUS
  <2>2. b - y \in Nat /\ b - (b - y) = y
    BY <2>1
  <2>3. b - y \in T
    BY <2>2
  <2>4. m \in Nat /\ m <= b - y
    BY <1>3, <2>3
  <2> QED
    BY <2>1, <2>4
<1>6. Max(S) \in S /\ \A y \in S : Max(S) >= y
  <2> HIDE DEF T
  <2> DEFINE z == b - m
  <2>1. z \in S /\ \A y \in S : z >= y
    BY <1>4, <1>5
  <2> HIDE DEF z
  <2> QED
    BY <2>1 DEF Max
<1> QED
  BY <1>6

\* A score is the greatest of some that have a bound.
Bounded(S, b) == b \in Nat /\ (\A x \in S : x \in Int /\ 0 <= x /\ x <= b) /\ S # {}

\* The largest of some numbers that a bound limits.
LEMMA MaxUpto ==
  ASSUME NEW S, NEW b, Bounded(S, b), NEW m, m = Max(S)
  PROVE  m \in S /\ m \in 0..b /\ \A y \in S : y <= m
<1>1. 0 \in Int /\ b \in Int /\ S \in SUBSET (0..b) /\ S # {}
  BY DEF Bounded
<1>2. Max(S) \in S /\ \A y \in S : y <= Max(S)
  BY <1>1, MaxWithin
<1> QED
  BY <1>1, <1>2

\* Larger and smaller of two.
LEMMA OfTwo ==
  ASSUME NEW a \in Int, NEW b \in Int
  PROVE  /\ Max({a, b}) = IF a >= b THEN a ELSE b
         /\ Min({a, b}) = IF a <= b THEN a ELSE b
<1>1. Max({a, b}) = IF a >= b THEN a ELSE b
  <2> DEFINE m == IF a >= b THEN a ELSE b
  <2>1. m \in {a, b} /\ (\A y \in {a, b} : m >= y) /\ \A x \in {a, b} : (\A y \in {a, b} : x >= y) => x = m
    OBVIOUS
  <2> HIDE DEF m
  <2> QED
    BY <2>1 DEF Max
<1>2. Min({a, b}) = IF a <= b THEN a ELSE b
  <2> DEFINE m == IF a <= b THEN a ELSE b
  <2>1. m \in {a, b} /\ (\A y \in {a, b} : m =< y) /\ \A x \in {a, b} : (\A y \in {a, b} : x =< y) => x = m
    OBVIOUS
  <2> HIDE DEF m
  <2> QED
    BY <2>1 DEF Min
<1> QED
  BY <1>1, <1>2

\* A finite set that is not empty has a first element in every strict total order.
LEMMA FirstExists ==
  ASSUME NEW P, IsFiniteSet(P), P # {}, NEW before, Orders(P, before)
  PROVE  \E i \in P : \A j \in P : <<j, i>> \notin before
<1>1. Cardinality(P) \in Nat /\ Cardinality(P) # 0
  BY FS_CardinalityType, FS_EmptySet
<1>2. PICK p : Enumerates(p, InOrder(P, P, before), P, P, before)
  BY InOrderFacts
<1> DEFINE n == Cardinality(P)
<1>3. /\ p \in [1..n -> P]
      /\ \A k, l \in 1..n : k < l => <<p[k], p[l]>> \in before
      /\ \A i \in P : \E k \in 1..n : p[k] = i
  BY <1>2 DEF Enumerates
<1>4. n \in Nat /\ 1 \in 1..n
  BY <1>1
<1> HIDE DEF n
<1>5. p[1] \in P
  BY <1>3, <1>4
<1>6. ASSUME NEW j \in P, <<j, p[1]>> \in before PROVE FALSE
  <2>1. PICK k \in 1..n : p[k] = j
    BY <1>3
  <2>2. CASE k = 1
    BY <1>5, <1>6, <2>1, <2>2 DEF Orders
  <2>3. CASE k # 1
    <3>1. 1 < k
      BY <1>4, <2>3
    <3>2. <<p[1], j>> \in before
      BY <1>3, <1>4, <2>1, <3>1
    <3>3. <<j, j>> \in before
      BY <1>5, <1>6, <3>2 DEF Orders
    <3> QED
      BY <3>3 DEF Orders
  <2> QED
    BY <2>2, <2>3
<1> QED
  BY <1>5, <1>6

\* The values a function takes on a finite set are finitely many.
LEMMA FiniteImage ==
  ASSUME NEW P, IsFiniteSet(P), NEW f, NEW T, T = {f[i] : i \in P}
  PROVE  IsFiniteSet(T)
<1> DEFINE g == [i \in P |-> f[i]]
<1>1. g \in Surjection(P, T)
  BY DEF Surjection
<1> QED
  BY <1>1, FS_Surjection

-----------------------------------------------------------------------------
(* Comprehensions, prefixes and rankings                                   *)

\* The first n of a list.
LEMMA UptoFacts ==
  ASSUME NEW S, NEW s \in Seq(S), NEW n \in Nat
  PROVE  /\ Upto(n, s) \in Seq(S)
         /\ Len(Upto(n, s)) = IF n <= Len(s) THEN n ELSE Len(s)
         /\ \A i \in 1..Len(Upto(n, s)) : Upto(n, s)[i] = s[i]
<1> DEFINE m == Min({n, Len(s)})
<1>0. Len(s) \in Nat
  OBVIOUS
<1>1. m = IF n <= Len(s) THEN n ELSE Len(s)
  <2>1. n \in Int /\ Len(s) \in Int
    BY <1>0
  <2> QED
    BY <2>1, OfTwo
<1>2. m \in 0..Len(s) /\ m \in Int
  BY <1>0, <1>1
<1> HIDE DEF m
<1>3. \A i \in 1..m : s[i] \in S
  BY <1>2
<1>4. /\ SubSeq(s, 1, m) \in Seq(S)
      /\ Len(SubSeq(s, 1, m)) = IF 1 <= m THEN m - 1 + 1 ELSE 0
      /\ \A i \in 1..(m - 1 + 1) : SubSeq(s, 1, m)[i] = s[1 + i - 1]
  BY <1>2, <1>3, SubSeqProperties
<1>5. Upto(n, s) = SubSeq(s, 1, m)
  BY DEF Upto, m
<1>6. Len(SubSeq(s, 1, m)) = m
  BY <1>2, <1>4
<1> QED
  BY <1>1, <1>2, <1>4, <1>5, <1>6

\* What is picked: every picked place once, in order.
LEMMA PickedIs ==
  ASSUME NEW S, NEW s \in Seq(S), NEW P \in SUBSET (1..Len(s))
  PROVE  /\ Picked(s, P) \in Seq(S)
         /\ Len(Picked(s, P)) = Cardinality(P) /\ Cardinality(P) \in 0..Len(s)
         /\ Picked(s, P) \in Seq({s[i] : i \in P})
         /\ \E p : Picks(p, Picked(s, P), s, P)
<1>1. Len(s) \in Nat
  OBVIOUS
<1>2. /\ IsFiniteSet(P) /\ Cardinality(P) \in 0..Len(s)
      /\ Picked(s, P) \in Seq({s[i] : i \in P})
      /\ Len(Picked(s, P)) = Cardinality(P)
      /\ \E p : Picks(p, Picked(s, P), s, P)
  BY <1>1, PickedFacts
<1>3. {s[i] : i \in P} \subseteq S
  OBVIOUS
<1>4. Picked(s, P) \in Seq(S)
  BY <1>2, <1>3, SeqMonotonic
<1> QED
  BY <1>2, <1>4

\* A list holds each of its elements once.
Unique(s) == \A i, j \in 1..Len(s) : s[i] = s[j] => i = j

\* Picking places that differ in what they have repeats nothing.
LEMMA PickedUnique ==
  ASSUME NEW S, NEW s \in Seq(S), NEW P \in SUBSET (1..Len(s)),
         \A i, j \in P : s[i] = s[j] => i = j
  PROVE  Unique(Picked(s, P))
<1>0. Len(s) \in Nat
  OBVIOUS
<1>4. \A i \in P : i \in Nat
  BY <1>0
<1>1. PICK p : Picks(p, Picked(s, P), s, P)
  BY PickedIs
<1>2. Len(Picked(s, P)) = Cardinality(P) /\ Cardinality(P) \in 0..Len(s)
  BY PickedIs
<1>3. ASSUME NEW k \in 1..Cardinality(P), NEW l \in 1..Cardinality(P), Picked(s, P)[k] = Picked(s, P)[l]
      PROVE  k = l
  <2>1. p[k] \in P /\ p[l] \in P /\ s[p[k]] = s[p[l]]
    BY <1>1, <1>3 DEF Picks
  <2>2. p[k] = p[l]
    BY <2>1
  <2>4. p[k] \in Nat
    BY <1>4, <2>1
  <2>3. ~(p[k] < p[l]) /\ ~(p[l] < p[k])
    BY <2>2, <2>4
  <2> QED
    BY <1>1, <1>2, <2>3 DEF Picks
<1> QED
  BY <1>0, <1>2, <1>3 DEF Unique

\* The beginning of a list repeats nothing the list does not repeat.
LEMMA UptoUnique ==
  ASSUME NEW S, NEW s \in Seq(S), NEW n \in Nat, Unique(s)
  PROVE  Unique(Upto(n, s))
BY UptoFacts DEF Unique

\* What is left of a list without its repetitions.
LEMMA DistinctFacts ==
  ASSUME NEW S, NEW s \in Seq(S)
  PROVE  /\ Distinct(s) \in Seq(S) /\ Unique(Distinct(s)) /\ Len(Distinct(s)) <= Len(s)
         /\ \A i \in 1..Len(s) : \E k \in 1..Len(Distinct(s)) : Distinct(s)[k] = s[i]
         /\ \A k \in 1..Len(Distinct(s)) : \E i \in 1..Len(s) : s[i] = Distinct(s)[k]
<1> DEFINE P == {i \in 1..Len(s) : \A j \in 1..(i - 1) : s[j] # s[i]}
<1>0. Len(s) \in Nat
  OBVIOUS
<1>1. Distinct(s) = Picked(s, P)
  <2>1. DOMAIN s = 1..Len(s)
    OBVIOUS
  <2> QED
    BY <2>1 DEF Distinct
<1>2. P \in SUBSET (1..Len(s))
  OBVIOUS
<1>3. ASSUME NEW i \in P, NEW j \in P, s[i] = s[j] PROVE i = j
  <2>1. i \in Nat /\ j \in Nat /\ i >= 1 /\ j >= 1
    BY <1>0
  <2>2. ~(i < j) /\ ~(j < i)
    BY <1>3, <2>1
  <2> QED
    BY <2>1, <2>2
<1>4. ASSUME NEW i \in 1..Len(s) PROVE \E j \in P : s[j] = s[i]
  <2> DEFINE T == {j \in 1..Len(s) : s[j] = s[i]}
  <2>1. T \in SUBSET Nat /\ T # {}
    BY <1>0
  <2>2. PICK m \in T : \A k \in T : m <= k
    BY <2>1, Least
  <2>3. ASSUME NEW j \in 1..(m - 1) PROVE s[j] # s[m]
    BY <1>0, <2>2
  <2>4. m \in P
    BY <2>2, <2>3
  <2> QED
    BY <2>4
<1> HIDE DEF P
<1>5. PICK p : Picks(p, Picked(s, P), s, P)
  BY <1>2, PickedIs
<1>6. /\ Picked(s, P) \in Seq(S) /\ Len(Picked(s, P)) = Cardinality(P) /\ Cardinality(P) \in 0..Len(s)
  BY <1>2, PickedIs
<1>7. Unique(Picked(s, P))
  BY <1>2, <1>3, PickedUnique
<1>8. \A i \in 1..Len(s) : \E k \in 1..Len(Picked(s, P)) : Picked(s, P)[k] = s[i]
  <2> TAKE i \in 1..Len(s)
  <2>1. PICK j \in P : s[j] = s[i]
    BY <1>4
  <2>2. PICK k \in 1..Cardinality(P) : p[k] = j
    BY <1>5 DEF Picks
  <2> QED
    BY <1>5, <1>6, <2>1, <2>2 DEF Picks
<1>9. \A k \in 1..Len(Picked(s, P)) : \E i \in 1..Len(s) : s[i] = Picked(s, P)[k]
  <2> TAKE k \in 1..Len(Picked(s, P))
  <2>1. k \in 1..Cardinality(P)
    BY <1>6
  <2>2. p[k] \in P /\ Picked(s, P)[k] = s[p[k]]
    BY <1>5, <2>1 DEF Picks
  <2> QED
    BY <1>2, <2>2
<1>10. Distinct(s) \in Seq(S) /\ Unique(Distinct(s)) /\ Len(Distinct(s)) <= Len(s)
  <2>1. Cardinality(P) \in Nat /\ Cardinality(P) <= Len(s)
    BY <1>0, <1>6
  <2> QED
    BY <1>1, <1>6, <1>7, <2>1
<1>11. \A i \in 1..Len(s) : \E k \in 1..Len(Distinct(s)) : Distinct(s)[k] = s[i]
  BY <1>1, <1>8
<1>12. \A k \in 1..Len(Distinct(s)) : \E i \in 1..Len(s) : s[i] = Distinct(s)[k]
  BY <1>1, <1>9
<1> QED
  BY <1>10, <1>11, <1>12

-----------------------------------------------------------------------------
(* Scores are numbers, within bounds                                       *)

\* A quotient is not above m when the dividend is not above m times the divisor.
LEMMA Quotient ==
  ASSUME NEW a \in Nat, NEW b \in Nat \ {0}, NEW m \in Nat
  PROVE  /\ a \div b \in Nat
         /\ a <= m * b => a \div b <= m
<1>1. a \div b \in Nat /\ a = b * (a \div b) + (a % b) /\ a % b \in 0..(b - 1)
  OBVIOUS
<1>2. ASSUME a <= m * b PROVE a \div b <= m
  <2>1. PICK q \in Nat : q = a \div b
    BY <1>1
  <2>2. b * q <= m * b
    BY <1>1, <1>2, <2>1
  <2>3. ASSUME q >= m + 1 PROVE FALSE
    <3>1. b * q >= b * (m + 1)
      BY <2>3
    <3>2. b * (m + 1) = m * b + b
      OBVIOUS
    <3> QED
      BY <2>2, <3>1, <3>2
  <2> QED
    BY <2>1, <2>3
<1> QED
  BY <1>1, <1>2

\* A share in hundredths is at most the score, and all of it only for the whole.
LEMMA HundredthsFacts ==
  ASSUME NEW score \in Nat, NEW whole \in Nat, NEW part \in 0..whole
  PROVE  /\ HundredthsOf(score, part, whole) \in 0..score
         /\ part = whole /\ whole # 0 => HundredthsOf(score, part, whole) = score
<1>1. CASE whole = 0
  BY <1>1 DEF HundredthsOf
<1>2. CASE whole # 0
  <2>1. score * part \in Nat /\ score * part <= score * whole
    OBVIOUS
  <2>2. whole \in Nat \ {0}
    BY <1>2
  <2>3. (score * part) \div whole \in Nat /\ (score * part) \div whole <= score
    BY <2>1, <2>2, Quotient
  <2>4. (score * whole) \div whole = score
    <3>1. score * whole = whole * score + 0
      OBVIOUS
    <3>2. whole > 0
      BY <2>2
    <3> QED
      BY <3>1, <3>2
  <2> QED
    BY <1>2, <2>3, <2>4 DEF HundredthsOf
<1> QED
  BY <1>1, <1>2

\* Hits are counted.
LEMMA HitsType ==
  ASSUME NEW text, NEW query \in Seq(Terms)
  PROVE  Hits(text, query) \in Nat
<1>1. {i \in DOMAIN query : Occurs(query[i], text)} \in SUBSET (1..Len(query)) /\ Len(query) \in Nat
  OBVIOUS
<1>2. IsFiniteSet(1..Len(query))
  BY <1>1, FS_Interval
<1>3. IsFiniteSet({i \in DOMAIN query : Occurs(query[i], text)})
  BY <1>1, <1>2, FS_Subset
<1> QED
  BY <1>3, FS_CardinalityType DEF Hits

\* A text begins with at most the whole query, and with all of it when it is the
\* query.
LEMMA PrefixRunFacts ==
  ASSUME NEW text \in Seq(Terms), NEW query \in Seq(Terms)
  PROVE  /\ PrefixRun(text, query) \in 0..Len(query)
         /\ text = query => PrefixRun(text, query) = Len(query)
<1> DEFINE Runs(i) == {k \in 0..Len(query) :
              \A j \in 1..k : i + j - 1 <= Len(text) /\ <<text[i + j - 1], query[j]>> \in StartsWith}
           all == {0} \cup {Run(text, query, i) : i \in DOMAIN text}
<1>0. Len(query) \in Nat /\ Len(text) \in Nat /\ DOMAIN text = 1..Len(text)
  OBVIOUS
<1>a. 0 \in Int /\ Len(query) \in Int
  BY <1>0
<1>1. ASSUME NEW i \in DOMAIN text
      PROVE  Run(text, query, i) \in 0..Len(query) /\ \A k \in Runs(i) : k <= Run(text, query, i)
  <2>1. 0 \in Runs(i) /\ Runs(i) \in SUBSET (0..Len(query))
    BY <1>0
  <2> HIDE DEF Runs
  <2>2. Max(Runs(i)) \in Runs(i) /\ \A k \in Runs(i) : k <= Max(Runs(i))
    BY <1>a, <2>1, MaxWithin
  <2>3. Run(text, query, i) = Max(Runs(i))
    BY DEF Run, Runs
  <2> QED
    BY <2>1, <2>2, <2>3
<1>2. all \in SUBSET (0..Len(query)) /\ all # {}
  BY <1>0, <1>1
<1> HIDE DEF all
<1>3. Max(all) \in all /\ \A k \in all : k <= Max(all)
  BY <1>a, <1>2, MaxWithin
<1>4. PrefixRun(text, query) = Max(all)
  BY DEF PrefixRun, all
<1>5. PrefixRun(text, query) \in 0..Len(query)
  BY <1>2, <1>3, <1>4
<1>6. ASSUME text = query, query # <<>> PROVE PrefixRun(text, query) = Len(query)
  <2>1. 1 \in DOMAIN text
    BY <1>0, <1>6
  <2>2. Len(query) \in Runs(1)
    <3>1. ASSUME NEW j \in 1..Len(query)
          PROVE  1 + j - 1 <= Len(text) /\ <<text[1 + j - 1], query[j]>> \in StartsWith
      <4>1. 1 + j - 1 = j /\ query[j] \in Terms
        BY <1>0
      <4> QED
        BY <1>0, <1>6, <4>1, TermsAssumption
    <3> QED
      BY <1>0, <3>1
  <2>3. Run(text, query, 1) \in all /\ Len(query) <= Run(text, query, 1)
    BY <1>1, <2>1, <2>2 DEF all
  <2>4. Run(text, query, 1) <= Max(all) /\ Run(text, query, 1) \in 0..Len(query)
    BY <1>1, <1>3, <2>1, <2>3
  <2> HIDE DEF Runs
  <2> QED
    BY <1>0, <1>4, <1>5, <2>3, <2>4
<1>7. ASSUME query = <<>> PROVE PrefixRun(text, query) = Len(query)
  BY <1>5, <1>7
<1> QED
  BY <1>5, <1>6, <1>7

\* A score of a title.
IsTitleScore(x) == x \in Int /\ 0 <= x /\ x <= 820

\* Only a name that is the query scores as much as it can.
LEMMA NameScoreFacts ==
  ASSUME NEW name \in Seq(Terms), NEW query \in Seq(Terms)
  PROVE  /\ IsTitleScore(NameScore(name, query))
         /\ query # <<>> => (NameScore(name, query) = 820 <=> name = query)
<1> DEFINE all == {0} \cup {x \in {700} : name = query}
                    \cup {x \in {600} : Phrase(name, query)}
                    \cup {x \in {520} : AllOccur(name, query)}
           part == HundredthsOf(120, PrefixRun(name, query), Len(query))
<1>0. Len(query) \in Nat /\ (query # <<>> => Len(query) # 0)
  OBVIOUS
<1>1. /\ PrefixRun(name, query) \in 0..Len(query)
      /\ name = query => PrefixRun(name, query) = Len(query)
  BY PrefixRunFacts
<1>2. part \in 0..120 /\ (name = query /\ query # <<>> => part = 120)
  BY <1>0, <1>1, HundredthsFacts, ZenonT(60)
<1>a. (\A x \in all : x \in Int /\ 0 <= x /\ x <= 700) /\ all # {}
  OBVIOUS
<1>3. (name = query => 700 \in all) /\ \A x \in all : x > 600 => name = query
  OBVIOUS
<1>4. NameScore(name, query) = Max(all) + part
  BY DEF NameScore
<1> DEFINE m == Max(all)
<1> HIDE DEF all, part
<1>6. Bounded(all, 700)
  BY <1>a DEF Bounded
<1>7. m \in all /\ m \in 0..700 /\ \A x \in all : x <= m
  BY <1>6, MaxUpto, ZenonT(60)
<1>8. NameScore(name, query) = m + part
  BY <1>4
<1> HIDE DEF m
<1>9. CASE name = query
  <2>1. m = 700
    BY <1>3, <1>7, <1>9
  <2>2. IsTitleScore(m + part)
    BY <1>2, <2>1 DEF IsTitleScore
  <2>3. query # <<>> => m + part = 820
    BY <1>2, <1>9, <2>1
  <2> QED
    BY <1>8, <1>9, <2>2, <2>3
<1>10. CASE name # query
  <2>1. m \in 0..600
    BY <1>3, <1>7, <1>10
  <2>3. IsTitleScore(m + part) /\ m + part # 820
    BY <1>2, <2>1 DEF IsTitleScore
  <2> QED
    BY <1>8, <1>10, <2>3
<1> QED
  BY <1>9, <1>10

\* The length of a name is a number.
LEMMA TextLengthType ==
  ASSUME NEW text \in Seq(Terms)
  PROVE  TextLength(text) \in Int
<1> DEFINE n == Len(text)
           lengths == [i \in DOMAIN text |-> Letters[text[i]]]
<1>1. n \in Nat /\ DOMAIN text = 1..n
  OBVIOUS
<1>2. lengths \in [1..n -> Int]
  <2>1. \A i \in 1..n : text[i] \in Terms
    OBVIOUS
  <2>2. \A i \in 1..n : Letters[text[i]] \in Int
    BY <2>1, TermsAssumption
  <2> QED
    BY <1>1, <2>2
<1>3. TextLength(text) = Total(lengths) + n - 1
  BY DEF TextLength
<1> HIDE DEF n, lengths
<1>4. Total(lengths) \in Int
  BY <1>1, <1>2, TotalType
<1> QED
  BY <1>1, <1>3, <1>4

\* An empty text is shorter than any other.
LEMMA EmptyLength == TextLength(<<>>) = -1
<1> DEFINE lengths == [i \in DOMAIN <<>> |-> Letters[<<>>[i]]]
<1>1. 0 \in Nat /\ lengths \in [1..0 -> Int] /\ Len(<<>>) = 0
  OBVIOUS
<1>2. TextLength(<<>>) = Total(lengths) + 0 - 1
  BY <1>1 DEF TextLength
<1> HIDE DEF lengths
<1>3. PICK f : f[0] = 0 /\ f[0] = Total(lengths)
  BY <1>1, TotalSteps
<1> QED
  BY <1>2, <1>3

\* The title of a document scores as much as it can when it is the query, if
\* that is not too short.
LEMMA TitleScoreFacts ==
  ASSUME NEW doc, IsDocument(doc), NEW query \in Seq(Terms)
  PROVE  /\ IsTitleScore(TitleScore(doc, query))
         /\ ~Short(query) =>
              (TitleScore(doc, query) = 820
                 <=> \E i \in DOMAIN doc.names : Distinct(doc.names[i]) = Distinct(query))
<1> DEFINE P == {j \in DOMAIN doc.names : ~Short(query) /\ doc.names[j] # <<>>}
           score(i) == NameScore(Distinct(doc.names[i]), Distinct(query))
           all == {0} \cup {score(i) : i \in P}
<1>0. doc.names \in Seq(Seq(Terms))
  BY DEF IsDocument
<1>1. \A i \in DOMAIN doc.names : doc.names[i] \in Seq(Terms)
  BY <1>0
<1>2. Distinct(query) \in Seq(Terms) /\ (~Short(query) => Distinct(query) # <<>>)
  <2>1. Distinct(query) \in Seq(Terms)
    BY DistinctFacts
  <2>2. Distinct(query) = <<>> => Short(query)
    BY EmptyLength DEF Short
  <2> QED
    BY <2>1, <2>2
<1>3. ASSUME NEW i \in DOMAIN doc.names
      PROVE  /\ IsTitleScore(score(i))
             /\ ~Short(query) => (score(i) = 820 <=> Distinct(doc.names[i]) = Distinct(query))
  <2>1. Distinct(doc.names[i]) \in Seq(Terms)
    BY <1>1, DistinctFacts
  <2> QED
    BY <1>2, <2>1, NameScoreFacts
<1>4. TitleScore(doc, query) = Max(all)
  BY DEF TitleScore
<1>5. \A x \in all : IsTitleScore(x)
  <2>1. IsTitleScore(0)
    BY DEF IsTitleScore
  <2>2. \A i \in P : IsTitleScore(score(i))
    BY <1>3
  <2>3. \A x \in all : x = 0 \/ \E i \in P : x = score(i)
    OBVIOUS
  <2> HIDE DEF all, P, score
  <2> QED
    BY <2>1, <2>2, <2>3, Zenon
<1>10. Bounded(all, 820)
  <2>1. 0 \in all
    OBVIOUS
  <2> HIDE DEF all
  <2> QED
    BY <1>5, <2>1 DEF Bounded, IsTitleScore
<1> DEFINE m == Max(all)
<1>6. m \in all /\ \A x \in all : x <= m
  <2> HIDE DEF all
  <2> QED
    BY <1>10, MaxUpto
<1>12. IsTitleScore(m)
  BY <1>5, <1>6, Zenon
<1>11. TitleScore(doc, query) = m
  BY <1>4
<1> HIDE DEF m
<1>7. ASSUME ~Short(query), m = 820
      PROVE  \E i \in DOMAIN doc.names : Distinct(doc.names[i]) = Distinct(query)
  <2>1. PICK i \in P : score(i) = 820
    BY <1>6, <1>7
  <2> QED
    BY <1>3, <1>7, <2>1
<1>8. ASSUME ~Short(query), NEW i \in DOMAIN doc.names, Distinct(doc.names[i]) = Distinct(query)
      PROVE  m = 820
  <2>1. doc.names[i] # <<>>
    <3>1. SUFFICES ASSUME doc.names[i] = <<>> PROVE FALSE
      OBVIOUS
    <3>2. <<>> \in Seq(Terms) /\ Len(<<>>) = 0
      OBVIOUS
    <3>3. Distinct(<<>>) \in Seq(Terms) /\ Len(Distinct(<<>>)) <= 0
      BY <3>2, DistinctFacts
    <3>4. Distinct(<<>>) = <<>>
      BY <3>3
    <3> QED
      BY <1>2, <1>8, <3>1, <3>4
  <2>2. i \in P
    BY <1>8, <2>1
  <2>3. score(i) = 820 /\ score(i) \in all
    BY <1>3, <1>8, <2>2
  <2> HIDE DEF all, score
  <2>4. 820 <= m
    BY <1>6, <2>3
  <2>5. m \in Int /\ m <= 820
    BY <1>12 DEF IsTitleScore
  <2> QED
    BY <2>4, <2>5
<1> HIDE DEF all
<1>13. IsTitleScore(TitleScore(doc, query))
  BY <1>11, <1>12, Zenon
<1> QED
  BY <1>7, <1>8, <1>11, <1>13

\* A folder adds nothing or something.
LEMMA FolderPriorType ==
  ASSUME NEW doc, NEW query \in Seq(Terms)
  PROVE  FolderPrior(doc, query) \in Nat
<1>1. Distinct(query) \in Seq(Terms)
  BY DistinctFacts
<1>2. Hits(doc.folder, Distinct(query)) \in Nat
  BY <1>1, HitsType
<1> QED
  BY <1>2 DEF FolderPrior

\* A named file scores up to 500.
LEMMA ExactFileScoreType ==
  ASSUME NEW doc, NEW query
  PROVE  ExactFileScore(doc, query) \in 0..500
<1> DEFINE q == Distinct(query)
           headings == Distinct(doc.headings)
           all == {0} \cup {x \in {500} : Phrase(Names(doc), q)}
                    \cup {x \in {450} : AllOccur(Names(doc), q)}
                    \cup {x \in {400} : Phrase(headings, q)}
                    \cup {x \in {350} : AllOccur(headings, q)}
                    \cup {x \in {300} : Phrase(Distinct(doc.body), q)}
<1>1. ExactFileScore(doc, query) = IF Short(query) THEN 0 ELSE Max(all)
  BY DEF ExactFileScore
<1>2. all \in SUBSET (0..500) /\ all # {}
  OBVIOUS
<1> HIDE DEF all
<1>3. 0 \in Int /\ 500 \in Int
  OBVIOUS
<1>4. Max(all) \in all
  BY <1>2, <1>3, MaxWithin, ZenonT(60)
<1>5. Max(all) \in 0..500
  BY <1>2, <1>4, Zenon
<1>6. 0 \in 0..500
  OBVIOUS
<1> QED
  BY <1>1, <1>5, <1>6, Zenon

\* What the words of a document add.
LEMMA LexicalBoostType ==
  ASSUME NEW doc, NEW query \in Seq(Terms)
  PROVE  LexicalBoost(doc, query) \in Nat
<1> DEFINE q == Distinct(query)
<1>1. q \in Seq(Terms)
  BY DistinctFacts
<1> HIDE DEF q
<1>2. /\ Hits(Title(doc), q) \in Nat /\ Hits(doc.headings, q) \in Nat
      /\ Hits(doc.tags, q) \in Nat /\ Hits(doc.links, q) \in Nat
  BY <1>1, HitsType
<1>3. LexicalBoost(doc, query) =
        IF q = <<>> THEN 0
        ELSE (IF Phrase(Title(doc), query) THEN 400 ELSE 0)
               + (IF Phrase(doc.headings, query) THEN 250 ELSE 0)
               + 75 * Hits(Title(doc), q) + 35 * Hits(doc.headings, q)
               + 20 * Hits(doc.tags, q) + 15 * Hits(doc.links, q)
  BY DEF LexicalBoost, q
<1>4. PICK a \in Nat, b \in Nat, c \in Nat, d \in Nat :
        /\ a = Hits(Title(doc), q) /\ b = Hits(doc.headings, q)
        /\ c = Hits(doc.tags, q) /\ d = Hits(doc.links, q)
  BY <1>2, Zenon
<1>5. PICK e \in Nat, f \in Nat : /\ e = IF Phrase(Title(doc), query) THEN 400 ELSE 0
                                 /\ f = IF Phrase(doc.headings, query) THEN 250 ELSE 0
  OBVIOUS
<1>6. LexicalBoost(doc, query) = IF q = <<>> THEN 0 ELSE e + f + 75 * a + 35 * b + 20 * c + 15 * d
  BY <1>3, <1>4, <1>5
<1>7. e + f + 75 * a + 35 * b + 20 * c + 15 * d \in Nat
  OBVIOUS
<1> QED
  BY <1>6, <1>7

\* A penalty is never negative.
LEMMA PenaltyType ==
  ASSUME NEW doc, NEW query
  PROVE  Penalty(doc, query) \in Nat
BY DEF Penalty

\* What a common beginning of title and query adds.
LEMMA PrefixScoreType ==
  ASSUME NEW doc, IsDocument(doc), NEW query \in Seq(Terms)
  PROVE  PrefixScore(doc, query) \in Nat
<1> DEFINE q == Distinct(query)
           a == PrefixRun(Distinct(Title(doc)), q)
           b == PrefixRun(Distinct(doc.headings), q)
<1>1. q \in Seq(Terms)
  BY DistinctFacts
<1>2. Title(doc) \in Seq(Terms) /\ doc.headings \in Seq(Terms)
  BY DEF Title, IsDocument
<1>3. Distinct(Title(doc)) \in Seq(Terms) /\ Distinct(doc.headings) \in Seq(Terms)
  BY <1>2, DistinctFacts
<1> HIDE DEF q
<1>4. a \in 0..Len(q) /\ b \in 0..Len(q) /\ Len(q) \in Nat
  BY <1>1, <1>3, PrefixRunFacts
<1>5. PrefixScore(doc, query) = HundredthsOf(100, Max({a, b}), Len(q))
  BY DEF PrefixScore, q
<1> HIDE DEF a, b
<1>6. a \in Int /\ b \in Int
  BY <1>4
<1>7. Max({a, b}) \in 0..Len(q)
  BY <1>4, <1>6, OfTwo
<1> DEFINE c == HundredthsOf(100, Max({a, b}), Len(q))
<1>8. c \in 0..100
  BY <1>4, <1>7, HundredthsFacts
<1>9. PrefixScore(doc, query) = c
  BY <1>5
<1> HIDE DEF c
<1>10. c \in Nat
  BY <1>8
<1> QED
  BY <1>9, <1>10
-----------------------------------------------------------------------------
(* Orders                                                                  *)

\* Tuples of numbers are ordered like Python's.
LEMMA LexicalOrder ==
  ASSUME NEW n \in Nat, NEW a \in [1..n -> Int], NEW b \in [1..n -> Int], NEW c \in [1..n -> Int]
  PROVE  /\ a = b \/ Greater(a, b) \/ Greater(b, a)
         /\ ~Greater(a, a)
         /\ Greater(a, b) /\ Greater(b, c) => Greater(a, c)
<1>1. a = b \/ Greater(a, b) \/ Greater(b, a)
  <2> DEFINE T == {i \in 1..n : a[i] # b[i]}
  <2>1. CASE T = {}
    <3>1. \A i \in 1..n : a[i] = b[i]
      BY <2>1
    <3>2. a = b
      BY <3>1
    <3> QED
      BY <3>2
  <2>2. CASE T # {}
    <3>1. T \in SUBSET Nat
      OBVIOUS
    <3>2. PICK m \in T : \A k \in T : m <= k
      BY <2>2, <3>1, Least
    <3>3. m \in 1..n /\ a[m] # b[m] /\ a[m] \in Int /\ b[m] \in Int
      BY <3>2
    <3>4. ASSUME NEW j \in 1..(m - 1) PROVE a[j] = b[j] /\ b[j] = a[j]
      <4>1. j \in 1..n /\ ~(m <= j)
        BY <3>3
      <4> QED
        BY <3>2, <4>1
    <3>5. CASE a[m] > b[m]
      BY <3>3, <3>4, <3>5 DEF Greater
    <3>6. CASE b[m] > a[m]
      BY <3>3, <3>4, <3>6 DEF Greater
    <3> QED
      BY <3>3, <3>5, <3>6
  <2> QED
    BY <2>1, <2>2
<1>2. ~Greater(a, a)
  BY DEF Greater
<1>3. ASSUME Greater(a, b), Greater(b, c) PROVE Greater(a, c)
  <2>1. PICK i \in 1..n : a[i] > b[i] /\ \A j \in 1..(i - 1) : a[j] = b[j]
    BY <1>3 DEF Greater
  <2>2. PICK k \in 1..n : b[k] > c[k] /\ \A j \in 1..(k - 1) : b[j] = c[j]
    BY <1>3 DEF Greater
  <2>3. CASE i <= k
    <3>1. a[i] > c[i]
      <4>1. CASE i = k
        BY <2>1, <2>2, <4>1
      <4>2. CASE i # k
        <5>1. i \in 1..(k - 1)
          BY <2>3, <4>2
        <5> QED
          BY <2>1, <2>2, <5>1
      <4> QED
        BY <4>1, <4>2
    <3>2. ASSUME NEW j \in 1..(i - 1) PROVE a[j] = c[j]
      <4>1. j \in 1..(k - 1)
        BY <2>3
      <4> QED
        BY <2>1, <2>2, <4>1
    <3> QED
      BY <3>1, <3>2 DEF Greater
  <2>4. CASE k < i
    <3>1. k \in 1..(i - 1)
      BY <2>4
    <3>2. a[k] > c[k]
      BY <2>1, <2>2, <3>1
    <3>3. ASSUME NEW j \in 1..(k - 1) PROVE a[j] = c[j]
      <4>1. j \in 1..(i - 1)
        BY <2>4
      <4> QED
        BY <2>1, <2>2, <4>1
    <3> QED
      BY <3>2, <3>3 DEF Greater
  <2> QED
    BY <2>3, <2>4
<1> QED
  BY <1>1, <1>2, <1>3

\* Python's stable sort in reverse: higher scores first, and equal ones as they were.
Sorted(p, list, entries, n) ==
  /\ p \in [1..n -> 1..n]
  /\ \A k \in 1..n : list[k] = entries[p[k]]
  /\ \A k, l \in 1..n : k < l =>
        \/ entries[p[k]].score > entries[p[l]].score
        \/ entries[p[k]].score = entries[p[l]].score /\ p[k] < p[l]
  /\ \A i \in 1..n : \E k \in 1..n : p[k] = i

\* Sorting by score: a rearrangement, the largest score first, equal ones as
\* they came.
LEMMA DescendingFacts ==
  ASSUME NEW S, NEW entries \in Seq(S), \A i \in 1..Len(entries) : entries[i].score \in Int
  PROVE  /\ Descending(entries) \in Seq(S) /\ Len(Descending(entries)) = Len(entries)
         /\ \E p : Sorted(p, Descending(entries), entries, Len(entries))
<1> DEFINE n == Len(entries)
           earlier(i, j) == \/ entries[i].score > entries[j].score
                            \/ entries[i].score = entries[j].score /\ i < j
<1>1. n \in Nat /\ DOMAIN entries = 1..n
  OBVIOUS
<1>2. PICK before : before = {e \in (1..n) \X (1..n) : earlier(e[1], e[2])}
  OBVIOUS
<1>3. \A i, j : <<i, j>> \in before <=> i \in 1..n /\ j \in 1..n /\ earlier(i, j)
  BY <1>2
<1>4. Descending(entries) = InOrder(entries, 1..n, before)
  BY <1>1, <1>2 DEF Descending
<1>5. IsFiniteSet(1..n) /\ Cardinality(1..n) = n
  BY <1>1, FS_Interval
<1> HIDE DEF n
<1>6. Orders(1..n, before)
  <2>1. \A i \in 1..n : <<i, i>> \notin before
    BY <1>1, <1>3
  <2>2. ASSUME NEW i \in 1..n, NEW j \in 1..n, NEW k \in 1..n, <<i, j>> \in before, <<j, k>> \in before
        PROVE  <<i, k>> \in before
    <3>1. earlier(i, j) /\ earlier(j, k)
      BY <1>3, <2>2
    <3>2. i \in Nat /\ j \in Nat /\ k \in Nat
      BY <1>1
    <3>3. entries[i].score \in Int /\ entries[j].score \in Int /\ entries[k].score \in Int
      BY DEF n
    <3>4. earlier(i, k)
      BY <3>1, <3>2, <3>3
    <3> QED
      BY <1>3, <3>4
  <2>3. ASSUME NEW i \in 1..n, NEW j \in 1..n, i # j PROVE <<i, j>> \in before \/ <<j, i>> \in before
    <3>1. i \in Nat /\ j \in Nat
      BY <1>1
    <3>2. entries[i].score \in Int /\ entries[j].score \in Int
      BY DEF n
    <3>3. earlier(i, j) \/ earlier(j, i)
      BY <2>3, <3>1, <3>2
    <3> QED
      BY <1>3, <3>3
  <2> QED
    BY <2>1, <2>2, <2>3 DEF Orders
<1>7. /\ InOrder(entries, 1..n, before) \in Seq({entries[i] : i \in 1..n})
      /\ Len(InOrder(entries, 1..n, before)) = n
  BY <1>5, <1>6, InOrderFacts
<1>8. PICK p : Enumerates(p, InOrder(entries, 1..n, before), entries, 1..n, before)
  BY <1>5, <1>6, InOrderFacts
<1>9. Sorted(p, Descending(entries), entries, n)
  <2>1. /\ p \in [1..n -> 1..n]
        /\ \A k \in 1..n : Descending(entries)[k] = entries[p[k]]
        /\ \A k, l \in 1..n : k < l => <<p[k], p[l]>> \in before
        /\ \A i \in 1..n : \E k \in 1..n : p[k] = i
    BY <1>4, <1>5, <1>8 DEF Enumerates
  <2>2. \A k, l \in 1..n : k < l => earlier(p[k], p[l])
    BY <1>3, <2>1
  <2> QED
    BY <2>1, <2>2 DEF Sorted
<1>10. {entries[i] : i \in 1..n} \subseteq S
  BY DEF n
<1>11. Descending(entries) \in Seq(S)
  BY <1>4, <1>7, <1>10, SeqMonotonic
<1> QED
  BY <1>4, <1>7, <1>9, <1>11 DEF n
-----------------------------------------------------------------------------
(* The note a query names                                                  *)

\* The best title candidate is one of the names, or no text.
LEMMA BestNameType ==
  ASSUME NEW doc, IsDocument(doc)
  PROVE  BestName(doc) \in Seq(Terms)
<1> DEFINE all == [i \in DOMAIN doc.names |-> Distinct(doc.names[i])]
           P == {i \in DOMAIN all : all[i] # <<>>}
           names == Picked(all, P)
           shorter(i, k) == \/ TextLength(names[i]) < TextLength(names[k])
                            \/ TextLength(names[i]) = TextLength(names[k]) /\ i < k
<1>1. doc.names \in Seq(Seq(Terms))
  BY DEF IsDocument
<1>2. all \in Seq(Seq(Terms))
  <2>1. \A i \in 1..Len(doc.names) : doc.names[i] \in Seq(Terms)
    BY <1>1
  <2>2. \A i \in 1..Len(doc.names) : Distinct(doc.names[i]) \in Seq(Terms)
    BY <2>1, DistinctFacts
  <2>3. DOMAIN doc.names = 1..Len(doc.names) /\ Len(doc.names) \in Nat
    BY <1>1
  <2> QED
    BY <2>2, <2>3
<1>3. P \in SUBSET (1..Len(all))
  BY <1>2
<1>4. names \in Seq(Seq(Terms))
  <2> HIDE DEF all, P
  <2> QED
    BY <1>2, <1>3, PickedIs
<1>5. BestName(doc) = IF names = <<>> THEN <<>>
                      ELSE names[CHOOSE j \in DOMAIN names : \A k \in DOMAIN names :
                                   \/ TextLength(names[j]) < TextLength(names[k])
                                   \/ TextLength(names[j]) = TextLength(names[k]) /\ j <= k]
  BY DEF BestName
<1> HIDE DEF all, P, names
<1>6. ASSUME names # <<>> PROVE BestName(doc) \in Seq(Terms)
  <2> DEFINE n == Len(names)
  <2>1. n \in Nat /\ DOMAIN names = 1..n /\ n # 0
    BY <1>4, <1>6
  <2>2. \A i \in 1..n : TextLength(names[i]) \in Int
    <3>1. \A i \in 1..n : names[i] \in Seq(Terms)
      BY <1>4
    <3> QED
      BY <3>1, TextLengthType
  <2> HIDE DEF n
  <2>3. PICK before : before = {e \in (1..n) \X (1..n) : shorter(e[1], e[2])}
    OBVIOUS
  <2>4. \A i, k : <<i, k>> \in before <=> i \in 1..n /\ k \in 1..n /\ shorter(i, k)
    BY <2>3
  <2>5. Orders(1..n, before)
    <3>1. ASSUME NEW i \in 1..n, NEW j \in 1..n, NEW k \in 1..n, <<i, j>> \in before, <<j, k>> \in before
          PROVE  <<i, k>> \in before
      <4>1. shorter(i, j) /\ shorter(j, k)
        BY <2>4, <3>1
      <4>2. shorter(i, k)
        BY <2>1, <2>2, <4>1
      <4> QED
        BY <2>4, <4>2
    <3>2. \A i \in 1..n : <<i, i>> \notin before
      <4>1. \A i \in 1..n : ~shorter(i, i)
        BY <2>1, <2>2
      <4> QED
        BY <2>4, <4>1
    <3>3. ASSUME NEW i \in 1..n, NEW j \in 1..n, i # j PROVE <<i, j>> \in before \/ <<j, i>> \in before
      <4>1. shorter(i, j) \/ shorter(j, i)
        BY <2>1, <2>2, <3>3
      <4> QED
        BY <2>4, <4>1
    <3> QED
      BY <3>1, <3>2, <3>3 DEF Orders
  <2>6. PICK j \in 1..n : \A k \in 1..n : <<k, j>> \notin before
    <3>1. IsFiniteSet(1..n)
      BY <2>1, FS_Interval
    <3>2. 1..n # {}
      BY <2>1
    <3> QED
      BY <2>5, <3>1, <3>2, FirstExists
  <2>7. ASSUME NEW k \in 1..n
        PROVE  \/ TextLength(names[j]) < TextLength(names[k])
               \/ TextLength(names[j]) = TextLength(names[k]) /\ j <= k
    <3>1. ~shorter(k, j)
      BY <2>4, <2>6
    <3> QED
      BY <2>1, <2>2, <3>1
  <2> DEFINE best == CHOOSE j_1 \in DOMAIN names : \A k \in DOMAIN names :
                        \/ TextLength(names[j_1]) < TextLength(names[k])
                        \/ TextLength(names[j_1]) = TextLength(names[k]) /\ j_1 <= k
  <2>8. best \in DOMAIN names
    BY <2>1, <2>7
  <2>9. BestName(doc) = names[best]
    BY <1>5, <1>6
  <2> HIDE DEF best
  <2> QED
    BY <1>4, <2>8, <2>9
<1>7. ASSUME names = <<>> PROVE BestName(doc) \in Seq(Terms)
  BY <1>5, <1>7
<1> QED
  BY <1>6, <1>7

\* The tie-break is six numbers.
LEMMA ArbitrationType ==
  ASSUME NEW doc, IsDocument(doc), NEW query \in Seq(Terms)
  PROVE  Arbitration(doc, query) \in [1..6 -> Int]
<1>0. TitleScore(doc, query) \in Int
  <2>1. PICK score : score = TitleScore(doc, query)
    OBVIOUS
  <2>2. IsTitleScore(TitleScore(doc, query))
    BY TitleScoreFacts
  <2>3. IsTitleScore(score)
    BY <2>1, <2>2, Zenon
  <2>4. score \in Int
    BY <2>3 DEF IsTitleScore
  <2> QED
    BY <2>1, <2>4, Zenon
<1> DEFINE q == Distinct(query)
           name == BestName(doc)
           headings == Distinct(doc.headings)
           missing == Cardinality({i \in DOMAIN name : \A j \in DOMAIN q : q[j] # name[i]})
           extra == missing + (IF \A i \in DOMAIN q : \E j \in DOMAIN name : name[j] = q[i] THEN 0 ELSE 10)
           gap == Max({0, TextLength(name) - TextLength(q)})
           noise == IF doc.note THEN Max({0, Len(Title(doc)) - 1 - Len(q)}) ELSE 0
           unknown == name = <<>> \/ q = <<>>
           a == TitleScore(doc, query)
           b == Bit(name # <<>> /\ name = q)
           c == Bit(name # <<>> /\ q # <<>> /\ PhraseAt(name, q, 1))
           d == Bit(headings # <<>> /\ q # <<>> /\ PhraseAt(headings, q, 1))
           e == IF unknown THEN -999 ELSE -extra
           f == IF unknown THEN -(999 + noise) ELSE -(gap + noise)
<1>1. q \in Seq(Terms)
  BY DistinctFacts
<1>2. name \in Seq(Terms)
  BY BestNameType
<1>3. Title(doc) \in Seq(Terms)
  BY DEF Title, IsDocument
<1>4. a \in Int
  BY <1>0
<1>5. Arbitration(doc, query) = <<a, b, c, d, e, f>>
  BY DEF Arbitration
<1>6. b \in Int /\ c \in Int /\ d \in Int
  BY DEF Bit
<1> HIDE DEF q, name, headings, a, b, c, d
<1>7. missing \in Int
  <2>1. Len(name) \in Nat /\ DOMAIN name = 1..Len(name)
    BY <1>2
  <2>2. IsFiniteSet(1..Len(name))
    BY <2>1, FS_Interval
  <2>3. IsFiniteSet({i \in DOMAIN name : \A j \in DOMAIN q : q[j] # name[i]})
    BY <2>1, <2>2, FS_Subset
  <2> QED
    BY <2>3, FS_CardinalityType
<1>8. gap \in Int
  <2>1. TextLength(name) \in Int /\ TextLength(q) \in Int
    BY <1>1, <1>2, TextLengthType
  <2>2. 0 \in Int /\ TextLength(name) - TextLength(q) \in Int
    BY <2>1
  <2> QED
    BY <2>2, OfTwo
<1>9. noise \in Int
  <2>1. 0 \in Int /\ Len(Title(doc)) - 1 - Len(q) \in Int
    BY <1>1, <1>3
  <2> QED
    BY <2>1, OfTwo
<1>10. e \in Int /\ f \in Int
  <2> HIDE DEF missing, gap, noise, unknown
  <2> QED
    BY <1>7, <1>8, <1>9
<1> HIDE DEF e, f
<1> QED
  BY <1>4, <1>5, <1>6, <1>10

\* The best of the arbitrations is one of them.
LEMMA BestExists ==
  ASSUME NEW all \in SUBSET [1..6 -> Int], IsFiniteSet(all), all # {}
  PROVE  (CHOOSE a \in all : \A b \in all : ~Greater(b, a)) \in all
<1>1. PICK before : before = {e \in all \X all : Greater(e[1], e[2])}
  OBVIOUS
<1>2. \A a, b : <<a, b>> \in before <=> a \in all /\ b \in all /\ Greater(a, b)
  BY <1>1
<1>3. \A a, b, c \in all : /\ a = b \/ Greater(a, b) \/ Greater(b, a)
                           /\ ~Greater(a, a)
                           /\ Greater(a, b) /\ Greater(b, c) => Greater(a, c)
  <2> TAKE a \in all, b \in all, c \in all
  <2>1. 6 \in Nat /\ a \in [1..6 -> Int] /\ b \in [1..6 -> Int] /\ c \in [1..6 -> Int]
    OBVIOUS
  <2> QED
    BY <2>1, LexicalOrder
<1>4. Orders(all, before)
  BY <1>2, <1>3 DEF Orders
<1>5. PICK a \in all : \A b \in all : <<b, a>> \notin before
  BY <1>4, FirstExists
<1>6. \A b \in all : ~Greater(b, a)
  BY <1>2, <1>5
<1> QED
  BY <1>6

\* The documents of a list.
Own(docs) == {docs[i] : i \in 1..Len(docs)}

\* A cluster of the documents whose titles match the query.
IsCluster(c, docs, query) ==
  /\ c.docs \in Seq(Own(docs)) /\ c.docs # <<>>
  /\ Unique(docs) => Unique(c.docs)
  /\ IsTitleScore(c.score) /\ c.arb \in [1..6 -> Int]
  /\ \E k \in 1..Len(c.docs) : TitleScore(Text[c.docs[k]], query) = c.score
  /\ \A k \in 1..Len(c.docs) : TitleScore(Text[c.docs[k]], query) <= c.score
  /\ \A k, l \in 1..Len(c.docs) : Text[c.docs[k]].cluster = Text[c.docs[l]].cluster

\* The documents whose title matches are of the list.
LEMMA ScoredFacts ==
  ASSUME NEW docs \in Seq(DOMAIN Text), NEW query
  PROVE  /\ Scored(docs, query) \in Seq(Own(docs))
         /\ Unique(docs) => Unique(Scored(docs, query))
         /\ \A i \in 1..Len(docs) : TitleScore(Text[docs[i]], query) > 0 =>
               \E k \in 1..Len(Scored(docs, query)) : Scored(docs, query)[k] = docs[i]
<1> DEFINE P == {i \in DOMAIN docs : TitleScore(Text[docs[i]], query) > 0}
<1>1. Scored(docs, query) = Picked(docs, P)
  BY DEF Scored
<1>2. P \in SUBSET (1..Len(docs)) /\ Len(docs) \in Nat
  OBVIOUS
<1>3. \A i \in 1..Len(docs) : TitleScore(Text[docs[i]], query) > 0 => i \in P
  OBVIOUS
<1>4. docs \in Seq(Own(docs))
  BY DEF Own
<1> HIDE DEF P
<1>5. /\ Picked(docs, P) \in Seq(Own(docs)) /\ Len(Picked(docs, P)) = Cardinality(P)
      /\ Cardinality(P) \in 0..Len(docs)
  BY <1>2, <1>4, PickedIs
<1>6. PICK p : Picks(p, Picked(docs, P), docs, P)
  BY <1>2, <1>4, PickedIs
<1>7. Unique(docs) => Unique(Picked(docs, P))
  <2>1. ASSUME Unique(docs), NEW i \in P, NEW j \in P, docs[i] = docs[j] PROVE i = j
    BY <1>2, <2>1 DEF Unique
  <2> QED
    BY <1>2, <2>1, PickedUnique
<1>8. \A i \in P : \E k \in 1..Len(Picked(docs, P)) : Picked(docs, P)[k] = docs[i]
  BY <1>5, <1>6 DEF Picks
<1> QED
  BY <1>1, <1>3, <1>5, <1>7, <1>8

\* What is kept of the documents of one cluster.
Cluster(c, named, query, name) ==
  LET L == Picked(named, {i \in DOMAIN named : Text[named[i]].cluster = name})
  IN  c = [docs |-> L,
           score |-> Max({TitleScore(Text[d], query) : d \in Range(L)}),
           arb |-> CHOOSE a \in {Arbitration(Text[d], query) : d \in Range(L)} :
                     \A b \in {Arbitration(Text[d], query) : d \in Range(L)} : ~Greater(b, a)]

\* One cluster of those documents: its own documents, with its best score.
LEMMA ClusterIs ==
  ASSUME NEW docs \in Seq(DOMAIN Text), NEW query \in Seq(Terms),
         NEW named \in Seq(Own(docs)), Unique(docs) => Unique(named),
         NEW name, NEW i0 \in 1..Len(named), Text[named[i0]].cluster = name,
         NEW c, Cluster(c, named, query, name)
  PROVE  /\ IsCluster(c, docs, query)
         /\ \A i \in 1..Len(named) : Text[named[i]].cluster = name => \E k \in 1..Len(c.docs) : c.docs[k] = named[i]
<1>p. PICK L : L = Picked(named, {i \in DOMAIN named : Text[named[i]].cluster = name})
  OBVIOUS
<1>0. c = [docs |-> L,
           score |-> Max({TitleScore(Text[d], query) : d \in Range(L)}),
           arb |-> CHOOSE a \in {Arbitration(Text[d], query) : d \in Range(L)} :
                     \A b \in {Arbitration(Text[d], query) : d \in Range(L)} : ~Greater(b, a)]
  BY <1>p DEF Cluster
<1> DEFINE P == {i \in DOMAIN named : Text[named[i]].cluster = name}
           scores == {TitleScore(Text[d], query) : d \in Range(L)}
           arbs == {Arbitration(Text[d], query) : d \in Range(L)}
<1>1. P \in SUBSET (1..Len(named)) /\ Len(named) \in Nat /\ i0 \in P
  OBVIOUS
<1>2. L = Picked(named, P)
  BY <1>p
<1>3. \A i \in 1..Len(named) : i \in P <=> Text[named[i]].cluster = name
  OBVIOUS
<1>4. Own(docs) \subseteq DOMAIN Text
  BY DEF Own
<1> HIDE DEF P
<1>5. /\ L \in Seq(Own(docs)) /\ Len(L) = Cardinality(P) /\ Cardinality(P) \in 0..Len(named)
  BY <1>1, <1>2, PickedIs
<1>6. PICK p : Picks(p, L, named, P)
  BY <1>1, <1>2, PickedIs
<1>7. \A i \in P : \E k \in 1..Len(L) : L[k] = named[i]
  <2> TAKE i \in P
  <2>1. PICK k \in 1..Cardinality(P) : p[k] = i
    BY <1>6 DEF Picks
  <2>2. L[k] = named[i] /\ k \in 1..Len(L)
    BY <1>5, <1>6, <2>1 DEF Picks
  <2> QED
    BY <2>2
<1>8. \A k \in 1..Len(L) : Text[L[k]].cluster = name
  <2> TAKE k \in 1..Len(L)
  <2>1. p[k] \in P /\ L[k] = named[p[k]]
    BY <1>5, <1>6 DEF Picks
  <2> QED
    BY <1>1, <1>3, <2>1
<1>9. L # <<>> /\ Len(L) \in Nat /\ Len(L) # 0
  <2>1. PICK k \in 1..Len(L) : L[k] = named[i0]
    BY <1>1, <1>7
  <2> QED
    BY <1>5, <2>1
<1>10. Unique(docs) => Unique(L)
  <2>1. ASSUME Unique(named), NEW i \in P, NEW j \in P, named[i] = named[j] PROVE i = j
    BY <1>1, <2>1 DEF Unique
  <2> QED
    BY <1>1, <1>2, <2>1, PickedUnique
<1>11. \A k \in 1..Len(L) : L[k] \in DOMAIN Text
  BY <1>4, <1>5
<1>12. Range(L) = {L[k] : k \in 1..Len(L)}
  <2>1. DOMAIN L = 1..Len(L)
    BY <1>5
  <2> QED
    BY <2>1 DEF Range
<1>13. \A k \in 1..Len(L) : IsDocument(Text[L[k]])
  BY <1>11, RankingAssumption
<1>14. /\ \A x \in scores : \E k \in 1..Len(L) : x = TitleScore(Text[L[k]], query)
       /\ \A k \in 1..Len(L) : TitleScore(Text[L[k]], query) \in scores
  BY <1>12
<1>15. Bounded(scores, 820)
  <2>0. \A k \in 1..Len(L) : IsTitleScore(TitleScore(Text[L[k]], query))
    BY <1>13, TitleScoreFacts
  <2>1. \A x \in scores : IsTitleScore(x)
    <3> HIDE DEF scores
    <3> QED
      BY <1>14, <2>0, Zenon
  <2>2. scores # {}
    <3>1. 1 \in 1..Len(L)
      BY <1>9
    <3> QED
      BY <1>14, <3>1
  <2> HIDE DEF scores
  <2> QED
    BY <2>1, <2>2 DEF Bounded, IsTitleScore
<1> DEFINE m == Max(scores)
<1>16. m \in scores /\ \A x \in scores : x <= m
  <2> HIDE DEF scores
  <2> QED
    BY <1>15, MaxUpto
<1>23. IsTitleScore(m)
  <2> HIDE DEF scores, m
  <2> QED
    BY <1>15, <1>16 DEF Bounded, IsTitleScore
<1>17. c.score = m /\ c.docs = L
  BY <1>0
<1>18. c.arb \in [1..6 -> Int]
  <2> DEFINE f == [k \in 1..Len(L) |-> Arbitration(Text[L[k]], query)]
  <2>1. \A k \in 1..Len(L) : f[k] \in arbs /\ f[k] \in [1..6 -> Int]
    <3>1. \A k \in 1..Len(L) : Arbitration(Text[L[k]], query) \in [1..6 -> Int]
      BY <1>13, ArbitrationType
    <3>2. \A k \in 1..Len(L) : Arbitration(Text[L[k]], query) \in arbs
      BY <1>12
    <3> HIDE DEF arbs
    <3> QED
      BY <3>1, <3>2
  <2>2. \A a \in arbs : \E k \in 1..Len(L) : a = f[k]
    <3> TAKE a \in arbs
    <3>1. PICK k \in 1..Len(L) : a = Arbitration(Text[L[k]], query)
      BY <1>12
    <3> HIDE DEF arbs
    <3> QED
      BY <3>1
  <2> HIDE DEF f
  <2>3. IsFiniteSet(arbs)
    <3> HIDE DEF arbs
    <3>1. IsFiniteSet(1..Len(L))
      BY <1>9, FS_Interval
    <3>2. arbs = {f[k] : k \in 1..Len(L)}
      BY <2>1, <2>2
    <3> QED
      BY <3>1, <3>2, FiniteImage
  <2>5. arbs \in SUBSET [1..6 -> Int]
    <3> HIDE DEF arbs
    <3> QED
      BY <2>1, <2>2, ZenonT(60)
  <2>6. arbs # {}
    <3>1. 1 \in 1..Len(L)
      BY <1>9
    <3> HIDE DEF arbs
    <3> QED
      BY <2>1, <3>1
  <2>7. c.arb = CHOOSE a \in arbs : \A b \in arbs : ~Greater(b, a)
    BY <1>0
  <2> HIDE DEF arbs
  <2>8. (CHOOSE a \in arbs : \A b \in arbs : ~Greater(b, a)) \in arbs
    BY <2>3, <2>5, <2>6, BestExists
  <2> QED
    BY <2>5, <2>7, <2>8
<1> HIDE DEF scores, m
<1>19. \A k \in 1..Len(L) : TitleScore(Text[L[k]], query) <= m
  BY <1>14, <1>16
<1>20. \E k \in 1..Len(L) : TitleScore(Text[L[k]], query) = m
  BY <1>14, <1>16
<1>21. \A k, l \in 1..Len(L) : Text[L[k]].cluster = Text[L[l]].cluster
  BY <1>8
<1>22. IsCluster(c, docs, query)
  <2>1. c.docs \in Seq(Own(docs)) /\ c.docs # <<>> /\ (Unique(docs) => Unique(c.docs))
    BY <1>5, <1>9, <1>10, <1>17
  <2>2. IsTitleScore(c.score)
    BY <1>17, <1>23, Zenon
  <2>3. /\ \E k \in 1..Len(c.docs) : TitleScore(Text[c.docs[k]], query) = c.score
        /\ \A k \in 1..Len(c.docs) : TitleScore(Text[c.docs[k]], query) <= c.score
    BY <1>17, <1>19, <1>20
  <2>4. \A k, l \in 1..Len(c.docs) : Text[c.docs[k]].cluster = Text[c.docs[l]].cluster
    BY <1>17, <1>21
  <2> QED
    BY <1>18, <2>1, <2>2, <2>3, <2>4 DEF IsCluster
<1> QED
  BY <1>3, <1>7, <1>17, <1>22

\* The clusters, and that every document that matches is in one.
LEMMA NamedClustersFacts ==
  ASSUME NEW docs \in Seq(DOMAIN Text), NEW query \in Seq(Terms)
  PROVE  LET all == NamedClusters(docs, query)
         IN  /\ Len(all) \in Nat /\ DOMAIN all = 1..Len(all)
             /\ \A i \in 1..Len(all) : IsCluster(all[i], docs, query)
             /\ \A i \in 1..Len(docs) : TitleScore(Text[docs[i]], query) > 0 =>
                  \E j \in 1..Len(all) : \E k \in 1..Len(all[j].docs) : all[j].docs[k] = docs[i]
<1> DEFINE named == Scored(docs, query)
           names == [i \in DOMAIN named |-> Text[named[i]].cluster]
           clusters == Distinct(names)
           Kept(c) == Picked(named, {i \in DOMAIN named : Text[named[i]].cluster = c})
           Entry(c) == [docs |-> Kept(c),
                        score |-> Max({TitleScore(Text[d], query) : d \in Range(Kept(c))}),
                        arb |-> CHOOSE a \in {Arbitration(Text[d], query) : d \in Range(Kept(c))} :
                                  \A b \in {Arbitration(Text[d], query) : d \in Range(Kept(c))} : ~Greater(b, a)]
           all == NamedClusters(docs, query)
<1>1. /\ named \in Seq(Own(docs)) /\ (Unique(docs) => Unique(named))
      /\ \A i \in 1..Len(docs) : TitleScore(Text[docs[i]], query) > 0 =>
            \E k \in 1..Len(named) : named[k] = docs[i]
  BY ScoredFacts
<1>2. all = [i \in DOMAIN clusters |-> Entry(clusters[i])]
  BY DEF NamedClusters
<1> HIDE DEF named, all
<1>3. Len(named) \in Nat /\ DOMAIN named = 1..Len(named)
  BY <1>1
<1> PICK S : S = {names[i] : i \in 1..Len(named)}
  OBVIOUS
<1>4. names \in Seq(S) /\ Len(names) = Len(named)
  BY <1>3
<1>5. /\ clusters \in Seq(S)
      /\ \A i \in 1..Len(names) : \E k \in 1..Len(clusters) : clusters[k] = names[i]
      /\ \A k \in 1..Len(clusters) : \E i \in 1..Len(names) : names[i] = clusters[k]
  <2> HIDE DEF names
  <2> QED
    BY <1>4, DistinctFacts
<1>6. \A i \in 1..Len(named) : names[i] = Text[named[i]].cluster
  BY <1>3
<1> HIDE DEF clusters
<1>7. Len(clusters) \in Nat /\ DOMAIN clusters = 1..Len(clusters)
  BY <1>5
<1> HIDE DEF Entry
<1>8. DOMAIN all = 1..Len(clusters) /\ Len(all) = Len(clusters)
      /\ \A i \in 1..Len(clusters) : all[i] = Entry(clusters[i])
  BY <1>2, <1>7
<1> HIDE DEF names
<1>9. ASSUME NEW i \in 1..Len(clusters)
      PROVE  /\ IsCluster(Entry(clusters[i]), docs, query)
             /\ \A k \in 1..Len(named) : Text[named[k]].cluster = clusters[i] =>
                   \E l \in 1..Len(Entry(clusters[i]).docs) : Entry(clusters[i]).docs[l] = named[k]
  <2>1. PICK i0 \in 1..Len(named) : Text[named[i0]].cluster = clusters[i]
    <3>1. PICK i0 \in 1..Len(names) : names[i0] = clusters[i]
      BY <1>5
    <3> QED
      BY <1>4, <1>6, <3>1
  <2>2. PICK name : name = clusters[i]
    OBVIOUS
  <2>4. PICK c : c = Entry(name)
    OBVIOUS
  <2>5. Cluster(c, named, query, name)
    BY <2>4 DEF Entry, Cluster
  <2>6. Text[named[i0]].cluster = name
    BY <2>1, <2>2
  <2>7. named \in Seq(Own(docs)) /\ (Unique(docs) => Unique(named)) /\ i0 \in 1..Len(named)
    BY <1>1
  <2> HIDE DEF named
  <2>8. IsCluster(c, docs, query)
    BY <2>5, <2>6, <2>7, ClusterIs
  <2>9. ASSUME NEW k \in 1..Len(named), Text[named[k]].cluster = name
        PROVE  \E l \in 1..Len(c.docs) : c.docs[l] = named[k]
    BY <2>5, <2>6, <2>7, <2>9, ClusterIs, SMTT(30)
  <2> QED
    BY <2>2, <2>4, <2>8, <2>9
<1>10. \A i \in 1..Len(all) : IsCluster(all[i], docs, query)
  BY <1>8, <1>9
<1>11. ASSUME NEW i \in 1..Len(docs), TitleScore(Text[docs[i]], query) > 0
       PROVE  \E j \in 1..Len(all) : \E k \in 1..Len(all[j].docs) : all[j].docs[k] = docs[i]
  <2>1. PICK k \in 1..Len(named) : named[k] = docs[i]
    BY <1>1, <1>11
  <2>2. PICK j \in 1..Len(clusters) : clusters[j] = Text[named[k]].cluster
    BY <1>4, <1>5, <1>6
  <2>3. PICK l \in 1..Len(Entry(clusters[j]).docs) : Entry(clusters[j]).docs[l] = named[k]
    BY <1>9, <2>2
  <2> QED
    BY <1>8, <2>1, <2>3
<1> QED
  BY <1>7, <1>8, <1>10, <1>11 DEF all

\* A tuple of numbers is a sequence of them.
LEMMA TupleIsSeq ==
  ASSUME NEW n \in Nat, NEW a \in [1..n -> Int]
  PROVE  a \in Seq(Int) /\ Len(a) = n
OBVIOUS

\* What clusters are sorted by.
Key(c) == <<c.score>> \o c.arb

\* That key is a list of numbers of one length.
LEMMA KeyFacts ==
  ASSUME NEW c, NEW docs, NEW query, IsCluster(c, docs, query)
  PROVE  Key(c) \in [1..7 -> Int] /\ Key(c)[1] = c.score /\ c.score \in Int
<1>1. c.score \in Int /\ c.arb \in [1..6 -> Int]
  <2>1. PICK x : x = c.score /\ IsTitleScore(x)
    BY DEF IsCluster
  <2>2. x \in Int
    BY <2>1 DEF IsTitleScore
  <2> QED
    BY <2>1, <2>2 DEF IsCluster
<1>2. c.arb \in Seq(Int) /\ Len(c.arb) = 6
  <2>1. 6 \in Nat
    OBVIOUS
  <2> QED
    BY <1>1, <2>1, TupleIsSeq
<1>3. <<c.score>> \in Seq(Int) /\ Len(<<c.score>>) = 1 /\ <<c.score>>[1] = c.score
  BY <1>1
<1>4. /\ Key(c) \in Seq(Int) /\ Len(Key(c)) = 1 + 6
      /\ \A i \in 1..(1 + 6) : Key(c)[i] = IF i <= 1 THEN <<c.score>>[i] ELSE c.arb[i - 1]
  <2>1. PICK s, a : s = <<c.score>> /\ a = c.arb
    OBVIOUS
  <2>2. s \in Seq(Int) /\ Len(s) = 1 /\ a \in Seq(Int) /\ Len(a) = 6
    BY <1>2, <1>3, <2>1
  <2>3. /\ s \o a \in Seq(Int) /\ Len(s \o a) = Len(s) + Len(a)
        /\ \A i \in 1..(Len(s) + Len(a)) : (s \o a)[i] = IF i <= Len(s) THEN s[i] ELSE a[i - Len(s)]
    BY <2>2, ConcatProperties
  <2>4. Key(c) = s \o a
    BY <2>1 DEF Key
  <2>5. /\ s \o a \in Seq(Int) /\ Len(s \o a) = 1 + 6
        /\ \A i \in 1..(1 + 6) : (s \o a)[i] = IF i <= 1 THEN s[i] ELSE a[i - 1]
    BY <2>2, <2>3
  <2>6. Key(c) \in Seq(Int) /\ Len(Key(c)) = 1 + 6
    BY <2>4, <2>5
  <2>7. ASSUME NEW i \in 1..(1 + 6)
        PROVE  Key(c)[i] = IF i <= 1 THEN <<c.score>>[i] ELSE c.arb[i - 1]
    <3>1. (s \o a)[i] = IF i <= 1 THEN s[i] ELSE a[i - 1]
      BY <2>5
    <3> QED
      BY <2>1, <2>4, <3>1
  <2> QED
    BY <2>6, <2>7
<1>5. Key(c)[1] = c.score
  BY <1>3, <1>4
<1> QED
  BY <1>1, <1>4, <1>5

\* The clusters, the one with the best title first.
LEMMA ByTitleFacts ==
  ASSUME NEW docs, NEW query, NEW all, Len(all) \in Nat, DOMAIN all = 1..Len(all),
         \A i \in 1..Len(all) : IsCluster(all[i], docs, query)
  PROVE  /\ Len(ByTitle(all)) = Len(all) /\ (ByTitle(all) = <<>> <=> Len(all) = 0)
         /\ \A k \in 1..Len(all) : \E i \in 1..Len(all) : ByTitle(all)[k] = all[i]
         /\ \A i \in 1..Len(all) : \E k \in 1..Len(all) : ByTitle(all)[k] = all[i]
         /\ \A k \in 1..Len(all) : ByTitle(all)[k].score <= ByTitle(all)[1].score
<1> DEFINE n == Len(all)
           ahead(i, j) == Greater(Key(all[i]), Key(all[j])) \/ (~Greater(Key(all[j]), Key(all[i])) /\ i < j)
<1>1. \A i \in 1..n : Key(all[i]) \in [1..7 -> Int] /\ Key(all[i])[1] = all[i].score /\ all[i].score \in Int
  BY KeyFacts
<1>2. PICK before : before = {e \in (DOMAIN all) \X (DOMAIN all) :
                               \/ Before(all[e[1]], all[e[2]])
                               \/ ~Before(all[e[2]], all[e[1]]) /\ e[1] < e[2]}
  OBVIOUS
<1>0. DOMAIN all = 1..n
  OBVIOUS
<1>3. \A i, j : <<i, j>> \in before <=> i \in 1..n /\ j \in 1..n /\ ahead(i, j)
  <2>1. \A i, j : <<i, j>> \in before <=>
                   /\ i \in DOMAIN all /\ j \in DOMAIN all
                   /\ Before(all[i], all[j]) \/ (~Before(all[j], all[i]) /\ i < j)
    BY <1>2
  <2>2. \A c, d : Before(c, d) <=> Greater(Key(c), Key(d))
    BY DEF Before, Key
  <2> QED
    BY <1>0, <2>1, <2>2
<1>4. ByTitle(all) = InOrder(all, 1..n, before)
  <2>1. ByTitle(all) = InOrder(all, DOMAIN all, before)
    BY <1>2 DEF ByTitle
  <2> QED
    BY <1>0, <2>1
<1> HIDE DEF n
<1>5. n \in Nat
  BY DEF n
<1>6. IsFiniteSet(1..n) /\ Cardinality(1..n) = n
  BY <1>5, FS_Interval
<1>7. \A i, j, k \in 1..n :
        LET a == Key(all[i]) b == Key(all[j]) c == Key(all[k])
        IN  /\ a = b \/ Greater(a, b) \/ Greater(b, a)
            /\ ~Greater(a, a)
            /\ Greater(a, b) /\ Greater(b, c) => Greater(a, c)
  <2> TAKE i \in 1..n, j \in 1..n, k \in 1..n
  <2>1. 7 \in Nat /\ Key(all[i]) \in [1..7 -> Int] /\ Key(all[j]) \in [1..7 -> Int] /\ Key(all[k]) \in [1..7 -> Int]
    BY <1>1
  <2> QED
    BY <2>1, LexicalOrder
<1>8. Orders(1..n, before)
  <2>1. \A i \in 1..n : <<i, i>> \notin before
    BY <1>3, <1>5, <1>7
  <2>2. ASSUME NEW i \in 1..n, NEW j \in 1..n, NEW k \in 1..n, <<i, j>> \in before, <<j, k>> \in before
        PROVE  <<i, k>> \in before
    <3>1. ahead(i, j) /\ ahead(j, k)
      BY <1>3, <2>2
    <3>2. i \in Int /\ j \in Int /\ k \in Int
      BY <1>5
    <3>3. PICK a, b, c : a = Key(all[i]) /\ b = Key(all[j]) /\ c = Key(all[k])
      OBVIOUS
    <3>4. /\ a = b \/ Greater(a, b) \/ Greater(b, a)
          /\ b = c \/ Greater(b, c) \/ Greater(c, b)
          /\ a = c \/ Greater(a, c) \/ Greater(c, a)
          /\ ~Greater(a, a)
          /\ ~Greater(b, b)
          /\ Greater(a, b) /\ Greater(b, c) => Greater(a, c)
          /\ Greater(c, a) /\ Greater(a, b) => Greater(c, b)
          /\ Greater(b, c) /\ Greater(c, a) => Greater(b, a)
          /\ Greater(b, a) /\ Greater(a, b) => Greater(b, b)
      BY <1>7, <3>3
    <3>5. /\ Greater(a, b) \/ (~Greater(b, a) /\ i < j)
          /\ Greater(b, c) \/ (~Greater(c, b) /\ j < k)
      BY <3>1, <3>3
    <3>6. Greater(a, c) \/ (~Greater(c, a) /\ i < k)
      BY <3>2, <3>4, <3>5
    <3>7. ahead(i, k)
      BY <3>3, <3>6
    <3> QED
      BY <1>3, <3>7
  <2>3. ASSUME NEW i \in 1..n, NEW j \in 1..n, i # j PROVE <<i, j>> \in before \/ <<j, i>> \in before
    <3>1. i < j \/ j < i
      BY <1>5, <2>3
    <3>2. ahead(i, j) \/ ahead(j, i)
      <4>1. CASE Greater(Key(all[i]), Key(all[j])) \/ Greater(Key(all[j]), Key(all[i]))
        BY <4>1
      <4>2. CASE ~Greater(Key(all[i]), Key(all[j])) /\ ~Greater(Key(all[j]), Key(all[i]))
        BY <3>1, <4>2
      <4> QED
        BY <4>1, <4>2
    <3> QED
      BY <1>3, <3>2
  <2> QED
    BY <2>1, <2>2, <2>3 DEF Orders
<1>9. /\ InOrder(all, 1..n, before) \in Seq({all[i] : i \in 1..n})
      /\ Len(InOrder(all, 1..n, before)) = n
  BY <1>6, <1>8, InOrderFacts
<1>10. PICK p : Enumerates(p, InOrder(all, 1..n, before), all, 1..n, before)
  BY <1>6, <1>8, InOrderFacts
<1>11. /\ p \in [1..n -> 1..n]
       /\ \A k \in 1..n : ByTitle(all)[k] = all[p[k]]
       /\ \A k, l \in 1..n : k < l => <<p[k], p[l]>> \in before
       /\ \A i \in 1..n : \E k \in 1..n : p[k] = i
  BY <1>4, <1>6, <1>10 DEF Enumerates
<1>12. ASSUME NEW k \in 1..n PROVE ByTitle(all)[k].score <= ByTitle(all)[1].score
  <2>1. 1 \in 1..n /\ (k = 1 \/ 1 < k)
    BY <1>5
  <2>2. p[1] \in 1..n /\ p[k] \in 1..n
    BY <1>11, <2>1
  <2>3. all[p[1]].score \in Int /\ all[p[k]].score \in Int
    BY <1>1, <2>2
  <2>4. CASE k = 1
    BY <1>11, <2>1, <2>3, <2>4
  <2>5. CASE 1 < k
    <3>1. ahead(p[1], p[k])
      BY <1>3, <1>11, <2>1, <2>5
    <3>2. PICK a, b : a = Key(all[p[1]]) /\ b = Key(all[p[k]])
      OBVIOUS
    <3>3. /\ a \in [1..7 -> Int] /\ b \in [1..7 -> Int]
          /\ a[1] = all[p[1]].score /\ b[1] = all[p[k]].score
      BY <1>1, <2>2, <3>2
    <3>4. ~Greater(b, a)
      <4>1. \A i, j \in 1..n : Greater(Key(all[i]), Key(all[j])) => ~Greater(Key(all[j]), Key(all[i]))
        BY <1>7
      <4>2. Greater(a, b) => ~Greater(b, a)
        BY <2>2, <3>2, <4>1
      <4>3. Greater(a, b) \/ ~Greater(b, a)
        BY <3>1, <3>2
      <4> QED
        BY <4>2, <4>3
    <3>5. ~(b[1] > a[1])
      <4>1. ASSUME b[1] > a[1] PROVE Greater(b, a)
        <5>1. 1 \in DOMAIN b /\ \A j \in 1..(1 - 1) : b[j] = a[j]
          BY <3>3
        <5> QED
          BY <4>1, <5>1 DEF Greater
      <4> QED
        BY <3>4, <4>1
    <3>6. all[p[k]].score <= all[p[1]].score
      <4>1. PICK x \in Int, y \in Int : x = all[p[1]].score /\ y = all[p[k]].score
        BY <2>3
      <4>2. ~(y > x)
        BY <3>3, <3>5, <4>1
      <4>3. y <= x
        BY <4>2
      <4> QED
        BY <4>1, <4>3
    <3> QED
      BY <1>11, <2>1, <3>6
  <2> QED
    BY <2>1, <2>4, <2>5
<1>13. \A k \in 1..n : p[k] \in 1..n /\ ByTitle(all)[k] = all[p[k]]
  BY <1>11
<1>14. \A i \in 1..n : \E k \in 1..n : ByTitle(all)[k] = all[i]
  <2> TAKE i \in 1..n
  <2>1. PICK k \in 1..n : p[k] = i
    BY <1>11
  <2> QED
    BY <1>13, <2>1
<1>15. Len(ByTitle(all)) = n /\ (ByTitle(all) = <<>> <=> n = 0)
  <2>1. PICK s : s = ByTitle(all) /\ s \in Seq({all[i] : i \in 1..n}) /\ Len(s) = n
    BY <1>4, <1>9
  <2>2. s = <<>> <=> n = 0
    BY <2>1
  <2> QED
    BY <2>1, <2>2
<1> QED
  BY <1>12, <1>13, <1>14, <1>15 DEF n

\* A number that tells how sure an answer is, in ten-thousandths.
Percentage(x) == x \in Int /\ 0 <= x /\ x <= 10000

\* In other words, it is one of these.
Percentages == 0..10000

\* Both say the same.
LEMMA PercentageIs ==
  ASSUME NEW x
  PROVE  Percentage(x) <=> x \in Percentages
<1>1. ASSUME Percentage(x) PROVE x \in Percentages
  BY <1>1 DEF Percentage, Percentages
<1>2. ASSUME x \in Percentages PROVE Percentage(x)
  BY <1>2 DEF Percentage, Percentages
<1> QED
  BY <1>1, <1>2

\* A note names documents of those it was looked for in, each once, and is sure
\* of something only if it names one.
IsNote(note, docs, most) ==
  /\ note.docs \in Seq(Own(docs)) /\ Len(note.docs) <= most
  /\ Unique(docs) => Unique(note.docs)
  /\ Percentage(note.confidence)
  /\ note.docs = <<>> => note.confidence = 0

\* No note is a note, too.
LEMMA NoNoteFacts ==
  ASSUME NEW docs, NEW most \in Nat
  PROVE  IsNote(NoNote, docs, most)
<1>1. NoNote.docs = <<>> /\ NoNote.confidence = 0
  BY DEF NoNote
<1>2. <<>> \in Seq(Own(docs)) /\ Len(<<>>) = 0 /\ Unique(<<>>)
  BY DEF Unique
<1>3. Percentage(0)
  BY DEF Percentage
<1> QED
  BY <1>1, <1>2, <1>3 DEF IsNote

\* _exact_note_resolution finds a note or none.
LEMMA ExactNoteFacts ==
  ASSUME NEW docs \in Seq(DOMAIN Text), NEW query \in Seq(Terms), NEW most \in Nat, most # 0
  PROVE  IsNote(ExactNote(docs, query, most), docs, most)
<1> DEFINE all == NamedClusters(docs, query)
           clusters == ByTitle(all)
           sure == IF clusters[1].score >= 700 THEN 9200
                   ELSE IF clusters[1].score >= 600 THEN 8800 ELSE 8400
           note == [docs |-> Upto(most, clusters[1].docs), confidence |-> sure]
<1>1. /\ Len(all) \in Nat /\ DOMAIN all = 1..Len(all)
      /\ \A i \in 1..Len(all) : IsCluster(all[i], docs, query)
  BY NamedClustersFacts
<1>2. ExactNote(docs, query, most) = IF Undecided(clusters) THEN NoNote ELSE note
  BY DEF ExactNote
<1> HIDE DEF all
<1>3. /\ Len(clusters) = Len(all) /\ (clusters = <<>> <=> Len(all) = 0)
      /\ \A k \in 1..Len(all) : \E i \in 1..Len(all) : clusters[k] = all[i]
      /\ \A i \in 1..Len(all) : \E k \in 1..Len(all) : clusters[k] = all[i]
      /\ \A k \in 1..Len(all) : clusters[k].score <= clusters[1].score
  BY <1>1, ByTitleFacts
<1> HIDE DEF clusters
<1>4. ASSUME ~Undecided(clusters) PROVE IsNote(note, docs, most)
  <2>1. clusters # <<>>
    BY <1>4 DEF Undecided
  <2>2. 1 \in 1..Len(all)
    BY <1>1, <1>3, <2>1
  <2>3. PICK c : c = clusters[1] /\ IsCluster(c, docs, query)
    BY <1>1, <1>3, <2>2
  <2>4. c.docs \in Seq(Own(docs)) /\ c.docs # <<>> /\ (Unique(docs) => Unique(c.docs))
    BY <2>3 DEF IsCluster
  <2>5. /\ Upto(most, c.docs) \in Seq(Own(docs))
        /\ Len(Upto(most, c.docs)) = IF most <= Len(c.docs) THEN most ELSE Len(c.docs)
    BY <2>4, UptoFacts
  <2>6. Len(c.docs) \in Nat /\ Len(c.docs) # 0
    BY <2>4
  <2>7. Len(Upto(most, c.docs)) <= most /\ Upto(most, c.docs) # <<>>
    BY <2>5, <2>6
  <2>8. Unique(docs) => Unique(Upto(most, c.docs))
    BY <2>4, UptoUnique
  <2>9. sure \in {9200, 8800, 8400}
    OBVIOUS
  <2>12. Percentage(9200) /\ Percentage(8800) /\ Percentage(8400)
    BY DEF Percentage
  <2>10. note.docs = Upto(most, c.docs) /\ note.confidence = sure
    BY <2>3
  <2> HIDE DEF note, sure
  <2>11. Percentage(note.confidence)
    BY <2>9, <2>10, <2>12
  <2> QED
    BY <2>5, <2>7, <2>8, <2>10, <2>11 DEF IsNote
<1>5. IsNote(NoNote, docs, most)
  BY NoNoteFacts
<1> QED
  BY <1>2, <1>4, <1>5

\* A query, not too short, that is the title of a document makes the note
\* documents of the cluster of one with that title.
LEMMA TitledNote ==
  ASSUME NEW docs \in Seq(DOMAIN Text), NEW query \in Seq(Terms), NEW most \in Nat, most # 0,
         ~Short(query), NEW i0 \in 1..Len(docs), Titled(docs[i0], query)
  PROVE  LET note == ExactNote(docs, query, most)
         IN  /\ note.docs \in Seq(Own(docs)) /\ note.docs # <<>>
             /\ \E d \in Own(docs) :
                  /\ Titled(d, query)
                  /\ \A k \in 1..Len(note.docs) : Text[note.docs[k]].cluster = Text[d].cluster
<1> DEFINE all == NamedClusters(docs, query)
           clusters == ByTitle(all)
           note == ExactNote(docs, query, most)
<1>1. /\ Len(all) \in Nat /\ DOMAIN all = 1..Len(all)
      /\ \A i \in 1..Len(all) : IsCluster(all[i], docs, query)
      /\ \A i \in 1..Len(docs) : TitleScore(Text[docs[i]], query) > 0 =>
           \E j \in 1..Len(all) : \E k \in 1..Len(all[j].docs) : all[j].docs[k] = docs[i]
  BY NamedClustersFacts
<1>2. \A d \in Own(docs) : d \in DOMAIN Text /\ IsDocument(Text[d])
  BY RankingAssumption DEF Own
<1>3. \A d \in Own(docs) : /\ IsTitleScore(TitleScore(Text[d], query))
                           /\ TitleScore(Text[d], query) = 820 <=> Titled(d, query)
  <2> TAKE d \in Own(docs)
  <2>1. IsDocument(Text[d])
    BY <1>2
  <2>2. IsTitleScore(TitleScore(Text[d], query))
    BY <2>1, TitleScoreFacts
  <2>3. TitleScore(Text[d], query) = 820
          <=> \E i \in DOMAIN Text[d].names : Distinct(Text[d].names[i]) = Distinct(query)
    BY <2>1, TitleScoreFacts
  <2> QED
    BY <2>2, <2>3 DEF Titled
<1>4. TitleScore(Text[docs[i0]], query) = 820 /\ docs[i0] \in Own(docs)
  BY <1>3 DEF Own
<1>5. PICK j0 \in 1..Len(all) : \E k \in 1..Len(all[j0].docs) : all[j0].docs[k] = docs[i0]
  <2>1. TitleScore(Text[docs[i0]], query) > 0
    BY <1>4
  <2> QED
    BY <1>1, <2>1
<1>6. note = IF Undecided(clusters) THEN NoNote
             ELSE [docs |-> Upto(most, clusters[1].docs),
                   confidence |-> IF clusters[1].score >= 700 THEN 9200
                                  ELSE IF clusters[1].score >= 600 THEN 8800 ELSE 8400]
  BY DEF ExactNote
<1> HIDE DEF all, note
<1>7. /\ Len(clusters) = Len(all) /\ (clusters = <<>> <=> Len(all) = 0)
      /\ \A k \in 1..Len(all) : \E i \in 1..Len(all) : clusters[k] = all[i]
      /\ \A i \in 1..Len(all) : \E k \in 1..Len(all) : clusters[k] = all[i]
      /\ \A k \in 1..Len(all) : clusters[k].score <= clusters[1].score
  BY <1>1, ByTitleFacts
<1> HIDE DEF clusters
<1>8. 1 \in 1..Len(all)
  BY <1>1, <1>5
<1>9. PICK c : c = clusters[1] /\ IsCluster(c, docs, query)
  <2>1. PICK i \in 1..Len(all) : clusters[1] = all[i]
    BY <1>7, <1>8
  <2>2. IsCluster(all[i], docs, query)
    BY <1>1
  <2> QED
    BY <2>1, <2>2, Zenon
<1>10. c.score = 820
  <2>1. PICK b : b = all[j0] /\ IsCluster(b, docs, query)
    BY <1>1, <1>5
  <2>2. IsTitleScore(b.score) /\ \A k \in 1..Len(b.docs) : TitleScore(Text[b.docs[k]], query) <= b.score
    BY <2>1 DEF IsCluster
  <2>3. 820 <= b.score
    <3>0. PICK k \in 1..Len(b.docs) : b.docs[k] = docs[i0]
      BY <1>5, <2>1
    <3>1. TitleScore(Text[b.docs[k]], query) = 820 /\ k \in 1..Len(b.docs)
      BY <1>4, <3>0
    <3> QED
      BY <2>2, <3>1
  <2>4. PICK k \in 1..Len(all) : clusters[k] = b
    BY <1>5, <1>7, <2>1
  <2>5. b.score <= c.score
    BY <1>7, <1>9, <2>4
  <2>6. IsTitleScore(c.score)
    BY <1>9 DEF IsCluster
  <2>7. PICK x, y : x = b.score /\ y = c.score
    OBVIOUS
  <2>11. IsTitleScore(x) /\ IsTitleScore(y)
    BY <2>2, <2>6, <2>7, Zenon
  <2>8. 820 <= x /\ x <= y
    BY <2>3, <2>5, <2>7
  <2>10. x \in Int /\ y \in Int /\ y <= 820
    BY <2>11 DEF IsTitleScore
  <2>9. y = 820
    BY <2>8, <2>10
  <2> QED
    BY <2>7, <2>9
<1>11. /\ c.docs \in Seq(Own(docs)) /\ c.docs # <<>>
       /\ \E k \in 1..Len(c.docs) : TitleScore(Text[c.docs[k]], query) = c.score
       /\ \A k, l \in 1..Len(c.docs) : Text[c.docs[k]].cluster = Text[c.docs[l]].cluster
  BY <1>9 DEF IsCluster
<1>14. PICK m \in 1..Len(c.docs) : c.docs[m] \in Own(docs) /\ Titled(c.docs[m], query)
  <2>1. PICK k \in 1..Len(c.docs) : TitleScore(Text[c.docs[k]], query) = 820
    BY <1>10, <1>11
  <2>3. c.docs[k] \in Own(docs)
    BY <1>11
  <2> QED
    BY <1>3, <2>1, <2>3
<1>15. ~Undecided(clusters)
  <2>1. clusters # <<>>
    BY <1>7, <1>8
  <2>2. ~(clusters[1].score < 520) /\ ~(clusters[1].score < 600)
    BY <1>9, <1>10
  <2> QED
    BY <2>1, <2>2 DEF Undecided
<1>16. note.docs = Upto(most, c.docs)
  BY <1>6, <1>9, <1>15
<1>17. /\ Upto(most, c.docs) \in Seq(Own(docs))
       /\ Len(Upto(most, c.docs)) = IF most <= Len(c.docs) THEN most ELSE Len(c.docs)
       /\ \A i \in 1..Len(Upto(most, c.docs)) : Upto(most, c.docs)[i] = c.docs[i]
  BY <1>11, UptoFacts
<1> PICK first : first = Upto(most, c.docs)
  OBVIOUS
<1>18. first # <<>> /\ \A k \in 1..Len(first) : k \in 1..Len(c.docs) /\ first[k] = c.docs[k]
  <2>1. Len(c.docs) \in Nat /\ Len(c.docs) # 0
    BY <1>11
  <2> QED
    BY <1>17, <2>1
<1>19. \A k \in 1..Len(first) : Text[first[k]].cluster = Text[c.docs[m]].cluster
  <2> SUFFICES ASSUME NEW k \in 1..Len(first)
               PROVE  Text[first[k]].cluster = Text[c.docs[m]].cluster
    OBVIOUS
  <2>1. k \in 1..Len(c.docs) /\ first[k] = c.docs[k] /\ m \in 1..Len(c.docs)
    BY <1>14, <1>18
  <2>2. Text[c.docs[k]].cluster = Text[c.docs[m]].cluster
    BY <1>11, <2>1, Zenon
  <2> QED
    BY <2>1, <2>2, Zenon
<1>20. note.docs = first /\ first \in Seq(Own(docs))
  BY <1>16, <1>17
<1> QED
  BY <1>14, <1>18, <1>19, <1>20 DEF note

-----------------------------------------------------------------------------
(* Lists of documents                                                      *)

\* The rows and atoms of the store of a question.
OwnOf(ask) == Own(All(ask))

\* What a search that has begun was asked.
Question(ask) ==
  /\ ask.docs \in Seq(DOMAIN Text) /\ ask.atoms \in Seq(DOMAIN Text) /\ ask.query \in Seq(Terms)
  /\ ask.raw \in Seq(Nat) /\ Len(ask.raw) = Len(All(ask))
  /\ ask.seen \in Seq([doc : DOMAIN Text, score : Int])
  /\ Unique(All(ask))

\* Documents of the store itself, each once.
OwnList(ask, s) == s \in Seq(OwnOf(ask)) /\ Unique(s)

\* The documents of a list are of its element type.
LEMMA OwnSubset ==
  ASSUME NEW S, NEW s \in Seq(S)
  PROVE  Own(s) \subseteq S
BY DEF Own

\* What a question knows of its store.
LEMMA OwnFacts ==
  ASSUME NEW ask, Question(ask)
  PROVE  /\ All(ask) \in Seq(DOMAIN Text)
         /\ OwnOf(ask) \subseteq DOMAIN Text
         /\ \A d : Resolves(ask, d) <=> d \in OwnOf(ask)
         /\ Own(ask.docs) \subseteq OwnOf(ask)
         /\ OwnList(ask, ask.docs)
<1> PICK a, b : a = ask.docs /\ b = ask.atoms
  OBVIOUS
<1>1. a \in Seq(DOMAIN Text) /\ b \in Seq(DOMAIN Text) /\ Unique(a \o b)
  BY DEF Question, All
<1>2. /\ a \o b \in Seq(DOMAIN Text) /\ Len(a \o b) = Len(a) + Len(b)
      /\ \A i \in 1..(Len(a) + Len(b)) : (a \o b)[i] = IF i <= Len(a) THEN a[i] ELSE b[i - Len(a)]
  BY <1>1, ConcatProperties
<1>3. Len(a) \in Nat /\ Len(b) \in Nat
  BY <1>1
<1>4. Own(a \o b) \subseteq DOMAIN Text
  <2>1. a \o b \in Seq(DOMAIN Text)
    BY <1>2
  <2> QED
    BY <2>1, OwnSubset
<1>5. \A d : d \in Range(a \o b) <=> d \in Own(a \o b)
  <2>1. DOMAIN (a \o b) = 1..Len(a \o b)
    BY <1>2
  <2> QED
    BY <2>1 DEF Range, Own
<1>6. \A i \in 1..Len(a) : i \in 1..Len(a \o b) /\ (a \o b)[i] = a[i]
  <2>1. PICK m \in Nat, n \in Nat : m = Len(a) /\ n = Len(b)
    BY <1>3
  <2>2. PICK s : s = a \o b
    OBVIOUS
  <2>3. Len(s) = m + n /\ \A i \in 1..(m + n) : s[i] = IF i <= m THEN a[i] ELSE b[i - m]
    BY <1>2, <2>1, <2>2
  <2>4. \A i \in 1..m : i \in 1..Len(s) /\ s[i] = a[i]
    BY <2>3
  <2> QED
    BY <2>1, <2>2, <2>4
<1>7. Own(a) \subseteq Own(a \o b)
  BY <1>6 DEF Own
<1>8. a \in Seq(Own(a \o b)) /\ Unique(a)
  <2>1. a \in Seq(Own(a))
    BY <1>1 DEF Own
  <2>2. a \in Seq(Own(a \o b))
    BY <1>7, <2>1, SeqMonotonic
  <2>3. Unique(a)
    BY <1>1, <1>6, ZenonT(60) DEF Unique
  <2> QED
    BY <2>2, <2>3
<1> QED
  BY <1>2, <1>4, <1>5, <1>7, <1>8 DEF OwnOf, OwnList, Resolves, All

\* Picking keeps to the store's documents, each once.
LEMMA PickedOwn ==
  ASSUME NEW ask, NEW s, OwnList(ask, s), NEW P \in SUBSET (1..Len(s))
  PROVE  OwnList(ask, Picked(s, P))
<1>1. s \in Seq(OwnOf(ask)) /\ Unique(s)
  BY DEF OwnList
<1>2. \A i, j \in P : s[i] = s[j] => i = j
  BY <1>1 DEF Unique
<1>3. Picked(s, P) \in Seq(OwnOf(ask))
  BY <1>1, PickedIs
<1>4. Unique(Picked(s, P))
  BY <1>1, <1>2, PickedUnique
<1> QED
  BY <1>3, <1>4 DEF OwnList

\* So does taking the first n.
LEMMA UptoOwn ==
  ASSUME NEW ask, NEW s, OwnList(ask, s), NEW n \in Nat
  PROVE  OwnList(ask, Upto(n, s))
<1>1. s \in Seq(OwnOf(ask)) /\ Unique(s)
  BY DEF OwnList
<1> QED
  BY <1>1, UptoFacts, UptoUnique DEF OwnList

\* So does taking some of each cluster.
LEMMA ClusteredOwn ==
  ASSUME NEW ask, NEW s, OwnList(ask, s), NEW most
  PROVE  OwnList(ask, Clustered(ask, s, most))
<1>1. s \in Seq(OwnOf(ask))
  BY DEF OwnList
<1>2. FirstOfClusters(ask, s, most) \in SUBSET (1..Len(s))
  <2>1. DOMAIN s = 1..Len(s)
    BY <1>1
  <2> QED
    BY <2>1 DEF FirstOfClusters
<1> QED
  BY <1>2, PickedOwn DEF Clustered

\* So does the filter for exactly named files.
LEMMA OnlyExactOwn ==
  ASSUME NEW ask, NEW s, NEW query
  PROVE  /\ OwnList(ask, s) => OwnList(ask, OnlyExact(ask, s, query))
         /\ s \in Seq(OwnOf(ask)) => OnlyExact(ask, s, query) \in Seq(OwnOf(ask))
<1> DEFINE best == Max({0} \cup {ExactFileScore(Text[d], query) : d \in Range(s)})
           winners == {ClusterOf(ask, d) : d \in {e \in Range(s) : ExactFileScore(Text[e], query) >= best}}
           P == {i \in DOMAIN s : ClusterOf(ask, s[i]) \in winners}
<1>1. OnlyExact(ask, s, query) = IF best < 300 THEN s ELSE Picked(s, P)
  BY DEF OnlyExact
<1>2. s \in Seq(OwnOf(ask)) => P \in SUBSET (1..Len(s))
  <2>1. s \in Seq(OwnOf(ask)) => DOMAIN s = 1..Len(s)
    OBVIOUS
  <2> QED
    BY <2>1
<1> HIDE DEF best, P
<1>3. ASSUME s \in Seq(OwnOf(ask)) PROVE Picked(s, P) \in Seq(OwnOf(ask))
  BY <1>2, <1>3, PickedIs
<1>4. ASSUME OwnList(ask, s) PROVE OwnList(ask, Picked(s, P))
  <2>1. s \in Seq(OwnOf(ask))
    BY <1>4 DEF OwnList
  <2> QED
    BY <1>2, <1>4, <2>1, PickedOwn
<1> QED
  BY <1>1, <1>3, <1>4

\* What is left of any documents when those of other stores are dropped.
LEMMA ResolvedFacts ==
  ASSUME NEW ask, Question(ask), NEW s \in Seq(DOMAIN Text)
  PROVE  /\ Resolved(ask, s) \in Seq(OwnOf(ask))
         /\ Unique(s) => OwnList(ask, Resolved(ask, s))
<1> DEFINE P == {i \in DOMAIN s : Resolves(ask, s[i])}
<1>1. P \in SUBSET (1..Len(s))
  <2>1. DOMAIN s = 1..Len(s)
    OBVIOUS
  <2> QED
    BY <2>1
<1>2. Resolved(ask, s) = Picked(s, P)
  BY DEF Resolved
<1>3. {s[i] : i \in P} \subseteq OwnOf(ask)
  BY OwnFacts
<1> HIDE DEF P
<1>4. Picked(s, P) \in Seq({s[i] : i \in P})
  BY <1>1, PickedIs
<1>5. Picked(s, P) \in Seq(OwnOf(ask))
  BY <1>3, <1>4, SeqMonotonic
<1>6. ASSUME Unique(s) PROVE Unique(Picked(s, P))
  <2>1. \A i, j \in P : s[i] = s[j] => i = j
    BY <1>1, <1>6 DEF Unique
  <2> QED
    BY <1>1, <2>1, PickedUnique
<1> QED
  BY <1>2, <1>5, <1>6 DEF OwnList

\* Dropping repetitions leaves each document once.
LEMMA DistinctOwn ==
  ASSUME NEW ask, NEW s \in Seq(OwnOf(ask))
  PROVE  OwnList(ask, Distinct(s))
BY DistinctFacts DEF OwnList

\* One of each cluster is one of each document.
LEMMA OneOfEachCluster ==
  ASSUME NEW ask, NEW s \in Seq(OwnOf(ask))
  PROVE  OwnList(ask, Clustered(ask, s, 1))
<1> DEFINE Earlier(i) == {j \in 1..(i - 1) : ClusterOf(ask, s[j]) = ClusterOf(ask, s[i])}
           P == FirstOfClusters(ask, s, 1)
<1>0. Len(s) \in Nat /\ DOMAIN s = 1..Len(s)
  OBVIOUS
<1>1. P \in SUBSET (1..Len(s)) /\ \A i \in P : Cardinality(Earlier(i)) < 1
  BY <1>0 DEF FirstOfClusters
<1> HIDE DEF P
<1>2. ASSUME NEW i \in P PROVE Earlier(i) = {}
  <2>1. i \in Int /\ Earlier(i) \in SUBSET (1..(i - 1))
    BY <1>0, <1>1
  <2>2. IsFiniteSet(1..(i - 1))
    BY <2>1, FS_Interval
  <2>3. IsFiniteSet(Earlier(i))
    BY <2>1, <2>2, FS_Subset
  <2>4. Cardinality(Earlier(i)) \in Nat
    BY <2>3, FS_CardinalityType
  <2> HIDE DEF Earlier
  <2>5. Cardinality(Earlier(i)) = 0
    BY <1>1, <2>4
  <2> QED
    BY <2>3, <2>5, FS_EmptySet
<1>3. ASSUME NEW i \in P, NEW j \in P, s[i] = s[j] PROVE i = j
  <2>1. i \in Nat /\ j \in Nat /\ i >= 1 /\ j >= 1
    BY <1>0, <1>1
  <2>2. ClusterOf(ask, s[i]) = ClusterOf(ask, s[j])
    BY <1>3
  <2>3. i < j => i \in Earlier(j)
    BY <2>1, <2>2
  <2>4. j < i => j \in Earlier(i)
    BY <2>1, <2>2
  <2> HIDE DEF Earlier
  <2> QED
    BY <1>2, <2>1, <2>3, <2>4
<1>4. Unique(Picked(s, P))
  BY <1>1, <1>3, PickedUnique
<1>5. Picked(s, P) \in Seq(OwnOf(ask))
  BY <1>1, PickedIs
<1> QED
  BY <1>4, <1>5 DEF OwnList, Clustered, P
-----------------------------------------------------------------------------
(* Rankings                                                                *)

\* What a ranking lists.
Entries == [doc : DOMAIN Text, score : Int]

\* A ranking that names no document twice.
UniqueDocs(ranked) == \A i, j \in 1..Len(ranked) : ranked[i].doc = ranked[j].doc => i = j

\* An entry of a ranking.
LEMMA EntriesType ==
  ASSUME NEW ranked \in Seq(Entries), NEW i \in 1..Len(ranked)
  PROVE  ranked[i] \in Entries /\ ranked[i].doc \in DOMAIN Text /\ ranked[i].score \in Int
<1>1. PICK e \in Entries : e = ranked[i]
  OBVIOUS
<1>2. e.doc \in DOMAIN Text /\ e.score \in Int
  BY DEF Entries
<1> QED
  BY <1>1, <1>2

\* The documents of a ranking.
LEMMA DocsFacts ==
  ASSUME NEW ranked \in Seq(Entries)
  PROVE  /\ Docs(ranked) \in Seq(DOMAIN Text) /\ Len(Docs(ranked)) = Len(ranked)
         /\ \A i \in 1..Len(ranked) : Docs(ranked)[i] = ranked[i].doc
         /\ UniqueDocs(ranked) => Unique(Docs(ranked))
<1>1. Len(ranked) \in Nat /\ DOMAIN ranked = 1..Len(ranked)
  OBVIOUS
<1>2. \A i \in 1..Len(ranked) : ranked[i].doc \in DOMAIN Text
  BY EntriesType
<1>3. Docs(ranked) = [i \in 1..Len(ranked) |-> ranked[i].doc]
  BY <1>1 DEF Docs
<1>4. /\ Docs(ranked) \in Seq(DOMAIN Text) /\ Len(Docs(ranked)) = Len(ranked)
      /\ \A i \in 1..Len(ranked) : Docs(ranked)[i] = ranked[i].doc
  BY <1>1, <1>2, <1>3
<1> QED
  BY <1>4 DEF UniqueDocs, Unique

\* Picking entries keeps a ranking one.
LEMMA PickedEntries ==
  ASSUME NEW ranked \in Seq(Entries), NEW P \in SUBSET (1..Len(ranked)),
         \A i, j \in P : ranked[i].doc = ranked[j].doc => i = j
  PROVE  UniqueDocs(Picked(ranked, P))
<1>1. Len(ranked) \in Nat /\ \A i \in P : i \in Nat
  <2>1. Len(ranked) \in Nat
    OBVIOUS
  <2> QED
    BY <2>1
<1>2. PICK p : Picks(p, Picked(ranked, P), ranked, P)
  BY PickedIs
<1>3. Len(Picked(ranked, P)) = Cardinality(P) /\ Cardinality(P) \in 0..Len(ranked)
  BY PickedIs
<1>4. ASSUME NEW k \in 1..Cardinality(P), NEW l \in 1..Cardinality(P),
             Picked(ranked, P)[k].doc = Picked(ranked, P)[l].doc
      PROVE  k = l
  <2>1. p[k] \in P /\ p[l] \in P /\ ranked[p[k]].doc = ranked[p[l]].doc
    BY <1>2, <1>4 DEF Picks
  <2>2. p[k] = p[l]
    BY <2>1
  <2>3. p[k] \in Nat
    BY <1>1, <2>1
  <2>4. ~(p[k] < p[l]) /\ ~(p[l] < p[k])
    BY <2>2, <2>3
  <2> QED
    BY <1>1, <1>2, <1>3, <2>4 DEF Picks
<1> QED
  BY <1>3, <1>4 DEF UniqueDocs

\* So does sorting.
LEMMA DescendingEntries ==
  ASSUME NEW ranked \in Seq(Entries)
  PROVE  /\ Descending(ranked) \in Seq(Entries) /\ Len(Descending(ranked)) = Len(ranked)
         /\ \E p : Sorted(p, Descending(ranked), ranked, Len(ranked))
         /\ UniqueDocs(ranked) => UniqueDocs(Descending(ranked))
<1>1. \A i \in 1..Len(ranked) : ranked[i].score \in Int
  BY EntriesType
<1>2. /\ Descending(ranked) \in Seq(Entries) /\ Len(Descending(ranked)) = Len(ranked)
      /\ \E p : Sorted(p, Descending(ranked), ranked, Len(ranked))
  BY <1>1, DescendingFacts
<1>3. ASSUME UniqueDocs(ranked) PROVE UniqueDocs(Descending(ranked))
  <2> DEFINE n == Len(ranked)
  <2>1. n \in Nat
    OBVIOUS
  <2>2. PICK p : Sorted(p, Descending(ranked), ranked, n)
    BY <1>2
  <2>3. /\ p \in [1..n -> 1..n]
        /\ \A k \in 1..n : Descending(ranked)[k] = ranked[p[k]]
        /\ \A k, l \in 1..n : k < l =>
              \/ ranked[p[k]].score > ranked[p[l]].score
              \/ ranked[p[k]].score = ranked[p[l]].score /\ p[k] < p[l]
    BY <2>2 DEF Sorted
  <2>4. ASSUME NEW k \in 1..n, NEW l \in 1..n, Descending(ranked)[k].doc = Descending(ranked)[l].doc
        PROVE  k = l
    <3>1. p[k] \in 1..n /\ p[l] \in 1..n /\ ranked[p[k]].doc = ranked[p[l]].doc
      BY <2>3, <2>4
    <3>2. p[k] = p[l]
      BY <1>3, <3>1 DEF UniqueDocs
    <3>3. p[k] \in Nat /\ ranked[p[k]].score \in Int
      BY <1>1, <2>1, <3>1
    <3>4. ~(k < l)
      BY <2>3, <3>2, <3>3
    <3>5. ~(l < k)
      BY <2>3, <3>2, <3>3
    <3> QED
      BY <2>1, <3>4, <3>5
  <2> QED
    BY <1>2, <2>4 DEF UniqueDocs
<1> QED
  BY <1>2, <1>3

\* So does taking the first n.
LEMMA UptoEntries ==
  ASSUME NEW ranked \in Seq(Entries), NEW n \in Nat
  PROVE  /\ Upto(n, ranked) \in Seq(Entries)
         /\ UniqueDocs(ranked) => UniqueDocs(Upto(n, ranked))
<1>1. Len(ranked) \in Nat
  OBVIOUS
<1>2. /\ Upto(n, ranked) \in Seq(Entries)
      /\ Len(Upto(n, ranked)) = IF n <= Len(ranked) THEN n ELSE Len(ranked)
      /\ \A i \in 1..Len(Upto(n, ranked)) : Upto(n, ranked)[i] = ranked[i]
  BY UptoFacts
<1>3. \A i \in 1..Len(Upto(n, ranked)) : i \in 1..Len(ranked) /\ Upto(n, ranked)[i] = ranked[i]
  BY <1>1, <1>2
<1> QED
  BY <1>2, <1>3 DEF UniqueDocs

\* So does taking some of each cluster.
LEMMA ClusteredEntriesFacts ==
  ASSUME NEW ask, NEW ranked \in Seq(Entries), NEW most
  PROVE  /\ ClusteredEntries(ask, ranked, most) \in Seq(Entries)
         /\ UniqueDocs(ranked) => UniqueDocs(ClusteredEntries(ask, ranked, most))
         /\ \E P \in SUBSET (1..Len(ranked)) : ClusteredEntries(ask, ranked, most) = Picked(ranked, P)
<1> DEFINE P == FirstOfClusters(ask, Docs(ranked), most)
<1>1. P \in SUBSET (1..Len(ranked))
  <2>1. DOMAIN Docs(ranked) = 1..Len(ranked)
    BY DEF Docs
  <2> QED
    BY <2>1 DEF FirstOfClusters
<1>2. ClusteredEntries(ask, ranked, most) = Picked(ranked, P)
  BY DEF ClusteredEntries
<1> HIDE DEF P
<1>3. Picked(ranked, P) \in Seq(Entries)
  BY <1>1, PickedIs
<1>4. ASSUME UniqueDocs(ranked) PROVE UniqueDocs(Picked(ranked, P))
  <2>1. \A i, j \in P : ranked[i].doc = ranked[j].doc => i = j
    BY <1>1, <1>4 DEF UniqueDocs
  <2> QED
    BY <1>1, <2>1, PickedEntries
<1> QED
  BY <1>1, <1>2, <1>3, <1>4

\* What a hit resolves to is a row, an atom, or the hit itself.
LEMMA FoundType ==
  ASSUME NEW ask, Question(ask), NEW doc \in DOMAIN Text
  PROVE  Found(ask, doc) \in DOMAIN Text
<1> DEFINE places == {i \in DOMAIN All(ask) : SameUri(All(ask)[i], doc)}
<1>1. All(ask) \in Seq(DOMAIN Text)
  BY OwnFacts
<1>2. places \in SUBSET (1..Len(All(ask))) /\ places \in SUBSET Nat
  BY <1>1
<1>3. Found(ask, doc) = IF places = {} THEN doc ELSE All(ask)[Min(places)]
  BY DEF Found
<1> HIDE DEF places
<1>4. ASSUME places # {} PROVE Min(places) \in places
  <2>1. \E m \in places : \A n \in places : m <= n
    BY <1>2, <1>4, Least
  <2> QED
    BY <2>1 DEF Min
<1>5. CASE places = {}
  BY <1>3, <1>5
<1>6. CASE places # {}
  <2>1. PICK m : m = Min(places)
    OBVIOUS
  <2>2. m \in 1..Len(All(ask))
    BY <1>2, <1>4, <1>6, <2>1
  <2>3. All(ask)[m] \in DOMAIN Text
    BY <1>1, <2>2
  <2> QED
    BY <1>3, <1>6, <2>1, <2>3, Zenon
<1> QED
  BY <1>5, <1>6, Zenon

\* The keyword ranking is a ranking; it may repeat a document of two rows.
LEMMA KeywordRankedFacts ==
  ASSUME NEW ask, Question(ask), NEW query \in Seq(Terms), NEW most \in Nat
  PROVE  KeywordRanked(ask, query, most) \in Seq(Entries)
<1> DEFINE all == All(ask)
           listed == [i \in DOMAIN all |-> [doc |-> Found(ask, all[i]), score |-> ask.raw[i]]]
           P == {i \in DOMAIN all : ask.raw[i] > 0 /\ Shares(Text[all[i]], query)}
           hit == Picked(listed, P)
           top == Upto(most, Descending(hit))
           Boosted(e) == [e EXCEPT !.score = 100 * @ + LexicalBoost(Text[e.doc], query)
                                + FolderPrior(Text[e.doc], query) - Penalty(Text[e.doc], query)]
           adjusted == [i \in DOMAIN top |-> Boosted(top[i])]
<1>1. KeywordRanked(ask, query, most) = ClusteredEntries(ask, Descending(adjusted), 2)
  BY DEF KeywordRanked
<1>2. all \in Seq(DOMAIN Text) /\ ask.raw \in Seq(Nat) /\ Len(ask.raw) = Len(all)
  BY OwnFacts DEF Question
<1> HIDE DEF all
<1>3. listed \in Seq(Entries) /\ Len(listed) = Len(all)
  <2>1. DOMAIN all = 1..Len(all) /\ Len(all) \in Nat
    BY <1>2
  <2>2. \A i \in 1..Len(all) : Found(ask, all[i]) \in DOMAIN Text /\ ask.raw[i] \in Int
    BY <1>2, <2>1, FoundType
  <2> QED
    BY <2>1, <2>2 DEF Entries
<1>4. P \in SUBSET (1..Len(listed))
  <2>1. DOMAIN all = 1..Len(all)
    BY <1>2
  <2> QED
    BY <1>3, <2>1
<1> HIDE DEF listed, P
<1>5. hit \in Seq(Entries)
  BY <1>3, <1>4, PickedIs
<1> HIDE DEF hit
<1>6. Descending(hit) \in Seq(Entries)
  BY <1>5, DescendingEntries
<1>7. top \in Seq(Entries)
  BY <1>6, UptoEntries
<1> HIDE DEF top
<1>8. ASSUME NEW i \in 1..Len(top) PROVE Boosted(top[i]) \in Entries
  <2>1. PICK e \in Entries : e = top[i]
    BY <1>7
  <2>2. LexicalBoost(Text[e.doc], query) \in Nat
    BY LexicalBoostType
  <2>3. FolderPrior(Text[e.doc], query) \in Nat
    BY FolderPriorType
  <2>4. Penalty(Text[e.doc], query) \in Nat
    BY PenaltyType
  <2>5. PICK s \in Int : s = 100 * e.score + LexicalBoost(Text[e.doc], query)
                                + FolderPrior(Text[e.doc], query) - Penalty(Text[e.doc], query)
    BY <2>2, <2>3, <2>4 DEF Entries
  <2>6. Boosted(e) = [e EXCEPT !.score = s]
    BY <2>5
  <2>7. [e EXCEPT !.score = s] \in Entries
    BY DEF Entries
  <2> QED
    BY <2>1, <2>6, <2>7
<1>9. adjusted \in Seq(Entries)
  <2>1. DOMAIN top = 1..Len(top) /\ Len(top) \in Nat
    BY <1>7
  <2>2. adjusted = [i \in 1..Len(top) |-> Boosted(top[i])]
    BY <2>1
  <2> HIDE DEF adjusted, Boosted
  <2> QED
    BY <1>8, <2>1, <2>2
<1> HIDE DEF adjusted
<1>10. Descending(adjusted) \in Seq(Entries)
  BY <1>9, DescendingEntries
<1> QED
  BY <1>1, <1>10, ClusteredEntriesFacts

\* So is the semantic ranking.
LEMMA SemanticRankedFacts ==
  ASSUME NEW ask, Question(ask), NEW query \in Seq(Terms)
  PROVE  SemanticRanked(ask, query) \in Seq(Entries)
<1> DEFINE Score(doc, score) ==
             100 * score + IF Resolves(ask, doc)
                           THEN 6 * LexicalBoost(Text[doc], query) + 100 * FolderPrior(Text[doc], query)
                                  - 25 * Penalty(Text[doc], query)
                           ELSE 0
           Entry(e) == [doc |-> Found(ask, e.doc), score |-> Score(Found(ask, e.doc), e.score)]
           adjusted == [i \in DOMAIN ask.seen |-> Entry(ask.seen[i])]
<1>1. SemanticRanked(ask, query) = ClusteredEntries(ask, Descending(adjusted), 2)
  BY DEF SemanticRanked
<1>2. PICK seen \in Seq(Entries) : seen = ask.seen
  BY DEF Question, Entries
<1>3. ASSUME NEW i \in 1..Len(seen) PROVE Entry(seen[i]) \in Entries
  <2>1. PICK e \in Entries : e = seen[i]
    BY <1>2
  <2>2. PICK doc \in DOMAIN Text : doc = Found(ask, e.doc)
    BY FoundType DEF Entries
  <2>3. PICK lexical \in Nat : lexical = LexicalBoost(Text[doc], query)
    BY LexicalBoostType
  <2>4. PICK prior \in Nat : prior = FolderPrior(Text[doc], query)
    BY FolderPriorType
  <2>5. PICK penalty \in Nat : penalty = Penalty(Text[doc], query)
    BY PenaltyType
  <2>6. Score(doc, e.score) \in Int
    <3>1. PICK score \in Int : score = e.score
      BY DEF Entries
    <3>2. Score(doc, e.score) =
            100 * score + IF Resolves(ask, doc)
                          THEN 6 * lexical + 100 * prior - 25 * penalty
                          ELSE 0
      BY <2>3, <2>4, <2>5, <3>1, Zenon
    <3> HIDE DEF Score
    <3> QED
      BY <3>2
  <2> HIDE DEF Score
  <2> QED
    BY <2>1, <2>2, <2>6 DEF Entries
<1> HIDE DEF Entry
<1>4. adjusted \in Seq(Entries)
  BY <1>2, <1>3
<1> HIDE DEF adjusted
<1>5. Descending(adjusted) \in Seq(Entries)
  BY <1>4, DescendingEntries
<1> QED
  BY <1>1, <1>5, ClusteredEntriesFacts, ZenonT(60)
-----------------------------------------------------------------------------
(* Fusion                                                                  *)

\* A better rank weighs no less.
LEMMA WeightFacts ==
  ASSUME NEW i \in Nat, NEW j \in Nat, i <= j
  PROVE  Weight(i) \in Nat /\ Weight(j) \in Nat /\ Weight(j) <= Weight(i)
<1> PICK u \in Nat : u = Unit
  BY DEF Unit
<1>1. Weight(i) = u \div (60 + i) /\ Weight(j) = u \div (60 + j)
  BY DEF Weight
<1>2. PICK x \in Nat \ {0}, y \in Nat \ {0} : x = 60 + i /\ y = 60 + j /\ x <= y
  OBVIOUS
<1>3. u \div x \in Nat /\ u \div y \in Nat
  BY Quotient
<1>4. PICK p \in Nat, q \in Nat : p = u \div x /\ q = u \div y
  BY <1>3
<1>5. u = x * p + (u % x) /\ u % x \in 0..(x - 1) /\ u = y * q + (u % y) /\ u % y \in 0..(y - 1)
  BY <1>4
<1>6. ASSUME q >= p + 1 PROVE FALSE
  <2>1. y * q >= x * q
    BY <1>2
  <2>2. x * q >= x * (p + 1)
    BY <1>6
  <2>3. x * (p + 1) = x * p + x
    OBVIOUS
  <2> QED
    BY <1>5, <2>1, <2>2, <2>3
<1>7. q <= p
  BY <1>6
<1> QED
  BY <1>1, <1>2, <1>4, <1>7

\* What a ranking gives a document is not negative, and no less than what its
\* place is worth.
LEMMA RankScoreFacts ==
  ASSUME NEW ranked \in Seq(Entries), NEW d
  PROVE  /\ RankScore(ranked, d) \in Int /\ RankScore(ranked, d) >= 0
         /\ \A i \in 1..Len(ranked) :
              /\ (\A j \in 1..Len(ranked) : ranked[j].doc = d <=> j = i) => RankScore(ranked, d) = Weight(i)
              /\ ranked[i].doc = d => RankScore(ranked, d) >= Weight(i)
<1> DEFINE n == Len(ranked)
           scores == [i \in DOMAIN ranked |-> IF ranked[i].doc = d THEN Weight(i) ELSE 0]
<1>1. n \in Nat /\ DOMAIN ranked = 1..n
  OBVIOUS
<1>2. \A i \in 1..n : Weight(i) \in Nat
  <2> TAKE i \in 1..n
  <2>1. i \in Nat /\ i <= i
    BY <1>1
  <2> QED
    BY <2>1, WeightFacts
<1>3. scores \in [1..n -> Int] /\ \A i \in 1..n : scores[i] >= 0 /\ scores[i] = IF ranked[i].doc = d THEN Weight(i) ELSE 0
  BY <1>1, <1>2
<1>4. RankScore(ranked, d) = Total(scores)
  BY DEF RankScore
<1> HIDE DEF n, scores
<1>5. Total(scores) \in Int /\ Total(scores) >= 0
  BY <1>1, <1>3, TotalType
<1>6. ASSUME NEW i \in 1..n, \A j \in 1..n : ranked[j].doc = d <=> j = i
      PROVE  Total(scores) = Weight(i)
  <2>1. \A j \in 1..n : j # i => scores[j] = 0
    BY <1>3, <1>6
  <2>2. Total(scores) = scores[i]
    BY <1>1, <1>3, <2>1, TotalOfOne
  <2> QED
    BY <1>3, <1>6, <2>2
<1>7. ASSUME NEW i \in 1..n, ranked[i].doc = d PROVE Total(scores) >= Weight(i)
  <2>1. Total(scores) >= scores[i]
    BY <1>1, <1>3, TotalAtLeast
  <2> QED
    BY <1>3, <1>7, <2>1
<1> QED
  BY <1>4, <1>5, <1>6, <1>7 DEF n

\* The scores of the fusion, before they are sorted.
FusedScores(semantic, keyword) ==
  LET seen == Distinct(Docs(semantic) \o Docs(keyword))
  IN  [i \in DOMAIN seen |->
         [doc |-> seen[i], score |-> RankScore(semantic, seen[i]) + RankScore(keyword, seen[i])]]

\* Every document of the two rankings is scored once, and not below zero.
LEMMA FusedScoresFacts ==
  ASSUME NEW semantic \in Seq(Entries), NEW keyword \in Seq(Entries)
  PROVE  LET seen == Distinct(Docs(semantic) \o Docs(keyword))
             scored == FusedScores(semantic, keyword)
         IN  /\ scored \in Seq(Entries) /\ UniqueDocs(scored) /\ Len(scored) = Len(seen)
             /\ \A i \in 1..Len(scored) :
                  /\ scored[i].doc = seen[i] /\ scored[i].score >= 0
                  /\ scored[i].score = RankScore(semantic, seen[i]) + RankScore(keyword, seen[i])
<1> DEFINE seen == Distinct(Docs(semantic) \o Docs(keyword))
           scored == FusedScores(semantic, keyword)
<1>1. Docs(semantic) \in Seq(DOMAIN Text) /\ Docs(keyword) \in Seq(DOMAIN Text)
  BY DocsFacts
<1>2. Docs(semantic) \o Docs(keyword) \in Seq(DOMAIN Text)
  BY <1>1, ConcatProperties
<1>3. seen \in Seq(DOMAIN Text) /\ Unique(seen)
  BY <1>2, DistinctFacts
<1>4. scored = [i \in DOMAIN seen |->
                  [doc |-> seen[i], score |-> RankScore(semantic, seen[i]) + RankScore(keyword, seen[i])]]
  BY DEF FusedScores
<1> HIDE DEF seen, scored
<1>5. Len(seen) \in Nat /\ DOMAIN seen = 1..Len(seen)
  BY <1>3
<1>6. \A i \in 1..Len(seen) :
        /\ RankScore(semantic, seen[i]) \in Int /\ RankScore(semantic, seen[i]) >= 0
        /\ RankScore(keyword, seen[i]) \in Int /\ RankScore(keyword, seen[i]) >= 0
  BY RankScoreFacts
<1>7. \A i \in 1..Len(seen) : seen[i] \in DOMAIN Text
  BY <1>3
<1>8. ASSUME NEW i \in 1..Len(seen)
      PROVE  /\ scored[i] \in Entries /\ scored[i].doc = seen[i] /\ scored[i].score >= 0
             /\ scored[i].score = RankScore(semantic, seen[i]) + RankScore(keyword, seen[i])
  <2>1. PICK a \in Int, b \in Int : /\ a = RankScore(semantic, seen[i]) /\ a >= 0
                                    /\ b = RankScore(keyword, seen[i]) /\ b >= 0
    BY <1>6
  <2>2. PICK s \in Int : s = a + b /\ s >= 0
    BY <2>1
  <2>3. scored[i] = [doc |-> seen[i], score |-> s]
    BY <1>4, <1>5, <2>1, <2>2
  <2>4. [doc |-> seen[i], score |-> s] \in Entries
    BY <1>7 DEF Entries
  <2> QED
    BY <2>1, <2>2, <2>3, <2>4
<1>9. scored \in [1..Len(seen) -> Entries]
  <2>1. \A i \in 1..Len(seen) : scored[i] \in Entries
    BY <1>8
  <2>2. DOMAIN scored = 1..Len(seen) /\ scored = [i \in 1..Len(seen) |-> scored[i]]
    BY <1>4, <1>5
  <2> QED
    BY <2>1, <2>2
<1>10. scored \in Seq(Entries) /\ Len(scored) = Len(seen)
  BY <1>5, <1>9
<1>11. UniqueDocs(scored)
  <2>1. \A i \in 1..Len(seen) : scored[i].doc = seen[i]
    BY <1>8
  <2> QED
    BY <1>3, <1>10, <2>1 DEF UniqueDocs, Unique
<1> QED
  BY <1>8, <1>10, <1>11 DEF seen, scored

\* The fusion by its scores.
LEMMA FusedIs ==
  ASSUME NEW ask, NEW semantic, NEW keyword
  PROVE  Fused(ask, semantic, keyword)
           = ClusteredEntries(ask, Upto(MaxSources, Descending(FusedScores(semantic, keyword))), 2)
BY DEF Fused, FusedScores

\* The fusion is a ranking that names no document twice.
LEMMA FusedFacts ==
  ASSUME NEW ask, NEW semantic \in Seq(Entries), NEW keyword \in Seq(Entries)
  PROVE  /\ Fused(ask, semantic, keyword) \in Seq(Entries) /\ UniqueDocs(Fused(ask, semantic, keyword))
         /\ \A i \in 1..Len(Fused(ask, semantic, keyword)) : Fused(ask, semantic, keyword)[i].score >= 0
<1> DEFINE scored == FusedScores(semantic, keyword)
           sorted == Descending(scored)
           best == Upto(MaxSources, sorted)
           fused == Fused(ask, semantic, keyword)
<1>0. MaxSources \in Nat
  BY RankingAssumption
<1>1. /\ scored \in Seq(Entries) /\ UniqueDocs(scored) /\ Len(scored) \in Nat
      /\ \A i \in 1..Len(scored) : scored[i].score >= 0
  <2>1. scored \in Seq(Entries)
    BY FusedScoresFacts
  <2>2. UniqueDocs(scored)
    BY FusedScoresFacts
  <2>3. \A i \in 1..Len(scored) : scored[i].score >= 0
    BY FusedScoresFacts
  <2> HIDE DEF scored
  <2> QED
    BY <2>1, <2>2, <2>3
<1>2. fused = ClusteredEntries(ask, best, 2)
  BY FusedIs
<1> HIDE DEF scored, fused
<1>3. /\ sorted \in Seq(Entries) /\ UniqueDocs(sorted) /\ Len(sorted) = Len(scored)
      /\ \E p : Sorted(p, sorted, scored, Len(scored))
  BY <1>1, DescendingEntries
<1> HIDE DEF sorted
<1>4. \A k \in 1..Len(sorted) : sorted[k].score >= 0
  <2>1. PICK p : Sorted(p, sorted, scored, Len(scored))
    BY <1>3
  <2>2. \A k \in 1..Len(scored) : p[k] \in 1..Len(scored) /\ sorted[k] = scored[p[k]]
    BY <2>1 DEF Sorted
  <2> QED
    BY <1>1, <1>3, <2>2
<1>5. best \in Seq(Entries) /\ UniqueDocs(best)
  BY <1>0, <1>3, UptoEntries
<1>6. \A k \in 1..Len(best) : best[k].score >= 0
  <2>1. /\ Len(best) = IF MaxSources <= Len(sorted) THEN MaxSources ELSE Len(sorted)
        /\ \A k \in 1..Len(best) : best[k] = sorted[k]
    BY <1>0, <1>3, UptoFacts
  <2>2. \A k \in 1..Len(best) : k \in 1..Len(sorted)
    BY <1>0, <1>1, <1>3, <2>1
  <2> QED
    BY <1>4, <2>1, <2>2
<1> HIDE DEF best
<1>7. fused \in Seq(Entries) /\ UniqueDocs(fused)
  BY <1>2, <1>5, ClusteredEntriesFacts
<1>8. \A i \in 1..Len(fused) : fused[i].score >= 0
  <2>1. PICK P \in SUBSET (1..Len(best)) : fused = Picked(best, P)
    BY <1>2, <1>5, ClusteredEntriesFacts
  <2>2. PICK p : Picks(p, Picked(best, P), best, P)
    BY <1>5, PickedIs
  <2>3. Len(fused) = Cardinality(P)
    BY <1>5, <2>1, PickedIs
  <2>4. \A k \in 1..Len(fused) : p[k] \in P /\ fused[k] = best[p[k]]
    BY <2>1, <2>2, <2>3 DEF Picks
  <2> QED
    BY <1>6, <2>4
<1> QED
  BY <1>7, <1>8 DEF fused

\* A document that is ranked once has one place in the ranking.
LEMMA OncePlace ==
  ASSUME NEW ranked \in Seq(Entries), NEW d, Once(ranked, d)
  PROVE  \E i \in 1..Len(ranked) : \A j \in 1..Len(ranked) : ranked[j].doc = d <=> j = i
<1> DEFINE places == {i \in DOMAIN ranked : ranked[i].doc = d}
<1>1. DOMAIN ranked = 1..Len(ranked) /\ Len(ranked) \in Nat
  OBVIOUS
<1>2. IsFiniteSet(1..Len(ranked))
  BY <1>1, FS_Interval
<1>3. IsFiniteSet(places)
  BY <1>1, <1>2, FS_Subset
<1>4. Cardinality(places) = 1
  BY DEF Once
<1>5. PICK i : places = {i}
  <2> HIDE DEF places
  <2> QED
    BY <1>3, <1>4, FS_Singleton
<1>6. i \in 1..Len(ranked)
  BY <1>1, <1>5
<1>7. \A j \in 1..Len(ranked) : ranked[j].doc = d <=> j = i
  BY <1>1, <1>5
<1> QED
  BY <1>6, <1>7

\* Distinct keeps the order of first occurrences.
LEMMA DistinctOrder ==
  ASSUME NEW S, NEW s \in Seq(S), NEW i \in 1..Len(s), NEW j \in 1..Len(s), i < j,
         \A k \in 1..(i - 1) : s[k] # s[i],
         \A k \in 1..(j - 1) : s[k] # s[j]
  PROVE  \E x, y \in 1..Len(Distinct(s)) : x < y /\ Distinct(s)[x] = s[i] /\ Distinct(s)[y] = s[j]
<1> DEFINE first == {k \in 1..Len(s) : \A l \in 1..(k - 1) : s[l] # s[k]}
<1>1. Distinct(s) = Picked(s, first) /\ Len(s) \in Nat
  <2>1. DOMAIN s = 1..Len(s)
    OBVIOUS
  <2> QED
    BY <2>1 DEF Distinct
<1>2. i \in first /\ j \in first /\ first \in SUBSET (1..Len(s))
  OBVIOUS
<1> HIDE DEF first
<1>3. PICK p : Picks(p, Picked(s, first), s, first)
  BY <1>2, PickedIs
<1>4. Len(Picked(s, first)) = Cardinality(first) /\ Cardinality(first) \in Nat
  <2>1. Len(Picked(s, first)) = Cardinality(first) /\ Cardinality(first) \in 0..Len(s)
    BY <1>2, PickedIs
  <2> QED
    BY <1>1, <2>1
<1>5. PICK x \in 1..Cardinality(first) : p[x] = i
  BY <1>2, <1>3 DEF Picks
<1>6. PICK y \in 1..Cardinality(first) : p[y] = j
  BY <1>2, <1>3 DEF Picks
<1>7. ~(y < x) /\ y # x
  <2>1. y < x => p[y] < p[x]
    BY <1>3 DEF Picks
  <2> QED
    BY <1>1, <1>5, <1>6, <2>1
<1>8. x < y
  BY <1>4, <1>7
<1>9. Picked(s, first)[x] = s[i] /\ Picked(s, first)[y] = s[j]
  BY <1>3, <1>5, <1>6 DEF Picks
<1> QED
  BY <1>1, <1>4, <1>8, <1>9

\* Of documents ranked once, what is picked keeps the order.
LEMMA PickedKeepsOrder ==
  ASSUME NEW ranked \in Seq(Entries), UniqueDocs(ranked), NEW P \in SUBSET (1..Len(ranked)),
         NEW a \in 1..Len(ranked), NEW b \in 1..Len(ranked), a < b,
         NEW k \in 1..Len(Picked(ranked, P)), NEW l \in 1..Len(Picked(ranked, P)),
         Picked(ranked, P)[k].doc = ranked[a].doc, Picked(ranked, P)[l].doc = ranked[b].doc
  PROVE  k < l
<1>1. PICK p : Picks(p, Picked(ranked, P), ranked, P)
  BY PickedIs
<1>0. Len(ranked) \in Nat
  OBVIOUS
<1>2. Len(Picked(ranked, P)) = Cardinality(P) /\ Cardinality(P) \in 0..Len(ranked)
  BY PickedIs
<1>3. k \in 1..Cardinality(P) /\ l \in 1..Cardinality(P) /\ k \in Nat /\ l \in Nat
  BY <1>0, <1>2
<1>4. p[k] = a
  <2>1. p[k] \in 1..Len(ranked) /\ ranked[p[k]].doc = ranked[a].doc
    BY <1>1, <1>3 DEF Picks
  <2> QED
    BY <2>1 DEF UniqueDocs
<1>5. p[l] = b
  <2>1. p[l] \in 1..Len(ranked) /\ ranked[p[l]].doc = ranked[b].doc
    BY <1>1, <1>3 DEF Picks
  <2> QED
    BY <2>1 DEF UniqueDocs
<1>6. l < k => p[l] < p[k]
  BY <1>1, <1>3 DEF Picks
<1>7. ~(l < k) /\ l # k
  BY <1>0, <1>2, <1>4, <1>5, <1>6
<1> QED
  BY <1>3, <1>7

\* Who has the better score, or the same score and the earlier place, comes first.
LEMMA SortedKeepsOrder ==
  ASSUME NEW n \in Nat, NEW entries, \A i \in 1..n : entries[i].score \in Int,
         NEW list, NEW p, Sorted(p, list, entries, n)
  PROVE  \A x, y \in 1..n : x < y /\ entries[x].score >= entries[y].score =>
           \A a, b \in 1..n : p[a] = x /\ p[b] = y => a < b
<1> SUFFICES ASSUME NEW x \in 1..n, NEW y \in 1..n, x < y, entries[x].score >= entries[y].score,
                    NEW a \in 1..n, NEW b \in 1..n, p[a] = x, p[b] = y
             PROVE  a < b
  OBVIOUS
<1>3. a # b
  OBVIOUS
<1>4. ASSUME b < a PROVE FALSE
  <2>1. \/ entries[p[b]].score > entries[p[a]].score
        \/ (entries[p[b]].score = entries[p[a]].score /\ p[b] < p[a])
    BY <1>4 DEF Sorted
  <2>2. PICK u \in Int, v \in Int : u = entries[x].score /\ v = entries[y].score
    OBVIOUS
  <2>3. u >= v /\ (v > u \/ (v = u /\ y < x))
    BY <2>1, <2>2
  <2> QED
    BY <2>3
<1> QED
  BY <1>3, <1>4

\* Two sequences, one after the other.
LEMMA Joined ==
  ASSUME NEW S, NEW a \in Seq(S), NEW b \in Seq(S)
  PROVE  /\ a \o b \in Seq(S) /\ Len(a \o b) = Len(a) + Len(b)
         /\ \A m \in 1..Len(a) : (a \o b)[m] = a[m]
<1>1. a \o b \in Seq(S)
  BY ConcatProperties
<1>2. Len(a) \in Nat /\ Len(b) \in Nat
  OBVIOUS
<1>3. Len(a \o b) = Len(a) + Len(b)
  OBVIOUS
<1>4. \A m \in 1..Len(a) : (a \o b)[m] = a[m]
  OBVIOUS
<1> QED
  BY <1>1, <1>3, <1>4

\* At some place one, and at a later one another.
InTurn(list, d, e) == \E x, y \in 1..Len(list) : x < y /\ list[x] = d /\ list[y] = e

\* What is listed in a first list before something else stays before it.
LEMMA SeenInOrder ==
  ASSUME NEW S, NEW a \in Seq(S), NEW b \in Seq(S),
         NEW i \in 1..Len(a), NEW j \in 1..Len(a), i < j,
         \A k \in 1..(i - 1) : a[k] # a[i],
         \A k \in 1..Len(a) : a[k] = a[j] <=> k = j
  PROVE  InTurn(Distinct(a \o b), a[i], a[j])
<1> DEFINE s == a \o b
<1>1. s \in Seq(S) /\ Len(s) = Len(a) + Len(b) /\ \A m \in 1..Len(a) : s[m] = a[m]
  BY Joined
<1> HIDE DEF s
<1>2. PICK n \in Nat, m \in Nat : n = Len(a) /\ m = Len(b)
  OBVIOUS
<1>3. Len(s) = n + m /\ i \in 1..n /\ j \in 1..n /\ \A k \in 1..n : s[k] = a[k]
  BY <1>1, <1>2
<1>4. i \in 1..Len(s) /\ j \in 1..Len(s)
  BY <1>3
<1>5. \A k \in 1..(i - 1) : s[k] # s[i]
  <2> TAKE k \in 1..(i - 1)
  <2>1. k \in 1..n /\ k # i
    BY <1>3
  <2>2. s[k] = a[k] /\ s[i] = a[i]
    BY <1>3, <2>1
  <2>3. a[k] # a[i]
    BY <1>2, <2>1
  <2> QED
    BY <2>2, <2>3, Zenon
<1>6. \A k \in 1..(j - 1) : s[k] # s[j]
  <2> TAKE k \in 1..(j - 1)
  <2>1. k \in 1..n /\ k # j
    BY <1>3
  <2>2. s[k] = a[k] /\ s[j] = a[j]
    BY <1>3, <2>1
  <2>3. a[k] # a[j]
    BY <1>2, <2>1
  <2> QED
    BY <2>2, <2>3, Zenon
<1>7. \E x, y \in 1..Len(Distinct(s)) : x < y /\ Distinct(s)[x] = s[i] /\ Distinct(s)[y] = s[j]
  BY <1>1, <1>4, <1>5, <1>6, DistinctOrder, ZenonT(60)
<1>8. s[i] = a[i] /\ s[j] = a[j]
  BY <1>1
<1> QED
  BY <1>7, <1>8 DEF s, InTurn

\* At i for the first time one document, and at j, later, another, and only there.
Leads(ranked, d, e, i, j) ==
  /\ i \in 1..Len(ranked) /\ j \in 1..Len(ranked) /\ i < j
  /\ ranked[i].doc = d /\ \A k \in 1..(i - 1) : ranked[k].doc # d
  /\ \A k \in 1..Len(ranked) : ranked[k].doc = e <=> k = j

\* In each of the rankings the one that is ahead weighs no less.
LEMMA AheadWeighs ==
  ASSUME NEW ranked \in Seq(Entries), NEW d, NEW e, NEW i, NEW j, Leads(ranked, d, e, i, j)
  PROVE  /\ RankScore(ranked, d) \in Int /\ RankScore(ranked, e) \in Int
         /\ RankScore(ranked, d) >= RankScore(ranked, e)
<1>0. /\ i \in 1..Len(ranked) /\ j \in 1..Len(ranked) /\ i < j /\ ranked[i].doc = d
      /\ \A k \in 1..Len(ranked) : ranked[k].doc = e <=> k = j
  BY DEF Leads
<1>1. RankScore(ranked, d) >= Weight(i) /\ RankScore(ranked, d) \in Int
  BY <1>0, RankScoreFacts
<1>2. RankScore(ranked, e) = Weight(j)
  BY <1>0, RankScoreFacts
<1>3. i \in Nat /\ j \in Nat /\ i <= j
  <2>1. Len(ranked) \in Nat
    OBVIOUS
  <2> QED
    BY <1>0, <2>1
<1>4. Weight(i) \in Nat /\ Weight(j) \in Nat /\ Weight(j) <= Weight(i)
  BY <1>3, WeightFacts
<1> QED
  BY <1>1, <1>2, <1>4

\* The places of a document and of one it is ahead of that is ranked once.
LEMMA AheadPlaces ==
  ASSUME NEW ranked \in Seq(Entries), NEW d, NEW e, Ahead(ranked, d, e), Once(ranked, e)
  PROVE  \E i, j : Leads(ranked, d, e, i, j)
<1>0. Len(ranked) \in Nat /\ DOMAIN ranked = 1..Len(ranked)
  OBVIOUS
<1>1. PICK m \in 1..Len(ranked), j \in 1..Len(ranked) : m < j /\ ranked[m].doc = d /\ ranked[j].doc = e
  BY <1>0 DEF Ahead
<1>2. PICK i \in {k \in 1..Len(ranked) : ranked[k].doc = d} :
        \A k \in {l \in 1..Len(ranked) : ranked[l].doc = d} : i <= k
  <2>1. {k \in 1..Len(ranked) : ranked[k].doc = d} \in SUBSET Nat
    BY <1>0
  <2>2. m \in {k \in 1..Len(ranked) : ranked[k].doc = d}
    BY <1>1
  <2> QED
    BY <2>1, <2>2, Least
<1>3. i <= m /\ i < j
  BY <1>0, <1>1, <1>2
<1>4. \A k \in 1..(i - 1) : ranked[k].doc # d
  BY <1>0, <1>2
<1>5. \A k \in 1..Len(ranked) : ranked[k].doc = e <=> k = j
  <2>1. \E l \in 1..Len(ranked) : \A k \in 1..Len(ranked) : ranked[k].doc = e <=> k = l
    BY OncePlace
  <2> QED
    BY <1>1, <2>1
<1>6. Leads(ranked, d, e, i, j)
  BY <1>1, <1>2, <1>3, <1>4, <1>5 DEF Leads
<1> QED
  BY <1>6

\* The clustering of a ranking picks of it.
IsPicked(list, ranked) == \E P \in SUBSET (1..Len(ranked)) : list = Picked(ranked, P)

\* Some of each cluster are picked places.
LEMMA ClusteredIsPicked ==
  ASSUME NEW ask, NEW ranked \in Seq(Entries), NEW most
  PROVE  IsPicked(ClusteredEntries(ask, ranked, most), ranked)
<1>1. PICK P \in SUBSET (1..Len(ranked)) : ClusteredEntries(ask, ranked, most) = Picked(ranked, P)
  BY ClusteredEntriesFacts
<1> QED
  BY <1>1 DEF IsPicked

\* Sorting, cutting off and clustering keep what is clearly ordered.
LEMMA FusedKeepsOrder ==
  ASSUME NEW ask, NEW scored \in Seq(Entries), UniqueDocs(scored),
         NEW x \in 1..Len(scored), NEW y \in 1..Len(scored), x < y, scored[x].score >= scored[y].score,
         NEW P, P \in SUBSET (1..Len(Upto(MaxSources, Descending(scored)))),
         NEW fused, fused = Picked(Upto(MaxSources, Descending(scored)), P),
         NEW k \in 1..Len(fused), fused[k].doc = scored[x].doc,
         NEW l \in 1..Len(fused), fused[l].doc = scored[y].doc
  PROVE  k < l
<1> DEFINE n == Len(scored)
           sorted == Descending(scored)
           best == Upto(MaxSources, sorted)
<1>0. MaxSources \in Nat
  BY RankingAssumption
<1>10. n \in Nat /\ \A m \in 1..n : scored[m].score \in Int
  BY EntriesType
<1>12. /\ sorted \in Seq(Entries) /\ UniqueDocs(sorted) /\ Len(sorted) = n
       /\ \E p : Sorted(p, sorted, scored, n)
  BY DescendingEntries
<1> HIDE DEF sorted
<1>13. PICK p : Sorted(p, sorted, scored, n)
  BY <1>12
<1>14. PICK a \in 1..n, b \in 1..n : a < b /\ p[a] = x /\ p[b] = y
  <2>1. PICK a \in 1..n, b \in 1..n : p[a] = x /\ p[b] = y
    BY <1>13 DEF Sorted
  <2>2. \A u, v \in 1..n : u < v /\ scored[u].score >= scored[v].score =>
           \A f, g \in 1..n : p[f] = u /\ p[g] = v => f < g
    BY <1>10, <1>13, SortedKeepsOrder
  <2>3. a < b
    BY <2>1, <2>2
  <2> QED
    BY <2>1, <2>3
<1>15. sorted[a].doc = scored[x].doc /\ sorted[b].doc = scored[y].doc
  BY <1>13, <1>14 DEF Sorted
<1>16. /\ best \in Seq(Entries)
       /\ Len(best) = IF MaxSources <= Len(sorted) THEN MaxSources ELSE Len(sorted)
       /\ \A m \in 1..Len(best) : best[m] = sorted[m]
  BY <1>0, <1>12, UptoFacts
<1>17. UniqueDocs(best)
  BY <1>0, <1>12, UptoEntries
<1>19. fused = Picked(best, P) /\ P \in SUBSET (1..Len(best))
  BY DEF sorted
<1> HIDE DEF best, n
<1>20. \A m \in 1..Len(best) : m \in 1..n
  BY <1>0, <1>10, <1>12, <1>16
<1>21. \A m \in 1..Len(fused) : \E q \in 1..Len(best) : fused[m] = best[q]
  <2>1. PICK f : Picks(f, Picked(best, P), best, P)
    BY <1>16, <1>19, PickedIs
  <2>2. Len(fused) = Cardinality(P)
    BY <1>16, <1>19, PickedIs
  <2>3. \A m \in 1..Len(fused) : f[m] \in P /\ fused[m] = best[f[m]]
    BY <1>19, <2>1, <2>2 DEF Picks
  <2> QED
    BY <1>19, <2>3
<1>22. a \in 1..Len(best) /\ best[a].doc = scored[x].doc
  <2>1. PICK q \in 1..Len(best) : fused[k] = best[q]
    BY <1>21
  <2>2. sorted[q].doc = scored[x].doc /\ q \in 1..n
    BY <1>16, <1>20, <2>1
  <2>3. q = a
    BY <1>12, <1>15, <2>2 DEF UniqueDocs
  <2> QED
    BY <2>1, <2>3
<1>23. b \in 1..Len(best) /\ best[b].doc = scored[y].doc
  <2>1. PICK q \in 1..Len(best) : fused[l] = best[q]
    BY <1>21
  <2>2. sorted[q].doc = scored[y].doc /\ q \in 1..n
    BY <1>16, <1>20, <2>1
  <2>3. q = b
    BY <1>12, <1>15, <2>2 DEF UniqueDocs
  <2> QED
    BY <2>1, <2>3
<1>24. /\ k \in 1..Len(Picked(best, P)) /\ l \in 1..Len(Picked(best, P))
       /\ Picked(best, P)[k].doc = best[a].doc /\ Picked(best, P)[l].doc = best[b].doc
  BY <1>19, <1>22, <1>23
<1>25. best \in Seq(Entries) /\ UniqueDocs(best) /\ P \in SUBSET (1..Len(best)) /\ a < b
  BY <1>14, <1>16, <1>17, <1>19
<1> QED
  BY <1>22, <1>23, <1>24, <1>25, PickedKeepsOrder

\* What two rankings agree on their fusion keeps.
LEMMA FusionAgrees ==
  ASSUME NEW ask, NEW semantic \in Seq(Entries), NEW keyword \in Seq(Entries),
         NEW d, NEW e,
         Once(semantic, e), Once(keyword, e), Ahead(semantic, d, e), Ahead(keyword, d, e),
         NEW fused, fused = Fused(ask, semantic, keyword),
         NEW k \in 1..Len(fused), fused[k].doc = d,
         NEW l \in 1..Len(fused), fused[l].doc = e
  PROVE  k < l
<1> DEFINE both == Docs(semantic) \o Docs(keyword)
           seen == Distinct(both)
           scored == FusedScores(semantic, keyword)
           n == Len(scored)
           best == Upto(MaxSources, Descending(scored))
<1>0. MaxSources \in Nat
  BY RankingAssumption
<1>1. PICK i, j : Leads(semantic, d, e, i, j)
  BY AheadPlaces
<1>2. PICK u, v : Leads(keyword, d, e, u, v)
  BY AheadPlaces
<1>3. /\ RankScore(semantic, d) \in Int /\ RankScore(semantic, e) \in Int
      /\ RankScore(semantic, d) >= RankScore(semantic, e)
  BY <1>1, AheadWeighs
<1>4. /\ RankScore(keyword, d) \in Int /\ RankScore(keyword, e) \in Int
      /\ RankScore(keyword, d) >= RankScore(keyword, e)
  BY <1>2, AheadWeighs
<1>5. PICK first, second : first = Docs(semantic) /\ second = Docs(keyword)
  OBVIOUS
<1>6. PICK x \in 1..Len(seen), y \in 1..Len(seen) : x < y /\ seen[x] = d /\ seen[y] = e
  <2>0. /\ i \in 1..Len(semantic) /\ j \in 1..Len(semantic) /\ i < j
        /\ semantic[i].doc = d /\ \A m \in 1..(i - 1) : semantic[m].doc # d
        /\ \A m \in 1..Len(semantic) : semantic[m].doc = e <=> m = j
    BY <1>1 DEF Leads
  <2>1. first \in Seq(DOMAIN Text) /\ Len(first) = Len(semantic)
        /\ \A m \in 1..Len(semantic) : first[m] = semantic[m].doc
    BY <1>5, DocsFacts
  <2>2. second \in Seq(DOMAIN Text)
    BY <1>5, DocsFacts
  <2>3. i \in 1..Len(first) /\ j \in 1..Len(first) /\ first[i] = d /\ first[j] = e
    BY <2>0, <2>1
  <2>4. /\ \A q \in 1..(i - 1) : first[q] # first[i]
        /\ \A q \in 1..Len(first) : first[q] = first[j] <=> q = j
    <3>1. first[i] = d /\ first[j] = e
      BY <2>3
    <3>2. \A q \in 1..(i - 1) : q \in 1..Len(semantic)
      BY <2>0
    <3>3. \A q \in 1..(i - 1) : first[q] # d
      BY <2>0, <2>1, <3>2, Zenon
    <3>4. \A q \in 1..Len(first) : first[q] = e <=> q = j
      BY <2>0, <2>1, Zenon
    <3> QED
      BY <3>1, <3>3, <3>4, Zenon
  <2>5. InTurn(Distinct(first \o second), first[i], first[j])
    BY <2>0, <2>1, <2>2, <2>3, <2>4, SeenInOrder
  <2>6. InTurn(seen, d, e)
    BY <1>5, <2>3, <2>5
  <2> QED
    BY <2>6 DEF InTurn
<1>7. scored \in Seq(Entries)
  BY FusedScoresFacts
<1>8. UniqueDocs(scored) /\ n = Len(seen)
  BY FusedScoresFacts DEF both
<1>9. \A m \in 1..n : /\ scored[m].doc = seen[m]
                     /\ scored[m].score = RankScore(semantic, seen[m]) + RankScore(keyword, seen[m])
  BY FusedScoresFacts DEF both
<1> HIDE DEF scored, seen
<1>10. n \in Nat /\ \A m \in 1..n : scored[m].score \in Int
  <2>1. n \in Nat
    BY <1>7
  <2>2. \A m \in 1..n : scored[m] \in Entries
    BY <1>7
  <2> QED
    BY <2>1, <2>2 DEF Entries
<1>11. scored[x].doc = d /\ scored[y].doc = e /\ scored[x].score >= scored[y].score
  <2>1. x \in 1..n /\ y \in 1..n
    BY <1>6, <1>8
  <2>2. /\ scored[x].score = RankScore(semantic, d) + RankScore(keyword, d)
        /\ scored[y].score = RankScore(semantic, e) + RankScore(keyword, e)
        /\ scored[x].doc = d /\ scored[y].doc = e
    BY <1>6, <1>9, <2>1
  <2> QED
    BY <1>3, <1>4, <2>2
<1>12. fused = ClusteredEntries(ask, best, 2)
  BY FusedIs DEF scored
<1> HIDE DEF n
<1>13. best \in Seq(Entries)
  <2>1. Descending(scored) \in Seq(Entries)
    BY <1>7, DescendingEntries
  <2> QED
    BY <1>0, <2>1, UptoEntries
<1>14. PICK P \in SUBSET (1..Len(best)) : fused = Picked(best, P)
  <2> HIDE DEF best
  <2>1. IsPicked(ClusteredEntries(ask, best, 2), best)
    BY <1>13, ClusteredIsPicked
  <2> QED
    BY <1>12, <2>1 DEF IsPicked
<1>15. x \in 1..Len(scored) /\ y \in 1..Len(scored)
  BY <1>6, <1>8 DEF n
<1> QED
  BY <1>6, <1>7, <1>8, <1>11, <1>14, <1>15, FusedKeepsOrder

-----------------------------------------------------------------------------
(* Confidence                                                              *)

\* A quotient rounded to the nearest is no more than a number its argument is
\* no more than.
LEMMA RatioBound ==
  ASSUME NEW a \in Nat, NEW b \in Nat \ {0}, NEW m \in Nat, 10000 * a <= m * b
  PROVE  Ratio(a, b) \in 0..m
<1>1. PICK h \in Nat, r \in Nat : /\ h = (a * 100) \div b /\ r = (a * 100) % b
                                  /\ a * 100 = b * h + r /\ r < b
  <2>1. PICK x \in Nat : x = a * 100
    OBVIOUS
  <2>2. x \div b \in Nat /\ x % b \in Nat
    BY Quotient
  <2>3. x = b * (x \div b) + (x % b) /\ x % b < b
    OBVIOUS
  <2> QED
    BY <2>1, <2>2, <2>3
<1>2. PICK g \in Nat, s \in Nat : /\ g = (r * 100) \div b /\ s = (r * 100) % b
                                  /\ r * 100 = b * g + s /\ s < b
  <2>1. PICK x \in Nat : x = r * 100
    OBVIOUS
  <2>2. x \div b \in Nat /\ x % b \in Nat
    BY Quotient
  <2>3. x = b * (x \div b) + (x % b) /\ x % b < b
    OBVIOUS
  <2> QED
    BY <2>1, <2>2, <2>3
<1>3. Ratio(a, b) = h * 100 + g + (IF 2 * s >= b THEN 1 ELSE 0)
  BY <1>1, <1>2 DEF Ratio
<1>4. PICK k \in Nat : k = h * 100 + g
  OBVIOUS
<1>5. b * k = 100 * (b * h) + b * g
  BY <1>4
<1>6. b * k + s = 10000 * a
  <2>1. PICK bh \in Nat, bg \in Nat, bk \in Nat : bh = b * h /\ bg = b * g /\ bk = b * k
    OBVIOUS
  <2>2. bk = 100 * bh + bg
    BY <1>5, <2>1
  <2>3. a * 100 = bh + r /\ r * 100 = bg + s
    BY <1>1, <1>2, <2>1
  <2>4. bk + s = 10000 * a
    BY <2>2, <2>3
  <2> QED
    BY <2>1, <2>4
<1>7. PICK bk \in Nat, mb \in Nat : bk = b * k /\ mb = b * m
  OBVIOUS
<1>8. bk + s <= mb
  BY <1>6, <1>7
<1>9. k <= m
  <2>1. ASSUME k >= m + 1 PROVE FALSE
    <3>1. b * k >= b * (m + 1)
      BY <2>1
    <3>2. b * (m + 1) = b * m + b
      OBVIOUS
    <3> QED
      BY <1>7, <1>8, <3>1, <3>2
  <2> QED
    BY <2>1
<1>10. CASE k = m
  <2>1. bk = mb
    BY <1>7, <1>10
  <2>2. s = 0
    BY <1>8, <2>1
  <2>3. ~(2 * s >= b)
    BY <2>2
  <2>4. Ratio(a, b) = k
    BY <1>3, <1>4, <2>3
  <2> QED
    BY <1>10, <2>4
<1>11. CASE k # m
  <2>1. k + 1 <= m
    BY <1>9, <1>11
  <2>2. Ratio(a, b) = k \/ Ratio(a, b) = k + 1
    BY <1>3, <1>4
  <2> QED
    BY <2>1, <2>2
<1> QED
  BY <1>10, <1>11

\* Disagreement lowers a score, to a quarter where nothing is agreed on.
LEMMA AgreementFacts ==
  ASSUME NEW keyword, IsFiniteSet(keyword), NEW semantic, IsFiniteSet(semantic)
  PROVE  \E p \in Nat, q \in Nat \ {0} :
           /\ Agreement(keyword, semantic) = <<p, q>>
           /\ p <= q
           /\ keyword \cap semantic = {} /\ (keyword # {} \/ semantic # {}) => 4 * p <= q
<1> DEFINE a == Cardinality(keyword)
           b == Cardinality(semantic)
           both == Cardinality(keyword \cap semantic)
           least == Min({a, b})
           most == Max({a, b})
<1>1. a \in Nat /\ b \in Nat /\ (a = 0 <=> keyword = {}) /\ (b = 0 <=> semantic = {})
  BY FS_CardinalityType, FS_EmptySet
<1>2. both \in Nat /\ both <= a /\ both <= b /\ (keyword \cap semantic = {} => both = 0)
  <2>1. keyword \cap semantic \in SUBSET keyword /\ keyword \cap semantic \in SUBSET semantic
    OBVIOUS
  <2>2. IsFiniteSet(keyword \cap semantic) /\ both <= a /\ both <= b
    BY <2>1, FS_Subset
  <2> QED
    BY <2>2, FS_CardinalityType, FS_EmptySet
<1>3. Agreement(keyword, semantic)
        = IF most = 0 THEN <<1, 1>>
          ELSE IF least = 0 \/ 2 * both * (least + most) < least * most THEN <<1, 4>>
          ELSE <<both * (least + most), 2 * least * most>>
  BY DEF Agreement
<1> HIDE DEF a, b, both
<1>4. least = (IF a <= b THEN a ELSE b) /\ most = (IF a >= b THEN a ELSE b)
  BY <1>1, OfTwo
<1> HIDE DEF least, most
<1>5. PICK m \in Nat, n \in Nat, c \in Nat : /\ m = least /\ n = most /\ c = both
                                             /\ c <= m /\ m <= n
  BY <1>1, <1>2, <1>4
<1>6. Agreement(keyword, semantic)
        = IF n = 0 THEN <<1, 1>>
          ELSE IF m = 0 \/ 2 * c * (m + n) < m * n THEN <<1, 4>>
          ELSE <<c * (m + n), 2 * m * n>>
  BY <1>3, <1>5
<1>7. CASE n = 0
  <2>1. keyword = {} /\ semantic = {}
    BY <1>1, <1>4, <1>5, <1>7
  <2>2. Agreement(keyword, semantic) = <<1, 1>>
    BY <1>6, <1>7
  <2> QED
    BY <2>1, <2>2
<1>8. CASE n # 0 /\ (m = 0 \/ 2 * c * (m + n) < m * n)
  <2>2. Agreement(keyword, semantic) = <<1, 4>>
    BY <1>6, <1>8
  <2> QED
    BY <2>2
<1>9. CASE n # 0 /\ m # 0 /\ ~(2 * c * (m + n) < m * n)
  <2>1. PICK u \in Nat, v \in Nat, w \in Nat : u = c * m /\ v = c * n /\ w = m * n
    OBVIOUS
  <2>2. c * m <= m * n
    BY <1>5
  <2>3. c * n <= m * n
    BY <1>5
  <2>4. c * (m + n) = u + v /\ 2 * m * n = 2 * w /\ 2 * c * (m + n) = 2 * (u + v)
    BY <2>1
  <2>5. w # 0
    BY <1>9, <2>1
  <2>6. Agreement(keyword, semantic) = <<u + v, 2 * w>>
    BY <1>6, <1>9, <2>4
  <2>7. u + v <= 2 * w
    BY <2>1, <2>2, <2>3
  <2>8. keyword \cap semantic # {}
    <3>1. ASSUME c = 0 PROVE FALSE
      <4>1. u = 0 /\ v = 0
        BY <2>1, <3>1
      <4> QED
        BY <1>9, <2>1, <2>4, <2>5, <4>1
    <3> QED
      BY <1>2, <1>5, <3>1
  <2> QED
    BY <2>5, <2>6, <2>7, <2>8
<1> QED
  BY <1>7, <1>8, <1>9

\* How sure a rerank is: within bounds, and not at all sure when its two
\* rankings share nothing.
NoneNegative(ranked) == \A i \in 1..Len(ranked) : ranked[i].score >= 0

\* Two rankings that share no document.
Disagree(keyword, semantic) ==
  Bases(keyword) \cap Bases(semantic) = {} /\ (keyword # <<>> \/ semantic # <<>>)

\* compute_search_confidence stays within bounds, and below 0.25 when its
\* rankings share nothing.
LEMMA ConfidenceFacts ==
  ASSUME NEW fused \in Seq(Entries), NoneNegative(fused),
         NEW keyword \in Seq(Entries), NEW semantic \in Seq(Entries)
  PROVE  /\ Percentage(Confidence(fused, keyword, semantic))
         /\ Disagree(keyword, semantic) => Confidence(fused, keyword, semantic) <= 2500
<1> DEFINE most == 2 * Weight(1)
           top == IF fused = <<>> THEN 0 ELSE Min({most, fused[1].score})
<1>1. most \in Nat \ {0}
  <2>1. Weight(1) = (61 * 62 * 63 * 32) \div 61
    BY DEF Weight, Unit
  <2>2. Weight(1) = 124992
    BY <2>1
  <2> QED
    BY <2>2
<1> HIDE DEF most
<1>2. top \in 0..most
  <2>1. CASE fused = <<>>
    BY <1>1, <2>1
  <2>2. CASE fused # <<>>
    <3>1. 1 \in 1..Len(fused)
      BY <2>2
    <3>2. fused[1].score \in Int /\ fused[1].score >= 0
      BY <3>1, EntriesType DEF NoneNegative
    <3>3. PICK x \in Int : x = fused[1].score /\ x >= 0
      BY <3>2
    <3>4. Min({most, x}) = IF most <= x THEN most ELSE x
      <4>1. PICK m \in Int : m = most
        BY <1>1
      <4>2. Min({m, x}) = IF m <= x THEN m ELSE x
        BY OfTwo
      <4> QED
        BY <4>1, <4>2
    <3>5. top = Min({most, x})
      BY <2>2, <3>3
    <3> QED
      BY <1>1, <3>3, <3>4, <3>5
  <2> QED
    BY <2>1, <2>2
<1> HIDE DEF top
<1>3. \A ranked \in Seq(Entries) : IsFiniteSet(Bases(ranked)) /\ (ranked # <<>> => Bases(ranked) # {})
  <2> TAKE ranked \in Seq(Entries)
  <2>1. Len(ranked) \in Nat /\ DOMAIN ranked = 1..Len(ranked)
    OBVIOUS
  <2>2. IsFiniteSet(1..Len(ranked))
    BY <2>1, FS_Interval
  <2> DEFINE f == [i \in 1..Len(ranked) |-> Text[ranked[i].doc].base]
  <2>3. Bases(ranked) = {f[i] : i \in 1..Len(ranked)}
    BY <2>1 DEF Bases
  <2>4. IsFiniteSet(Bases(ranked))
    <3> HIDE DEF f
    <3>1. ASSUME NEW T, T = {f[i] : i \in 1..Len(ranked)} PROVE IsFiniteSet(T)
      BY <2>2, <3>1, FiniteImage
    <3> QED
      BY <2>3, <3>1
  <2>5. ranked # <<>> => 1 \in 1..Len(ranked)
    BY <2>1
  <2> QED
    BY <2>3, <2>4, <2>5
<1>4. PICK p \in Nat, q \in Nat \ {0} :
        /\ Agreement(Bases(keyword), Bases(semantic)) = <<p, q>>
        /\ p <= q
        /\ Bases(keyword) \cap Bases(semantic) = {} /\ (Bases(keyword) # {} \/ Bases(semantic) # {}) => 4 * p <= q
  BY <1>3, AgreementFacts
<1>5. Confidence(fused, keyword, semantic) = Ratio(top * p, most * q)
  BY <1>4 DEF Confidence, most, top
<1>6. PICK t \in Nat, m \in Nat \ {0} : t = top /\ m = most /\ t <= m
  BY <1>1, <1>2
<1>7. PICK a \in Nat, b \in Nat : a = t * p /\ b = m * q
  OBVIOUS
<1>8. t * p <= m * p /\ m * p <= m * q
  <2>1. t * p <= m * p
    BY <1>6
  <2>2. m * p <= m * q
    BY <1>4
  <2> QED
    BY <2>1, <2>2
<1>9. a <= b /\ b # 0
  <2>1. b # 0
    BY <1>7
  <2>2. PICK c \in Nat : c = m * p
    OBVIOUS
  <2>3. a <= c /\ c <= b
    BY <1>7, <1>8, <2>2
  <2> QED
    BY <2>1, <2>3
<1>10. Confidence(fused, keyword, semantic) = Ratio(a, b)
  BY <1>5, <1>6, <1>7
<1>11. Percentage(Ratio(a, b))
  <2>1. 10000 * a <= 10000 * b /\ b \in Nat \ {0} /\ 10000 \in Nat
    BY <1>9
  <2>2. PICK k \in Nat : k = 10000
    OBVIOUS
  <2>3. 10000 * a <= k * b
    BY <2>1, <2>2
  <2>4. PICK x : x = Ratio(a, b)
    OBVIOUS
  <2>5. Ratio(a, b) \in 0..k
    BY <2>1, <2>3, RatioBound
  <2>6. x \in Int /\ 0 <= x /\ x <= k
    BY <2>4, <2>5
  <2>7. Percentage(x)
    BY <2>2, <2>6 DEF Percentage
  <2> QED
    BY <2>4, <2>7, Zenon
<1>12. ASSUME 4 * p <= q PROVE Ratio(a, b) <= 2500
  <2>1. m * (4 * p) <= m * q
    BY <1>12
  <2>2. PICK c \in Nat : c = m * p
    OBVIOUS
  <2>3. m * (4 * p) = 4 * c
    BY <2>2
  <2>4. 4 * c <= b /\ a <= c
    BY <1>7, <1>8, <2>1, <2>2, <2>3
  <2>5. PICK k \in Nat : k = 2500
    OBVIOUS
  <2>6. 10000 * a <= 2500 * b
    BY <2>4
  <2>7. 10000 * a <= k * b /\ b \in Nat \ {0}
    BY <1>9, <2>5, <2>6
  <2>8. Ratio(a, b) \in 0..k
    BY <2>7, RatioBound
  <2>9. Ratio(a, b) \in Nat /\ Ratio(a, b) <= k
    BY <2>8
  <2> QED
    BY <2>5, <2>9
<1>13. Disagree(keyword, semantic) => 4 * p <= q
  BY <1>3, <1>4 DEF Disagree
<1> QED
  BY <1>10, <1>11, <1>12, <1>13

-----------------------------------------------------------------------------
(* Refinement                                                              *)

\* Two lists joined.
Join(s, t) == s \o t

\* f is the recursive function inside FlattenSeq.
Flattens(f, seqs, n) == f = [i \in 1..n |-> IF i = 1 THEN seqs[i] ELSE Join(f[i - 1], seqs[i])]

\* Flattening by its recursive function.
LEMMA FlattenIs ==
  ASSUME NEW seqs, Len(seqs) # 0
  PROVE  FlattenSeq(seqs) = (CHOOSE f : Flattens(f, seqs, Len(seqs)))[Len(seqs)]
BY DEF FlattenSeq, Flattens, Join

\* That function exists for every list of lists.
LEMMA FlattensExists ==
  ASSUME NEW seqs, NEW n \in Nat, n >= 1
  PROVE  \E f : Flattens(f, seqs, n)
<1> DEFINE T == {m \in Nat : m >= 1 /\ \E f : Flattens(f, seqs, m)}
<1>1. 1 \in T
  <2>1. Flattens([i \in 1..1 |-> seqs[i]], seqs, 1)
    BY DEF Flattens
  <2> QED
    BY <2>1
<1>2. ASSUME NEW m \in 1..(n - 1), m \in T PROVE m + 1 \in T
  <2>1. PICK f : Flattens(f, seqs, m)
    BY <1>2
  <2> DEFINE g == [i \in 1..(m + 1) |-> IF i <= m THEN f[i] ELSE Join(f[m], seqs[m + 1])]
  <2>2. f[1] = seqs[1] /\ \A i \in 2..m : f[i] = Join(f[i - 1], seqs[i])
    BY <2>1 DEF Flattens
  <2>3. ASSUME NEW i \in 1..(m + 1) PROVE g[i] = IF i = 1 THEN seqs[i] ELSE Join(g[i - 1], seqs[i])
    <3>1. CASE i = 1
      BY <2>2, <3>1
    <3>2. CASE i \in 2..m
      BY <2>2, <3>2
    <3>3. CASE i = m + 1
      BY <3>3
    <3> QED
      BY <3>1, <3>2, <3>3
  <2>4. g = [i \in 1..(m + 1) |-> g[i]]
    OBVIOUS
  <2> HIDE DEF g
  <2>5. Flattens(g, seqs, m + 1)
    BY <2>3, <2>4, Zenon DEF Flattens
  <2> QED
    BY <2>5
<1>3. 1..n \subseteq T
  <2> HIDE DEF T
  <2>1. 1 \in Nat
    OBVIOUS
  <2> QED
    BY <1>1, <1>2, <2>1, Climb
<1> QED
  BY <1>3

\* Lists of terms flatten to a list of terms.
LEMMA FlattenType ==
  ASSUME NEW S, NEW seqs \in Seq(Seq(S))
  PROVE  FlattenSeq(seqs) \in Seq(S)
<1> DEFINE n == Len(seqs)
<1>0. n \in Nat /\ \A i \in 1..n : seqs[i] \in Seq(S)
  OBVIOUS
<1>1. CASE n = 0
  <2>1. FlattenSeq(seqs) = seqs /\ seqs = <<>>
    BY <1>1 DEF FlattenSeq
  <2> QED
    BY <2>1
<1>2. CASE n # 0
  <2> DEFINE f == CHOOSE f : Flattens(f, seqs, n)
  <2>1. Flattens(f, seqs, n)
    <3>1. n \in Nat /\ n >= 1
      BY <1>0, <1>2
    <3>2. \E g : Flattens(g, seqs, n)
      <4> HIDE DEF n
      <4> QED
        BY <3>1, FlattensExists
    <3> QED
      BY <3>2
  <2>2. FlattenSeq(seqs) = f[n]
    BY <1>2, FlattenIs
  <2> HIDE DEF f, n
  <2>3. f[1] = seqs[1] /\ \A i \in 2..n : f[i] = Join(f[i - 1], seqs[i])
    BY <1>0, <1>2, <2>1 DEF Flattens
  <2> DEFINE T == {m \in 1..n : f[m] \in Seq(S)}
  <2>4. 1 \in T
    BY <1>0, <1>2, <2>3
  <2>5. ASSUME NEW m \in 1..(n - 1), m \in T PROVE m + 1 \in T
    <3>1. m + 1 \in 2..n /\ m + 1 \in 1..n /\ (m + 1) - 1 = m
      BY <1>0
    <3>2. f[m + 1] = Join(f[m], seqs[m + 1])
      BY <2>3, <3>1
    <3>3. f[m] \in Seq(S) /\ seqs[m + 1] \in Seq(S)
      BY <1>0, <2>5, <3>1
    <3>4. f[m] \o seqs[m + 1] \in Seq(S)
      BY <3>3, ConcatProperties
    <3> QED
      BY <3>1, <3>2, <3>4 DEF Join
  <2>6. 1..n \subseteq T
    <3> HIDE DEF T
    <3>1. 1 \in Nat
      OBVIOUS
    <3> QED
      BY <1>0, <2>4, <2>5, <3>1, Climb
  <2> QED
    BY <1>0, <1>2, <2>2, <2>6
<1> QED
  BY <1>1, <1>2

\* A refined query is a query.
LEMMA RefineType ==
  ASSUME NEW query \in Seq(Terms)
  PROVE  Refine(query) \in Seq(Terms)
<1> DEFINE P == {i \in DOMAIN query : query[i] \notin StopWords}
           kept == Picked(query, P)
           words == Keywords(query)
<1>1. P \in SUBSET (1..Len(query))
  <2>1. DOMAIN query = 1..Len(query)
    OBVIOUS
  <2> QED
    BY <2>1
<1>2. kept \in Seq(Terms)
  <2> HIDE DEF P
  <2> QED
    BY <1>1, PickedIs
<1>3. \A t \in Terms : Correct(t) \in Terms
  BY VocabularyAssumption DEF Correct
<1>4. words = [i \in DOMAIN kept |-> Correct(kept[i])]
  BY DEF Keywords
<1> HIDE DEF kept, words
<1>5. words \in Seq(Terms)
  <2>1. DOMAIN kept = 1..Len(kept) /\ Len(kept) \in Nat /\ \A i \in 1..Len(kept) : kept[i] \in Terms
    BY <1>2
  <2>2. words \in [1..Len(kept) -> Terms]
    BY <1>3, <1>4, <2>1
  <2> QED
    BY <2>1, <2>2
<1>6. \A t : Synonyms(t) \in Seq(Terms)
  BY VocabularyAssumption DEF Synonyms
<1> DEFINE lists == [i \in DOMAIN words |-> Synonyms(words[i])]
           all == FlattenSeq(lists)
           Q == {i \in DOMAIN all : /\ all[i] \notin Range(words)
                                    /\ \A j \in 1..(i - 1) : all[j] # all[i]}
           new == Picked(all, Q)
<1>7. lists \in Seq(Seq(Terms))
  <2>1. DOMAIN words = 1..Len(words) /\ Len(words) \in Nat
    BY <1>5
  <2>2. lists \in [1..Len(words) -> Seq(Terms)]
    BY <1>6, <2>1
  <2> QED
    BY <2>1, <2>2
<1> HIDE DEF lists
<1>8. all \in Seq(Terms)
  BY <1>7, FlattenType
<1>9. Q \in SUBSET (1..Len(all))
  <2> HIDE DEF all
  <2>1. DOMAIN all = 1..Len(all)
    BY <1>8
  <2> QED
    BY <2>1
<1>10. new \in Seq(Terms)
  <2> HIDE DEF all, Q
  <2> QED
    BY <1>8, <1>9, PickedIs
<1>11. Expansion(words) = Upto(MaxExtra, new)
  BY DEF Expansion, Upto, lists
<1> HIDE DEF all, Q, new
<1>12. Expansion(words) \in Seq(Terms)
  <2>1. MaxExtra \in Nat
    BY RefinementAssumption
  <2>2. Upto(MaxExtra, new) \in Seq(Terms)
    BY <1>10, <2>1, UptoFacts
  <2> QED
    BY <1>11, <2>2
<1>13. words \o Expansion(words) \in Seq(Terms)
  BY <1>5, <1>12, ConcatProperties
<1> QED
  BY <1>13 DEF Refine, words

-----------------------------------------------------------------------------
(* What an answer is made of                                               *)

\* What the backstop scores a document with.
Direct(query, d) == ExactFileScore(Text[d], query) + FolderPrior(Text[d], query) + PrefixScore(Text[d], query)

\* That score is a number.
LEMMA DirectType ==
  ASSUME NEW query \in Seq(Terms), NEW d \in DOMAIN Text
  PROVE  Direct(query, d) \in Int
<1>1. ExactFileScore(Text[d], query) \in 0..500
  BY ExactFileScoreType
<1>2. FolderPrior(Text[d], query) \in Nat
  BY FolderPriorType
<1>3. IsDocument(Text[d])
  BY RankingAssumption
<1>4. PrefixScore(Text[d], query) \in Nat
  BY <1>3, PrefixScoreType
<1> DEFINE a == ExactFileScore(Text[d], query)
           b == FolderPrior(Text[d], query)
           c == PrefixScore(Text[d], query)
<1>5. Direct(query, d) = a + b + c
  BY DEF Direct
<1>6. a \in 0..500 /\ b \in Nat /\ c \in Nat
  BY <1>1, <1>2, <1>4
<1> HIDE DEF a, b, c
<1> QED
  BY <1>5, <1>6

\* The documents of a keyword ranking that are the store's own.
LEMMA KeywordOwn ==
  ASSUME NEW ask, Question(ask), NEW query \in Seq(Terms), NEW most \in Nat
  PROVE  Resolved(ask, Docs(KeywordRanked(ask, query, most))) \in Seq(OwnOf(ask))
<1>1. KeywordRanked(ask, query, most) \in Seq(Entries)
  BY KeywordRankedFacts
<1>2. Docs(KeywordRanked(ask, query, most)) \in Seq(DOMAIN Text)
  BY <1>1, DocsFacts
<1> QED
  BY <1>2, ResolvedFacts

\* The backstop names documents of the store, each once.
LEMMA BackstopOwn ==
  ASSUME NEW ask, Question(ask), NEW query \in Seq(Terms)
  PROVE  OwnList(ask, Backstop(ask, query))
<1> DEFINE most == Max({2 * MaxSources, 5})
           ranked == Resolved(ask, Docs(KeywordRanked(ask, query, most)))
           mine == [doc : OwnOf(ask), score : Int]
           listed == [i \in DOMAIN ask.docs |-> [doc |-> ask.docs[i], score |-> Direct(query, ask.docs[i])]]
           P == {i \in DOMAIN ask.docs : Direct(query, ask.docs[i]) > 0}
           scored == Picked(listed, P)
           sorted == Descending(scored)
           both == ranked \o Docs(sorted)
<1>0. MaxSources \in Nat
  BY RankingAssumption
<1>1. most \in Nat
  <2>1. PICK m \in Nat : m = 2 * MaxSources
    BY <1>0
  <2>2. Max({m, 5}) = IF m >= 5 THEN m ELSE 5
    BY OfTwo
  <2> QED
    BY <2>1, <2>2
<1> HIDE DEF most
<1>2. ranked \in Seq(OwnOf(ask))
  BY <1>1, KeywordOwn
<1>3. Backstop(ask, query) = Upto(MaxSources, Clustered(ask, OnlyExact(ask, both, query), 1))
  BY DEF Backstop, Direct, most
<1> HIDE DEF ranked
<1>4. PICK docs \in Seq(OwnOf(ask)) : docs = ask.docs /\ OwnOf(ask) \subseteq DOMAIN Text
  BY OwnFacts DEF OwnList
<1>5. \A i \in 1..Len(docs) : docs[i] \in OwnOf(ask) /\ Direct(query, docs[i]) \in Int
  BY <1>4, DirectType
<1>6. Len(docs) \in Nat /\ DOMAIN docs = 1..Len(docs)
  OBVIOUS
<1>7. listed \in Seq(mine) /\ Len(listed) = Len(docs)
  <2>1. listed = [i \in 1..Len(docs) |-> [doc |-> docs[i], score |-> Direct(query, docs[i])]]
    BY <1>4, <1>6
  <2>2. \A i \in 1..Len(docs) : [doc |-> docs[i], score |-> Direct(query, docs[i])] \in mine
    BY <1>5
  <2> HIDE DEF listed
  <2>3. listed \in [1..Len(docs) -> mine]
    BY <2>1, <2>2
  <2> HIDE DEF mine
  <2> QED
    BY <1>6, <2>3
<1>8. P \in SUBSET (1..Len(listed))
  BY <1>4, <1>6, <1>7
<1> HIDE DEF listed, P, mine
<1>9. scored \in Seq(mine)
  BY <1>7, <1>8, PickedIs
<1> HIDE DEF scored
<1>10. Len(scored) \in Nat /\ \A i \in 1..Len(scored) : scored[i].score \in Int
  <2>1. \A i \in 1..Len(scored) : scored[i] \in mine
    BY <1>9
  <2> QED
    BY <1>9, <2>1 DEF mine
<1>11. sorted \in Seq(mine)
  BY <1>9, <1>10, DescendingFacts
<1> HIDE DEF sorted
<1>12. Docs(sorted) \in Seq(OwnOf(ask))
  <2>1. DOMAIN sorted = 1..Len(sorted) /\ Len(sorted) \in Nat
    BY <1>11
  <2>2. \A i \in 1..Len(sorted) : sorted[i] \in mine
    BY <1>11
  <2>3. \A i \in 1..Len(sorted) : sorted[i].doc \in OwnOf(ask)
    BY <2>2 DEF mine
  <2>4. Docs(sorted) \in [1..Len(sorted) -> OwnOf(ask)]
    BY <2>1, <2>3 DEF Docs
  <2> QED
    BY <2>1, <2>4
<1>13. both \in Seq(OwnOf(ask))
  BY <1>2, <1>12, ConcatProperties
<1> HIDE DEF both
<1>14. OnlyExact(ask, both, query) \in Seq(OwnOf(ask))
  BY <1>13, OnlyExactOwn
<1>15. OwnList(ask, Clustered(ask, OnlyExact(ask, both, query), 1))
  BY <1>14, OneOfEachCluster
<1> QED
  BY <1>0, <1>3, <1>15, UptoOwn

\* So do the documents of a rerank.
LEMMA RerankFacts ==
  ASSUME NEW ask, Question(ask), NEW keyword \in Seq(Entries), NEW semantic \in Seq(Entries)
  PROVE  LET r == Rerank(ask, keyword, semantic)
         IN  /\ r.fused = Fused(ask, semantic, keyword)
             /\ OwnList(ask, r.docs)
             /\ r.confidence = Confidence(r.fused, keyword, semantic)
             /\ Percentage(r.confidence)
<1> DEFINE fused == Fused(ask, semantic, keyword)
           r == Rerank(ask, keyword, semantic)
<1>1. /\ r.fused = fused /\ r.confidence = Confidence(fused, keyword, semantic)
      /\ r.docs = Clustered(ask, OnlyExact(ask, Resolved(ask, Docs(fused)), ask.query), 2)
  BY DEF Rerank
<1>2. /\ fused \in Seq(Entries) /\ UniqueDocs(fused)
      /\ \A i \in 1..Len(fused) : fused[i].score >= 0
  BY FusedFacts
<1> HIDE DEF fused, r
<1>3. Percentage(Confidence(fused, keyword, semantic))
  <2>1. NoneNegative(fused)
    BY <1>2 DEF NoneNegative
  <2>2. fused \in Seq(Entries)
    BY <1>2
  <2>3. /\ Percentage(Confidence(fused, keyword, semantic))
        /\ Disagree(keyword, semantic) => Confidence(fused, keyword, semantic) <= 2500
    BY <2>1, <2>2, ConfidenceFacts
  <2> QED
    BY <2>3
<1>4. Docs(fused) \in Seq(DOMAIN Text) /\ Unique(Docs(fused))
  BY <1>2, DocsFacts
<1>5. OwnList(ask, Resolved(ask, Docs(fused)))
  BY <1>4, ResolvedFacts
<1>6. OwnList(ask, OnlyExact(ask, Resolved(ask, Docs(fused)), ask.query))
  BY <1>5, OnlyExactOwn
<1>7. OwnList(ask, r.docs)
  BY <1>1, <1>6, ClusteredOwn
<1>8. Percentage(r.confidence)
  BY <1>1, <1>3
<1> QED
  BY <1>1, <1>7, <1>8 DEF fused, r

\* What is added to the sources is not among them.
LEMMA JoinedUnique ==
  ASSUME NEW S, NEW a \in Seq(S), NEW b \in Seq(S), Unique(a), Unique(b),
         \A i \in 1..Len(a) : \A j \in 1..Len(b) : a[i] # b[j]
  PROVE  Unique(a \o b)
<1> DEFINE s == a \o b
<1>1. PICK m \in Nat, n \in Nat : m = Len(a) /\ n = Len(b)
  OBVIOUS
<1>2. Len(s) = m + n /\ \A i \in 1..(m + n) : s[i] = IF i <= m THEN a[i] ELSE b[i - m]
  BY <1>1, ConcatProperties
<1> HIDE DEF s
<1>3. ASSUME NEW i \in 1..(m + n), NEW j \in 1..(m + n), s[i] = s[j] PROVE i = j
  <2>1. CASE i <= m /\ j <= m
    <3>1. i \in 1..Len(a) /\ j \in 1..Len(a) /\ a[i] = a[j]
      BY <1>1, <1>2, <1>3, <2>1
    <3> QED
      BY <3>1 DEF Unique
  <2>2. CASE i > m /\ j > m
    <3>1. i - m \in 1..Len(b) /\ j - m \in 1..Len(b) /\ b[i - m] = b[j - m]
      BY <1>1, <1>2, <1>3, <2>2
    <3>2. i - m = j - m
      BY <3>1 DEF Unique
    <3> QED
      BY <3>2
  <2>3. CASE i <= m /\ j > m
    <3>1. i \in 1..Len(a) /\ j - m \in 1..Len(b) /\ a[i] = b[j - m]
      BY <1>1, <1>2, <1>3, <2>3
    <3> QED
      BY <3>1
  <2>4. CASE i > m /\ j <= m
    <3>1. j \in 1..Len(a) /\ i - m \in 1..Len(b) /\ a[j] = b[i - m]
      BY <1>1, <1>2, <1>3, <2>4
    <3> QED
      BY <3>1
  <2> QED
    BY <2>1, <2>2, <2>3, <2>4
<1> QED
  BY <1>2, <1>3 DEF Unique, s

\* What _forge_augment_sources makes of the store's documents is documents of
\* the store, each once.
LEMMA AugmentedOwn ==
  ASSUME NEW ask, Question(ask), NEW s, OwnList(ask, s)
  PROVE  OwnList(ask, Augmented(ask, s))
<1> DEFINE P == {i \in QuotablePlaces(ask) :
                   /\ \A j \in DOMAIN s : ~SameUri(ask.docs[i], s[j])
                   /\ \A j \in QuotablePlaces(ask) : j < i => ~SameUri(ask.docs[i], ask.docs[j])}
           new == Picked(ask.docs, P)
<1>1. PICK docs : docs = ask.docs /\ OwnList(ask, docs)
  BY OwnFacts
<1>2. docs \in Seq(OwnOf(ask)) /\ s \in Seq(OwnOf(ask)) /\ Unique(s)
  BY <1>1 DEF OwnList
<1>3. P \in SUBSET (1..Len(docs)) /\ \A i \in P : \A j \in 1..Len(s) : docs[i] # s[j]
  <2>1. DOMAIN docs = 1..Len(docs) /\ DOMAIN s = 1..Len(s)
    BY <1>2
  <2>2. \A d : SameUri(d, d)
    BY DEF SameUri
  <2>3. P \in SUBSET (1..Len(docs))
    BY <1>1, <2>1 DEF QuotablePlaces
  <2>4. \A i \in P : \A j \in 1..Len(s) : ~SameUri(docs[i], s[j])
    BY <1>1, <2>1
  <2> QED
    BY <2>2, <2>3, <2>4
<1>4. new = Picked(docs, P) /\ Augmented(ask, s) = s \o new
  BY <1>1 DEF Augmented
<1> HIDE DEF P, new
<1>5. OwnList(ask, new)
  BY <1>1, <1>3, <1>4, PickedOwn
<1>6. new \in Seq(OwnOf(ask)) /\ Unique(new)
  BY <1>5 DEF OwnList
<1>7. new \in Seq({docs[i] : i \in P})
  BY <1>2, <1>3, <1>4, PickedIs
<1>8. ASSUME NEW i \in 1..Len(s), NEW j \in 1..Len(new) PROVE s[i] # new[j]
  <2>1. PICK k \in P : new[j] = docs[k]
    BY <1>7
  <2> QED
    BY <1>3, <2>1
<1>9. Unique(s \o new)
  BY <1>2, <1>6, <1>8, JoinedUnique
<1>10. s \o new \in Seq(OwnOf(ask))
  BY <1>2, <1>6, ConcatProperties
<1> QED
  BY <1>4, <1>9, <1>10 DEF OwnList

\* And so do the documents near the query.
LEMMA NearOwn ==
  ASSUME NEW ask, Question(ask), NEW query \in Seq(Terms), NEW most \in Nat
  PROVE  OwnList(ask, Distinct(Resolved(ask, Docs(Upto(most, SemanticRanked(ask, query))))))
<1> DEFINE ranked == SemanticRanked(ask, query)
           near == Upto(most, ranked)
<1>1. ranked \in Seq(Entries)
  BY SemanticRankedFacts
<1> HIDE DEF ranked
<1>2. near \in Seq(Entries)
  BY <1>1, UptoEntries
<1> HIDE DEF near
<1>3. Docs(near) \in Seq(DOMAIN Text)
  BY <1>2, DocsFacts
<1>4. Resolved(ask, Docs(near)) \in Seq(OwnOf(ask))
  BY <1>3, ResolvedFacts
<1>5. OwnList(ask, Distinct(Resolved(ask, Docs(near))))
  BY <1>4, DistinctOwn
<1> QED
  BY <1>5 DEF near, ranked

\* So is what _resolve_semantic_sources finds.
LEMMA SemanticDocsOwn ==
  ASSUME NEW ask, Question(ask), NEW query \in Seq(Terms)
  PROVE  OwnList(ask, SemanticDocs(ask, query))
<1> DEFINE near == Distinct(Resolved(ask, Docs(Upto(2 * MaxSources, SemanticRanked(ask, query)))))
<1>1. 2 * MaxSources \in Nat
  BY RankingAssumption
<1>2. OwnList(ask, near)
  BY <1>1, NearOwn
<1>3. SemanticDocs(ask, query) = OnlyExact(ask, Clustered(ask, near, 2), ask.query)
  BY DEF SemanticDocs
<1> HIDE DEF near
<1>4. OwnList(ask, Clustered(ask, near, 2))
  BY <1>2, ClusteredOwn
<1>5. OwnList(ask, OnlyExact(ask, Clustered(ask, near, 2), ask.query))
  BY <1>4, OnlyExactOwn
<1> QED
  BY <1>3, <1>5

-----------------------------------------------------------------------------
(* Where a search can be                                                   *)

\* Every question a workload may ask, refined.
Asked == {Refined(ask) : ask \in UNION {Workloads[w].asks : w \in DOMAIN Workloads}}

\* A search by its parts.
Search(stage, ask, note, backstop, rankings, ranked) ==
  [stage |-> stage, ask |-> ask, note |-> note, backstop |-> backstop, rankings |-> rankings, ranked |-> ranked]

\* Two rankings that are not fused yet.
Ranks(keyword, semantic) == [keyword |-> keyword, semantic |-> semantic, fused |-> <<>>]

\* A sequence of entries.
IsRanking(ranked) == ranked \in Seq(Entries)

\* A search made of these parts.
Made(r, stage, ask, note, backstop, keyword, semantic, ranked) ==
  r = Search(stage, ask, note, backstop, Ranks(keyword, semantic), ranked)

\* A search is made of its own parts.
HasFields(r) ==
  Made(r, r.stage, r.ask, r.note, r.backstop, r.rankings.keyword, r.rankings.semantic, r.ranked)

\* A search that is on its way was asked something, has its note and its
\* backstop, and ranks in a hybrid search only.
Going(r) ==
  /\ r.stage \in {"noted", "keyword", "semantic", "fused"}
  /\ r.ask \in Asked /\ r.note = Named(r.ask) /\ r.backstop = Backstop(r.ask, r.ask.query)
  /\ IsRanking(r.rankings.keyword) /\ IsRanking(r.rankings.semantic)
  /\ r.stage # "noted" => r.ask.engine = "local" /\ r.ask.mode = "hybrid"
  /\ r.stage = "fused" => r.ranked = Rerank(r.ask, r.rankings.keyword, r.rankings.semantic)

\* A search waits, or is on its way.
IsSearch(r) ==
  /\ HasFields(r)
  /\ r = Idle \/ Going(r)

\* What is asked is a question.
LEMMA AskedFacts ==
  ASSUME NEW a \in Asked
  PROVE  /\ Question(a)
         /\ a.store \in StoreNames /\ a.mode \in Modes /\ a.engine \in {"local", "provider"}
         /\ a.original \in Seq(Terms)
<1>1. PICK w, ask : w \in DOMAIN Workloads /\ ask \in Workloads[w].asks /\ a = Refined(ask)
  BY DEF Asked
<1>2. ask \in Asks /\ Len(ask.raw) = Len(All(ask))
      /\ \A i, j \in DOMAIN All(ask) : All(ask)[i] = All(ask)[j] => i = j
  BY <1>1, WorkloadsAssumption
<1>3. /\ ask.docs \in Seq(DOMAIN Text) /\ ask.atoms \in Seq(DOMAIN Text)
      /\ ask.original \in Seq(Terms) /\ ask.raw \in Seq(Nat)
      /\ ask.seen \in Seq([doc : DOMAIN Text, score : Int])
      /\ ask.store \in StoreNames /\ ask.mode \in Modes /\ ask.engine \in {"local", "provider"}
  BY <1>2 DEF Asks
<1>4. PICK query : query = Refine(ask.original)
  OBVIOUS
<1>5. query \in Seq(Terms)
  BY <1>3, <1>4, RefineType
<1>6. a = [ask EXCEPT !.query = query]
  BY <1>1, <1>4 DEF Refined
<1>7. /\ a.docs = ask.docs /\ a.atoms = ask.atoms /\ a.query = query /\ a.original = ask.original
      /\ a.raw = ask.raw /\ a.seen = ask.seen /\ a.store = ask.store /\ a.mode = ask.mode
      /\ a.engine = ask.engine
  <2> HIDE DEF Asks
  <2>1. DOMAIN ask = {"engine", "store", "docs", "atoms", "mode", "query", "original", "raw", "seen"}
    BY <1>2 DEF Asks
  <2> QED
    BY <1>6, <2>1
<1>8. Unique(All(ask)) /\ All(a) = All(ask)
  <2>1. All(ask) \in Seq(DOMAIN Text)
    BY <1>3, ConcatProperties DEF All
  <2>2. DOMAIN All(ask) = 1..Len(All(ask))
    BY <2>1
  <2>3. All(a) = All(ask)
    BY <1>7 DEF All
  <2> QED
    BY <1>2, <2>2, <2>3 DEF Unique
<1>9. Question(a)
  BY <1>2, <1>3, <1>5, <1>7, <1>8 DEF Question
<1> QED
  BY <1>3, <1>7, <1>9

\* A query with its note and its backstop, at the start of a search.
LEMMA IdleSearch == IsSearch(Idle)
<1>1. Idle = Search("idle", NoAsk, NoNote, <<>>, Ranks(<<>>, <<>>), Idle.ranked)
  BY DEF Idle, Search, Ranks, Unranked
<1>2. /\ Idle.stage = "idle" /\ Idle.ask = NoAsk /\ Idle.note = NoNote /\ Idle.backstop = <<>>
      /\ Idle.rankings = Ranks(<<>>, <<>>)
  BY DEF Idle, Ranks, Unranked
<1>3. Idle.rankings.keyword = <<>> /\ Idle.rankings.semantic = <<>>
  BY <1>2 DEF Ranks
<1> QED
  BY <1>1, <1>2, <1>3 DEF IsSearch, Made, HasFields

\* The parts of a search.
LEMMA FieldsOfSearch ==
  ASSUME NEW stage, NEW ask, NEW note, NEW backstop, NEW keyword, NEW semantic, NEW ranked,
         NEW r, Made(r, stage, ask, note, backstop, keyword, semantic, ranked)
  PROVE  /\ r.stage = stage /\ r.ask = ask /\ r.note = note /\ r.backstop = backstop
         /\ r.rankings = Ranks(keyword, semantic) /\ r.ranked = ranked
         /\ r.rankings.keyword = keyword /\ r.rankings.semantic = semantic
BY DEF Search, Ranks, Made

\* Begin makes a search.
LEMMA BeginSearch ==
  ASSUME NEW a \in Asked, NEW r,
         r = [Idle EXCEPT !.stage = "noted", !.ask = a, !.note = Named(a), !.backstop = Backstop(a, a.query)]
  PROVE  IsSearch(r) /\ r.stage = "noted"
<1>1. PICK note, backstop : note = Named(a) /\ backstop = Backstop(a, a.query)
  OBVIOUS
<1>2. r = [Idle EXCEPT !.stage = "noted", !.ask = a, !.note = note, !.backstop = backstop]
  BY <1>1
<1>3. r = Search("noted", a, note, backstop, Ranks(<<>>, <<>>), Idle.ranked)
  BY <1>2 DEF Idle, Search, Ranks, Unranked
<1>4. /\ r.stage = "noted" /\ r.ask = a /\ r.note = note /\ r.backstop = backstop
      /\ r.ranked = Idle.ranked
      /\ r.rankings.keyword = <<>> /\ r.rankings.semantic = <<>>
  <2>1. PICK none, ranked : none = <<>> /\ ranked = Idle.ranked
    OBVIOUS
  <2>2. Made(r, "noted", a, note, backstop, none, none, ranked)
    BY <1>3, <2>1 DEF Made
  <2>3. ASSUME NEW q, Made(q, "noted", a, note, backstop, none, none, ranked)
        PROVE  /\ q.stage = "noted" /\ q.ask = a /\ q.note = note /\ q.backstop = backstop
               /\ q.rankings = Ranks(none, none) /\ q.ranked = ranked
               /\ q.rankings.keyword = none /\ q.rankings.semantic = none
    BY <2>3 DEF Made, Search, Ranks
  <2> QED
    BY <2>1, <2>2, <2>3
<1>5. IsRanking(<<>>)
  BY DEF IsRanking
<1>6. Going(r)
  BY <1>1, <1>4, <1>5 DEF Going
<1>7. Made(r, r.stage, r.ask, r.note, r.backstop, r.rankings.keyword, r.rankings.semantic, r.ranked)
  BY <1>3, <1>4 DEF Made
<1> QED
  BY <1>4, <1>6, <1>7 DEF IsSearch, HasFields

\* A search of which two parts change.
LEMMA SearchExcept ==
  ASSUME NEW r, HasFields(r), NEW to, NEW x
  PROVE  /\ Made([r EXCEPT !.stage = to, !.rankings.keyword = x],
                 to, r.ask, r.note, r.backstop, x, r.rankings.semantic, r.ranked)
         /\ Made([r EXCEPT !.stage = to, !.rankings.semantic = x],
                 to, r.ask, r.note, r.backstop, r.rankings.keyword, x, r.ranked)
         /\ Made([r EXCEPT !.stage = to, !.ranked = x],
                 to, r.ask, r.note, r.backstop, r.rankings.keyword, r.rankings.semantic, x)
<1> PICK stage, ask, note, backstop, keyword, semantic, ranked :
      /\ r.stage = stage /\ r.ask = ask /\ r.note = note /\ r.backstop = backstop
      /\ r.rankings.keyword = keyword /\ r.rankings.semantic = semantic /\ r.ranked = ranked
  OBVIOUS
<1> DEFINE q == [r EXCEPT !.stage = to]
<1>0. r = Search(stage, ask, note, backstop, Ranks(keyword, semantic), ranked)
  BY DEF HasFields, Made
<1>1. q = Search(to, ask, note, backstop, Ranks(keyword, semantic), ranked)
  BY <1>0 DEF Search
<1>2. /\ [r EXCEPT !.stage = to, !.rankings.keyword = x] = [q EXCEPT !.rankings.keyword = x]
      /\ [r EXCEPT !.stage = to, !.rankings.semantic = x] = [q EXCEPT !.rankings.semantic = x]
      /\ [r EXCEPT !.stage = to, !.ranked = x] = [q EXCEPT !.ranked = x]
  OBVIOUS
<1> HIDE DEF q
<1>3. /\ [Ranks(keyword, semantic) EXCEPT !.keyword = x] = Ranks(x, semantic)
      /\ [Ranks(keyword, semantic) EXCEPT !.semantic = x] = Ranks(keyword, x)
  BY DEF Ranks
<1>4. [q EXCEPT !.rankings.keyword = x]
        = Search(to, ask, note, backstop, [Ranks(keyword, semantic) EXCEPT !.keyword = x], ranked)
  BY <1>1 DEF Search
<1>5. [q EXCEPT !.rankings.semantic = x]
        = Search(to, ask, note, backstop, [Ranks(keyword, semantic) EXCEPT !.semantic = x], ranked)
  BY <1>1 DEF Search
<1>6. [q EXCEPT !.ranked = x] = Search(to, ask, note, backstop, Ranks(keyword, semantic), x)
  BY <1>1 DEF Search
<1> QED
  BY <1>2, <1>3, <1>4, <1>5, <1>6 DEF Made

\* What a step makes of a search.
LEMMA StepSearch ==
  ASSUME NEW r, IsSearch(r), r # Idle, NEW stage, stage \in {"keyword", "semantic", "fused"},
         NEW keyword, IsRanking(keyword),
         NEW semantic, IsRanking(semantic),
         NEW ranked, stage = "fused" => ranked = Rerank(r.ask, keyword, semantic),
         r.ask.engine = "local" /\ r.ask.mode = "hybrid",
         NEW q, Made(q, stage, r.ask, r.note, r.backstop, keyword, semantic, ranked)
  PROVE  IsSearch(q) /\ q.stage = stage
<1>1. /\ q.stage = stage /\ q.ask = r.ask /\ q.note = r.note /\ q.backstop = r.backstop
      /\ q.rankings = Ranks(keyword, semantic) /\ q.ranked = ranked
      /\ q.rankings.keyword = keyword /\ q.rankings.semantic = semantic
  BY FieldsOfSearch
<1>2. r.ask \in Asked /\ r.note = Named(r.ask) /\ r.backstop = Backstop(r.ask, r.ask.query)
  BY DEF IsSearch, Going
<1>3. Going(q)
  BY <1>1, <1>2 DEF Going
<1>4. Made(q, q.stage, q.ask, q.note, q.backstop, q.rankings.keyword, q.rankings.semantic, q.ranked)
  BY <1>1
<1> QED
  BY <1>1, <1>3, <1>4 DEF IsSearch, HasFields

\* RankKeyword makes a search.
LEMMA KeywordStep ==
  ASSUME NEW r, IsSearch(r), r # Idle, Reranks(r), NEW most \in Nat
  PROVE  LET q == [r EXCEPT !.stage = "keyword", !.rankings.keyword = KeywordRanked(r.ask, r.ask.query, most)]
         IN  IsSearch(q) /\ q.stage = "keyword"
<1>0. HasFields(r) /\ r.ask \in Asked /\ IsRanking(r.rankings.semantic)
  BY DEF IsSearch, Going
<1>1. Question(r.ask)
  BY <1>0, AskedFacts
<1>2. r.ask.query \in Seq(Terms)
  BY <1>1 DEF Question
<1>3. PICK k : k = KeywordRanked(r.ask, r.ask.query, most)
  OBVIOUS
<1>4. IsRanking(k)
  BY <1>1, <1>2, <1>3, KeywordRankedFacts DEF IsRanking
<1>5. PICK q : q = [r EXCEPT !.stage = "keyword", !.rankings.keyword = k]
  BY Zenon
<1>6. Made(q, "keyword", r.ask, r.note, r.backstop, k, r.rankings.semantic, r.ranked)
  BY <1>0, <1>5, SearchExcept
<1>7. r.ask.engine = "local" /\ r.ask.mode = "hybrid"
  BY DEF Reranks, Recorded
<1>8. "keyword" # "fused"
  OBVIOUS
<1>9. IsSearch(q) /\ q.stage = "keyword"
  BY <1>0, <1>4, <1>6, <1>7, <1>8, StepSearch
<1> QED
  BY <1>3, <1>5, <1>9

\* So does RankSemantic.
LEMMA SemanticStep ==
  ASSUME NEW r, IsSearch(r), r.stage = "keyword", NEW query \in Seq(Terms)
  PROVE  LET q == [r EXCEPT !.stage = "semantic", !.rankings.semantic = SemanticRanked(r.ask, query)]
         IN  IsSearch(q) /\ q.stage = "semantic"
<1>0. /\ HasFields(r) /\ r # Idle /\ r.ask \in Asked
      /\ IsRanking(r.rankings.keyword)
      /\ r.ask.engine = "local" /\ r.ask.mode = "hybrid"
  BY DEF IsSearch, Going, Idle
<1>1. Question(r.ask)
  BY <1>0, AskedFacts
<1>3. PICK s : s = SemanticRanked(r.ask, query)
  OBVIOUS
<1>4. IsRanking(s)
  BY <1>1, <1>3, SemanticRankedFacts DEF IsRanking
<1>5. PICK q : q = [r EXCEPT !.stage = "semantic", !.rankings.semantic = s]
  BY Zenon
<1>6. Made(q, "semantic", r.ask, r.note, r.backstop, r.rankings.keyword, s, r.ranked)
  BY <1>0, <1>5, SearchExcept
<1>8. "semantic" # "fused"
  OBVIOUS
<1>9. IsSearch(q) /\ q.stage = "semantic"
  BY <1>0, <1>4, <1>6, <1>8, StepSearch
<1> QED
  BY <1>3, <1>5, <1>9

\* So does Fuse.
LEMMA FuseStep ==
  ASSUME NEW r, IsSearch(r), r.stage = "semantic"
  PROVE  LET q == [r EXCEPT !.stage = "fused",
                            !.ranked = Rerank(r.ask, r.rankings.keyword, r.rankings.semantic)]
         IN  IsSearch(q) /\ q.stage = "fused"
<1>0. /\ HasFields(r) /\ r # Idle /\ IsRanking(r.rankings.keyword)
      /\ IsRanking(r.rankings.semantic)
      /\ r.ask.engine = "local" /\ r.ask.mode = "hybrid"
  BY DEF IsSearch, Going, Idle
<1>3. PICK new : new = Rerank(r.ask, r.rankings.keyword, r.rankings.semantic)
  OBVIOUS
<1>5. PICK q : q = [r EXCEPT !.stage = "fused", !.ranked = new]
  BY Zenon
<1>6. Made(q, "fused", r.ask, r.note, r.backstop, r.rankings.keyword, r.rankings.semantic, new)
  BY <1>0, <1>5, SearchExcept
<1>9. IsSearch(q) /\ q.stage = "fused"
  BY <1>0, <1>3, <1>6, StepSearch
<1> QED
  BY <1>3, <1>5, <1>9

-----------------------------------------------------------------------------
(* Answers                                                                 *)

\* SourcesAreTheStoresOwn of a result.
Sound(result) ==
  /\ Len(result.sources) <= MaxSources
  /\ \A i \in DOMAIN result.sources :
        /\ Resolves(result.ask, result.sources[i])
        /\ \A j \in DOMAIN result.sources : result.sources[i] = result.sources[j] => i = j
  /\ Percentage(result.confidence)

\* The sources of a result, the first of some documents.
Presents(result, ask, docs) == result.ask = ask /\ result.sources = Upto(MaxSources, docs)

\* Documents of the store, each once, and a number make a sound answer.
LEMMA ResultSound ==
  ASSUME NEW ask, Question(ask), NEW docs, OwnList(ask, docs),
         NEW result, Presents(result, ask, docs), Percentage(result.confidence)
  PROVE  Sound(result)
<1> DEFINE sources == Upto(MaxSources, docs)
<1>0. MaxSources \in Nat
  BY RankingAssumption
<1>1. result.ask = ask /\ result.sources = sources
  BY DEF Presents
<1>2. OwnList(ask, sources)
  BY <1>0, UptoOwn
<1>3. docs \in Seq(OwnOf(ask))
  BY DEF OwnList
<1>4. Len(sources) = IF MaxSources <= Len(docs) THEN MaxSources ELSE Len(docs)
  BY <1>0, <1>3, UptoFacts
<1>5. Len(sources) <= MaxSources
  BY <1>0, <1>3, <1>4
<1> HIDE DEF sources
<1>6. sources \in Seq(OwnOf(ask)) /\ Unique(sources)
  BY <1>2 DEF OwnList
<1>7. DOMAIN sources = 1..Len(sources)
  BY <1>6
<1>8. \A i \in 1..Len(sources) : Resolves(ask, sources[i])
  BY <1>6, OwnFacts
<1>9. \A i, j \in 1..Len(sources) : sources[i] = sources[j] => i = j
  BY <1>6 DEF Unique
<1>10. Len(result.sources) <= MaxSources
  BY <1>1, <1>5
<1>11. DOMAIN result.sources = 1..Len(sources)
  BY <1>1, <1>7
<1>12. \A i \in DOMAIN result.sources : Resolves(result.ask, result.sources[i])
  BY <1>1, <1>8, <1>11
<1>13. \A i, j \in DOMAIN result.sources : result.sources[i] = result.sources[j] => i = j
  BY <1>1, <1>9, <1>11
<1> QED
  BY <1>10, <1>12, <1>13 DEF Sound

\* A note names documents of the store, each once.
LEMMA NoteOwn ==
  ASSUME NEW ask, Question(ask), NEW note, IsNote(note, ask.docs, MaxSources)
  PROVE  OwnList(ask, note.docs) /\ Percentage(note.confidence)
<1>1. Own(ask.docs) \subseteq OwnOf(ask) /\ OwnList(ask, ask.docs)
  BY OwnFacts
<1>2. note.docs \in Seq(Own(ask.docs)) /\ (Unique(ask.docs) => Unique(note.docs)) /\ Percentage(note.confidence)
  BY DEF IsNote
<1>3. note.docs \in Seq(OwnOf(ask))
  BY <1>1, <1>2, SeqMonotonic
<1> QED
  BY <1>1, <1>2, <1>3 DEF OwnList

\* Picking of the store's own documents.
LEMMA PickedDocsOwn ==
  ASSUME NEW ask, Question(ask), NEW P, P \subseteq DOMAIN ask.docs
  PROVE  OwnList(ask, Picked(ask.docs, P))
<1>1. PICK docs : docs = ask.docs
  OBVIOUS
<1>2. OwnList(ask, docs)
  BY <1>1, OwnFacts
<1>3. P \in SUBSET (1..Len(docs))
  BY <1>1, <1>2 DEF OwnList
<1>4. OwnList(ask, Picked(docs, P))
  BY <1>2, <1>3, PickedOwn
<1> QED
  BY <1>1, <1>4

\* No documents are documents of the store, each once.
LEMMA NothingOwn ==
  ASSUME NEW ask
  PROVE  OwnList(ask, <<>>)
BY DEF OwnList, Unique

\* The keyword answer names the store's own.
LEMMA KeywordAnswerSound ==
  ASSUME NEW ask, Question(ask), NEW note, IsNote(note, ask.docs, MaxSources),
         NEW backstop, OwnList(ask, backstop), NEW query \in Seq(Terms)
  PROVE  LET result == KeywordAnswer(ask, note, backstop, query)
         IN  Sound(result) /\ result.ask = ask /\ result.ranked = Unranked
<1> DEFINE quoted == Picked(ask.docs, QuotablePlaces(ask))
           semantic == IF ask.mode \in {"semantic", "multimodal"} THEN SemanticDocs(ask, query) ELSE <<>>
           docs == IF quoted # <<>> THEN quoted
                   ELSE IF backstop # <<>> /\ note.docs # <<>> THEN note.docs
                   ELSE IF backstop # <<>> THEN backstop
                   ELSE IF semantic # <<>> THEN semantic ELSE ask.docs
           confidence == IF quoted # <<>> THEN 7000
                         ELSE IF backstop # <<>> /\ note.docs # <<>> THEN note.confidence
                         ELSE IF backstop # <<>> THEN (IF ask.mode = "keyword" THEN 5000 ELSE 4500)
                         ELSE 3000
           noted == note.docs # <<>> /\ confidence >= 8000
<1>1. KeywordAnswer(ask, note, backstop, query) = Result(ask, docs, confidence, noted, FALSE, Unranked)
  BY DEF KeywordAnswer
<1> HIDE DEF noted
<1>2. OwnList(ask, note.docs) /\ Percentage(note.confidence)
  BY NoteOwn
<1>3. OwnList(ask, quoted)
  BY PickedDocsOwn DEF QuotablePlaces
<1>4. OwnList(ask, semantic)
  BY SemanticDocsOwn, NothingOwn
<1>5. OwnList(ask, ask.docs)
  BY OwnFacts
<1> HIDE DEF quoted, semantic
<1>6. OwnList(ask, docs)
  BY <1>2, <1>3, <1>4, <1>5
<1>7. Percentage(confidence)
  <2>1. confidence \in {7000, note.confidence, 5000, 4500, 3000}
    OBVIOUS
  <2>2. \A x \in {7000, 5000, 4500, 3000} : Percentage(x)
    BY DEF Percentage
  <2> HIDE DEF confidence
  <2> QED
    BY <1>2, <2>1, <2>2
<1> HIDE DEF docs, confidence
<1> DEFINE result == Result(ask, docs, confidence, noted, FALSE, Unranked)
<1>8. Presents(result, ask, docs) /\ result.confidence = confidence /\ result.ask = ask /\ result.ranked = Unranked
  BY DEF Result, Presents
<1> HIDE DEF result
<1>81. Percentage(result.confidence)
  BY <1>7, <1>8
<1>82. Presents(result, ask, docs)
  BY <1>8
<1>9. Sound(result)
  BY <1>6, <1>81, <1>82, ResultSound
<1> QED
  BY <1>1, <1>8, <1>9 DEF result

\* The provider's answer names the store's own.
LEMMA ProviderAnswerSound ==
  ASSUME NEW ask, Question(ask), NEW note, IsNote(note, ask.docs, MaxSources),
         NEW backstop, OwnList(ask, backstop), NEW query \in Seq(Terms)
  PROVE  LET result == ProviderAnswer(ask, note, backstop, query)
         IN  Sound(result) /\ result.ask = ask /\ result.ranked = Unranked
<1> DEFINE near == Distinct(Resolved(ask, Docs(Upto(MaxSources, SemanticRanked(ask, query)))))
           semantic == Clustered(ask, near, 2)
           preferred == Preferred(note.docs, semantic)
           relevant == Clustered(ask, OnlyExact(ask, preferred, ask.query), 2)
           places == {i \in DOMAIN ask.docs : \/ ask.query = <<>>
                                              \/ Phrase(Text[ask.docs[i]].headings, ask.query)
                                              \/ Phrase(Text[ask.docs[i]].body, ask.query)}
           found == Picked(ask.docs, places)
           docs == IF relevant # <<>> THEN relevant ELSE IF found # <<>> THEN found ELSE backstop
           confidence == IF note.docs # <<>> THEN note.confidence
                         ELSE IF relevant # <<>> THEN 7000
                         ELSE IF found # <<>> THEN 5500
                         ELSE IF backstop # <<>> THEN 4500 ELSE 3000
           low == confidence <= 4500
<1>1. ProviderAnswer(ask, note, backstop, query) = Result(ask, docs, confidence, note.docs # <<>>, low, Unranked)
  BY DEF ProviderAnswer
<1> HIDE DEF low
<1>2. OwnList(ask, note.docs) /\ Percentage(note.confidence)
  BY NoteOwn
<1>3. OwnList(ask, semantic)
  <2>1. MaxSources \in Nat
    BY RankingAssumption
  <2>2. OwnList(ask, near)
    BY <2>1, NearOwn
  <2> HIDE DEF near
  <2> QED
    BY <2>2, ClusteredOwn
<1> HIDE DEF semantic
<1>4. OwnList(ask, preferred)
  BY <1>2, <1>3 DEF Preferred
<1> HIDE DEF preferred
<1>5. OwnList(ask, OnlyExact(ask, preferred, ask.query))
  BY <1>4, OnlyExactOwn
<1>6. OwnList(ask, relevant)
  BY <1>5, ClusteredOwn
<1>7. OwnList(ask, found)
  <2>1. places \subseteq DOMAIN ask.docs
    OBVIOUS
  <2> HIDE DEF places
  <2> QED
    BY <2>1, PickedDocsOwn
<1> HIDE DEF relevant, found
<1>8. OwnList(ask, docs)
  BY <1>6, <1>7
<1>9. Percentage(confidence)
  <2>1. confidence \in {note.confidence, 7000, 5500, 4500, 3000}
    OBVIOUS
  <2>2. \A x \in {7000, 5500, 4500, 3000} : Percentage(x)
    BY DEF Percentage
  <2> HIDE DEF confidence
  <2> QED
    BY <1>2, <2>1, <2>2
<1> HIDE DEF docs, confidence
<1> DEFINE noted == note.docs # <<>>
<1>10. ProviderAnswer(ask, note, backstop, query) = Result(ask, docs, confidence, noted, low, Unranked)
  BY <1>1
<1> HIDE DEF noted
<1> DEFINE result == Result(ask, docs, confidence, noted, low, Unranked)
<1>11. Presents(result, ask, docs) /\ result.confidence = confidence /\ result.ask = ask /\ result.ranked = Unranked
  BY DEF Result, Presents
<1> HIDE DEF result
<1>111. Percentage(result.confidence)
  BY <1>9, <1>11
<1>112. Presents(result, ask, docs)
  BY <1>11
<1>12. Sound(result)
  BY <1>8, <1>111, <1>112, ResultSound
<1> QED
  BY <1>10, <1>11, <1>12 DEF result

-----------------------------------------------------------------------------
(* What an answer tells of its rankings                                    *)

\* FusionKeepsAgreement and DisagreementIsFlagged of a result.
KeepsAgreement(result) ==
  LET r == result.ranked
      all == Range(Docs(r.fused))
  IN  \A d, e \in all :
        /\ Once(r.keyword, e) /\ Once(r.semantic, e)
        /\ Ahead(r.keyword, d, e) /\ Ahead(r.semantic, d, e)
        => Ahead(r.fused, d, e)

\* DisagreementIsFlagged of a result.
Flags(result) ==
  /\ result.ask.mode = "hybrid" /\ result.ranked # Unranked /\ ~result.noted
  /\ Bases(result.ranked.keyword) \cap Bases(result.ranked.semantic) = {}
  /\ result.ranked.keyword # <<>> \/ result.ranked.semantic # <<>>
  => result.low

\* What is right about every answer.
Right(result) == Sound(result) /\ KeepsAgreement(result) /\ Flags(result)

\* A result without rankings has no agreement to keep.
LEMMA UnrankedRight ==
  ASSUME NEW result, result.ranked = Unranked, Sound(result)
  PROVE  Right(result)
<1>1. Unranked.fused = <<>>
  BY DEF Unranked
<1>2. Range(Docs(<<>>)) = {}
  BY DEF Range, Docs
<1>3. KeepsAgreement(result)
  BY <1>1, <1>2 DEF KeepsAgreement
<1> QED
  BY <1>3 DEF Right, Flags

\* What a search on its way has to answer with.
LEMMA GoingFacts ==
  ASSUME NEW r, IsSearch(r), r # Idle
  PROVE  /\ r.ask \in Asked /\ Question(r.ask) /\ IsNote(r.note, r.ask.docs, MaxSources)
         /\ OwnList(r.ask, r.backstop)
<1>1. r.ask \in Asked /\ r.note = Named(r.ask) /\ r.backstop = Backstop(r.ask, r.ask.query)
  BY DEF IsSearch, Going
<1>2. Question(r.ask) /\ r.ask.original \in Seq(Terms)
  BY <1>1, AskedFacts
<1>3. r.ask.docs \in Seq(DOMAIN Text) /\ r.ask.query \in Seq(Terms)
  BY <1>2 DEF Question
<1>4. MaxSources \in Nat /\ MaxSources # 0
  BY RankingAssumption
<1>5. IsNote(ExactNote(r.ask.docs, r.ask.original, MaxSources), r.ask.docs, MaxSources)
  BY <1>2, <1>3, <1>4, ExactNoteFacts
<1>6. OwnList(r.ask, Backstop(r.ask, r.ask.query))
  BY <1>2, <1>3, BackstopOwn
<1> QED
  BY <1>1, <1>2, <1>5, <1>6 DEF Named

\* The parts of a hybrid answer.
HybridNames(r, result) ==
  LET verdict == Verdict(result.confidence)
      docs == HybridDocs(r.note, r.ranked)
      chosen == IF verdict = "INHIBIT" /\ r.backstop # <<>> THEN r.backstop ELSE docs
      named == Upto(MaxSources, chosen)
  IN  Presents(result, r.ask, IF verdict = "FORGE" THEN Augmented(r.ask, named) ELSE named)

\* The hybrid answer to a search.
IsHybrid(r, result) == result = HybridAnswer(r.ask, r.note, r.backstop, r.ranked, r.rankings)

\* The note does not decide a hybrid answer.
Unsure(r) == r.note.docs = <<>> \/ ~(r.note.confidence > r.ranked.confidence)

\* What a hybrid answer is put together from.
LEMMA HybridParts ==
  ASSUME NEW r, NEW result, IsHybrid(r, result)
  PROVE  /\ HybridNames(r, result) /\ result.ask = r.ask
         /\ result.confidence = Max({r.note.confidence, r.ranked.confidence})
         /\ result.low <=> Verdict(result.confidence) = "INHIBIT"
         /\ result.ranked = [r.rankings EXCEPT !.fused = r.ranked.fused]
         /\ ~result.noted => Unsure(r)
BY DEF IsHybrid, Unsure, HybridAnswer, HybridNames, Result, Presents

\* How sure a note is.
LEMMA NotePercentage ==
  ASSUME NEW note, NEW docs, NEW most, IsNote(note, docs, most)
  PROVE  Percentage(note.confidence) /\ (note.docs = <<>> => note.confidence = 0)
BY DEF IsNote

\* A rerank names documents of the store, each once.
LEMMA RerankOwn ==
  ASSUME NEW ask, Question(ask), NEW keyword \in Seq(Entries), NEW semantic \in Seq(Entries),
         NEW ranked, ranked = Rerank(ask, keyword, semantic)
  PROVE  OwnList(ask, ranked.docs) /\ Percentage(ranked.confidence)
<1>1. LET r == Rerank(ask, keyword, semantic)
      IN  /\ r.fused = Fused(ask, semantic, keyword)
          /\ OwnList(ask, r.docs)
          /\ r.confidence = Confidence(r.fused, keyword, semantic)
          /\ Percentage(r.confidence)
  BY RerankFacts
<1> QED
  BY <1>1

\* The hybrid answer names the store's own.
LEMMA HybridSound ==
  ASSUME NEW r, IsSearch(r), r.stage = "fused",
         NEW result, IsHybrid(r, result)
  PROVE  Sound(result)
<1> DEFINE verdict == Verdict(result.confidence)
           docs == HybridDocs(r.note, r.ranked)
           chosen == IF verdict = "INHIBIT" /\ r.backstop # <<>> THEN r.backstop ELSE docs
           named == Upto(MaxSources, chosen)
           all == IF verdict = "FORGE" THEN Augmented(r.ask, named) ELSE named
<1>0. MaxSources \in Nat
  BY RankingAssumption
<1>1. /\ r # Idle /\ r.ranked = Rerank(r.ask, r.rankings.keyword, r.rankings.semantic)
      /\ r.rankings.keyword \in Seq(Entries) /\ r.rankings.semantic \in Seq(Entries)
  BY DEF IsSearch, Going, Idle, IsRanking
<1>2. Question(r.ask) /\ IsNote(r.note, r.ask.docs, MaxSources) /\ OwnList(r.ask, r.backstop)
  BY <1>1, GoingFacts
<1>3. OwnList(r.ask, r.ranked.docs) /\ Percentage(r.ranked.confidence)
  BY <1>1, <1>2, RerankOwn
<1>4. OwnList(r.ask, r.note.docs) /\ Percentage(r.note.confidence)
  BY <1>2, NoteOwn
<1>5. Presents(result, r.ask, all) /\ result.confidence = Max({r.note.confidence, r.ranked.confidence})
  BY HybridParts DEF HybridNames
<1>6. Percentage(result.confidence)
  <2>1. PICK a, b : a = r.note.confidence /\ b = r.ranked.confidence
    OBVIOUS
  <2>11. Percentage(a) /\ Percentage(b)
    BY <1>3, <1>4, <2>1
  <2>12. a \in Int /\ b \in Int
    BY <2>11 DEF Percentage
  <2>2. Max({a, b}) = IF a >= b THEN a ELSE b
    BY <2>12, OfTwo
  <2> QED
    BY <1>5, <2>1, <2>11, <2>2
<1>7. OwnList(r.ask, docs)
  <2>1. docs = r.note.docs \/ docs = r.ranked.docs
    BY DEF HybridDocs
  <2> HIDE DEF docs
  <2> QED
    BY <1>3, <1>4, <2>1
<1> HIDE DEF docs, verdict
<1>8. OwnList(r.ask, chosen)
  BY <1>2, <1>7
<1> HIDE DEF chosen
<1>9. OwnList(r.ask, named)
  BY <1>0, <1>8, UptoOwn
<1> HIDE DEF named
<1>10. OwnList(r.ask, Augmented(r.ask, named))
  BY <1>2, <1>9, AugmentedOwn
<1>11. OwnList(r.ask, all)
  BY <1>9, <1>10
<1> HIDE DEF all
<1>12. Presents(result, r.ask, all)
  BY <1>5
<1> QED
  BY <1>2, <1>6, <1>11, <1>12, ResultSound

\* A rerank keeps what its rankings agree on.
LEMMA HybridAgrees ==
  ASSUME NEW r, IsSearch(r), r.stage = "fused",
         NEW result, result.ranked = [r.rankings EXCEPT !.fused = r.ranked.fused]
  PROVE  KeepsAgreement(result)
<1> DEFINE keyword == r.rankings.keyword
           semantic == r.rankings.semantic
           fused == r.ranked.fused
<1>1. /\ r # Idle /\ r.ranked = Rerank(r.ask, keyword, semantic) /\ r.rankings = Ranks(keyword, semantic)
      /\ keyword \in Seq(Entries) /\ semantic \in Seq(Entries)
  <2>1. r.rankings = Ranks(keyword, semantic)
    BY DEF IsSearch, HasFields, Made, Search
  <2> QED
    BY <2>1 DEF IsSearch, Going, Idle, IsRanking
<1>2. Question(r.ask)
  BY <1>1, GoingFacts
<1>3. fused = Fused(r.ask, semantic, keyword)
  BY <1>1 DEF Rerank
<1>4. result.ranked.keyword = keyword /\ result.ranked.semantic = semantic /\ result.ranked.fused = fused
  BY <1>1 DEF Ranks
<1>5. fused \in Seq(Entries)
  BY <1>1, <1>3, FusedFacts
<1> HIDE DEF keyword, semantic, fused
<1>6. ASSUME NEW d \in Range(Docs(fused)), NEW e \in Range(Docs(fused)),
             Once(keyword, e), Once(semantic, e), Ahead(keyword, d, e), Ahead(semantic, d, e)
      PROVE  Ahead(fused, d, e)
  <2>1. DOMAIN fused = 1..Len(fused)
    BY <1>5
  <2>2. PICK k \in 1..Len(fused) : fused[k].doc = d
    BY <1>6, <2>1 DEF Range, Docs
  <2>3. PICK l \in 1..Len(fused) : fused[l].doc = e
    BY <1>6, <2>1 DEF Range, Docs
  <2>4. k < l
    BY <1>1, <1>3, <1>6, <2>2, <2>3, FusionAgrees
  <2> QED
    BY <2>1, <2>2, <2>3, <2>4 DEF Ahead
<1> QED
  BY <1>4, <1>6 DEF KeepsAgreement

\* A rerank whose rankings share nothing is not sure of anything.
LEMMA HybridFlags ==
  ASSUME NEW r, IsSearch(r), r.stage = "fused",
         NEW result, IsHybrid(r, result)
  PROVE  Flags(result)
<1> DEFINE keyword == r.rankings.keyword
           semantic == r.rankings.semantic
<1>1. /\ r # Idle /\ r.ranked = Rerank(r.ask, keyword, semantic) /\ r.rankings = Ranks(keyword, semantic)
      /\ keyword \in Seq(Entries) /\ semantic \in Seq(Entries)
  <2>1. r.rankings = Ranks(keyword, semantic)
    BY DEF IsSearch, HasFields, Made, Search
  <2> QED
    BY <2>1 DEF IsSearch, Going, Idle, IsRanking
<1>2. Question(r.ask) /\ IsNote(r.note, r.ask.docs, MaxSources)
  BY <1>1, GoingFacts
<1>3. result.ranked.keyword = keyword /\ result.ranked.semantic = semantic
  <2>1. result.ranked = [r.rankings EXCEPT !.fused = r.ranked.fused]
    BY HybridParts
  <2> QED
    BY <1>1, <2>1 DEF Ranks
<1>4. ASSUME ~result.noted, Disagree(keyword, semantic) PROVE result.low
  <2>1. PICK fused : fused = Fused(r.ask, semantic, keyword)
    OBVIOUS
  <2>2. fused \in Seq(Entries) /\ \A i \in 1..Len(fused) : fused[i].score >= 0
    BY <1>1, <2>1, FusedFacts
  <2> HIDE <2>1
  <2>3. NoneNegative(fused)
    BY <2>2 DEF NoneNegative
  <2>4. /\ Percentage(Confidence(fused, keyword, semantic))
        /\ Disagree(keyword, semantic) => Confidence(fused, keyword, semantic) <= 2500
    <3>1. fused \in Seq(Entries) /\ keyword \in Seq(Entries) /\ semantic \in Seq(Entries)
      BY <1>1, <2>2
    <3> HIDE DEF keyword, semantic
    <3> QED
      BY <2>3, <3>1, ConfidenceFacts
  <2>5. r.ranked.confidence = Confidence(fused, keyword, semantic)
    BY <1>1, <2>1 DEF Rerank
  <2>60. Percentage(Confidence(fused, keyword, semantic)) /\ Confidence(fused, keyword, semantic) <= 2500
    BY <1>4, <2>4
  <2>6. Percentage(r.ranked.confidence) /\ r.ranked.confidence <= 2500
    BY <2>5, <2>60
  <2>7. Percentage(r.note.confidence) /\ (r.note.docs = <<>> => r.note.confidence = 0)
    BY <1>2, NotePercentage
  <2>70. PICK a, b : a = r.note.confidence /\ b = r.ranked.confidence
    OBVIOUS
  <2>71. Percentage(a) /\ Percentage(b) /\ b <= 2500
    BY <2>6, <2>7, <2>70
  <2>72. a \in Int /\ 0 <= a /\ b \in Int /\ 0 <= b
    BY <2>71 DEF Percentage
  <2>8. /\ result.confidence = Max({r.note.confidence, r.ranked.confidence})
        /\ result.low <=> Verdict(result.confidence) = "INHIBIT"
        /\ ~result.noted => Unsure(r)
    BY HybridParts
  <2>9. a <= b
    <3>1. a = 0 \/ ~(a > b)
      BY <1>4, <2>7, <2>70, <2>8 DEF Unsure
    <3> QED
      BY <3>1, <2>71, <2>72
  <2>10. Max({a, b}) = IF a >= b THEN a ELSE b
    BY <2>72, OfTwo
  <2>11. result.confidence = Max({a, b})
    BY <2>70, <2>8
  <2>12. Max({a, b}) = b
    BY <2>72, <2>9, <2>10
  <2>13. Verdict(b) = "INHIBIT"
    BY <2>71, <2>72 DEF Verdict
  <2> QED
    BY <2>8, <2>11, <2>12, <2>13
<1> HIDE DEF keyword, semantic
<1> QED
  BY <1>3, <1>4 DEF Flags, Disagree

-----------------------------------------------------------------------------
(* Notes that lead                                                         *)

\* The rows of a cluster are rows of one file: so the cluster key (the path in
\* small letters) makes them, unless two paths differ by the case of letters only.
ClustersAreFiles ==
  \A w \in DOMAIN Workloads : \A ask \in Workloads[w].asks :
    \A d, e \in Own(ask.docs) : Text[d].cluster = Text[e].cluster => SameUri(d, e)

\* TitledNoteLeads of a result.
TitleLeads(result) ==
  /\ result.ask.mode # "none" /\ ~Short(result.ask.original)
  /\ result.ask.engine = "provider" \/ result.ask.mode = "semantic"
  /\ \E d \in Range(result.ask.docs) : Titled(d, result.ask.original)
  => /\ result.sources # <<>>
     /\ \E d \in Range(All(result.ask)) :
          SameUri(d, result.sources[1]) /\ Titled(d, result.ask.original)

\* A query that is the title of a note of the store, and long enough for one.
TitledAsk(ask) == ~Short(ask.original) /\ \E d \in Range(ask.docs) : Titled(d, ask.original)

\* A document of a file so titled.
LikeTitled(doc, ask) == \E d \in Range(All(ask)) : SameUri(d, doc) /\ Titled(d, ask.original)

\* Some documents of such files, of one cluster.
TitledOnes(docs, ask) ==
  /\ docs \in Seq(OwnOf(ask)) /\ docs # <<>>
  /\ \A k \in 1..Len(docs) : LikeTitled(docs[k], ask)
  /\ \E c : \A k \in 1..Len(docs) : Text[docs[k]].cluster = c

\* The note of such a query is documents of a file so titled.
LEMMA NoteOfTitle ==
  ASSUME ClustersAreFiles, NEW a \in Asked, TitledAsk(a)
  PROVE  TitledOnes(Named(a).docs, a)
<1>1. PICK w, ask : w \in DOMAIN Workloads /\ ask \in Workloads[w].asks /\ a = Refined(ask)
  BY DEF Asked
<1>2. Question(a) /\ a.original \in Seq(Terms)
  BY AskedFacts
<1>3. a.docs = ask.docs /\ a.original = ask.original
  <2>1. ask \in Asks
    BY <1>1, WorkloadsAssumption
  <2>2. DOMAIN ask = {"engine", "store", "docs", "atoms", "mode", "query", "original", "raw", "seen"}
    BY <2>1 DEF Asks
  <2>3. PICK query : query = Refine(ask.original)
    OBVIOUS
  <2>4. a = [ask EXCEPT !.query = query]
    BY <1>1, <2>3 DEF Refined
  <2> HIDE <2>3
  <2> QED
    BY <2>2, <2>4
<1>4. PICK docs, original : docs = a.docs /\ original = a.original
  OBVIOUS
<1>5. docs \in Seq(DOMAIN Text) /\ original \in Seq(Terms) /\ ~Short(original)
  BY <1>2, <1>4 DEF Question, TitledAsk
<1>6. DOMAIN docs = 1..Len(docs)
  BY <1>5
<1>7. \A d, e \in Own(docs) : Text[d].cluster = Text[e].cluster => SameUri(d, e)
  BY <1>1, <1>3, <1>4 DEF ClustersAreFiles
<1>8. PICK i0 \in 1..Len(docs) : Titled(docs[i0], original)
  BY <1>4, <1>6 DEF TitledAsk, Range
<1>9. MaxSources \in Nat /\ MaxSources # 0
  BY <1>6, RankingAssumption
<1>10. PICK note : note = ExactNote(docs, original, MaxSources)
  OBVIOUS
<1>11. /\ note.docs \in Seq(Own(docs)) /\ note.docs # <<>>
       /\ \E d \in Own(docs) :
            /\ Titled(d, original)
            /\ \A k \in 1..Len(note.docs) : Text[note.docs[k]].cluster = Text[d].cluster
  BY <1>5, <1>8, <1>9, <1>10, TitledNote
<1>12. PICK d \in Own(docs) :
         /\ Titled(d, original)
         /\ \A k \in 1..Len(note.docs) : Text[note.docs[k]].cluster = Text[d].cluster
  BY <1>11
<1>13. Own(docs) \subseteq OwnOf(a) /\ \A x \in OwnOf(a) : x \in Range(All(a))
  BY <1>2, <1>4, OwnFacts DEF Resolves
<1>14. \A k \in 1..Len(note.docs) : LikeTitled(note.docs[k], a)
  <2> TAKE k \in 1..Len(note.docs)
  <2>1. note.docs[k] \in Own(docs)
    BY <1>11
  <2>2. SameUri(d, note.docs[k])
    BY <1>7, <1>12, <2>1
  <2> QED
    BY <1>4, <1>12, <1>13, <2>2 DEF LikeTitled
<1>15. note.docs \in Seq(OwnOf(a))
  BY <1>11, <1>13, SeqMonotonic
<1>16. TitledOnes(note.docs, a)
  BY <1>11, <1>12, <1>14, <1>15 DEF TitledOnes
<1> QED
  BY <1>4, <1>10, <1>16 DEF Named

\* Some of such documents are such documents.
LEMMA PickedTitled ==
  ASSUME NEW ask, NEW docs, TitledOnes(docs, ask), NEW P \in SUBSET (1..Len(docs)), P # {}
  PROVE  TitledOnes(Picked(docs, P), ask)
<1>1. /\ docs \in Seq(OwnOf(ask)) /\ Len(docs) \in Nat
      /\ \A k \in 1..Len(docs) : LikeTitled(docs[k], ask)
  BY DEF TitledOnes
<1>2. PICK c : \A k \in 1..Len(docs) : Text[docs[k]].cluster = c
  BY DEF TitledOnes
<1>3. PICK some : some = Picked(docs, P)
  OBVIOUS
<1>4. some \in Seq({docs[i] : i \in P}) /\ some \in Seq(OwnOf(ask)) /\ Len(some) = Cardinality(P)
  BY <1>1, <1>3, PickedIs
<1>5. some # <<>>
  <2>1. IsFiniteSet(1..Len(docs))
    BY <1>1, FS_Interval
  <2>2. IsFiniteSet(P)
    BY <2>1, FS_Subset
  <2>3. Cardinality(P) # 0
    BY <2>2, FS_EmptySet
  <2> QED
    BY <1>4, <2>3
<1>6. \A k \in 1..Len(some) : \E i \in 1..Len(docs) : some[k] = docs[i]
  <2>1. PICK chosen : chosen = {docs[i] : i \in P}
    OBVIOUS
  <2>3. some \in Seq(chosen)
    BY <1>4, <2>1, Zenon
  <2>2. \A k \in 1..Len(some) : some[k] \in chosen
    BY <2>3
  <2> QED
    BY <2>1, <2>2, Zenon
<1>7. \A k \in 1..Len(some) : LikeTitled(some[k], ask)
  BY <1>1, <1>6, Zenon
<1>8. \A k \in 1..Len(some) : Text[some[k]].cluster = c
  BY <1>2, <1>6, Zenon
<1> QED
  BY <1>3, <1>4, <1>5, <1>7, <1>8, Zenon DEF TitledOnes

\* The first of a list is among the first of its cluster.
LEMMA ClusteredTitled ==
  ASSUME NEW ask, NEW docs, TitledOnes(docs, ask)
  PROVE  TitledOnes(Clustered(ask, docs, 2), ask)
<1>1. docs \in Seq(OwnOf(ask)) /\ docs # <<>>
  BY DEF TitledOnes
<1>2. DOMAIN docs = 1..Len(docs) /\ 1 \in 1..Len(docs)
  BY <1>1
<1> DEFINE Earlier(i) == {j \in 1..(i - 1) : ClusterOf(ask, docs[j]) = ClusterOf(ask, docs[i])}
           P == FirstOfClusters(ask, docs, 2)
<1>3. P = {i \in 1..Len(docs) : Cardinality(Earlier(i)) < 2}
  BY <1>2 DEF FirstOfClusters
<1>4. Earlier(1) = {}
  OBVIOUS
<1> HIDE DEF Earlier
<1>5. Cardinality(Earlier(1)) = 0
  BY <1>4, FS_EmptySet
<1>6. P \in SUBSET (1..Len(docs)) /\ P # {}
  BY <1>2, <1>3, <1>5
<1>7. Clustered(ask, docs, 2) = Picked(docs, P)
  BY DEF Clustered
<1> HIDE DEF P
<1> QED
  BY <1>6, <1>7, PickedTitled

\* Documents of one cluster are exact matches together.
LEMMA OnlyExactTitled ==
  ASSUME NEW ask, Question(ask), NEW docs, TitledOnes(docs, ask)
  PROVE  TitledOnes(OnlyExact(ask, docs, ask.query), ask)
<1> DEFINE Score(d) == ExactFileScore(Text[d], ask.query)
           scores == {0} \cup {Score(d) : d \in Range(docs)}
           best == Max(scores)
           winners == {ClusterOf(ask, d) : d \in {e \in Range(docs) : Score(e) >= best}}
           P == {i \in DOMAIN docs : ClusterOf(ask, docs[i]) \in winners}
<1>1. docs \in Seq(OwnOf(ask)) /\ docs # <<>>
  BY DEF TitledOnes
<1>2. DOMAIN docs = 1..Len(docs) /\ 1 \in 1..Len(docs)
  BY <1>1
<1>3. OnlyExact(ask, docs, ask.query) = IF best < 300 THEN docs ELSE Picked(docs, P)
  BY DEF OnlyExact
<1>4. \A d : Score(d) \in 0..500
  <2>1. ask.query \in Seq(Terms)
    BY DEF Question
  <2> QED
    BY <2>1, ExactFileScoreType
<1> HIDE DEF Score
<1>5. best \in scores
  <2>1. scores \in SUBSET (0..500) /\ scores # {} /\ 0 \in Int /\ 500 \in Int
    BY <1>4
  <2> HIDE DEF scores
  <2> QED
    BY <2>1, MaxWithin
<1> HIDE DEF best
<1>6. P \in SUBSET (1..Len(docs))
  BY <1>2
<1>7. \E i \in 1..Len(docs) : Score(docs[i]) >= best
  <2>1. CASE best = 0
    <3>1. PICK x : x = Score(docs[1])
      OBVIOUS
    <3>2. x \in 0..500
      BY <1>4, <3>1, Zenon
    <3>3. x >= best
      BY <2>1, <3>2
    <3> QED
      BY <1>2, <3>1, <3>3, Zenon
  <2>2. CASE best # 0
    <3>1. PICK i \in 1..Len(docs) : best = Score(docs[i])
      BY <1>2, <1>5, <2>2 DEF Range
    <3>2. PICK x : x = Score(docs[i])
      OBVIOUS
    <3>3. x \in 0..500
      BY <1>4, <3>2, Zenon
    <3>4. x >= best
      BY <3>1, <3>2, <3>3
    <3> QED
      BY <3>2, <3>4, Zenon
  <2> QED
    BY <2>1, <2>2
<1>8. P # {}
  <2>1. PICK i \in 1..Len(docs) : Score(docs[i]) >= best
    BY <1>7
  <2>2. docs[i] \in Range(docs)
    BY <1>2 DEF Range
  <2>3. ClusterOf(ask, docs[i]) \in winners
    BY <2>1, <2>2
  <2> HIDE DEF winners
  <2>4. i \in P
    BY <1>2, <2>3
  <2> QED
    BY <2>4
<1> HIDE DEF P
<1>9. TitledOnes(Picked(docs, P), ask)
  BY <1>6, <1>8, PickedTitled
<1> QED
  BY <1>3, <1>9

\* Whoever names such documents first lets the title lead.
LEMMA TitledLeads ==
  ASSUME NEW result, NEW ask, NEW docs, Presents(result, ask, docs), TitledOnes(docs, ask)
  PROVE  TitleLeads(result)
<1>1. docs \in Seq(OwnOf(ask)) /\ docs # <<>> /\ \A k \in 1..Len(docs) : LikeTitled(docs[k], ask)
  BY DEF TitledOnes
<1>2. MaxSources \in Nat /\ MaxSources # 0 /\ Len(docs) \in Nat /\ Len(docs) # 0
  BY <1>1, RankingAssumption
<1>3. /\ Upto(MaxSources, docs) \in Seq(OwnOf(ask))
      /\ Len(Upto(MaxSources, docs)) = IF MaxSources <= Len(docs) THEN MaxSources ELSE Len(docs)
      /\ \A i \in 1..Len(Upto(MaxSources, docs)) : Upto(MaxSources, docs)[i] = docs[i]
  BY <1>1, <1>2, UptoFacts
<1> PICK sources : sources = Upto(MaxSources, docs)
  OBVIOUS
<1>4. sources[1] = docs[1] /\ sources # <<>> /\ 1 \in 1..Len(docs)
  BY <1>2, <1>3
<1>5. result.ask = ask /\ result.sources = sources
  BY DEF Presents
<1>6. LikeTitled(sources[1], ask)
  BY <1>1, <1>4
<1> QED
  BY <1>4, <1>5, <1>6 DEF TitleLeads, LikeTitled

-----------------------------------------------------------------------------
(* The answers of a search                                                 *)

\* What every answer to a search is.
IsAnswer(r, result) ==
  /\ Right(result) /\ result.ask = r.ask
  /\ ClustersAreFiles => TitleLeads(result)

\* A local answer that is not to a semantic search promises nothing of titles.
LEMMA NothingPromised ==
  ASSUME NEW r, NEW result, result.ask = r.ask, Right(result),
         r.ask.engine = "local" /\ (r.ask.mode = "semantic" => ~TitledAsk(r.ask))
  PROVE  IsAnswer(r, result)
<1>1. r.ask.engine # "provider"
  OBVIOUS
<1> QED
  BY <1>1 DEF IsAnswer, TitleLeads, TitledAsk

\* Such documents are some.
LEMMA TitledThere ==
  ASSUME NEW docs, NEW ask, TitledOnes(docs, ask)
  PROVE  docs # <<>>
BY DEF TitledOnes

\* The note of a search whose query is a title.
LEMMA NoteTitled ==
  ASSUME NEW r, IsSearch(r), r # Idle, ClustersAreFiles, TitledAsk(r.ask)
  PROVE  TitledOnes(r.note.docs, r.ask) /\ r.note.docs # <<>>
<1>1. r.ask \in Asked /\ r.note = Named(r.ask)
  BY DEF IsSearch, Going
<1>2. TitledOnes(r.note.docs, r.ask)
  BY <1>1, NoteOfTitle
<1>3. r.note.docs # <<>>
  BY <1>2, TitledThere
<1> QED
  BY <1>2, <1>3

\* AnswerNote gives an answer.
LEMMA NoteIsAnswer ==
  ASSUME NEW r, IsSearch(r), r # Idle, NEW result,
         result = Result(r.ask, r.note.docs, r.note.confidence, TRUE, FALSE, Unranked)
  PROVE  IsAnswer(r, result)
<1>1. /\ Presents(result, r.ask, r.note.docs) /\ result.confidence = r.note.confidence
      /\ result.ask = r.ask /\ result.ranked = Unranked
  BY DEF Result, Presents
<1>2. Question(r.ask) /\ IsNote(r.note, r.ask.docs, MaxSources)
  BY GoingFacts
<1>3. OwnList(r.ask, r.note.docs) /\ Percentage(r.note.confidence)
  BY <1>2, NoteOwn
<1>4. Percentage(result.confidence)
  BY <1>1, <1>3
<1>5. Presents(result, r.ask, r.note.docs)
  BY <1>1
<1>6. Sound(result)
  BY <1>2, <1>3, <1>4, <1>5, ResultSound
<1>7. Right(result)
  BY <1>1, <1>6, UnrankedRight
<1>8. ASSUME ClustersAreFiles PROVE TitleLeads(result)
  <2>1. CASE TitledAsk(r.ask)
    <3>1. TitledOnes(r.note.docs, r.ask)
      BY <1>8, <2>1, NoteTitled
    <3> QED
      BY <1>5, <3>1, TitledLeads
  <2>2. CASE ~TitledAsk(r.ask)
    BY <1>1, <2>2 DEF TitleLeads, TitledAsk
  <2> QED
    BY <2>1, <2>2
<1> QED
  BY <1>1, <1>7, <1>8 DEF IsAnswer

\* So does AnswerNothing, for a store without documents.
LEMMA NothingIsAnswer ==
  ASSUME NEW r, IsSearch(r), r # Idle, r.ask.engine = "local", r.ask.docs = <<>>, NEW result,
         result = Result(r.ask, <<>>, 0, FALSE, FALSE, Unranked)
  PROVE  IsAnswer(r, result)
<1>0. /\ result.ask = r.ask /\ result.ranked = Unranked /\ result.confidence = 0
      /\ result.sources = Upto(MaxSources, <<>>)
  BY DEF Result
<1>1. PICK none : none = <<>>
  OBVIOUS
<1>2. Presents(result, r.ask, none)
  BY <1>0, <1>1 DEF Presents
<1>3. Question(r.ask) /\ OwnList(r.ask, none)
  BY <1>1, GoingFacts, NothingOwn
<1>4. Percentage(result.confidence)
  <2>1. Percentage(0)
    BY DEF Percentage
  <2> QED
    BY <1>0, <2>1, Zenon
<1>5. Sound(result)
  BY <1>2, <1>3, <1>4, ResultSound
<1>6. Right(result)
  BY <1>0, <1>5, UnrankedRight
<1>7. ~TitledAsk(r.ask)
  BY DEF TitledAsk, Range
<1> QED
  BY <1>0, <1>6, <1>7, NothingPromised

\* So does AnswerHybrid.
LEMMA HybridIsAnswer ==
  ASSUME NEW r, IsSearch(r), r.stage = "fused", NEW result, IsHybrid(r, result)
  PROVE  IsAnswer(r, result)
<1>1. Sound(result)
  BY HybridSound
<1>2. result.ask = r.ask /\ result.ranked = [r.rankings EXCEPT !.fused = r.ranked.fused]
  BY HybridParts
<1>3. KeepsAgreement(result)
  BY <1>2, HybridAgrees
<1>4. Flags(result)
  BY HybridFlags
<1>5. Right(result)
  BY <1>1, <1>3, <1>4 DEF Right
<1>6. r.ask.engine = "local" /\ (r.ask.mode = "semantic" => ~TitledAsk(r.ask))
  BY DEF IsSearch, Going, Idle
<1> QED
  BY <1>2, <1>5, <1>6, NothingPromised

\* When a search falls through to the keyword match.
Falls(r) ==
  \/ r.stage = "noted" /\ Recorded(r.ask) /\ ~NoteAnswers(r)
  \/ r.stage = "fused"

\* So does AnswerMatch.
LEMMA MatchIsAnswer ==
  ASSUME NEW r, IsSearch(r), r # Idle, Falls(r), NEW query \in Seq(Terms), NEW result,
         result = KeywordAnswer(r.ask, r.note, r.backstop, query)
  PROVE  IsAnswer(r, result)
<1>1. Question(r.ask) /\ IsNote(r.note, r.ask.docs, MaxSources) /\ OwnList(r.ask, r.backstop)
  BY GoingFacts
<1>2. LET answer == KeywordAnswer(r.ask, r.note, r.backstop, query)
      IN  Sound(answer) /\ answer.ask = r.ask /\ answer.ranked = Unranked
  BY <1>1, KeywordAnswerSound
<1>3. Sound(result) /\ result.ask = r.ask /\ result.ranked = Unranked
  BY <1>2
<1>4. Right(result)
  BY <1>3, UnrankedRight
<1>5. r.ask.engine = "local"
  BY DEF Falls, Recorded, IsSearch, Going, Idle
<1>6. ASSUME ClustersAreFiles, r.ask.mode = "semantic" PROVE ~TitledAsk(r.ask)
  <2>1. r.stage # "fused"
    BY <1>6 DEF IsSearch, Going, Idle
  <2>2. r.note.docs = <<>>
    BY <1>6, <2>1 DEF Falls, NoteAnswers
  <2> QED
    BY <1>6, <2>2, NoteTitled
<1>7. ClustersAreFiles => TitleLeads(result)
  <2>1. r.ask.engine # "provider"
    BY <1>5
  <2> QED
    BY <1>3, <1>6, <2>1 DEF TitleLeads, TitledAsk
<1> QED
  BY <1>3, <1>4, <1>7 DEF IsAnswer

\* So does AnswerByProvider.
LEMMA ProviderIsAnswer ==
  ASSUME NEW r, IsSearch(r), r # Idle, NEW query \in Seq(Terms), NEW result,
         result = ProviderAnswer(r.ask, r.note, r.backstop, query)
  PROVE  IsAnswer(r, result)
<1>1. Question(r.ask) /\ IsNote(r.note, r.ask.docs, MaxSources) /\ OwnList(r.ask, r.backstop)
  BY GoingFacts
<1>2. LET answer == ProviderAnswer(r.ask, r.note, r.backstop, query)
      IN  Sound(answer) /\ answer.ask = r.ask /\ answer.ranked = Unranked
  BY <1>1, ProviderAnswerSound
<1>3. Sound(result) /\ result.ask = r.ask /\ result.ranked = Unranked
  BY <1>2
<1>4. Right(result)
  BY <1>3, UnrankedRight
<1>5. ASSUME ClustersAreFiles PROVE TitleLeads(result)
  <2>1. CASE TitledAsk(r.ask)
    <3>1. TitledOnes(r.note.docs, r.ask) /\ r.note.docs # <<>>
      BY <1>5, <2>1, NoteTitled
    <3> DEFINE relevant == Clustered(r.ask, OnlyExact(r.ask, r.note.docs, r.ask.query), 2)
    <3>2. TitledOnes(OnlyExact(r.ask, r.note.docs, r.ask.query), r.ask)
      BY <1>1, <3>1, OnlyExactTitled
    <3>3. TitledOnes(relevant, r.ask)
      BY <3>2, ClusteredTitled
    <3>4. relevant # <<>> => Presents(result, r.ask, relevant)
      BY <3>1 DEF ProviderAnswer, Preferred, Result, Presents
    <3> HIDE DEF relevant
    <3>5. relevant # <<>>
      BY <3>3, TitledThere
    <3>6. Presents(result, r.ask, relevant)
      BY <3>4, <3>5
    <3> QED
      BY <3>3, <3>6, TitledLeads
  <2>2. CASE ~TitledAsk(r.ask)
    BY <1>3, <2>2 DEF TitleLeads, TitledAsk
  <2> QED
    BY <2>1, <2>2
<1> QED
  BY <1>3, <1>4, <1>5 DEF IsAnswer

-----------------------------------------------------------------------------
(* The steps of the searches                                               *)

\* The searches of the threads.
SearchesOK ==
  /\ work \in DOMAIN Workloads
  /\ run = [t \in Threads |-> run[t]]
  /\ \A t \in Threads : IsSearch(run[t])
  /\ active \in Seq(Terms)

\* A search between setting the shared query and clearing it.
HoldsQuery(r) == r.stage \in {"keyword", "semantic"}

\* What the learner has learned.
Records == Modes \X Percentages

\* The weights the semantic ranking can have.
Alphas == 200..800

\* What a thread can still have to do with the learner.
Learnings ==
  {Done} \cup [step : {"recorded"}, store : StoreNames, current : {0}]
         \cup [step : {"adapting"}, store : StoreNames, current : Alphas]

\* The learner within its bounds; searches on their way count as recorded.
LearnerOK ==
  /\ alpha \in [StoreNames -> Alphas]
  /\ history \in [StoreNames -> Seq(Records)]
  /\ \A s \in StoreNames : Len(history[s]) <= Window
  /\ total \in Nat /\ total + Running <= Workloads[work].upto
  /\ learns \in [Threads -> Learnings]

\* A thread that has no other beside it adapts the alpha there is.
CurrentIsAlpha(t) ==
  Alone(t) /\ learns[t].step = "adapting" => learns[t].current = alpha[learns[t].store]

AloneOK == \A t \in Workloads[work].threads : CurrentIsAlpha(t)

\* What a step of a search may do to the shared query: its thread sets it and
\* holds it, or clears it for good, or leaves it and holds on to it if it held it.
TreatsQuery(r, q) ==
  \/ active' = q.ask.query /\ HoldsQuery(q) /\ abandoned' = abandoned
  \/ active' = <<>> /\ abandoned' = {}
  \/ /\ active' = active /\ abandoned' = abandoned
     /\ HoldsQuery(r) => HoldsQuery(q) /\ q.ask = r.ask

\* A step moves a search on,
Moves(t, q) ==
  /\ t \in Threads /\ IsSearch(q) /\ q # Idle
  /\ Goes(t, q) /\ active' \in Seq(Terms)
  /\ run[t] = Idle => total + Running < Workloads[work].upto
  /\ TreatsQuery(run[t], q)

\* or answers it, from what it has found;
Answers(t, result) ==
  /\ t \in Threads /\ run[t] # Idle /\ ~HoldsQuery(run[t])
  /\ IsAnswer(run[t], result) /\ Conclude(t, result)

\* or it is cut short,
Stops(t) == t \in Threads /\ CutShort(t)

\* or the learner is asked.
Learns(t) == t \in Workloads[work].threads /\ (Consider(t) \/ Adapt(t))

\* Some search moves on,
Moved == \E t, q : Moves(t, q)

\* is answered,
Answered == \E t, result : Answers(t, result)

\* is cut short,
Stopped == \E t : Stops(t)

\* or has the learner adapt.
Taught == \E t : Learns(t)

\* Every step is one of these.
Stepped == Moved \/ Answered \/ Stopped \/ Taught

\* How many keyword hits take part is a number.
LEMMA PoolType ==
  ASSUME NEW a \in Alphas
  PROVE  KeywordPool(a) \in Nat
<1>0. a \in 200..800
  BY DEF Alphas
<1>1. PICK m \in Nat : m = MaxSources
  BY RankingAssumption
<1>2. PICK b \in Nat : b = 1500 - a
  BY <1>0
<1>3. PICK c \in Nat : c = m * b
  OBVIOUS
<1>4. 2 * m * b = 2 * c
  BY <1>3
<1>5. PICK x \in Nat : x = (2 * c) \div 1000
  OBVIOUS
<1>6. Max({1, x}) = IF 1 >= x THEN 1 ELSE x
  <2>1. PICK one \in Int : one = 1
    OBVIOUS
  <2>2. Max({one, x}) = IF one >= x THEN one ELSE x
    BY OfTwo
  <2> QED
    BY <2>1, <2>2
<1>7. KeywordPool(a) = Max({1, (2 * MaxSources * (1500 - a)) \div 1000})
  BY DEF KeywordPool
<1>8. (2 * MaxSources * (1500 - a)) \div 1000 = x
  BY <1>1, <1>2, <1>4, <1>5
<1> QED
  BY <1>0, <1>6, <1>7, <1>8

\* Every step moves a search on, ends it or asks the learner.
LEMMA StepIs ==
  ASSUME SearchesOK, LearnerOK, Next
  PROVE  Stepped
<1>1. PICK t \in Workloads[work].threads :
        \/ \E ask \in Workloads[work].asks : Begin(t, ask)
        \/ AnswerNothing(t) \/ AnswerNote(t)
        \/ RankKeyword(t) \/ RankSemantic(t) \/ Fuse(t) \/ CutShort(t)
        \/ AnswerHybrid(t) \/ AnswerMatch(t) \/ AnswerByProvider(t)
        \/ Consider(t) \/ Adapt(t)
  BY DEF Next
<1>2. t \in Threads
  BY DEF SearchesOK, Threads
<1>3. IsSearch(run[t]) /\ active \in Seq(Terms)
  BY <1>2 DEF SearchesOK
<1>4. ASSUME NEW ask \in Workloads[work].asks, Begin(t, ask) PROVE Moved
  <2> DEFINE a == Refined(ask)
             q == [Idle EXCEPT !.stage = "noted", !.ask = a, !.note = Named(a), !.backstop = Backstop(a, a.query)]
  <2>1. a \in Asked
    BY DEF SearchesOK, Asked
  <2>2. Named(a) = Named(ask)
    <3>1. a.docs = ask.docs /\ a.original = ask.original
      <4>1. ask \in Asks
        BY WorkloadsAssumption DEF SearchesOK
      <4>2. DOMAIN ask = {"engine", "store", "docs", "atoms", "mode", "query", "original", "raw", "seen"}
        BY <4>1 DEF Asks
      <4> QED
        BY <4>2 DEF Refined
    <3> QED
      BY <3>1 DEF Named
  <2>3. /\ Goes(t, q) /\ active' = active /\ abandoned' = abandoned
        /\ run[t] = Idle /\ total + Running < Workloads[work].upto
    <3>1. Begin(t, ask)
      BY <1>4
    <3>2. Goes(t, [Idle EXCEPT !.stage = "noted", !.ask = a, !.note = Named(ask), !.backstop = Backstop(a, a.query)])
      BY <3>1 DEF Begin
    <3>3. /\ active' = active /\ abandoned' = abandoned
          /\ run[t] = Idle /\ total + Running < Workloads[work].upto
      BY <3>1 DEF Begin
    <3> HIDE DEF a
    <3> QED
      BY <2>2, <3>2, <3>3
  <2> HIDE DEF a
  <2>4. IsSearch(q) /\ q.stage = "noted"
    BY <2>1, BeginSearch
  <2> HIDE DEF q
  <2>5. q # Idle /\ ~HoldsQuery(run[t])
    BY <2>3, <2>4 DEF Idle, HoldsQuery
  <2>6. Moves(t, q)
    BY <1>2, <1>3, <2>3, <2>4, <2>5 DEF Moves, TreatsQuery
  <2> QED
    BY <2>6 DEF Moved
<1>50. ASSUME AnswerNothing(t) PROVE Answered
  <2> DEFINE r == run[t]
             result == Result(r.ask, <<>>, 0, FALSE, FALSE, Unranked)
  <2>1. r.stage = "noted" /\ r.ask.engine = "local" /\ r.ask.docs = <<>> /\ Conclude(t, result)
    BY <1>50 DEF AnswerNothing
  <2>2. r # Idle /\ ~HoldsQuery(r)
    BY <2>1 DEF Idle, HoldsQuery
  <2>3. IsAnswer(r, result)
    BY <1>3, <2>1, <2>2, NothingIsAnswer
  <2> HIDE DEF result
  <2>4. Answers(t, result)
    BY <1>2, <2>1, <2>2, <2>3 DEF Answers
  <2> QED
    BY <2>4 DEF Answered
<1>5. ASSUME AnswerNote(t) PROVE Answered
  <2> DEFINE r == run[t]
             result == Result(r.ask, r.note.docs, r.note.confidence, TRUE, FALSE, Unranked)
  <2>1. r.stage = "noted" /\ Conclude(t, result)
    BY <1>5 DEF AnswerNote
  <2>2. r # Idle /\ ~HoldsQuery(r)
    BY <2>1 DEF Idle, HoldsQuery
  <2>3. IsAnswer(r, result)
    BY <1>3, <2>2, NoteIsAnswer
  <2> HIDE DEF result
  <2>4. Answers(t, result)
    BY <1>2, <2>1, <2>2, <2>3 DEF Answers
  <2> QED
    BY <2>4 DEF Answered
<1>6. ASSUME RankKeyword(t) PROVE Moved
  <2> DEFINE r == run[t]
             most == KeywordPool(alpha[r.ask.store])
             q == [r EXCEPT !.stage = "keyword", !.rankings.keyword = KeywordRanked(r.ask, r.ask.query, most)]
  <2>1. /\ r.stage = "noted" /\ Reranks(r) /\ Goes(t, q)
        /\ active' = r.ask.query /\ abandoned' = abandoned
    BY <1>6 DEF RankKeyword
  <2>11. q.ask = r.ask
    BY <1>3, <2>1 DEF IsSearch, HasFields, Idle
  <2>2. r # Idle
    BY <2>1 DEF Idle
  <2>3. Question(r.ask) /\ r.ask \in Asked
    BY <1>3, <2>2, GoingFacts
  <2>4. r.ask.store \in StoreNames /\ r.ask.query \in Seq(Terms)
    BY <2>3, AskedFacts DEF Question
  <2>5. most \in Nat
    BY <2>4, PoolType, ZenonT(60) DEF LearnerOK
  <2> HIDE DEF most
  <2>6. IsSearch(q) /\ q.stage = "keyword"
    BY <1>3, <2>1, <2>2, <2>5, KeywordStep
  <2> HIDE DEF q
  <2>7. q # Idle /\ HoldsQuery(q)
    BY <2>6 DEF Idle, HoldsQuery
  <2>8. Moves(t, q)
    BY <1>2, <2>1, <2>11, <2>2, <2>4, <2>6, <2>7 DEF Moves, TreatsQuery
  <2> QED
    BY <2>8 DEF Moved
<1>7. ASSUME RankSemantic(t) PROVE Moved
  <2> DEFINE r == run[t]
             q == [r EXCEPT !.stage = "semantic", !.rankings.semantic = SemanticRanked(r.ask, active)]
  <2>1. r.stage = "keyword" /\ Goes(t, q) /\ active' = active /\ abandoned' = abandoned
    BY <1>7 DEF RankSemantic
  <2>2. r # Idle
    BY <2>1 DEF Idle
  <2>22. q.ask = r.ask
    BY <1>3, <2>1 DEF IsSearch, HasFields, Idle
  <2>3. IsSearch(q) /\ q.stage = "semantic"
    BY <1>3, <2>1, SemanticStep
  <2> HIDE DEF q
  <2>4. q # Idle /\ HoldsQuery(q)
    BY <2>3 DEF Idle, HoldsQuery
  <2>5. Moves(t, q)
    BY <1>2, <1>3, <2>1, <2>2, <2>22, <2>3, <2>4 DEF Moves, TreatsQuery
  <2> QED
    BY <2>5 DEF Moved
<1>8. ASSUME Fuse(t) PROVE Moved
  <2> DEFINE r == run[t]
             q == [r EXCEPT !.stage = "fused",
                            !.ranked = Rerank(r.ask, r.rankings.keyword, r.rankings.semantic)]
  <2>1. r.stage = "semantic" /\ active' = <<>> /\ abandoned' = {} /\ Goes(t, q)
    BY <1>8 DEF Fuse
  <2>2. r # Idle
    BY <2>1 DEF Idle
  <2>3. IsSearch(q) /\ q.stage = "fused"
    BY <1>3, <2>1, FuseStep
  <2> HIDE DEF q
  <2>4. q # Idle
    BY <2>3 DEF Idle
  <2>5. active' \in Seq(Terms)
    BY <2>1
  <2>6. Moves(t, q)
    BY <1>2, <2>1, <2>2, <2>3, <2>4, <2>5 DEF Moves, TreatsQuery
  <2> QED
    BY <2>6 DEF Moved
<1>9. ASSUME AnswerHybrid(t) PROVE Answered
  <2> DEFINE r == run[t]
             result == HybridAnswer(r.ask, r.note, r.backstop, r.ranked, r.rankings)
  <2>1. r.stage = "fused" /\ Conclude(t, result)
    BY <1>9 DEF AnswerHybrid
  <2>2. r # Idle /\ ~HoldsQuery(r)
    BY <2>1 DEF Idle, HoldsQuery
  <2>3. IsHybrid(r, result)
    BY DEF IsHybrid
  <2> HIDE DEF result
  <2>4. IsAnswer(r, result)
    BY <1>3, <2>1, <2>3, HybridIsAnswer
  <2>5. Answers(t, result)
    BY <1>2, <2>1, <2>2, <2>4 DEF Answers
  <2> QED
    BY <2>5 DEF Answered
<1>10. ASSUME AnswerMatch(t) PROVE Answered
  <2> DEFINE r == run[t]
             result == KeywordAnswer(r.ask, r.note, r.backstop, active)
  <2>1. Falls(r) /\ Conclude(t, result)
    BY <1>10 DEF AnswerMatch, Falls
  <2>2. r # Idle /\ ~HoldsQuery(r)
    BY <2>1 DEF Idle, HoldsQuery, Falls
  <2>3. IsAnswer(r, result)
    BY <1>3, <2>1, <2>2, MatchIsAnswer
  <2> HIDE DEF result
  <2>4. Answers(t, result)
    BY <1>2, <2>1, <2>2, <2>3 DEF Answers
  <2> QED
    BY <2>4 DEF Answered
<1>11. ASSUME AnswerByProvider(t) PROVE Answered
  <2> DEFINE r == run[t]
             result == ProviderAnswer(r.ask, r.note, r.backstop, active)
  <2>1. r.stage = "noted" /\ Conclude(t, result)
    BY <1>11 DEF AnswerByProvider
  <2>2. r # Idle /\ ~HoldsQuery(r)
    BY <2>1 DEF Idle, HoldsQuery
  <2>3. IsAnswer(r, result)
    BY <1>3, <2>2, ProviderIsAnswer
  <2> HIDE DEF result
  <2>4. Answers(t, result)
    BY <1>2, <2>1, <2>2, <2>3 DEF Answers
  <2> QED
    BY <2>4 DEF Answered
<1>12. ASSUME CutShort(t) PROVE Stopped
  BY <1>2, <1>12 DEF Stopped, Stops
<1>13. ASSUME Consider(t) \/ Adapt(t) PROVE Taught
  BY <1>1, <1>13 DEF Taught, Learns
<1> QED
  BY <1>1, <1>4, <1>5, <1>50, <1>6, <1>7, <1>8, <1>9, <1>10, <1>11, <1>12, <1>13 DEF Stepped

-----------------------------------------------------------------------------
(* What the learner makes of what it has recorded                          *)

\* Some search in this mode was recorded.
HasMode(h, mode) == \E i \in DOMAIN h : h[i][1] = mode

\* What was recorded of a mode.
OfMode(h, mode) == Picked(h, {i \in DOMAIN h : h[i][1] = mode})

\* The mean confidence of a mode.
MeanOf(h, mode) ==
  LET of == OfMode(h, mode)
  IN  Total([i \in DOMAIN of |-> of[i][2]]) \div Len(of)

\* The mean of a mode that was recorded is of what was recorded, and no
\* default.
LEMMA MeanFacts ==
  ASSUME NEW h \in Seq(Records), NEW mode
  PROVE  /\ HasMode(h, mode) => MeanOf(h, mode) \in Int
         /\ HasMode(h, mode) => \A d : Mean(h, mode, d) = MeanOf(h, mode)
         /\ ~HasMode(h, mode) => \A d : Mean(h, mode, d) = d
<1> DEFINE P == {i \in DOMAIN h : h[i][1] = mode}
           of == OfMode(h, mode)
           values == [i \in DOMAIN of |-> of[i][2]]
<1>1. P \in SUBSET (1..Len(h)) /\ (HasMode(h, mode) <=> P # {})
  <2>1. DOMAIN h = 1..Len(h)
    OBVIOUS
  <2> QED
    BY <2>1 DEF HasMode
<1>2. of = Picked(h, P)
  BY DEF OfMode
<1> HIDE DEF P
<1>3. of \in Seq(Records) /\ Len(of) = Cardinality(P) /\ Cardinality(P) \in 0..Len(h)
  BY <1>1, <1>2, PickedIs
<1>4. IsFiniteSet(P)
  <2>1. Len(h) \in Nat
    OBVIOUS
  <2>2. IsFiniteSet(1..Len(h))
    BY <2>1, FS_Interval
  <2> QED
    BY <1>1, <2>2, FS_Subset
<1>5. Len(of) \in Nat /\ (Len(of) = 0 <=> P = {})
  BY <1>3, <1>4, FS_EmptySet
<1>6. of = <<>> <=> ~HasMode(h, mode)
  <2>1. of = <<>> <=> Len(of) = 0
    <3> HIDE DEF of
    <3> QED
      BY <1>3
  <2> HIDE DEF of
  <2> QED
    BY <1>1, <1>5, <2>1
<1>7. \A d : Mean(h, mode, d) = IF of = <<>> THEN d ELSE MeanOf(h, mode)
  BY DEF Mean, MeanOf, OfMode
<1>8. MeanOf(h, mode) = Total(values) \div Len(of)
  BY DEF MeanOf
<1> HIDE DEF of
<1>9. values \in [1..Len(of) -> Int]
  <2>1. DOMAIN of = 1..Len(of)
    BY <1>3
  <2>2. \A i \in 1..Len(of) : of[i] \in Records
    BY <1>3
  <2>3. ASSUME NEW r \in Records PROVE r[2] \in Int
    <3>1. ASSUME NEW A, NEW B, NEW p \in A \X B PROVE p[2] \in B
      OBVIOUS
    <3>3. Percentages \subseteq Int
      BY DEF Percentages
    <3>4. r \in Modes \X Percentages
      BY DEF Records
    <3>2. r[2] \in Percentages
      BY <3>1, <3>4
    <3> QED
      BY <3>2, <3>3
  <2> QED
    BY <2>1, <2>2, <2>3
<1> HIDE DEF values
<1>10. Total(values) \in Int
  BY <1>5, <1>9, TotalType
<1>11. ASSUME HasMode(h, mode) PROVE MeanOf(h, mode) \in Int
  <2>1. Len(of) \in Nat \ {0}
    BY <1>1, <1>5, <1>11
  <2> QED
    BY <1>8, <1>10, <2>1
<1> QED
  BY <1>6, <1>7, <1>11

\* The two means an adaptation compares: numbers, and not made up when there is
\* something to compare.
LEMMA MeansFacts ==
  ASSUME NEW h \in Seq(Records), NEW d \in Int
  PROVE  /\ Mean(h, "keyword", d) \in Int /\ SemanticMean(h, d) \in Int
         /\ HasMode(h, "keyword") => Mean(h, "keyword", d) = Mean(h, "keyword", 0)
         /\ HasMode(h, "semantic") \/ HasMode(h, "hybrid") => SemanticMean(h, d) = SemanticMean(h, 0)
<1>1. /\ HasMode(h, "keyword") => MeanOf(h, "keyword") \in Int
      /\ HasMode(h, "keyword") => \A e : Mean(h, "keyword", e) = MeanOf(h, "keyword")
      /\ ~HasMode(h, "keyword") => \A e : Mean(h, "keyword", e) = e
  BY MeanFacts
<1>2. /\ HasMode(h, "hybrid") => MeanOf(h, "hybrid") \in Int
      /\ HasMode(h, "hybrid") => \A e : Mean(h, "hybrid", e) = MeanOf(h, "hybrid")
      /\ ~HasMode(h, "hybrid") => \A e : Mean(h, "hybrid", e) = e
  BY MeanFacts
<1>3. /\ HasMode(h, "semantic") => MeanOf(h, "semantic") \in Int
      /\ HasMode(h, "semantic") => \A e : Mean(h, "semantic", e) = MeanOf(h, "semantic")
      /\ ~HasMode(h, "semantic") => \A e : Mean(h, "semantic", e) = e
  BY MeanFacts
<1>4. \A e : SemanticMean(h, e) = Mean(h, "semantic", Mean(h, "hybrid", e))
  BY DEF SemanticMean
<1>5. Mean(h, "keyword", d) \in Int
  BY <1>1
<1>6. Mean(h, "hybrid", d) \in Int
  BY <1>2
<1>7. SemanticMean(h, d) \in Int
  BY <1>3, <1>4, <1>6
<1>8. HasMode(h, "keyword") => Mean(h, "keyword", d) = Mean(h, "keyword", 0)
  BY <1>1
<1>9. HasMode(h, "semantic") => SemanticMean(h, d) = SemanticMean(h, 0)
  BY <1>3, <1>4
<1>10. HasMode(h, "hybrid") => Mean(h, "hybrid", d) = Mean(h, "hybrid", 0)
  BY <1>2
<1>11. HasMode(h, "hybrid") => SemanticMean(h, d) = SemanticMean(h, 0)
  BY <1>4, <1>10
<1> QED
  BY <1>5, <1>7, <1>8, <1>9, <1>11

\* alpha follows what is recorded, within its range.
LEMMA RecommendedFacts ==
  ASSUME NEW h \in Seq(Records), NEW c \in Alphas
  PROVE  /\ RecommendedAlpha(h, c) \in Alphas
         /\ RecommendedAlpha(h, c) > c => SemanticMean(h, 10 * c) > Mean(h, "keyword", 10 * c)
         /\ RecommendedAlpha(h, c) < c => SemanticMean(h, 10 * c) < Mean(h, "keyword", 10 * c)
<1>0. c \in 200..800
  BY DEF Alphas
<1>1. PICK d \in Int : d = 10 * c
  BY <1>0
<1>2. Mean(h, "keyword", d) \in Int /\ SemanticMean(h, d) \in Int
  BY MeansFacts
<1>3. PICK k \in Int, s \in Int : k = Mean(h, "keyword", d) /\ s = SemanticMean(h, d)
  BY <1>2
<1>4. Min({800, c + 100}) = IF 800 <= c + 100 THEN 800 ELSE c + 100
  <2>1. PICK a \in Int, b \in Int : a = 800 /\ b = c + 100
    BY <1>0
  <2>2. Min({a, b}) = IF a <= b THEN a ELSE b
    BY OfTwo
  <2> QED
    BY <2>1, <2>2
<1>5. Max({200, c - 100}) = IF 200 >= c - 100 THEN 200 ELSE c - 100
  <2>1. PICK a \in Int, b \in Int : a = 200 /\ b = c - 100
    BY <1>0
  <2>2. Max({a, b}) = IF a >= b THEN a ELSE b
    BY OfTwo
  <2> QED
    BY <2>1, <2>2
<1>6. Target(h, c) = IF s > k + 500 THEN Min({800, c + 100})
                     ELSE IF k > s + 500 THEN Max({200, c - 100}) ELSE c
  BY <1>1, <1>3 DEF Target
<1>60. PICK lo, hi : hi = Min({800, c + 100}) /\ lo = Max({200, c - 100})
  OBVIOUS
<1>601. hi = IF 800 <= c + 100 THEN 800 ELSE c + 100
  BY <1>4, <1>60
<1>602. lo = IF 200 >= c - 100 THEN 200 ELSE c - 100
  BY <1>5, <1>60
<1>61. lo \in 200..800 /\ hi \in 200..800 /\ lo <= c /\ c <= hi
  BY <1>0, <1>601, <1>602
<1>62. PICK x : x = Target(h, c)
  OBVIOUS
<1>63. x = IF s > k + 500 THEN hi ELSE IF k > s + 500 THEN lo ELSE c
  BY <1>6, <1>60, <1>62
<1>7. x \in 200..800 /\ (x > c => s > k) /\ (x < c => s < k)
  <2>1. CASE s > k + 500
    BY <1>0, <1>61, <1>63, <2>1
  <2>2. CASE ~(s > k + 500) /\ k > s + 500
    BY <1>0, <1>61, <1>63, <2>2
  <2>3. CASE ~(s > k + 500) /\ ~(k > s + 500)
    BY <1>0, <1>63, <2>3
  <2> QED
    BY <2>1, <2>2, <2>3
<1>8. PICK y : y = (7 * c + 3 * x + 5) \div 10
  OBVIOUS
<1>9. y \in 200..800 /\ (y > c => x > c) /\ (y < c => x < c)
  BY <1>0, <1>7, <1>8
<1> DEFINE z == RecommendedAlpha(h, c)
<1>10. z = c \/ z = y
  BY <1>62, <1>8 DEF RecommendedAlpha
<1> HIDE DEF z
<1>11. z \in 200..800 /\ (z > c => s > k) /\ (z < c => s < k)
  <2>1. CASE z = c
    BY <1>0, <2>1
  <2>2. CASE z = y
    BY <1>7, <1>9, <2>2
  <2> QED
    BY <1>10, <2>1, <2>2
<1> QED
  BY <1>1, <1>3, <1>11 DEF z, Alphas

\* What is recorded stays within the window.
LEMMA RecentFacts ==
  ASSUME NEW h \in Seq(Records)
  PROVE  Recent(h) \in Seq(Records) /\ Len(Recent(h)) <= Window
<1>1. PICK n \in Nat, w \in Nat : n = Len(h) /\ w = Window
  BY LearnerAssumption
<1>2. PICK b \in Int : b = n - w + 1
  OBVIOUS
<1>3. Max({1, b}) = IF 1 >= b THEN 1 ELSE b
  <2>1. PICK a \in Int : a = 1
    OBVIOUS
  <2>2. Max({a, b}) = IF a >= b THEN a ELSE b
    BY OfTwo
  <2> QED
    BY <2>1, <2>2
<1>4. PICK m \in Nat \ {0} : m = Max({1, b}) /\ m >= b
  BY <1>3
<1>5. Recent(h) = SubSeq(h, m, n)
  BY <1>1, <1>2, <1>4 DEF Recent
<1>6. \A i \in m..n : h[i] \in Records
  BY <1>1
<1>7. /\ SubSeq(h, m, n) \in Seq(Records)
      /\ Len(SubSeq(h, m, n)) = IF m <= n THEN n - m + 1 ELSE 0
  BY <1>6, SubSeqProperties
<1>8. Len(SubSeq(h, m, n)) <= w
  BY <1>2, <1>4, <1>7
<1> QED
  BY <1>1, <1>5, <1>7, <1>8

-----------------------------------------------------------------------------
(* The threads                                                             *)

\* The threads that search.
Busy(searches) == {t \in Threads : searches[t] # Idle}

\* One thread's search changes.
LEMMA OneChanges ==
  ASSUME NEW f, f = [u \in Threads |-> f[u]], NEW t \in Threads, NEW q,
         NEW g, g = [f EXCEPT ![t] = q]
  PROVE  g = [u \in Threads |-> g[u]] /\ \A u \in Threads : g[u] = IF u = t THEN q ELSE f[u]
OBVIOUS

\* How many threads are busy, when one of them changes.
LEMMA BusyFacts ==
  ASSUME NEW f, f = [u \in Threads |-> f[u]], NEW t \in Threads, NEW q,
         NEW g, g = [f EXCEPT ![t] = q]
  PROVE  /\ Cardinality(Busy(f)) \in Nat /\ Cardinality(Busy(g)) \in Nat
         /\ q # Idle /\ f[t] # Idle => Cardinality(Busy(g)) = Cardinality(Busy(f))
         /\ q # Idle /\ f[t] = Idle => Cardinality(Busy(g)) = Cardinality(Busy(f)) + 1
         /\ q = Idle /\ f[t] # Idle => Cardinality(Busy(g)) = Cardinality(Busy(f)) - 1
<1>1. \A u \in Threads : g[u] = IF u = t THEN q ELSE f[u]
  BY OneChanges
<1>2. IsFiniteSet(Threads)
  BY WorkloadsAssumption
<1>3. IsFiniteSet(Busy(f)) /\ IsFiniteSet(Busy(g))
  BY <1>2, FS_Subset DEF Busy
<1>4. Cardinality(Busy(f)) \in Nat /\ Cardinality(Busy(g)) \in Nat
  BY <1>3, FS_CardinalityType
<1>5. ASSUME q # Idle, f[t] # Idle PROVE Busy(g) = Busy(f)
  BY <1>1, <1>5 DEF Busy
<1>6. ASSUME q # Idle, f[t] = Idle PROVE Cardinality(Busy(g)) = Cardinality(Busy(f)) + 1
  <2>1. Busy(g) = Busy(f) \cup {t} /\ t \notin Busy(f)
    BY <1>1, <1>6 DEF Busy
  <2> QED
    BY <1>3, <2>1, FS_AddElement
<1>7. ASSUME q = Idle, f[t] # Idle PROVE Cardinality(Busy(g)) = Cardinality(Busy(f)) - 1
  <2>1. Busy(g) = Busy(f) \ {t} /\ t \in Busy(f)
    BY <1>1, <1>7 DEF Busy
  <2> QED
    BY <1>3, <2>1, FS_RemoveElement
<1> QED
  BY <1>4, <1>5, <1>6, <1>7

\* How many are busy, when the search of one of them ends.
LEMMA SearchEnds ==
  ASSUME NEW f, f = [u \in Threads |-> f[u]], NEW t \in Threads, f[t] # Idle,
         NEW g, g = [f EXCEPT ![t] = Idle]
  PROVE  /\ Cardinality(Busy(f)) \in Nat /\ Cardinality(Busy(g)) \in Nat
         /\ Cardinality(Busy(g)) = Cardinality(Busy(f)) - 1
<1>1. PICK q : q = Idle
  OBVIOUS
<1>2. g = [f EXCEPT ![t] = q]
  BY <1>1
<1>3. /\ Cardinality(Busy(f)) \in Nat /\ Cardinality(Busy(g)) \in Nat
      /\ q = Idle /\ f[t] # Idle => Cardinality(Busy(g)) = Cardinality(Busy(f)) - 1
  BY <1>2, BusyFacts
<1> QED
  BY <1>1, <1>3

\* The searches stay what they are.
LEMMA SearchesStep ==
  ASSUME SearchesOK, Stepped
  PROVE  SearchesOK'
<1>1. ASSUME NEW t \in Threads, NEW q, IsSearch(q), run' = [run EXCEPT ![t] = q],
             active' \in Seq(Terms), work' = work
      PROVE  SearchesOK'
  <2>1. PICK f, g : f = run /\ g = run'
    OBVIOUS
  <2>2. f = [u \in Threads |-> f[u]] /\ g = [f EXCEPT ![t] = q]
    BY <1>1, <2>1 DEF SearchesOK
  <2>3. g = [u \in Threads |-> g[u]] /\ \A u \in Threads : g[u] = IF u = t THEN q ELSE f[u]
    BY <2>2, OneChanges
  <2>4. \A u \in Threads : IsSearch(g[u])
    BY <1>1, <2>1, <2>3 DEF SearchesOK
  <2> QED
    BY <1>1, <2>1, <2>3, <2>4 DEF SearchesOK
<1>2. ASSUME NEW t, NEW q, Moves(t, q) PROVE SearchesOK'
  <2>1. /\ t \in Threads /\ IsSearch(q) /\ run' = [run EXCEPT ![t] = q]
        /\ active' \in Seq(Terms) /\ work' = work
    BY <1>2 DEF Moves, Goes
  <2> QED
    BY <1>1, <2>1
<1>3. ASSUME NEW t, NEW result, Answers(t, result) PROVE SearchesOK'
  <2>1. PICK q : q = Idle
    OBVIOUS
  <2>2. t \in Threads /\ run' = [run EXCEPT ![t] = q] /\ active' = active /\ work' = work
    BY <1>3, <2>1 DEF Answers, Conclude
  <2>3. active' \in Seq(Terms) /\ IsSearch(q)
    BY <2>1, <2>2, IdleSearch DEF SearchesOK
  <2> QED
    BY <1>1, <2>2, <2>3
<1>4. ASSUME NEW t, Stops(t) PROVE SearchesOK'
  <2>1. PICK q : q = Idle
    OBVIOUS
  <2>2. /\ t \in Threads /\ run' = [run EXCEPT ![t] = q] /\ work' = work
        /\ active' = <<>> \/ active' = active
    BY <1>4, <2>1 DEF Stops, CutShort, Goes
  <2>3. active' \in Seq(Terms)
    <3>1. CASE active' = <<>>
      BY <3>1
    <3>2. CASE active' = active
      BY <3>2 DEF SearchesOK
    <3> QED
      BY <2>2, <3>1, <3>2
  <2>4. IsSearch(q)
    BY <2>1, IdleSearch
  <2> QED
    BY <1>1, <2>2, <2>3, <2>4
<1>5. ASSUME NEW t, Learns(t) PROVE SearchesOK'
  <2>1. work' = work /\ run' = run /\ active' = active
    BY <1>5 DEF Learns, Consider, Adapt
  <2> QED
    BY <2>1 DEF SearchesOK
<1> QED
  BY <1>2, <1>3, <1>4, <1>5 DEF Stepped, Moved, Answered, Stopped, Taught

-----------------------------------------------------------------------------
(* The queries of the reranks                                              *)

\* The queries of the reranks under way.
Held(searches) == {searches[t].ask.query : t \in {u \in Threads : HoldsQuery(searches[u])}}

\* OnlyCutReranksLeaveTheirQuery by these.
LEMMA QueriesAre ==
  OnlyCutReranksLeaveTheirQuery <=>
    /\ active \in {<<>>} \cup Held(run) \cup abandoned
    /\ abandoned # {} => Workloads[work].database
BY DEF OnlyCutReranksLeaveTheirQuery, Reranking, HoldsQuery, Held

\* The shared query is that of a rerank that holds it or was cut short.
LEMMA QuietStep ==
  ASSUME SearchesOK, OnlyCutReranksLeaveTheirQuery, Stepped
  PROVE  OnlyCutReranksLeaveTheirQuery'
<1>0. /\ active \in {<<>>} \cup Held(run) \cup abandoned
      /\ abandoned # {} => Workloads[work].database
  BY QueriesAre
<1> DEFINE Good == /\ active' \in {<<>>} \cup Held(run') \cup abandoned'
                   /\ abandoned' # {} => Workloads[work'].database
<1>1. ASSUME NEW t \in Threads, NEW q, run' = [run EXCEPT ![t] = q],
             work' = work, TreatsQuery(run[t], q)
      PROVE  Good
  <2>1. PICK f, g : f = run /\ g = run'
    OBVIOUS
  <2>2. f = [u \in Threads |-> f[u]] /\ g = [f EXCEPT ![t] = q]
    BY <1>1, <2>1 DEF SearchesOK
  <2>3. \A u \in Threads : g[u] = IF u = t THEN q ELSE f[u]
    BY <2>2, OneChanges
  <2>4. CASE active' = q.ask.query /\ HoldsQuery(q) /\ abandoned' = abandoned
    <3>1. g[t] = q
      BY <2>3
    <3>2. q.ask.query \in Held(g)
      BY <2>4, <3>1 DEF Held
    <3> QED
      BY <1>0, <1>1, <2>1, <2>4, <3>2
  <2>5. CASE active' = <<>> /\ abandoned' = {}
    BY <2>5
  <2>6. CASE /\ active' = active /\ abandoned' = abandoned
             /\ HoldsQuery(run[t]) => HoldsQuery(q) /\ q.ask = run[t].ask
    <3>1. ASSUME NEW u \in Threads, HoldsQuery(f[u])
          PROVE  HoldsQuery(g[u]) /\ g[u].ask = f[u].ask
      BY <2>1, <2>3, <2>6, <3>1
    <3>2. Held(f) \subseteq Held(g)
      BY <3>1 DEF Held
    <3> QED
      BY <1>0, <1>1, <2>1, <2>6, <3>2
  <2> QED
    BY <1>1, <2>4, <2>5, <2>6 DEF TreatsQuery
<1>2. ASSUME NEW t, NEW q, Moves(t, q) PROVE Good
  BY <1>1, <1>2 DEF Moves, Goes
<1>3. ASSUME NEW t, NEW result, Answers(t, result) PROVE Good
  <2>1. PICK q : q = Idle
    OBVIOUS
  <2>2. /\ t \in Threads /\ run' = [run EXCEPT ![t] = q] /\ work' = work
        /\ active' = active /\ abandoned' = abandoned /\ ~HoldsQuery(run[t])
    BY <1>3, <2>1 DEF Answers, Conclude
  <2>3. TreatsQuery(run[t], q)
    BY <2>2 DEF TreatsQuery
  <2> QED
    BY <1>1, <2>2, <2>3
<1>4. ASSUME NEW t, Stops(t) PROVE Good
  <2>1. PICK q : q = Idle
    OBVIOUS
  <2>2. /\ t \in Threads /\ run' = [run EXCEPT ![t] = q] /\ work' = work
        /\ Workloads[work].database
        /\ active' = IF run[t].stage = "semantic" THEN <<>> ELSE active
        /\ abandoned' = IF run[t].stage = "semantic" THEN {}
                        ELSE abandoned \cup {p \in {run[t].ask.query} : run[t].stage = "keyword"}
    BY <1>4, <2>1 DEF Stops, CutShort, Goes
  <2>3. CASE HoldsQuery(run[t]) /\ run[t].stage # "semantic"
    <3>1. PICK f, g : f = run /\ g = run'
      OBVIOUS
    <3>2. f = [u \in Threads |-> f[u]] /\ g = [f EXCEPT ![t] = q]
      BY <2>2, <3>1 DEF SearchesOK
    <3>3. \A u \in Threads : g[u] = IF u = t THEN q ELSE f[u]
      BY <2>2, <3>2, OneChanges
    <3>4. active' = active /\ abandoned' = abandoned \cup {f[t].ask.query}
      BY <2>2, <2>3, <3>1 DEF HoldsQuery
    <3>5. ASSUME NEW u \in Threads, HoldsQuery(f[u])
          PROVE  f[u].ask.query \in Held(g) \cup {f[t].ask.query}
      BY <3>3, <3>5 DEF Held
    <3>6. Held(f) \subseteq Held(g) \cup {f[t].ask.query}
      BY <3>5 DEF Held
    <3> QED
      BY <1>0, <2>2, <3>1, <3>4, <3>6
  <2>4. CASE ~HoldsQuery(run[t]) \/ run[t].stage = "semantic"
    <3>1. TreatsQuery(run[t], q)
      BY <2>2, <2>4 DEF TreatsQuery, HoldsQuery
    <3> QED
      BY <1>1, <2>2, <3>1
  <2> QED
    BY <2>3, <2>4
<1>5. ASSUME NEW t, Learns(t) PROVE Good
  <2>1. work' = work /\ run' = run /\ active' = active /\ abandoned' = abandoned
    BY <1>5 DEF Learns, Consider, Adapt
  <2> QED
    BY <1>0, <2>1
<1>6. Good
  BY <1>2, <1>3, <1>4, <1>5 DEF Stepped, Moved, Answered, Stopped, Taught
<1>7. OnlyCutReranksLeaveTheirQuery' <=> Good
  BY DEF OnlyCutReranksLeaveTheirQuery, Reranking, HoldsQuery, Held
<1> QED
  BY <1>6, <1>7

-----------------------------------------------------------------------------
(* The learner                                                             *)

\* What an answer leaves behind, for the learner.
LEMMA AnswerLeaves ==
  ASSUME SearchesOK, NEW t, NEW result, Answers(t, result)
  PROVE  /\ last' = result
         /\ result.ask.store \in StoreNames /\ <<result.ask.mode, result.confidence>> \in Records
<1>1. t \in Threads /\ run[t] # Idle /\ IsAnswer(run[t], result) /\ last' = result
  BY DEF Answers, Conclude
<1>2. result.ask = run[t].ask /\ Sound(result)
  BY <1>1 DEF IsAnswer, Right
<1>3. IsSearch(run[t])
  BY <1>1 DEF SearchesOK
<1>4. run[t].ask \in Asked
  BY <1>1, <1>3, GoingFacts
<1>5. result.ask.store \in StoreNames /\ result.ask.mode \in Modes
  BY <1>2, <1>4, AskedFacts
<1>6. <<result.ask.mode, result.confidence>> \in Records
  <2>1. ASSUME NEW A, NEW B, NEW a \in A, NEW b \in B PROVE <<a, b>> \in A \X B
    OBVIOUS
  <2>2. result.confidence \in Percentages
    BY <1>2, PercentageIs DEF Sound
  <2>3. Records = Modes \X Percentages
    BY DEF Records
  <2> QED
    BY <1>5, <2>1, <2>2, <2>3
<1> QED
  BY <1>1, <1>5, <1>6

\* What an answer leaves to the learner.
Told(t, store, h) ==
  /\ history' = [history EXCEPT ![store] = h] /\ total' = total + 1
  /\ \E l : l \in Learnings /\ l.step = "recorded" /\ learns' = [learns EXCEPT ![t] = l]

\* It records for one store.
TellsOf(t, store, h) == store \in StoreNames /\ h \in Seq(Records) /\ Len(h) <= Window /\ Told(t, store, h)

\* An answer is recorded, or not.
LEMMA AnswerTells ==
  ASSUME SearchesOK, LearnerOK, NEW t, NEW result, Answers(t, result)
  PROVE  UNCHANGED <<history, total, learns>> \/ \E store, h : TellsOf(t, store, h)
<1>1. /\ last' = result
      /\ result.ask.store \in StoreNames /\ <<result.ask.mode, result.confidence>> \in Records
  BY AnswerLeaves
<1>2. CASE Recorded(result.ask)
  <2> DEFINE store == result.ask.store
             new == <<result.ask.mode, result.confidence>>
             h == Recent(Append(history[store], new))
             l == [step |-> "recorded", store |-> store, current |-> 0]
  <2>1. Record(t, result)
    BY <1>1, <1>2 DEF Answers, Conclude
  <2>2. /\ history' = [history EXCEPT ![store] = h] /\ total' = total + 1
        /\ learns' = [learns EXCEPT ![t] = l]
    BY <2>1 DEF Record
  <2>3. store \in StoreNames /\ history[store] \in Seq(Records) /\ new \in Records
    BY <1>1 DEF LearnerOK
  <2>4. l \in Learnings /\ l.step = "recorded"
    BY <1>1 DEF Learnings
  <2> HIDE DEF new, store, l
  <2>5. Append(history[store], new) \in Seq(Records)
    BY <2>3
  <2>6. h \in Seq(Records) /\ Len(h) <= Window
    BY <2>5, RecentFacts
  <2> HIDE DEF h
  <2>7. TellsOf(t, store, h)
    BY <2>2, <2>3, <2>4, <2>6 DEF TellsOf, Told
  <2> QED
    BY <2>7
<1>3. CASE ~Recorded(result.ask)
  BY <1>1, <1>3 DEF Answers, Conclude
<1> QED
  BY <1>2, <1>3

\* The learner after it was told.
LEMMA ToldFacts ==
  ASSUME LearnerOK, NEW t \in Threads, NEW store, NEW h, TellsOf(t, store, h)
  PROVE  /\ history' \in [StoreNames -> Seq(Records)]
         /\ \A s \in StoreNames : Len(history'[s]) <= Window
         /\ learns' \in [Threads -> Learnings]
<1>1. store \in StoreNames /\ h \in Seq(Records) /\ Len(h) <= Window /\ Told(t, store, h)
  BY DEF TellsOf
<1>2. history' = [history EXCEPT ![store] = h] /\ history \in [StoreNames -> Seq(Records)]
  BY <1>1 DEF Told, LearnerOK
<1>3. history' \in [StoreNames -> Seq(Records)]
  BY <1>1, <1>2
<1>4. \A s \in StoreNames : history'[s] = IF s = store THEN h ELSE history[s]
  BY <1>1, <1>2
<1>5. \A s \in StoreNames : Len(history'[s]) <= Window
  BY <1>1, <1>4 DEF LearnerOK
<1>6. learns' \in [Threads -> Learnings]
  <2>1. PICK l : l \in Learnings /\ learns' = [learns EXCEPT ![t] = l]
    BY <1>1 DEF Told
  <2>2. learns \in [Threads -> Learnings]
    BY DEF LearnerOK
  <2> QED
    BY <2>1, <2>2
<1> QED
  BY <1>3, <1>5, <1>6

\* What a thread adapts is the alpha of a store.
LEMMA AdaptingFacts ==
  ASSUME NEW l \in Learnings, l.step = "adapting"
  PROVE  l.store \in StoreNames /\ l.current \in Alphas
<1>1. Done.step = "none"
  BY DEF Done
<1>2. l \in [step : {"adapting"}, store : StoreNames, current : Alphas]
  BY <1>1 DEF Learnings
<1> QED
  BY <1>2

\* What a step of the learner does: it considers, or it adapts.
LEMMA LearnsFacts ==
  ASSUME SearchesOK, LearnerOK, NEW t, Learns(t)
  PROVE  /\ t \in Threads
         /\ work' = work /\ run' = run /\ active' = active /\ abandoned' = abandoned
         /\ history' = history /\ total' = total /\ last' = last
         /\ \E l : /\ l \in Learnings /\ learns' = [learns EXCEPT ![t] = l]
                   /\ \/ /\ alpha' = alpha
                         /\ l.step = "adapting" => l.current = alpha[l.store]
                      \/ /\ learns[t].step = "adapting" /\ l.step = "none"
                         /\ LET store == learns[t].store
                                current == learns[t].current
                            IN  /\ store \in StoreNames /\ current \in Alphas
                                /\ alpha' = [alpha EXCEPT ![store] = RecommendedAlpha(history[store], current)]
<1>1. t \in Threads
  BY DEF Learns, SearchesOK, Threads
<1>2. learns[t] \in Learnings /\ Done \in Learnings /\ Done.step = "none"
  BY <1>1 DEF LearnerOK, Learnings, Done
<1>3. /\ work' = work /\ run' = run /\ active' = active /\ abandoned' = abandoned
      /\ history' = history /\ total' = total /\ last' = last
  BY DEF Learns, Consider, Adapt
<1>4. CASE Consider(t)
  <2>1. alpha' = alpha /\ learns[t].step = "recorded"
    BY <1>4 DEF Consider
  <2>2. CASE total % AdaptEvery = 0
    <3> DEFINE l == [learns[t] EXCEPT !.step = "adapting", !.current = alpha[learns[t].store]]
    <3>1. learns' = [learns EXCEPT ![t] = l]
      BY <1>2, <1>4, <2>2 DEF Consider
    <3>2. learns[t] \in [step : {"recorded"}, store : StoreNames, current : {0}]
      BY <1>2, <2>1 DEF Learnings
    <3>3. learns[t].store \in StoreNames /\ alpha[learns[t].store] \in Alphas
      BY <3>2 DEF LearnerOK
    <3>4. l \in [step : {"adapting"}, store : StoreNames, current : Alphas] /\ l.current = alpha[l.store]
      BY <3>2, <3>3
    <3>5. l \in Learnings
      BY <3>4 DEF Learnings
    <3> HIDE DEF l
    <3> QED
      BY <1>1, <1>3, <2>1, <3>1, <3>4, <3>5
  <2>3. CASE total % AdaptEvery # 0
    <3>1. learns' = [learns EXCEPT ![t] = Done]
      BY <1>4, <2>3 DEF Consider
    <3> QED
      BY <1>1, <1>2, <1>3, <2>1, <3>1
  <2> QED
    BY <2>2, <2>3
<1>5. CASE Adapt(t)
  <2> DEFINE store == learns[t].store
             current == learns[t].current
             new == RecommendedAlpha(history[store], current)
  <2>1. /\ learns[t].step = "adapting" /\ learns' = [learns EXCEPT ![t] = Done]
        /\ alpha' = IF new = current THEN alpha ELSE [alpha EXCEPT ![store] = new]
    BY <1>5 DEF Adapt
  <2>2. store \in StoreNames /\ current \in Alphas
    BY <1>2, <2>1, AdaptingFacts
  <2> HIDE DEF store, current, new
  <2>3. CASE new = current
    BY <1>1, <1>2, <1>3, <2>1, <2>3
  <2>4. CASE new # current
    BY <1>1, <1>2, <1>3, <2>1, <2>2, <2>4 DEF store, current, new
  <2> QED
    BY <2>3, <2>4
<1> QED
  BY <1>4, <1>5 DEF Learns

\* The alphas stay in their range.
LEMMA AlphaStep ==
  ASSUME LearnerOK, NEW store \in StoreNames, NEW current \in Alphas,
         alpha' = [alpha EXCEPT ![store] = RecommendedAlpha(history[store], current)]
  PROVE  alpha' \in [StoreNames -> Alphas]
<1>1. history[store] \in Seq(Records)
  BY DEF LearnerOK
<1>2. RecommendedAlpha(history[store], current) \in Alphas
  BY <1>1, RecommendedFacts, ZenonT(60)
<1>3. alpha \in [StoreNames -> Alphas]
  BY DEF LearnerOK
<1> QED
  BY <1>2, <1>3

\* How many searches are on their way or recorded, when one of them ends.
LEMMA EndFacts ==
  ASSUME SearchesOK, LearnerOK, NEW t \in Threads, run[t] # Idle, run' = [run EXCEPT ![t] = Idle],
         work' = work, total' = total \/ total' = total + 1
  PROVE  (total \in Nat /\ total + Running <= Workloads[work].upto)'
<1>0. Workloads[work].upto \in Nat
  BY WorkloadsAssumption DEF SearchesOK
<1>1. PICK f, g : f = run /\ g = run'
  OBVIOUS
<1>2. f = [u \in Threads |-> f[u]] /\ g = [f EXCEPT ![t] = Idle] /\ f[t] # Idle
  BY <1>1 DEF SearchesOK
<1>3. PICK m, n : m = Cardinality(Busy(f)) /\ n = Cardinality(Busy(g))
  OBVIOUS
<1>4. m \in Nat /\ n \in Nat /\ n = m - 1
  BY <1>2, <1>3, SearchEnds
<1>5. Running = m /\ Running' = n
  BY <1>1, <1>3 DEF Running, Busy
<1>6. PICK k, l, upto : k = total /\ l = total' /\ upto = Workloads[work].upto
  OBVIOUS
<1>7. k \in Nat /\ upto \in Nat /\ k + m <= upto /\ (l = k \/ l = k + 1)
  BY <1>0, <1>5, <1>6 DEF LearnerOK
<1>8. l \in Nat /\ l + n <= upto
  BY <1>4, <1>7
<1> QED
  BY <1>5, <1>6, <1>8

\* The learner stays within its bounds.
LEMMA LearnerStep ==
  ASSUME SearchesOK, LearnerOK, Stepped
  PROVE  LearnerOK'
<1>0. Workloads[work].upto \in Nat
  BY WorkloadsAssumption DEF SearchesOK
<1>1. ASSUME NEW t, NEW q, Moves(t, q) PROVE LearnerOK'
  <2>1. /\ t \in Threads /\ q # Idle /\ run' = [run EXCEPT ![t] = q]
        /\ work' = work /\ history' = history /\ total' = total /\ alpha' = alpha /\ learns' = learns
        /\ run[t] = Idle => total + Running < Workloads[work].upto
    BY <1>1 DEF Moves, Goes
  <2>2. PICK f, g : f = run /\ g = run'
    OBVIOUS
  <2>3. f = [u \in Threads |-> f[u]] /\ g = [f EXCEPT ![t] = q]
    BY <2>1, <2>2 DEF SearchesOK
  <2>4. PICK m, n : m = Cardinality(Busy(f)) /\ n = Cardinality(Busy(g))
    OBVIOUS
  <2>5. m \in Nat /\ n \in Nat /\ n = IF f[t] = Idle THEN m + 1 ELSE m
    BY <2>1, <2>3, <2>4, BusyFacts
  <2>6. Running = m /\ Running' = n
    BY <2>2, <2>4 DEF Running, Busy
  <2>7. PICK k, upto : k = total /\ upto = Workloads[work].upto
    OBVIOUS
  <2>8. k \in Nat /\ upto \in Nat /\ k + m <= upto /\ (f[t] = Idle => k + m < upto)
    BY <1>0, <2>1, <2>2, <2>6, <2>7 DEF LearnerOK
  <2>9. k + n <= upto
    BY <2>5, <2>8
  <2>10. (total + Running <= Workloads[work].upto)'
    BY <2>1, <2>6, <2>7, <2>9
  <2> QED
    BY <2>1, <2>10 DEF LearnerOK
<1>2. ASSUME NEW t, NEW result, Answers(t, result) PROVE LearnerOK'
  <2>1. /\ t \in Threads /\ run' = [run EXCEPT ![t] = Idle] /\ run[t] # Idle
        /\ work' = work /\ alpha' = alpha
    BY <1>2 DEF Answers, Conclude
  <2>2. UNCHANGED <<history, total, learns>> \/ \E store, h : TellsOf(t, store, h)
    BY <1>2, AnswerTells
  <2>3. total' = total \/ total' = total + 1
    BY <2>2 DEF TellsOf, Told
  <2>4. (total \in Nat /\ total + Running <= Workloads[work].upto)'
    BY <2>1, <2>3, EndFacts
  <2>5. /\ history' \in [StoreNames -> Seq(Records)]
        /\ \A s \in StoreNames : Len(history'[s]) <= Window
        /\ learns' \in [Threads -> Learnings]
    <3>1. CASE UNCHANGED <<history, total, learns>>
      BY <3>1 DEF LearnerOK
    <3>2. ASSUME NEW store, NEW h, TellsOf(t, store, h)
          PROVE  /\ history' \in [StoreNames -> Seq(Records)]
                 /\ \A s \in StoreNames : Len(history'[s]) <= Window
                 /\ learns' \in [Threads -> Learnings]
      BY <2>1, <3>2, ToldFacts
    <3> QED
      BY <2>2, <3>1, <3>2
  <2>6. alpha' \in [StoreNames -> Alphas]
    BY <2>1 DEF LearnerOK
  <2> QED
    BY <2>4, <2>5, <2>6 DEF LearnerOK
<1>3. ASSUME NEW t, Stops(t) PROVE LearnerOK'
  <2>1. /\ t \in Threads /\ run' = [run EXCEPT ![t] = Idle] /\ run[t] # Idle /\ work' = work
        /\ history' = history /\ total' = total /\ alpha' = alpha /\ learns' = learns
    BY <1>3 DEF Stops, CutShort, Goes
  <2>2. (total \in Nat /\ total + Running <= Workloads[work].upto)'
    BY <2>1, EndFacts
  <2> QED
    BY <2>1, <2>2 DEF LearnerOK
<1>4. ASSUME NEW t, Learns(t) PROVE LearnerOK'
  <2>1. /\ t \in Threads /\ work' = work /\ run' = run /\ history' = history /\ total' = total
    BY <1>4, LearnsFacts
  <2>2. PICK l : /\ l \in Learnings /\ learns' = [learns EXCEPT ![t] = l]
                 /\ \/ alpha' = alpha
                    \/ LET store == learns[t].store
                           current == learns[t].current
                       IN  /\ store \in StoreNames /\ current \in Alphas
                           /\ alpha' = [alpha EXCEPT ![store] = RecommendedAlpha(history[store], current)]
    BY <1>4, LearnsFacts
  <2>3. learns' \in [Threads -> Learnings]
    BY <2>1, <2>2 DEF LearnerOK
  <2>4. alpha' \in [StoreNames -> Alphas]
    <3>1. CASE alpha' = alpha
      BY <3>1 DEF LearnerOK
    <3>2. CASE alpha' # alpha
      BY <2>2, <3>2, AlphaStep
    <3> QED
      BY <3>1, <3>2
  <2>5. Running' = Running
    BY <2>1 DEF Running
  <2> QED
    BY <2>1, <2>3, <2>4, <2>5 DEF LearnerOK
<1> QED
  BY <1>1, <1>2, <1>3, <1>4 DEF Stepped, Moved, Answered, Stopped, Taught

\* A thread on its own still adapts the alpha there is.
LEMMA AloneStep ==
  ASSUME SearchesOK, LearnerOK, AloneOK, Stepped
  PROVE  AloneOK'
<1>0. ASSUME NEW u \in Workloads[work].threads, Alone(u), learns[u].step = "adapting"
      PROVE  learns[u].current = alpha[learns[u].store]
  BY <1>0 DEF AloneOK, CurrentIsAlpha
<1>1. SUFFICES ASSUME NEW u, u \in Workloads[work'].threads, Alone(u)', learns'[u].step = "adapting"
               PROVE  learns'[u].current = alpha'[learns'[u].store]
  BY DEF AloneOK, CurrentIsAlpha
<1>2. work' = work
  BY DEF Stepped, Moved, Answered, Stopped, Taught, Moves, Answers, Stops, Learns,
         Goes, Conclude, CutShort, Consider, Adapt
<1>3. u \in Workloads[work].threads /\ Alone(u) /\ u \in Threads
  BY <1>1, <1>2 DEF Alone, SearchesOK, Threads
<1>4. ASSUME alpha' = alpha, learns' = learns
      PROVE  learns'[u].current = alpha'[learns'[u].store]
  BY <1>0, <1>1, <1>3, <1>4
<1>5. ASSUME NEW t, NEW q, Moves(t, q) PROVE alpha' = alpha /\ learns' = learns
  BY <1>5 DEF Moves, Goes
<1>6. ASSUME NEW t, Stops(t) PROVE alpha' = alpha /\ learns' = learns
  BY <1>6 DEF Stops, CutShort, Goes
<1>7. ASSUME NEW t, NEW result, Answers(t, result)
      PROVE  learns'[u].current = alpha'[learns'[u].store]
  <2>1. alpha' = alpha /\ t \in Threads
    BY <1>7 DEF Answers, Conclude
  <2>2. UNCHANGED <<history, total, learns>> \/ \E store, h : TellsOf(t, store, h)
    BY <1>7, AnswerTells
  <2>3. CASE learns' = learns
    BY <1>4, <2>1, <2>3
  <2>4. ASSUME NEW store, NEW h, TellsOf(t, store, h) PROVE learns'[u] = learns[u]
    <3>1. PICK l : l.step = "recorded" /\ learns' = [learns EXCEPT ![t] = l]
      BY <2>4 DEF TellsOf, Told
    <3>2. learns'[t] = l /\ \A v \in Threads \ {t} : learns'[v] = learns[v]
      BY <2>1, <3>1 DEF LearnerOK
    <3>3. u # t
      BY <1>1, <3>1, <3>2
    <3> QED
      BY <1>3, <3>2, <3>3
  <2> QED
    BY <1>0, <1>1, <1>3, <2>1, <2>2, <2>3, <2>4
<1>8. ASSUME NEW t, Learns(t) PROVE learns'[u].current = alpha'[learns'[u].store]
  <2>1. t = u
    BY <1>3, <1>8 DEF Learns, Alone
  <2>2. PICK l : /\ l \in Learnings /\ learns' = [learns EXCEPT ![t] = l]
                 /\ \/ /\ alpha' = alpha
                       /\ l.step = "adapting" => l.current = alpha[l.store]
                    \/ l.step = "none"
    BY <1>8, LearnsFacts
  <2>3. learns'[u] = l
    BY <1>3, <2>1, <2>2 DEF LearnerOK
  <2> QED
    BY <1>1, <2>2, <2>3
<1> QED
  BY <1>4, <1>5, <1>6, <1>7, <1>8 DEF Stepped, Moved, Answered, Stopped, Taught

\* The answer that was last given.
LastOK == Right(last) /\ (ClustersAreFiles => TitleLeads(last))

\* Answers stay right.
LEMMA LastStep ==
  ASSUME LastOK, Stepped
  PROVE  LastOK'
<1>1. ASSUME NEW t, NEW q, Moves(t, q) PROVE last' = last
  BY <1>1 DEF Moves, Goes
<1>2. ASSUME NEW t, NEW result, Answers(t, result)
      PROVE  /\ last' = result /\ Right(result) /\ (ClustersAreFiles => TitleLeads(result))
  BY <1>2 DEF Answers, Conclude, IsAnswer
<1>20. ASSUME NEW t, Stops(t) \/ Learns(t) PROVE last' = last
  BY <1>20 DEF Stops, CutShort, Goes, Learns, Consider, Adapt
<1>3. \/ last' = last
      \/ \E result : last' = result /\ Right(result) /\ (ClustersAreFiles => TitleLeads(result))
  BY <1>1, <1>2, <1>20 DEF Stepped, Moved, Answered, Stopped, Taught
<1>4. Right(last') /\ (ClustersAreFiles => TitleLeads(last'))
  BY <1>3 DEF LastOK
<1> QED
  BY <1>4 DEF LastOK

-----------------------------------------------------------------------------
(* The invariant                                                           *)

\* The inductive invariant.
LocalSearchOK == SearchesOK /\ LearnerOK /\ AloneOK /\ OnlyCutReranksLeaveTheirQuery /\ LastOK

\* It holds at first,
LEMMA InitOK ==
  ASSUME Init
  PROVE  LocalSearchOK
<1>1. /\ work \in DOMAIN Workloads /\ run = [t \in Threads |-> Idle] /\ active = <<>>
      /\ abandoned = {} /\ learns = [t \in Threads |-> Done]
      /\ history = [s \in StoreNames |-> <<>>] /\ total = 0 /\ alpha = [s \in StoreNames |-> 500]
      /\ last = Result(NoAsk, <<>>, 0, FALSE, FALSE, Unranked)
  BY DEF Init
<1>2. SearchesOK
  <2>1. PICK idle : idle = Idle
    OBVIOUS
  <2>2. run = [t \in Threads |-> idle]
    BY <1>1, <2>1
  <2>3. run = [t \in Threads |-> run[t]] /\ \A t \in Threads : run[t] = idle
    BY <2>2
  <2>4. \A t \in Threads : IsSearch(run[t])
    BY <2>1, <2>3, IdleSearch
  <2>5. active \in Seq(Terms)
    BY <1>1
  <2> QED
    BY <1>1, <2>3, <2>4, <2>5 DEF SearchesOK
<1>3. LearnerOK
  <2>1. alpha \in [StoreNames -> Alphas]
    BY <1>1 DEF Alphas
  <2>2. history \in [StoreNames -> Seq(Records)] /\ \A s \in StoreNames : Len(history[s]) = 0
    BY <1>1
  <2>3. \A s \in StoreNames : Len(history[s]) <= Window
    BY <2>2, LearnerAssumption
  <2>4. {t \in Threads : run[t] # Idle} = {}
    BY <1>1
  <2>5. Running = 0
    BY <2>4, FS_EmptySet DEF Running
  <2>6. Workloads[work].upto \in Nat
    BY <1>1, WorkloadsAssumption
  <2>7. total \in Nat /\ total + Running <= Workloads[work].upto
    BY <1>1, <2>5, <2>6
  <2>8. learns \in [Threads -> Learnings]
    BY <1>1 DEF Learnings
  <2> QED
    BY <2>1, <2>2, <2>3, <2>7, <2>8 DEF LearnerOK
<1>30. AloneOK
  <2>1. ASSUME NEW t \in Workloads[work].threads PROVE learns[t].step = "none"
    BY <1>1 DEF Threads, Done
  <2> QED
    BY <2>1 DEF AloneOK, CurrentIsAlpha
<1>4. OnlyCutReranksLeaveTheirQuery
  BY <1>1 DEF OnlyCutReranksLeaveTheirQuery
<1>5. LastOK
  <2>1. /\ last.ask = NoAsk /\ last.sources = Upto(MaxSources, <<>>) /\ last.confidence = 0
        /\ last.ranked = Unranked
    BY <1>1 DEF Result
  <2>2. Upto(MaxSources, <<>>) = <<>>
    <3>1. MaxSources \in Nat /\ <<>> \in Seq({}) /\ Len(<<>>) = 0
      BY RankingAssumption
    <3>2. /\ Upto(MaxSources, <<>>) \in Seq({})
          /\ Len(Upto(MaxSources, <<>>)) = IF MaxSources <= Len(<<>>) THEN MaxSources ELSE Len(<<>>)
      BY <3>1, UptoFacts
    <3>3. Len(Upto(MaxSources, <<>>)) = 0
      BY <3>1, <3>2
    <3> QED
      BY <3>2, <3>3
  <2>3. Percentage(last.confidence)
    BY <2>1 DEF Percentage
  <2>4. Sound(last)
    <3>1. last.sources = <<>>
      BY <2>1, <2>2
    <3>2. MaxSources \in Nat
      BY RankingAssumption
    <3> QED
      BY <2>3, <3>1, <3>2 DEF Sound
  <2>5. Right(last)
    BY <2>1, <2>4, UnrankedRight
  <2>6. TitleLeads(last)
    <3>1. NoAsk.mode = "none"
      BY DEF NoAsk
    <3>2. last.ask = NoAsk
      BY <2>1
    <3> QED
      BY <3>1, <3>2 DEF TitleLeads
  <2> QED
    BY <2>5, <2>6 DEF LastOK
<1> QED
  BY <1>2, <1>3, <1>30, <1>4, <1>5 DEF LocalSearchOK

\* and every step keeps it.
LEMMA NextOK ==
  ASSUME LocalSearchOK, [Next]_vars
  PROVE  LocalSearchOK'
<1>0. SearchesOK /\ LearnerOK /\ AloneOK /\ OnlyCutReranksLeaveTheirQuery /\ LastOK
  BY DEF LocalSearchOK
<1>1. CASE Next
  <2>1. Stepped
    BY <1>0, <1>1, StepIs
  <2>2. SearchesOK'
    BY <1>0, <2>1, SearchesStep
  <2>3. LearnerOK'
    BY <1>0, <2>1, LearnerStep
  <2>4. AloneOK'
    BY <1>0, <2>1, AloneStep
  <2>5. OnlyCutReranksLeaveTheirQuery'
    BY <1>0, <2>1, QuietStep
  <2>6. LastOK'
    BY <1>0, <2>1, LastStep
  <2> QED
    BY <2>2, <2>3, <2>4, <2>5, <2>6 DEF LocalSearchOK
<1>2. CASE UNCHANGED vars
  <2>1. /\ work' = work /\ run' = run /\ active' = active /\ abandoned' = abandoned
        /\ history' = history /\ total' = total /\ alpha' = alpha /\ learns' = learns
        /\ last' = last
    BY <1>2 DEF vars
  <2>2. SearchesOK'
    BY <1>0, <2>1 DEF SearchesOK
  <2>3. LearnerOK'
    BY <1>0, <2>1 DEF LearnerOK, Running
  <2>4. AloneOK'
    BY <1>0, <2>1 DEF AloneOK, CurrentIsAlpha, Alone
  <2>5. OnlyCutReranksLeaveTheirQuery'
    BY <1>0, <2>1 DEF OnlyCutReranksLeaveTheirQuery, Reranking
  <2>6. LastOK'
    BY <1>0, <2>1 DEF LastOK
  <2> QED
    BY <2>2, <2>3, <2>4, <2>5, <2>6 DEF LocalSearchOK
<1> QED
  BY <1>1, <1>2

\* Every search is where the code can have it, with what it was given there;
\* the learner is within its bounds; the last answer is right.
THEOREM LocalSearchInvariant == Spec => []LocalSearchOK
<1>1. Init => LocalSearchOK
  BY InitOK
<1>2. LocalSearchOK /\ [Next]_vars => LocalSearchOK'
  BY NextOK
<1> QED
  BY <1>1, <1>2, PTL DEF Spec

\* However the searches of the threads interleave and a failing database cuts them
\* short, semantic hits are ranked with the query of a rerank under way or of
\* one that was cut short before it cleared it, and never with another's; and
\* none is left where no database fails.
THEOREM QueriesAreCleared == Spec => []OnlyCutReranksLeaveTheirQuery
<1>1. LocalSearchOK => OnlyCutReranksLeaveTheirQuery
  BY SMTT(60) DEF LocalSearchOK
<1> QED
  BY <1>1, LocalSearchInvariant, PTL

\* Whatever the grid returned and however the answer was pieced together, its
\* sources are distinct rows of the store, though rows of one file may be two.
THEOREM SourcesAreOwn == Spec => []SourcesAreTheStoresOwn
<1>1. LocalSearchOK => SourcesAreTheStoresOwn
  <2> SUFFICES ASSUME LocalSearchOK PROVE SourcesAreTheStoresOwn
    OBVIOUS
  <2>1. Sound(last)
    BY DEF LocalSearchOK, LastOK, Right
  <2>2. last.confidence \in 0..10000
    <3>1. PICK confidence : confidence = last.confidence
      OBVIOUS
    <3>2. Percentage(last.confidence)
      BY <2>1 DEF Sound
    <3>3. Percentage(confidence)
      BY <3>1, <3>2, Zenon
    <3>4. confidence \in Percentages
      BY <3>3, PercentageIs
    <3> QED
      BY <3>1, <3>4 DEF Percentages
  <2>3. /\ Len(last.sources) <= MaxSources
        /\ \A i \in DOMAIN last.sources :
              /\ Resolves(last.ask, last.sources[i])
              /\ \A j \in DOMAIN last.sources : last.sources[i] = last.sources[j] => i = j
    BY <2>1, Zenon DEF Sound
  <2> QED
    BY <2>2, <2>3, SMTT(60) DEF SourcesAreTheStoresOwn
<1> QED
  BY <1>1, LocalSearchInvariant, PTL

\* TypeOK of the learner.
LEMMA LearnerTypes ==
  ASSUME SearchesOK, LearnerOK
  PROVE  TypeOK
<1>1. PICK f : f = run
  OBVIOUS
<1>2. IsFiniteSet(Busy(f))
  BY WorkloadsAssumption, FS_Subset DEF Busy
<1>3. Cardinality(Busy(f)) \in Nat
  BY <1>2, FS_CardinalityType
<1>4. PICK m, k, upto : m = Running /\ k = total /\ upto = Workloads[work].upto
  OBVIOUS
<1>5. m \in Nat
  BY <1>1, <1>3, <1>4 DEF Running, Busy
<1>6. k \in Nat /\ upto \in Nat /\ k + m <= upto
  BY <1>4, WorkloadsAssumption DEF LearnerOK, SearchesOK
<1>7. k \in 0..upto
  BY <1>5, <1>6
<1>8. total \in 0..Workloads[work].upto
  BY <1>4, <1>7
<1> QED
  BY <1>8 DEF TypeOK, LearnerOK, SearchesOK, Alphas

\* alpha stays in its range, the history in its window and the searches within
\* their number.
THEOREM LearnerTypeCorrect == Spec => []TypeOK
<1>1. LocalSearchOK => TypeOK
  BY LearnerTypes DEF LocalSearchOK
<1> QED
  BY <1>1, LocalSearchInvariant, PTL

\* The fused ranking keeps what its two rankings agree on, and a rerank whose
\* rankings disagree is flagged.
THEOREM FusionSound == Spec => []FusionIsSound
<1>1. LocalSearchOK => FusionIsSound
  <2> SUFFICES ASSUME LocalSearchOK PROVE FusionIsSound
    OBVIOUS
  <2>1. TypeOK
    BY LearnerTypes DEF LocalSearchOK
  <2>2. KeepsAgreement(last) /\ Flags(last)
    BY DEF LocalSearchOK, LastOK, Right
  <2>3. FusionKeepsAgreement
    BY <2>2 DEF KeepsAgreement, FusionKeepsAgreement
  <2>4. DisagreementIsFlagged
    BY <2>2 DEF Flags, DisagreementIsFlagged
  <2> QED
    BY <2>1, <2>3, <2>4 DEF FusionIsSound
<1> QED
  BY <1>1, LocalSearchInvariant, PTL

\* Where the documents of a cluster are the rows of one file, a query of four
\* letters or more that is a title finds a note so titled, in the semantic mode
\* and with a provider.  (The code's cluster is the lower-cased path: two files
\* whose paths differ in case only are one to it.)
THEOREM TitledNotesLead ==
  ASSUME ClustersAreFiles
  PROVE  Spec => []TitledNoteLeads
<1>1. LocalSearchOK => TitledNoteLeads
  BY DEF LocalSearchOK, LastOK, TitleLeads, TitledNoteLeads
<1> QED
  BY <1>1, LocalSearchInvariant, PTL

\* The recommended alpha follows the evidence.
LEMMA EvidenceFacts ==
  ASSUME NEW h \in Seq(Records), NEW c \in Alphas
  PROVE  Follows(h, c, RecommendedAlpha(h, c))
<1> DEFINE modes == {h[i][1] : i \in DOMAIN h}
<1>1. ASSUME "keyword" \in modes, modes \cap {"semantic", "hybrid"} # {}
      PROVE  /\ RecommendedAlpha(h, c) > c => SemanticMean(h, 0) > Mean(h, "keyword", 0)
             /\ RecommendedAlpha(h, c) < c => SemanticMean(h, 0) < Mean(h, "keyword", 0)
  <2>1. HasMode(h, "keyword") /\ (HasMode(h, "semantic") \/ HasMode(h, "hybrid"))
    BY <1>1 DEF HasMode
  <2>2. PICK d \in Int : d = 10 * c
    BY DEF Alphas
  <2>3. Mean(h, "keyword", d) = Mean(h, "keyword", 0) /\ SemanticMean(h, d) = SemanticMean(h, 0)
    BY <2>1, MeansFacts, SMTT(60)
  <2>4. /\ RecommendedAlpha(h, c) > c => SemanticMean(h, 10 * c) > Mean(h, "keyword", 10 * c)
        /\ RecommendedAlpha(h, c) < c => SemanticMean(h, 10 * c) < Mean(h, "keyword", 10 * c)
    BY RecommendedFacts, ZenonT(60)
  <2>5. /\ RecommendedAlpha(h, c) > c => SemanticMean(h, d) > Mean(h, "keyword", d)
        /\ RecommendedAlpha(h, c) < c => SemanticMean(h, d) < Mean(h, "keyword", d)
    BY <2>2, <2>4
  <2> QED
    BY <2>3, <2>5
<1> QED
  BY <1>1 DEF Follows

\* What AlphaFollowsEvidence says of one step.
Evident ==
  \A s \in StoreNames :
    alpha'[s] # alpha[s] =>
      \E t \in Workloads[work].threads :
         /\ Adapting(t, s) /\ Follows(history'[s], learns[t].current, alpha'[s])
         /\ Alone(t) => learns[t].current = alpha[s]

\* Every step is so.
LEMMA EvidenceStep ==
  ASSUME SearchesOK, LearnerOK, AloneOK, Stepped
  PROVE  Evident
<1>1. ASSUME NEW t, NEW q, Moves(t, q) PROVE alpha' = alpha
  BY <1>1 DEF Moves, Goes
<1>2. ASSUME NEW t, NEW result, Answers(t, result) PROVE alpha' = alpha
  BY <1>2 DEF Answers, Conclude
<1>3. ASSUME NEW t, Stops(t) PROVE alpha' = alpha
  BY <1>3 DEF Stops, CutShort, Goes
<1>4. CASE alpha' = alpha
  BY <1>4 DEF Evident
<1>5. ASSUME NEW t, Learns(t), alpha' # alpha PROVE Evident
  <2> DEFINE store == learns[t].store
             current == learns[t].current
  <2>1. /\ t \in Workloads[work].threads /\ history' = history
        /\ learns[t].step = "adapting" /\ store \in StoreNames /\ current \in Alphas
        /\ alpha' = [alpha EXCEPT ![store] = RecommendedAlpha(history[store], current)]
    BY <1>5, LearnsFacts DEF Learns
  <2>2. history[store] \in Seq(Records) /\ DOMAIN alpha = StoreNames
    BY <2>1 DEF LearnerOK
  <2>3. Follows(history[store], current, RecommendedAlpha(history[store], current))
    BY <2>1, <2>2, EvidenceFacts
  <2>4. Alone(t) => current = alpha[store]
    BY <2>1 DEF AloneOK, CurrentIsAlpha
  <2>5. Adapting(t, store)
    BY <2>1 DEF Adapting
  <2> HIDE DEF store, current
  <2>6. alpha'[store] = RecommendedAlpha(history[store], current)
        /\ \A s \in StoreNames \ {store} : alpha'[s] = alpha[s]
    BY <2>1, <2>2
  <2>7. ASSUME NEW s \in StoreNames, alpha'[s] # alpha[s] PROVE s = store
    BY <2>6, <2>7
  <2> QED
    BY <2>1, <2>3, <2>4, <2>5, <2>6, <2>7 DEF Evident, current
<1> QED
  BY <1>1, <1>2, <1>3, <1>4, <1>5 DEF Stepped, Moved, Answered, Stopped, Taught

\* alpha rises in a store only on the evidence of its own searches, and falls
\* only on the opposite, against the alpha that the adapting thread has read;
\* and that is the store's where a thread searches alone.
THEOREM LearnerFollowsEvidence == Spec => AlphaFollowsEvidence
<1>1. LocalSearchOK /\ [Next]_vars => [Evident]_vars
  <2> SUFFICES ASSUME LocalSearchOK, Next
               PROVE  Evident
    OBVIOUS
  <2>1. SearchesOK /\ LearnerOK /\ AloneOK
    BY DEF LocalSearchOK
  <2>2. Stepped
    BY <2>1, StepIs
  <2> QED
    BY <2>1, <2>2, EvidenceStep
<1>2. AlphaFollowsEvidence <=> [][Evident]_vars
  BY DEF AlphaFollowsEvidence, Evident
<1> QED
  BY <1>1, <1>2, LocalSearchInvariant, PTL DEF Spec
===============================================================================
