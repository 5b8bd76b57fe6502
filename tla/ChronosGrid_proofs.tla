-------------------------- MODULE ChronosGrid_proofs --------------------------
(***************************************************************************)
(* Theorems about ChronosGrid, for every set of glyphs, hash, number of    *)
(* shards, size of the spark buffer and number of threads: its structures  *)
(* are consistent at every step, the spark buffer is coherent and bounded, *)
(* and a query that nothing disturbs resolves all its results.             *)
(***************************************************************************)
EXTENDS ChronosGrid, FiniteSetTheorems, SequenceTheorems, TLAPS

-----------------------------------------------------------------------------
(* The inductive invariant                                                 *)

Sorted(shard) == \A i, j \in DOMAIN shard : i < j => shard[i].glyph < shard[j].glyph

InShard(g, e) == [glyph |-> g, essence |-> e] \in Range(shards[ShardOf[g]])

Injecting == inj.pc # "idle" => inj.glyph \in Glyphs /\ inj.essence \in Essences

\* What an injection adds to its shard has been etched on the echo screen.
ShardsInv ==
  /\ ShardsSearchable
  /\ inj.pc = "shard" => Etch[inj.glyph] \subseteq echo

\* The glyph whose essence is in its shard and whose vector is on its way.
Pending(g) == inj.pc \in {"vector", "glyph"} /\ g = inj.glyph

\* While a glyph is on its way from its shard to the lists, the lists follow
\* the shards but for that glyph.
ListsInv ==
  /\ \A i, j \in DOMAIN glyphs : glyphs[i] = glyphs[j] => i = j
  /\ \A i \in DOMAIN glyphs :
       /\ Stored(glyphs[i])
       /\ Pending(glyphs[i]) \/ InShard(glyphs[i], vectors[i])
  /\ \A g \in Glyphs : Stored(g) => HasVector(g) \/ Pending(g)
  /\ inj.pc \in {"vector", "glyph"} => InShard(inj.glyph, inj.essence)
  /\ inj.pc # "glyph" => Len(vectors) = Len(glyphs)
  /\ inj.pc = "glyph" => /\ Len(vectors) = Len(glyphs) + 1
                         /\ vectors[Len(vectors)] = inj.essence
                         /\ ~HasVector(inj.glyph)
  /\ total = IF inj.pc \in {"vector", "glyph"} /\ ~HasVector(inj.glyph)
             THEN Len(glyphs) + 1 ELSE Len(glyphs)

\* A thread that is about to cache an essence has room for it, or took it
\* from itself: each but one of the threads may be one ahead.
Caching == {t \in Threads : seek[t].pc = "cache"}
RoomInv == Len(spark) + Cardinality(Caching) < SparkMax + Cardinality(Threads)

\* A query looks for a glyph that is stored, with bounds inside its shard.
Looking == {"spark", "hit", "touch", "read", "echo", "probe", "member", "room", "pop", "cache"}
SeekSound(r) ==
  /\ r.pc \in Looking =>
       r.glyph \in Glyphs /\ Stored(r.glyph)
  /\ r.pc \in {"touch", "member", "room", "pop", "cache"} => r.essence \in Essences
  /\ r.pc = "probe" => r.left >= 1 /\ r.right <= Len(shards[ShardOf[r.glyph]])

\* What nothing has disturbed is still where the query saw it.
SeekAlone(r) ==
  /\ r.pc # "idle" => inj.pc \in {"idle", "shard"} /\ r.ranks \subseteq DOMAIN glyphs
  /\ r.pc \in {"hit", "touch", "read"} => Cached(r.glyph)
  /\ r.pc = "pop" => spark # <<>>
  /\ r.pc = "probe" =>
       \E i \in At(shards[ShardOf[r.glyph]], r.glyph) : r.left <= i /\ i <= r.right
  /\ r.pc = "found" => r.essence # None
  /\ r.pc # "error"

SeekInv == \A t \in Threads : SeekSound(seek[t]) /\ (seek[t].alone => SeekAlone(seek[t]))

StructuresInv == Injecting /\ ShardsInv /\ TotalIsExact /\ ListsInv
GridInv == TypeOK /\ StructuresInv /\ SparkCachesStored /\ RoomInv /\ SeekInv

-----------------------------------------------------------------------------
(* Lemmas about lists                                                      *)

\* An insertion moves the rest of the list up by one.
LEMMA InsertAtProperties ==
  ASSUME NEW S, NEW list \in Seq(S), NEW p \in 1..(Len(list) + 1), NEW e \in S
  PROVE  /\ InsertAt(list, p, e) \in Seq(S)
         /\ Len(InsertAt(list, p, e)) = Len(list) + 1
         /\ \A j \in 1..(Len(list) + 1) :
              InsertAt(list, p, e)[j] =
                IF j < p THEN list[j] ELSE IF j = p THEN e ELSE list[j - 1]
<1> DEFINE n == Len(list)
           before == SubSeq(list, 1, p - 1)
           after  == SubSeq(list, p, n)
           front  == before \o <<e>>
           whole  == front \o after
<1>0. n \in Nat /\ (\A j \in 1..n : list[j] \in S) /\ p \in 1..(n + 1)
  OBVIOUS
<1>1. /\ before \in Seq(S) /\ Len(before) = p - 1
      /\ \A j \in 1..(p - 1) : before[j] = list[j]
  <2>1. \A j \in 1..(p - 1) : list[j] \in S
    BY <1>0
  <2> QED
    BY <2>1, <1>0, SubSeqProperties
<1>2. /\ after \in Seq(S) /\ Len(after) = n + 1 - p
      /\ \A j \in 1..(n + 1 - p) : after[j] = list[p + j - 1]
  <2>1. \A j \in p..n : list[j] \in S
    BY <1>0
  <2> QED
    BY <2>1, <1>0, SubSeqProperties
<1>3. <<e>> \in Seq(S) /\ Len(<<e>>) = 1 /\ <<e>>[1] = e
  OBVIOUS
<1>6. InsertAt(list, p, e) = whole
  BY DEF InsertAt
<1> HIDE DEF n, before, after, whole, front
<1>4. /\ front \in Seq(S) /\ Len(front) = p - 1 + 1
      /\ \A j \in 1..(p - 1) : front[j] = before[j]
      /\ \A j \in (p - 1 + 1)..(p - 1 + 1) : front[j] = <<e>>[j - (p - 1)]
  BY <1>0, <1>1, <1>3 DEF front
<1> DEFINE m == n + 1 - p
<1>5. /\ whole \in Seq(S) /\ Len(whole) = p + m
      /\ \A j \in 1..p : whole[j] = front[j]
      /\ \A j \in (p + 1)..(p + m) : whole[j] = after[j - p]
  <2>1. p \in Nat /\ m \in Nat /\ Len(front) = p /\ Len(after) = m
    BY <1>0, <1>2, <1>4
  <2>2. front \in Seq(S) /\ after \in Seq(S)
    BY <1>2, <1>4
  <2> HIDE DEF m
  <2>3. whole \in Seq(S) /\ Len(whole) = p + m
    BY <2>1, <2>2 DEF whole
  <2>4. \A j \in 1..p : whole[j] = front[j]
    BY <2>1, <2>2 DEF whole
  <2>5. \A j \in (p + 1)..(p + m) : whole[j] = after[j - p]
    BY <2>1, <2>2 DEF whole
  <2> QED
    BY <2>3, <2>4, <2>5
<1>7. ASSUME NEW j \in 1..(n + 1)
      PROVE  whole[j] = IF j < p THEN list[j] ELSE IF j = p THEN e ELSE list[j - 1]
  <2>1. CASE j < p
    BY <2>1, <1>0, <1>1, <1>4, <1>5
  <2>2. CASE j = p
    <3>1. front[p] = <<e>>[1]
      BY <1>0, <1>4
    <3> QED
      BY <2>2, <3>1, <1>0, <1>3, <1>5
  <2>3. CASE j > p
    <3>1. j - p \in 1..(n + 1 - p) /\ p + (j - p) - 1 = j - 1 /\ j \in (p + 1)..(p + m)
      BY <2>3, <1>0
    <3>2. whole[j] = after[j - p] /\ after[j - p] = list[p + (j - p) - 1]
      BY <3>1, <1>2, <1>5
    <3> QED
      BY <3>1, <3>2, <2>3, <1>0
  <2> QED
    BY <2>1, <2>2, <2>3, <1>0
<1>8. Len(whole) = n + 1
  BY <1>0, <1>5
<1> QED
  BY <1>5, <1>6, <1>7, <1>8 DEF n

\* A removal moves the rest of the list down by one.
LEMMA RemoveAtProperties ==
  ASSUME NEW S, NEW list \in Seq(S), NEW p \in DOMAIN list
  PROVE  /\ RemoveAt(list, p) \in Seq(S)
         /\ Len(RemoveAt(list, p)) = Len(list) - 1
         /\ \A j \in 1..(Len(list) - 1) :
              RemoveAt(list, p)[j] = IF j < p THEN list[j] ELSE list[j + 1]
<1> DEFINE n == Len(list)
           before == SubSeq(list, 1, p - 1)
           after  == SubSeq(list, p + 1, n)
           whole  == before \o after
<1>0. n \in Nat /\ p \in 1..n /\ \A j \in 1..n : list[j] \in S
  OBVIOUS
<1>1. /\ before \in Seq(S) /\ Len(before) = p - 1
      /\ \A j \in 1..(p - 1) : before[j] = list[j]
  <2>1. \A j \in 1..(p - 1) : list[j] \in S
    BY <1>0
  <2> QED
    BY <2>1, <1>0, SubSeqProperties
<1>2. /\ after \in Seq(S) /\ Len(after) = n - p
      /\ \A j \in 1..(n - p) : after[j] = list[p + j]
  <2>1. \A j \in (p + 1)..n : list[j] \in S
    BY <1>0
  <2> QED
    BY <2>1, <1>0, SubSeqProperties
<1>6. RemoveAt(list, p) = whole
  BY DEF RemoveAt
<1> HIDE DEF n, before, after, whole
<1> DEFINE k == p - 1
           m == n - p
<1>5. /\ whole \in Seq(S) /\ Len(whole) = k + m
      /\ \A j \in 1..k : whole[j] = before[j]
      /\ \A j \in (k + 1)..(k + m) : whole[j] = after[j - k]
  <2>1. k \in Nat /\ m \in Nat /\ Len(before) = k /\ Len(after) = m
    BY <1>0, <1>1, <1>2
  <2>2. before \in Seq(S) /\ after \in Seq(S)
    BY <1>1, <1>2
  <2> HIDE DEF k, m
  <2>3. whole \in Seq(S) /\ Len(whole) = k + m
    BY <2>1, <2>2 DEF whole
  <2>4. \A j \in 1..k : whole[j] = before[j]
    BY <2>1, <2>2 DEF whole
  <2>5. \A j \in (k + 1)..(k + m) : whole[j] = after[j - k]
    BY <2>1, <2>2 DEF whole
  <2> QED
    BY <2>3, <2>4, <2>5
<1>7. ASSUME NEW j \in 1..(n - 1)
      PROVE  whole[j] = IF j < p THEN list[j] ELSE list[j + 1]
  <2>1. CASE j < p
    <3>1. j \in 1..k
      BY <2>1, <1>0
    <3> QED
      BY <3>1, <2>1, <1>0, <1>1, <1>5
  <2>2. CASE j >= p
    <3>1. j - k \in 1..(n - p) /\ p + (j - k) = j + 1 /\ j \in (k + 1)..(k + m)
      BY <2>2, <1>0
    <3>2. whole[j] = after[j - k] /\ after[j - k] = list[p + (j - k)]
      BY <3>1, <1>2, <1>5
    <3> QED
      BY <3>1, <3>2, <2>2, <1>0
  <2> QED
    BY <2>1, <2>2, <1>0
<1>8. Len(whole) = n - 1
  BY <1>0, <1>5
<1> QED
  BY <1>5, <1>6, <1>7, <1>8 DEF n

-----------------------------------------------------------------------------
(* Lemmas about shards                                                     *)

\* The position found by bisection splits a sorted shard that has no entry for
\* the glyph: before it are the lower glyphs, from it on the higher ones.
LEMMA InsertionPointSplits ==
  ASSUME NEW shard \in Seq(Entry), Sorted(shard), NEW g \in Glyphs, At(shard, g) = {}
  PROVE  /\ InsertionPoint(shard, g) \in 1..(Len(shard) + 1)
         /\ \A i \in DOMAIN shard :
              /\ i < InsertionPoint(shard, g) => shard[i].glyph < g
              /\ i >= InsertionPoint(shard, g) => g < shard[i].glyph
<1> DEFINE lower == {i \in DOMAIN shard : shard[i].glyph < g}
           k     == Cardinality(lower)
<1>0. /\ Len(shard) \in Nat /\ DOMAIN shard = 1..Len(shard) /\ g \in Nat
      /\ \A i \in DOMAIN shard : shard[i].glyph \in Nat /\ shard[i].glyph # g
  <2>1. \A i \in DOMAIN shard : shard[i] \in Entry
    OBVIOUS
  <2>2. Glyphs \subseteq Nat
    BY GridAssumption
  <2>3. \A i \in DOMAIN shard : shard[i].glyph \in Glyphs
    BY <2>1 DEF Entry
  <2>4. \A i \in DOMAIN shard : shard[i].glyph # g
    BY DEF At
  <2>5. Len(shard) \in Nat /\ DOMAIN shard = 1..Len(shard)
    OBVIOUS
  <2> QED
    BY <2>2, <2>3, <2>4, <2>5
<1>2. \A i \in lower : \A j \in DOMAIN shard : j <= i => j \in lower
  BY <1>0 DEF Sorted
<1>3. \E n \in 0..Len(shard) : lower = 1..n
  <2> DEFINE beyond == {i \in Nat : i >= 1 /\ i \notin lower}
  <2>1. Len(shard) + 1 \in beyond /\ beyond \subseteq Nat
    BY <1>0
  <2>2. PICK m \in beyond : \A i \in beyond : ~(i < m)
    <3> HIDE DEF beyond
    <3>1. \E m \in beyond : \A i \in beyond : ~(<<i, m>> \in OpToRel(<, Nat))
      BY <2>1, NatLessThanWellFounded, WFMin
    <3> QED
      BY <3>1, <2>1 DEF OpToRel
  <2>3. m \in Nat /\ m >= 1 /\ m \notin lower /\ m <= Len(shard) + 1
    BY <2>1, <2>2, <1>0
  <2>4. \A i \in 1..(m - 1) : i \in lower
    BY <2>2, <2>3
  <2>5. \A i \in lower : i < m
    BY <2>3, <1>2, <1>0
  <2>6. lower = 1..(m - 1)
    BY <2>3, <2>4, <2>5, <1>0
  <2> QED
    BY <2>3, <2>6, <1>0
<1>4. PICK n \in 0..Len(shard) : lower = 1..n
  BY <1>3
<1>5. k = n
  <2>1. Cardinality(1..n) = n
    BY <1>0, FS_Interval
  <2> QED
    BY <2>1, <1>4
<1>6. InsertionPoint(shard, g) = 1 + n
  BY <1>5 DEF InsertionPoint
<1>7. \A i \in DOMAIN shard : (i \in lower <=> shard[i].glyph < g) /\ (i \in lower <=> i <= n)
  BY <1>4, <1>0
<1> QED
  BY <1>6, <1>7, <1>0
-----------------------------------------------------------------------------
(* Lemmas about entries                                                    *)

GlyphsOf(list) == {list[i].glyph : i \in DOMAIN list}
Distinct(list) == \A i, j \in DOMAIN list : list[i].glyph = list[j].glyph => i = j

\* What inject_essence makes of a shard.
Put(shard, entry) ==
  IF At(shard, entry.glyph) # {}
  THEN [i \in DOMAIN shard |-> IF i \in At(shard, entry.glyph) THEN entry ELSE shard[i]]
  ELSE InsertAt(shard, InsertionPoint(shard, entry.glyph), entry)

LEMMA HasEntry ==
  ASSUME NEW list, NEW g
  PROVE  At(list, g) # {} <=> g \in GlyphsOf(list)
BY DEF At, GlyphsOf

\* A sorted shard has no glyph twice.
LEMMA SortedDistinct ==
  ASSUME NEW shard \in Seq(Entry), Sorted(shard)
  PROVE  Distinct(shard)
<1>1. \A i \in DOMAIN shard : shard[i].glyph \in Nat /\ i \in Int
  <2>1. \A i \in DOMAIN shard : shard[i] \in Entry /\ i \in Int
    OBVIOUS
  <2>2. Glyphs \subseteq Nat
    BY GridAssumption
  <2> QED
    BY <2>1, <2>2 DEF Entry
<1> SUFFICES ASSUME NEW i \in DOMAIN shard, NEW j \in DOMAIN shard, shard[i].glyph = shard[j].glyph
             PROVE  i = j
  BY DEF Distinct
<1>2. ~(i < j) /\ ~(j < i)
  BY <1>1 DEF Sorted
<1> QED
  BY <1>1, <1>2

\* Replacing the entry of a glyph changes no glyph of a list.
LEMMA Replaced ==
  ASSUME NEW list \in Seq(Entry), NEW entry \in Entry, NEW new,
         new = [i \in DOMAIN list |-> IF i \in At(list, entry.glyph) THEN entry ELSE list[i]]
  PROVE  /\ new \in Seq(Entry) /\ Len(new) = Len(list) /\ DOMAIN new = DOMAIN list
         /\ \A i \in DOMAIN list : /\ new[i].glyph = list[i].glyph
                                   /\ list[i].glyph = entry.glyph => new[i] = entry
                                   /\ list[i].glyph # entry.glyph => new[i] = list[i]
<1>1. new \in [1..Len(list) -> Entry] /\ Len(list) \in Nat /\ DOMAIN list = 1..Len(list)
  OBVIOUS
<1>2. new \in Seq(Entry) /\ Len(new) = Len(list) /\ DOMAIN new = DOMAIN list
  BY <1>1
<1>3. ASSUME NEW i \in DOMAIN list
      PROVE  /\ new[i].glyph = list[i].glyph
             /\ list[i].glyph = entry.glyph => new[i] = entry
             /\ list[i].glyph # entry.glyph => new[i] = list[i]
  BY DEF At
<1> QED
  BY <1>2, <1>3

\* A shard with the new entry stays sorted and as long as the number of its
\* glyphs; it holds the new entry, and what it held of other glyphs.
HoldsNow(new, shard, entry) ==
  /\ new \in Seq(Entry)
  /\ Sorted(new)
  /\ Len(new) = IF At(shard, entry.glyph) # {} THEN Len(shard) ELSE Len(shard) + 1
  /\ \E i \in DOMAIN new : new[i] = entry
  /\ \A i \in DOMAIN new : \/ new[i] = entry
                           \/ /\ new[i].glyph # entry.glyph
                              /\ \E k \in DOMAIN shard : new[i] = shard[k]
  /\ \A k \in DOMAIN shard : shard[k].glyph # entry.glyph =>
       \E i \in DOMAIN new : new[i] = shard[k]

LEMMA PutProperties ==
  ASSUME NEW shard \in Seq(Entry), Sorted(shard), NEW entry \in Entry, NEW new,
         new = Put(shard, entry)
  PROVE  HoldsNow(new, shard, entry)
<1> DEFINE g == entry.glyph
<1>0. g \in Glyphs
  BY DEF Entry
<1>1. CASE At(shard, g) # {}
  <2>1. /\ new \in Seq(Entry) /\ Len(new) = Len(shard) /\ DOMAIN new = DOMAIN shard
        /\ \A i \in DOMAIN shard : /\ new[i].glyph = shard[i].glyph
                                   /\ shard[i].glyph = g => new[i] = entry
                                   /\ shard[i].glyph # g => new[i] = shard[i]
    BY <1>1, Replaced DEF Put
  <2>2. PICK k \in DOMAIN shard : shard[k].glyph = g
    BY <1>1 DEF At
  <2>3. Sorted(new)
    BY <2>1 DEF Sorted
  <2> QED
    BY <1>1, <2>1, <2>2, <2>3 DEF HoldsNow
<1>2. CASE At(shard, g) = {}
  <2> DEFINE p == InsertionPoint(shard, g)
             n == Len(shard)
  <2>1. /\ p \in 1..(n + 1)
        /\ \A i \in DOMAIN shard : (i < p => shard[i].glyph < g) /\ (i >= p => g < shard[i].glyph)
    BY <1>0, <1>2, InsertionPointSplits
  <2>2. new = InsertAt(shard, p, entry)
    BY <1>2 DEF Put
  <2> HIDE DEF p
  <2>3. /\ new \in Seq(Entry) /\ Len(new) = n + 1
        /\ \A j \in 1..(n + 1) :
             new[j] = IF j < p THEN shard[j] ELSE IF j = p THEN entry ELSE shard[j - 1]
    <3>1. /\ InsertAt(shard, p, entry) \in Seq(Entry)
          /\ Len(InsertAt(shard, p, entry)) = Len(shard) + 1
          /\ \A j \in 1..(Len(shard) + 1) :
               InsertAt(shard, p, entry)[j] =
                 IF j < p THEN shard[j] ELSE IF j = p THEN entry ELSE shard[j - 1]
      BY <2>1, InsertAtProperties
    <3> QED
      BY <3>1, <2>2
  <2>4. n \in Nat /\ DOMAIN shard = 1..n /\ DOMAIN new = 1..(n + 1)
    BY <2>3
  <2>5. ASSUME NEW j \in DOMAIN new
        PROVE  \/ new[j] = entry
               \/ new[j].glyph # g /\ \E k \in DOMAIN shard : new[j] = shard[k]
    <3>1. CASE j < p
      BY <3>1, <1>2, <2>1, <2>3, <2>4 DEF At
    <3>2. CASE j = p
      BY <3>2, <2>1, <2>3, <2>4
    <3>3. CASE j > p
      <4>1. j - 1 \in DOMAIN shard /\ new[j] = shard[j - 1]
        BY <3>3, <2>1, <2>3, <2>4
      <4> QED
        BY <4>1, <1>2 DEF At
    <3> QED
      BY <3>1, <3>2, <3>3, <2>1, <2>4
  <2>6. ASSUME NEW k \in DOMAIN shard
        PROVE  \E i \in DOMAIN new : new[i] = shard[k]
    <3>1. CASE k < p
      BY <3>1, <2>1, <2>3, <2>4
    <3>2. CASE k >= p
      <4>1. k + 1 \in DOMAIN new /\ new[k + 1] = shard[k + 1 - 1] /\ k + 1 - 1 = k
        BY <3>2, <2>1, <2>3, <2>4
      <4> QED
        BY <4>1
    <3> QED
      BY <3>1, <3>2, <2>1, <2>4
  <2>7. \E i \in DOMAIN new : new[i] = entry
    BY <2>1, <2>3, <2>4
  <2>8. Sorted(new)
    <3> SUFFICES ASSUME NEW i \in DOMAIN new, NEW j \in DOMAIN new, i < j
                 PROVE  new[i].glyph < new[j].glyph
      BY DEF Sorted
    <3>1. CASE j < p
      BY <3>1, <2>1, <2>3, <2>4 DEF Sorted
    <3>2. CASE j = p
      BY <3>2, <2>1, <2>3, <2>4
    <3>3. CASE j > p
      <4>1. j - 1 \in DOMAIN shard /\ j - 1 >= p /\ new[j] = shard[j - 1]
        BY <3>3, <2>1, <2>3, <2>4
      <4>2. CASE i < p
        <5>1. i \in DOMAIN shard /\ i < j - 1 /\ new[i] = shard[i]
          BY <4>1, <4>2, <2>1, <2>3, <2>4
        <5> QED
          BY <4>1, <5>1 DEF Sorted
      <4>3. CASE i = p
        BY <4>1, <4>3, <2>1, <2>3, <2>4
      <4>4. CASE i > p
        <5>1. i - 1 \in DOMAIN shard /\ i - 1 < j - 1 /\ new[i] = shard[i - 1]
          BY <4>4, <2>1, <2>3, <2>4
        <5> QED
          BY <4>1, <5>1 DEF Sorted
      <4> QED
        BY <4>2, <4>3, <4>4, <2>1, <2>4
    <3> QED
      BY <3>1, <3>2, <3>3, <2>1, <2>4
  <2> QED
    BY <1>2, <2>3, <2>5, <2>6, <2>7, <2>8 DEF HoldsNow
<1> QED
  BY <1>1, <1>2

\* move_to_end: the list keeps its glyphs and its length.
LEMMA Touched ==
  ASSUME NEW list \in Seq(Entry), Distinct(list), NEW p \in DOMAIN list
  PROVE  LET new == Append(RemoveAt(list, p), list[p]) IN
         /\ new \in Seq(Entry) /\ Len(new) = Len(list)
         /\ Distinct(new)
         /\ GlyphsOf(new) = GlyphsOf(list)
<1> DEFINE n == Len(list)
           rest == RemoveAt(list, p)
           new == Append(rest, list[p])
           from(j) == IF j < p THEN j ELSE IF j = n THEN p ELSE j + 1
<1>0. n \in Nat /\ DOMAIN list = 1..n /\ p \in 1..n /\ list[p] \in Entry
  OBVIOUS
<1>1. /\ rest \in Seq(Entry) /\ Len(rest) = n - 1
      /\ \A j \in 1..(n - 1) : rest[j] = IF j < p THEN list[j] ELSE list[j + 1]
  BY RemoveAtProperties
<1>2. /\ new \in Seq(Entry) /\ Len(new) = n /\ DOMAIN new = 1..n
      /\ \A j \in 1..(n - 1) : new[j] = rest[j]
      /\ new[n] = list[p]
  <2> HIDE DEF n, rest
  <2>1. /\ new \in Seq(Entry) /\ Len(new) = n - 1 + 1
        /\ \A j \in 1..(n - 1) : new[j] = rest[j]
        /\ new[n - 1 + 1] = list[p]
    BY <1>0, <1>1, AppendProperties
  <2>2. n - 1 + 1 = n
    BY <1>0
  <2> QED
    BY <2>1, <2>2
<1> HIDE DEF n, rest, new
<1>3. ASSUME NEW j \in 1..n PROVE from(j) \in 1..n /\ new[j] = list[from(j)]
  <2>1. CASE j = n
    BY <2>1, <1>0, <1>2
  <2>2. CASE j # n
    <3>1. j \in 1..(n - 1) /\ from(j) = (IF j < p THEN j ELSE j + 1)
      BY <2>2, <1>0
    <3>2. new[j] = rest[j]
      BY <3>1, <1>2
    <3> QED
      BY <3>1, <3>2, <1>0, <1>1
  <2> QED
    BY <2>1, <2>2
<1>4. ASSUME NEW i \in 1..n, NEW j \in 1..n, from(i) = from(j)
      PROVE  i = j
  BY <1>0, <1>4 DEF from
<1>5. ASSUME NEW k \in 1..n
      PROVE  \E j \in 1..n : from(j) = k
  <2>1. CASE k < p
    <3>1. from(k) = k
      BY <2>1
    <3> QED
      BY <3>1
  <2>2. CASE k = p
    <3>1. from(n) = k /\ n \in 1..n
      BY <2>2, <1>0
    <3> QED
      BY <3>1
  <2>3. CASE k > p
    <3>1. k - 1 \in 1..n /\ from(k - 1) = k
      BY <2>3, <1>0
    <3> QED
      BY <3>1
  <2> QED
    BY <2>1, <2>2, <2>3, <1>0
<1> HIDE DEF from
<1>6. Distinct(new)
  <2> SUFFICES ASSUME NEW i \in 1..n, NEW j \in 1..n, new[i].glyph = new[j].glyph
               PROVE  i = j
    BY <1>2 DEF Distinct
  <2>1. /\ from(i) \in 1..n /\ new[i] = list[from(i)]
        /\ from(j) \in 1..n /\ new[j] = list[from(j)]
    BY <1>3
  <2>2. from(i) = from(j)
    BY <2>1, <1>0 DEF Distinct
  <2> QED
    BY <2>2, <1>4
<1>7. GlyphsOf(new) = GlyphsOf(list)
  <2>1. ASSUME NEW j \in 1..n PROVE new[j].glyph \in GlyphsOf(list)
    BY <1>0, <1>3 DEF GlyphsOf
  <2>2. ASSUME NEW k \in 1..n PROVE list[k].glyph \in GlyphsOf(new)
    <3>1. PICK j \in 1..n : from(j) = k
      BY <1>5
    <3>2. new[j] = list[k]
      BY <3>1, <1>3
    <3> QED
      BY <3>2, <1>2 DEF GlyphsOf
  <2> QED
    BY <2>1, <2>2, <1>0, <1>2 DEF GlyphsOf
<1> QED
  BY <1>2, <1>6, <1>7 DEF new, rest, n

\* popitem(last=False): the list loses its first glyph.
LEMMA Popped ==
  ASSUME NEW list \in Seq(Entry), Distinct(list), list # <<>>
  PROVE  /\ Tail(list) \in Seq(Entry) /\ Len(Tail(list)) = Len(list) - 1
         /\ Distinct(Tail(list))
         /\ GlyphsOf(Tail(list)) \subseteq GlyphsOf(list)
<1> DEFINE n == Len(list)
           new == Tail(list)
<1>1. n \in Nat /\ DOMAIN list = 1..n
  OBVIOUS
<1>2. /\ new \in Seq(Entry) /\ Len(new) = n - 1 /\ DOMAIN new = 1..(n - 1)
      /\ \A j \in 1..(n - 1) : new[j] = list[j + 1]
  BY HeadTailProperties
<1> HIDE DEF new
<1>3. \A j \in 1..(n - 1) : j + 1 \in 1..n
  BY <1>1
<1>4. Distinct(new)
  <2> SUFFICES ASSUME NEW i \in 1..(n - 1), NEW j \in 1..(n - 1), new[i].glyph = new[j].glyph
               PROVE  i = j
    BY <1>2 DEF Distinct
  <2>1. i + 1 = j + 1
    BY <1>1, <1>2, <1>3 DEF Distinct
  <2> QED
    BY <2>1, <1>1
<1>5. GlyphsOf(new) \subseteq GlyphsOf(list)
  BY <1>1, <1>2, <1>3 DEF GlyphsOf
<1> QED
  BY <1>2, <1>4, <1>5 DEF new

\* A new entry at the end adds its glyph.
LEMMA Added ==
  ASSUME NEW list \in Seq(Entry), Distinct(list), NEW entry \in Entry,
         entry.glyph \notin GlyphsOf(list)
  PROVE  /\ Append(list, entry) \in Seq(Entry) /\ Len(Append(list, entry)) = Len(list) + 1
         /\ Distinct(Append(list, entry))
         /\ GlyphsOf(Append(list, entry)) = GlyphsOf(list) \cup {entry.glyph}
<1> DEFINE n == Len(list)
           new == Append(list, entry)
<1>1. n \in Nat /\ DOMAIN list = 1..n
  OBVIOUS
<1>2. /\ new \in Seq(Entry) /\ Len(new) = n + 1 /\ DOMAIN new = 1..(n + 1)
      /\ \A j \in 1..n : new[j] = list[j]
      /\ new[n + 1] = entry
  BY <1>1, AppendProperties
<1> HIDE DEF new
<1>3. \A j \in 1..n : list[j].glyph # entry.glyph
  BY <1>1 DEF GlyphsOf
<1>4. Distinct(new)
  <2> SUFFICES ASSUME NEW i \in 1..(n + 1), NEW j \in 1..(n + 1), new[i].glyph = new[j].glyph
               PROVE  i = j
    BY <1>2 DEF Distinct
  <2>1. CASE i \in 1..n /\ j \in 1..n
    BY <2>1, <1>1, <1>2 DEF Distinct
  <2>2. CASE i = n + 1 \/ j = n + 1
    BY <2>2, <1>1, <1>2, <1>3
  <2> QED
    BY <2>1, <2>2, <1>1
<1>5. GlyphsOf(new) = GlyphsOf(list) \cup {entry.glyph}
  <2>1. \A j \in 1..n : j \in 1..(n + 1)
    BY <1>1
  <2>2. \A j \in 1..(n + 1) : j \in 1..n \/ j = n + 1
    BY <1>1
  <2>3. n + 1 \in 1..(n + 1)
    BY <1>1
  <2> QED
    BY <2>1, <2>2, <2>3, <1>1, <1>2 DEF GlyphsOf
<1> QED
  BY <1>2, <1>4, <1>5 DEF new
-----------------------------------------------------------------------------
(* Lemmas about the steps of a query                                       *)

Points == {"idle", "ranked", "spark", "hit", "touch", "read", "echo", "probe", "member",
           "room", "pop", "cache", "found", "error"}
SeekRecords == [pc : Points, ranks : SUBSET Nat, glyph : Glyphs \cup {0}, left : Nat,
                right : Nat, essence : Essences \cup {None}, alone : BOOLEAN]

LEMMA SeekTypes == TypeOK => seek \in [Threads -> SeekRecords]
BY DEF TypeOK, SeekRecords, Points

LEMMA SparkIsCache ==
  SparkCachesStored <=> Distinct(spark) /\ \A g \in GlyphsOf(spark) : Stored(g)
BY DEF SparkCachesStored, Distinct, GlyphsOf

LEMMA Cardinalities ==
  /\ Cardinality(Caching) \in Nat /\ Cardinality(Caching) <= Cardinality(Threads)
  /\ Cardinality(Threads) \in Nat /\ IsFiniteSet(Caching)
BY GridAssumption, FS_Subset, FS_CardinalityType DEF Caching

\* A query changes neither the shards nor the lists.
LEMMA StructuresStay ==
  ASSUME StructuresInv, UNCHANGED <<shards, total, echo, lists, inj>>
  PROVE  StructuresInv'
<1>1. ListsInv'
  BY DEF StructuresInv, ListsInv, lists, Stored, Pending, InShard, HasVector
<1>2. ShardsInv' /\ Injecting' /\ TotalIsExact'
  BY DEF StructuresInv, ShardsInv, ShardsSearchable, Injecting, TotalIsExact
<1> QED
  BY <1>1, <1>2 DEF StructuresInv

\* A buffer that still holds the glyphs of one that is not empty is not empty.
LEMMA NonEmpty ==
  ASSUME NEW old \in Seq(Entry), NEW new \in Seq(Entry), GlyphsOf(old) \subseteq GlyphsOf(new),
         old # <<>>
  PROVE  new # <<>>
<1>1. 1 \in DOMAIN old
  OBVIOUS
<1>2. GlyphsOf(new) # {}
  BY <1>1 DEF GlyphsOf
<1>3. DOMAIN new # {}
  BY <1>2 DEF GlyphsOf
<1> QED
  BY <1>3

\* A query that no other disturbs stays sound ...
LEMMA Undisturbed ==
  ASSUME SeekInv, NEW u \in Threads, UNCHANGED <<shards, lists, inj>>,
         spark \in Seq(Entry), spark' \in Seq(Entry),
         GlyphsOf(spark) \subseteq GlyphsOf(spark'), seek'[u] = seek[u]
  PROVE  SeekSound(seek[u])' /\ (seek'[u].alone => SeekAlone(seek[u])')
<1>1. SeekSound(seek[u]) /\ (seek[u].alone => SeekAlone(seek[u]))
  BY DEF SeekInv
<1>2. SeekSound(seek[u])'
  BY <1>1 DEF SeekSound, Looking, Stored
<1>3. Cached(seek[u].glyph) => Cached(seek[u].glyph)'
  BY HasEntry DEF Cached
<1>4. spark # <<>> => spark' # <<>>
  BY NonEmpty
<1>5. SeekAlone(seek[u]) => SeekAlone(seek[u])'
  BY <1>3, <1>4 DEF SeekAlone, lists
<1> QED
  BY <1>1, <1>2, <1>5

\* ... and one that is disturbed has to be sound only.
LEMMA WhenDisturbed ==
  ASSUME SeekInv, NEW u \in Threads, UNCHANGED shards,
         seek'[u].pc = seek[u].pc, seek'[u].glyph = seek[u].glyph,
         seek'[u].essence = seek[u].essence, seek'[u].left = seek[u].left,
         seek'[u].right = seek[u].right, seek'[u].pc = "idle" \/ ~seek'[u].alone
  PROVE  SeekSound(seek[u])' /\ (seek'[u].alone => SeekAlone(seek[u])')
<1>1. SeekSound(seek[u])
  BY DEF SeekInv
<1>2. SeekSound(seek[u])'
  BY <1>1 DEF SeekSound, Looking, Stored
<1>3. seek'[u].pc = "idle" => SeekAlone(seek[u])'
  BY DEF SeekAlone
<1> QED
  BY <1>2, <1>3

\* A step of a query that only moves it keeps the invariant, if the query stays sound.
LEMMA OneSeekMoves ==
  ASSUME GridInv, NEW t \in Threads, NEW r \in SeekRecords,
         UNCHANGED <<shards, total, echo, spark, lists, inj>>,
         seek' = [seek EXCEPT ![t] = r], r.pc # "cache",
         SeekSound(r), r.alone => SeekAlone(r)
  PROVE  GridInv'
<1>1. seek \in [Threads -> SeekRecords]
  BY SeekTypes DEF GridInv
<1>2. seek' \in [Threads -> SeekRecords] /\ seek'[t] = r
      /\ \A u \in Threads : u # t => seek'[u] = seek[u]
  BY <1>1
<1>3. TypeOK'
  BY <1>2 DEF GridInv, TypeOK, SeekRecords, Points, lists
<1>4. StructuresInv'
  BY StructuresStay DEF GridInv
<1>5. SparkCachesStored'
  BY DEF GridInv, SparkCachesStored, Stored
<1>6. RoomInv'
  <2>1. Caching' \subseteq Caching
    BY <1>2 DEF Caching
  <2>2. Cardinality(Caching') <= Cardinality(Caching) /\ Cardinality(Caching') \in Nat
    BY <2>1, Cardinalities, FS_Subset, FS_CardinalityType
  <2>3. Len(spark) \in Nat /\ SparkMax \in Nat
    BY GridAssumption DEF GridInv, TypeOK
  <2> DEFINE new == Cardinality(Caching')
             old == Cardinality(Caching)
             all == Cardinality(Threads)
  <2>4. Len(spark) + old < SparkMax + all /\ Len(spark') = Len(spark)
    BY DEF GridInv, RoomInv
  <2>5. new <= old /\ new \in Nat /\ old \in Nat /\ all \in Nat
    BY <2>2, Cardinalities
  <2>6. Len(spark') + new < SparkMax + all
    <3> HIDE DEF new, old, all
    <3> QED
      BY <2>3, <2>4, <2>5
  <2> QED
    BY <2>6 DEF RoomInv
<1>7. SeekInv'
  <2> SUFFICES ASSUME NEW u \in Threads
               PROVE  SeekSound(seek[u])' /\ (seek'[u].alone => SeekAlone(seek[u])')
    BY DEF SeekInv
  <2>1. CASE u = t
    <3>1. SeekSound(seek[u])'
      BY <2>1, <1>2 DEF SeekSound, Looking, Stored
    <3>2. SeekAlone(r) => SeekAlone(seek[u])'
      BY <2>1, <1>2 DEF SeekAlone, Cached, lists
    <3> QED
      BY <2>1, <1>2, <3>1, <3>2
  <2>2. CASE u # t
    BY <2>2, <1>2, Undisturbed DEF GridInv, TypeOK
  <2> QED
    BY <2>1, <2>2
<1> QED
  BY <1>3, <1>4, <1>5, <1>6, <1>7 DEF GridInv
-----------------------------------------------------------------------------
(* The steps of a query                                                    *)

LEMMA StartQueryKeeps == ASSUME GridInv, NEW t \in Threads, StartQuery(t) PROVE GridInv'
<1>1. PICK top \in SUBSET DOMAIN vectors :
        seek' = [seek EXCEPT ![t] = [NoSeek EXCEPT !.pc = "ranked", !.ranks = top,
                                                    !.alone = inj.pc = "idle"]]
  BY DEF StartQuery
<1>2. PICK r : r = [NoSeek EXCEPT !.pc = "ranked", !.ranks = top, !.alone = inj.pc = "idle"]
  OBVIOUS
<1>3. /\ r = [pc |-> "ranked", ranks |-> top, glyph |-> 0, left |-> 1, right |-> 0,
              essence |-> None, alone |-> inj.pc = "idle"]
      /\ seek' = [seek EXCEPT ![t] = r]
  BY <1>1, <1>2 DEF NoSeek
<1>4. top \subseteq Nat
  BY DEF GridInv, TypeOK
<1>5. r \in SeekRecords
  BY <1>3, <1>4 DEF SeekRecords, Points
<1>6. r.alone => top \subseteq DOMAIN glyphs
  <2>1. inj.pc = "idle" => Len(vectors) = Len(glyphs)
    BY DEF GridInv, StructuresInv, ListsInv
  <2>2. Len(vectors) = Len(glyphs) => DOMAIN vectors = DOMAIN glyphs
    BY DEF GridInv, TypeOK
  <2> QED
    BY <2>1, <2>2, <1>3
<1>7. r.alone => SeekAlone(r)
  BY <1>3, <1>6 DEF SeekAlone
<1>8. SeekSound(r)
  BY <1>3 DEF SeekSound, Looking
<1> QED
  BY <1>3, <1>5, <1>7, <1>8, OneSeekMoves DEF StartQuery

LEMMA NextRankKeeps == ASSUME GridInv, NEW t \in Threads, NextRank(t) PROVE GridInv'
<1>1. PICK i \in seek[t].ranks :
        seek' = [seek EXCEPT ![t] =
                   IF i \in DOMAIN glyphs
                   THEN [NoSeek EXCEPT !.pc = "spark", !.ranks = seek[t].ranks \ {i},
                                       !.glyph = glyphs[i], !.alone = seek[t].alone]
                   ELSE [NoSeek EXCEPT !.pc = "error", !.alone = seek[t].alone]]
  BY DEF NextRank
<1>2. /\ seek[t] \in SeekRecords /\ seek[t].ranks \subseteq Nat
      /\ seek[t].alone => SeekAlone(seek[t])
  BY SeekTypes DEF GridInv, SeekInv, SeekRecords
<1>3. seek[t].pc # "idle"
  BY DEF NextRank
<1>4. CASE i \in DOMAIN glyphs
  <2>0. PICK r : r = [NoSeek EXCEPT !.pc = "spark", !.ranks = seek[t].ranks \ {i},
                                    !.glyph = glyphs[i], !.alone = seek[t].alone]
    OBVIOUS
  <2>1. r = [pc |-> "spark", ranks |-> seek[t].ranks \ {i}, glyph |-> glyphs[i],
             left |-> 1, right |-> 0, essence |-> None, alone |-> seek[t].alone]
    BY <2>0 DEF NoSeek
  <2>2. seek' = [seek EXCEPT ![t] = r]
    BY <2>0, <1>1, <1>4
  <2>3. glyphs[i] \in Glyphs /\ Stored(glyphs[i])
    BY <1>4 DEF GridInv, TypeOK, StructuresInv, ListsInv
  <2>4. r \in SeekRecords
    BY <2>1, <2>3, <1>2 DEF SeekRecords, Points
  <2>5. SeekSound(r)
    BY <2>1, <2>3 DEF SeekSound, Looking
  <2>6. r.alone => SeekAlone(r)
    BY <2>1, <1>2, <1>3 DEF SeekAlone
  <2> QED
    BY <2>1, <2>2, <2>4, <2>5, <2>6, OneSeekMoves DEF NextRank
<1>5. CASE i \notin DOMAIN glyphs
  <2>0. PICK r : r = [NoSeek EXCEPT !.pc = "error", !.alone = seek[t].alone]
    OBVIOUS
  <2>1. r = [pc |-> "error", ranks |-> {}, glyph |-> 0,
             left |-> 1, right |-> 0, essence |-> None, alone |-> seek[t].alone]
    BY <2>0 DEF NoSeek
  <2>2. seek' = [seek EXCEPT ![t] = r]
    BY <2>0, <1>1, <1>5
  <2>4. r \in SeekRecords
    BY <2>1, <1>2 DEF SeekRecords, Points
  <2>5. SeekSound(r)
    BY <2>1 DEF SeekSound, Looking
  <2>6. ~r.alone
    BY <2>1, <1>2, <1>3, <1>5 DEF SeekAlone
  <2> QED
    BY <2>1, <2>2, <2>4, <2>5, <2>6, OneSeekMoves DEF NextRank
<1> QED
  BY <1>4, <1>5

LEMMA EndQueryKeeps == ASSUME GridInv, NEW t \in Threads, EndQuery(t) PROVE GridInv'
<1>1. NoSeek \in SeekRecords /\ NoSeek.pc = "idle"
  BY DEF NoSeek, SeekRecords, Points
<1>2. SeekSound(NoSeek) /\ SeekAlone(NoSeek)
  BY <1>1 DEF SeekSound, Looking, SeekAlone
<1> QED
  BY <1>1, <1>2, OneSeekMoves DEF EndQuery

LEMMA SeekSparkKeeps == ASSUME GridInv, NEW t \in Threads, SeekSpark(t) PROVE GridInv'
<1> DEFINE next == IF Cached(seek[t].glyph) THEN "hit" ELSE "echo"
<1>1. /\ seek[t] \in SeekRecords /\ SeekSound(seek[t])
      /\ seek[t].alone => SeekAlone(seek[t])
      /\ seek[t].pc = "spark"
  BY SeekTypes DEF GridInv, SeekInv, SeekSpark
<1>2. PICK r : r = [seek[t] EXCEPT !.pc = next]
  OBVIOUS
<1>3. /\ r \in SeekRecords /\ r.pc = next /\ r.ranks = seek[t].ranks
      /\ r.glyph = seek[t].glyph /\ r.alone = seek[t].alone
  BY <1>1, <1>2 DEF SeekRecords, Points
<1>4. seek' = [seek EXCEPT ![t] = r]
  BY <1>2 DEF SeekSpark
<1>5. SeekSound(r)
  BY <1>1, <1>3 DEF SeekSound, Looking
<1>6. r.alone => SeekAlone(r)
  BY <1>1, <1>3 DEF SeekAlone
<1> QED
  BY <1>3, <1>4, <1>5, <1>6, OneSeekMoves DEF SeekSpark

LEMMA SeekEchoKeeps == ASSUME GridInv, NEW t \in Threads, SeekEcho(t) PROVE GridInv'
<1> DEFINE g == seek[t].glyph
           shard == shards[ShardOf[g]]
<1>1. /\ seek[t] \in SeekRecords /\ SeekSound(seek[t])
      /\ seek[t].alone => SeekAlone(seek[t])
      /\ seek[t].pc = "echo"
  BY SeekTypes DEF GridInv, SeekInv, SeekEcho
<1>2. g \in Glyphs /\ At(shard, g) # {}
  BY <1>1 DEF SeekSound, Looking, Stored
<1>3. ShardOf[g] \in Shards /\ shard \in Seq(Entry)
  BY <1>2, GridAssumption DEF GridInv, TypeOK
<1>4. PICK k \in DOMAIN shard : shard[k].glyph = g
  BY <1>2 DEF At
<1>5. k \in 1..Len(shard) /\ Len(shard) \in Nat
  BY <1>3
<1>6. Etch[g] \subseteq echo
  BY <1>3, <1>4 DEF GridInv, StructuresInv, ShardsInv, ShardsSearchable
<1>7. seek' = [seek EXCEPT ![t].pc = "probe", ![t].left = 1, ![t].right = Len(shard)]
  BY <1>6 DEF SeekEcho
<1>8. PICK r : r = [seek[t] EXCEPT !.pc = "probe", !.left = 1, !.right = Len(shard)]
  OBVIOUS
<1>9. /\ r \in SeekRecords /\ r.pc = "probe" /\ r.ranks = seek[t].ranks
      /\ r.glyph = g /\ r.alone = seek[t].alone /\ r.left = 1 /\ r.right = Len(shard)
  BY <1>1, <1>5, <1>8 DEF SeekRecords, Points
<1>10. seek' = [seek EXCEPT ![t] = r]
  BY <1>7, <1>8
<1>11. SeekSound(r)
  BY <1>2, <1>5, <1>9 DEF SeekSound, Looking, Stored
<1>12. r.alone => SeekAlone(r)
  <2>1. k \in At(shards[ShardOf[r.glyph]], r.glyph) /\ r.left <= k /\ k <= r.right
    BY <1>4, <1>5, <1>9 DEF At
  <2> QED
    BY <1>1, <1>9, <2>1 DEF SeekAlone
<1> QED
  BY <1>9, <1>10, <1>11, <1>12, OneSeekMoves DEF SeekEcho

\* The middle of two bounds lies between them.
LEMMA Middle ==
  ASSUME NEW l \in Nat, NEW r \in Nat, l <= r
  PROVE  (l + r) \div 2 \in Nat /\ l <= (l + r) \div 2 /\ (l + r) \div 2 <= r
OBVIOUS

LEMMA SeekProbeKeeps == ASSUME GridInv, NEW t \in Threads, SeekProbe(t) PROVE GridInv'
<1> DEFINE g == seek[t].glyph
           l == seek[t].left
           h == seek[t].right
           mid == (l + h) \div 2
           shard == shards[ShardOf[g]]
<1>1. /\ seek[t] \in SeekRecords /\ SeekSound(seek[t])
      /\ seek[t].alone => SeekAlone(seek[t])
      /\ seek[t].pc = "probe"
  BY SeekTypes DEF GridInv, SeekInv, SeekProbe
<1>2. /\ g \in Glyphs /\ At(shard, g) # {} /\ 1 <= l /\ h <= Len(shard)
      /\ l \in Nat /\ h \in Nat /\ seek[t].alone \in BOOLEAN /\ seek[t].ranks \subseteq Nat
  BY <1>1 DEF SeekSound, Looking, Stored, SeekRecords
<1>3. ShardOf[g] \in Shards /\ shard \in Seq(Entry) /\ Sorted(shard)
  BY <1>2, GridAssumption
     DEF GridInv, TypeOK, StructuresInv, ShardsInv, ShardsSearchable, Sorted
<1>4. seek[t].alone => \E i \in DOMAIN shard : shard[i].glyph = g /\ l <= i /\ i <= h
  BY <1>1 DEF SeekAlone, At
<1>5. DOMAIN shard = 1..Len(shard) /\ Len(shard) \in Nat
  BY <1>3
<1>6. CASE l > h
  <2>1. PICK r : r = [seek[t] EXCEPT !.pc = "found", !.essence = None, !.left = 1, !.right = 0]
    OBVIOUS
  <2>2. r \in SeekRecords /\ r.pc = "found" /\ r.alone = seek[t].alone
    BY <2>1, <1>1 DEF SeekRecords, Points
  <2>3. seek' = [seek EXCEPT ![t] = r]
    BY <2>1, <1>6 DEF SeekProbe, Exhausted, Found
  <2>4. ~r.alone
    BY <2>2, <1>2, <1>4, <1>5, <1>6
  <2>5. SeekSound(r)
    BY <2>2 DEF SeekSound, Looking
  <2> QED
    BY <2>2, <2>3, <2>4, <2>5, OneSeekMoves DEF SeekProbe
<1>7. CASE ~(l > h)
  <2>0. mid \in Nat /\ l <= mid /\ mid <= h
    BY <1>2, <1>7, Middle
  <2>1. mid \in DOMAIN shard
    BY <2>0, <1>2, <1>5
  <2>2. shard[mid] \in Entry /\ shard[mid].glyph \in Nat /\ g \in Nat
    <3>1. shard[mid] \in Entry
      BY <2>1, <1>3
    <3> QED
      BY <3>1, <1>2, GridAssumption DEF Entry
  <2>3. shard[mid].essence \in Essences
    BY <2>2 DEF Entry
  <2>4. seek' = IF shard[mid].glyph = g
                THEN [seek EXCEPT ![t] = [@ EXCEPT !.pc = "member", !.essence = shard[mid].essence,
                                                   !.left = 1, !.right = 0]]
                ELSE IF shard[mid].glyph < g THEN [seek EXCEPT ![t].left = mid + 1]
                ELSE [seek EXCEPT ![t].right = mid - 1]
    BY <1>7 DEF SeekProbe, Exhausted
  <2>5. ASSUME NEW i \in DOMAIN shard, shard[i].glyph = g
        PROVE  /\ shard[mid].glyph < g => mid < i
               /\ g < shard[mid].glyph => i < mid
    <3>1. i < mid => g < shard[mid].glyph
      BY <2>5, <2>1, <1>3 DEF Sorted
    <3>2. mid < i => shard[mid].glyph < g
      BY <2>5, <2>1, <1>3 DEF Sorted
    <3> QED
      BY <3>1, <3>2, <2>0, <2>2, <2>5, <1>5
  <2> HIDE DEF mid
  <2>6. CASE shard[mid].glyph = g
    <3>1. PICK r : r = [seek[t] EXCEPT !.pc = "member", !.essence = shard[mid].essence,
                                       !.left = 1, !.right = 0]
      OBVIOUS
    <3>2. /\ r \in SeekRecords /\ r.pc = "member" /\ r.alone = seek[t].alone
          /\ r.glyph = g /\ r.essence = shard[mid].essence /\ r.ranks = seek[t].ranks
      BY <3>1, <1>1, <2>3 DEF SeekRecords, Points
    <3>3. seek' = [seek EXCEPT ![t] = r]
      BY <3>1, <2>4, <2>6
    <3>4. SeekSound(r)
      BY <3>2, <1>2, <2>3 DEF SeekSound, Looking, Stored
    <3>5. r.alone => SeekAlone(r)
      BY <3>2, <1>1 DEF SeekAlone
    <3> QED
      BY <3>2, <3>3, <3>4, <3>5, OneSeekMoves DEF SeekProbe
  <2>7. CASE shard[mid].glyph < g
    <3>1. PICK r : r = [seek[t] EXCEPT !.left = mid + 1]
      OBVIOUS
    <3>2. /\ r \in SeekRecords /\ r.pc = "probe" /\ r.alone = seek[t].alone
          /\ r.glyph = g /\ r.left = mid + 1 /\ r.right = h /\ r.ranks = seek[t].ranks
      BY <3>1, <1>1, <2>0 DEF SeekRecords, Points
    <3>3. seek' = [seek EXCEPT ![t] = r]
      <4>1. shard[mid].glyph # g
        BY <2>2, <2>7
      <4>2. seek' = [seek EXCEPT ![t].left = mid + 1]
        BY <2>4, <4>1, <2>7
      <4> QED
        BY <4>2, <3>1
    <3>4. SeekSound(r)
      BY <3>2, <1>2, <2>0 DEF SeekSound, Looking, Stored
    <3>5. r.alone => SeekAlone(r)
      <4> SUFFICES ASSUME r.alone PROVE SeekAlone(r)
        OBVIOUS
      <4>1. PICK i \in DOMAIN shard : shard[i].glyph = g /\ l <= i /\ i <= h
        BY <3>2, <1>4
      <4>2. mid + 1 <= i
        BY <4>1, <2>0, <2>5, <2>7, <1>5
      <4>3. i \in At(shards[ShardOf[r.glyph]], r.glyph) /\ r.left <= i /\ i <= r.right
        BY <4>1, <4>2, <3>2 DEF At
      <4> QED
        BY <4>3, <3>2, <1>1 DEF SeekAlone
    <3> QED
      BY <3>2, <3>3, <3>4, <3>5, OneSeekMoves DEF SeekProbe
  <2>8. CASE g < shard[mid].glyph
    <3>1. PICK r : r = [seek[t] EXCEPT !.right = mid - 1]
      OBVIOUS
    <3>0. mid - 1 \in Nat
      BY <2>0, <1>2
    <3>2. /\ r \in SeekRecords /\ r.pc = "probe" /\ r.alone = seek[t].alone
          /\ r.glyph = g /\ r.left = l /\ r.right = mid - 1 /\ r.ranks = seek[t].ranks
      BY <3>0, <3>1, <1>1 DEF SeekRecords, Points
    <3>3. seek' = [seek EXCEPT ![t] = r]
      <4>1. shard[mid].glyph # g /\ ~(shard[mid].glyph < g)
        BY <2>2, <2>8
      <4>2. seek' = [seek EXCEPT ![t].right = mid - 1]
        BY <2>4, <4>1, <2>8
      <4> QED
        BY <4>2, <3>1
    <3>4. SeekSound(r)
      <4>1. r.left >= 1 /\ r.right <= Len(shard)
        BY <3>2, <1>2, <1>5, <2>0
      <4> QED
        BY <4>1, <3>2, <1>2 DEF SeekSound, Looking, Stored
    <3>5. r.alone => SeekAlone(r)
      <4> SUFFICES ASSUME r.alone PROVE SeekAlone(r)
        OBVIOUS
      <4>1. PICK i \in DOMAIN shard : shard[i].glyph = g /\ l <= i /\ i <= h
        BY <3>2, <1>4
      <4>2. i <= mid - 1
        BY <4>1, <2>0, <2>5, <2>8, <1>5
      <4>3. i \in At(shards[ShardOf[r.glyph]], r.glyph) /\ r.left <= i /\ i <= r.right
        BY <4>1, <4>2, <3>2 DEF At
      <4> QED
        BY <4>3, <3>2, <1>1 DEF SeekAlone
    <3> QED
      BY <3>2, <3>3, <3>4, <3>5, OneSeekMoves DEF SeekProbe
  <2> QED
    BY <2>2, <2>6, <2>7, <2>8
<1> QED
  BY <1>6, <1>7
-----------------------------------------------------------------------------
(* The steps of a query that change the spark buffer                       *)

\* The room that is left, as arithmetic.
LEMMA RoomArithmetic ==
  ASSUME NEW len \in Nat, NEW len2 \in Nat, NEW c \in Nat, NEW c2 \in Nat, NEW max \in Nat,
         NEW all \in Nat, len2 + c2 <= len + c, len + c < max + all
  PROVE  len2 + c2 < max + all
OBVIOUS

LEMMA PopArithmetic ==
  ASSUME NEW len \in Nat, NEW c \in Nat, NEW max \in Nat, NEW all \in Nat,
         len + c < max + all
  PROVE  (len - 1) + (c + 1) < max + all
OBVIOUS

\* A query that another thread disturbed may raise.
LEMMA RaisedKeeps ==
  ASSUME GridInv, NEW t \in Threads, Raised(t), ~seek[t].alone,
         UNCHANGED <<shards, total, echo, spark, lists, inj>>
  PROVE  GridInv'
<1>1. seek[t] \in SeekRecords
  BY SeekTypes DEF GridInv
<1>2. PICK r : r = [NoSeek EXCEPT !.pc = "error", !.alone = seek[t].alone]
  OBVIOUS
<1>3. r = [pc |-> "error", ranks |-> {}, glyph |-> 0,
           left |-> 1, right |-> 0, essence |-> None, alone |-> seek[t].alone]
  BY <1>2 DEF NoSeek
<1>4. seek' = [seek EXCEPT ![t] = r]
  BY <1>2 DEF Raised
<1>5. r \in SeekRecords
  BY <1>1, <1>3 DEF SeekRecords, Points
<1>6. SeekSound(r)
  BY <1>3 DEF SeekSound, Looking
<1> QED
  BY <1>3, <1>4, <1>5, <1>6, OneSeekMoves

LEMMA SeekTouchKeeps == ASSUME GridInv, NEW t \in Threads, SeekTouch(t) PROVE GridInv'
<1>1. /\ seek \in [Threads -> SeekRecords]
      /\ seek[t] \in SeekRecords /\ SeekSound(seek[t])
      /\ seek[t].alone => SeekAlone(seek[t])
      /\ seek[t].pc \in {"hit", "touch"}
  BY SeekTypes DEF GridInv, SeekInv, SeekTouch
<1>2. CASE ~Cached(seek[t].glyph)
  <2>1. ~seek[t].alone
    BY <1>1, <1>2 DEF SeekAlone
  <2> QED
    BY <1>2, <2>1, RaisedKeeps DEF SeekTouch
<1>3. CASE Cached(seek[t].glyph)
  <2>1. PICK i \in At(spark, seek[t].glyph) :
          /\ spark' = Append(RemoveAt(spark, i), spark[i])
          /\ seek' = IF seek[t].pc = "hit" THEN [seek EXCEPT ![t].pc = "read"]
                     ELSE Found(t, seek[t].essence)
    BY <1>3 DEF SeekTouch
  <2> DEFINE read == [seek[t] EXCEPT !.pc = "read"]
             found == [seek[t] EXCEPT !.pc = "found", !.left = 1, !.right = 0]
  <2>2. PICK r : r = IF seek[t].pc = "hit" THEN read ELSE found
    OBVIOUS
  <2>3. spark \in Seq(Entry) /\ i \in DOMAIN spark
    BY <2>1 DEF GridInv, TypeOK, At
  <2>5. Distinct(spark) /\ \A g \in GlyphsOf(spark) : Stored(g)
    BY SparkIsCache DEF GridInv
  <2>6. /\ spark' \in Seq(Entry) /\ Len(spark') = Len(spark)
        /\ Distinct(spark') /\ GlyphsOf(spark') = GlyphsOf(spark)
    BY <2>1, <2>3, <2>5, Touched
  <2>7. seek[t].pc = "touch" => [seek[t] EXCEPT !.pc = "found", !.essence = seek[t].essence,
                                                !.left = 1, !.right = 0] = found
    BY <1>1 DEF SeekRecords
  <2>8. /\ r \in SeekRecords /\ r.pc = IF seek[t].pc = "hit" THEN "read" ELSE "found"
        /\ r.essence = seek[t].essence /\ r.alone = seek[t].alone
        /\ r.ranks = seek[t].ranks /\ r.glyph = seek[t].glyph
    BY <2>2, <1>1 DEF SeekRecords, Points
  <2>9. seek' = [seek EXCEPT ![t] = r]
    BY <2>1, <2>2, <2>7, <1>1 DEF Found
  <2> HIDE DEF read, found
  <2>10. /\ seek' \in [Threads -> SeekRecords] /\ seek'[t] = r
         /\ \A u \in Threads : u # t => seek'[u] = seek[u]
    BY <2>8, <2>9, <1>1
  <2>11. TypeOK'
    BY <2>6, <2>10 DEF GridInv, TypeOK, SeekTouch, SeekRecords, Points, lists
  <2>12. StructuresInv'
    BY StructuresStay DEF GridInv, SeekTouch
  <2>13. SparkCachesStored'
    BY <2>5, <2>6 DEF SparkCachesStored, Distinct, GlyphsOf, Stored, SeekTouch
  <2>14. RoomInv'
    <3>1. Caching' \subseteq Caching
      BY <2>8, <2>10 DEF Caching
    <3>2. Cardinality(Caching') <= Cardinality(Caching) /\ Cardinality(Caching') \in Nat
      BY <3>1, Cardinalities, FS_Subset, FS_CardinalityType
    <3>3. Len(spark') \in Nat /\ Len(spark) \in Nat /\ SparkMax \in Nat
      BY <2>3, <2>6, GridAssumption
    <3> QED
      BY <2>6, <3>2, <3>3, Cardinalities, RoomArithmetic DEF GridInv, RoomInv
  <2>15. SeekInv'
    <3> SUFFICES ASSUME NEW u \in Threads
                 PROVE  SeekSound(seek[u])' /\ (seek'[u].alone => SeekAlone(seek[u])')
      BY DEF SeekInv
    <3>1. CASE u = t
      <4>1. SeekSound(seek[u])'
        BY <3>1, <2>8, <2>10, <1>1 DEF SeekSound, Looking, Stored, SeekTouch
      <4>2. r.alone => SeekAlone(seek[u])'
        <5>1. seek[t].pc = "touch" => seek[t].essence \in Essences
          BY <1>1 DEF SeekSound, Looking
        <5>2. r.pc = "read" => Cached(r.glyph)'
          BY <2>6, <2>8, <1>3, HasEntry DEF Cached
        <5> QED
          BY <5>1, <5>2, <3>1, <2>8, <2>10, <1>1, GridAssumption DEF SeekAlone, SeekTouch, lists
      <4> QED
        BY <3>1, <2>10, <4>1, <4>2
    <3>2. CASE u # t
      BY <3>2, <2>3, <2>6, <2>10, Undisturbed DEF GridInv, TypeOK, SeekTouch
    <3> QED
      BY <3>1, <3>2
  <2> QED
    BY <2>11, <2>12, <2>13, <2>14, <2>15 DEF GridInv
<1> QED
  BY <1>2, <1>3

LEMMA SeekReadKeeps == ASSUME GridInv, NEW t \in Threads, SeekRead(t) PROVE GridInv'
<1>1. /\ seek[t] \in SeekRecords /\ SeekSound(seek[t])
      /\ seek[t].alone => SeekAlone(seek[t])
      /\ seek[t].pc = "read"
  BY SeekTypes DEF GridInv, SeekInv, SeekRead
<1>2. CASE ~Cached(seek[t].glyph)
  <2>1. ~seek[t].alone
    BY <1>1, <1>2 DEF SeekAlone
  <2> QED
    BY <1>2, <2>1, RaisedKeeps DEF SeekRead
<1>3. CASE Cached(seek[t].glyph)
  <2>1. PICK i \in At(spark, seek[t].glyph) : seek' = Found(t, spark[i].essence)
    BY <1>3 DEF SeekRead
  <2>2. spark[i].essence \in Essences
    <3>1. spark \in Seq(Entry) /\ i \in DOMAIN spark
      BY <2>1 DEF GridInv, TypeOK, At
    <3>2. spark[i] \in Entry
      BY <3>1
    <3> QED
      BY <3>2 DEF Entry
  <2>3. PICK r : r = [seek[t] EXCEPT !.pc = "found", !.essence = spark[i].essence,
                                     !.left = 1, !.right = 0]
    OBVIOUS
  <2>4. /\ r \in SeekRecords /\ r.pc = "found" /\ r.essence = spark[i].essence
        /\ r.alone = seek[t].alone /\ r.ranks = seek[t].ranks
    BY <2>2, <2>3, <1>1 DEF SeekRecords, Points
  <2>5. seek' = [seek EXCEPT ![t] = r]
    BY <2>1, <2>3 DEF Found
  <2>6. SeekSound(r)
    BY <2>4 DEF SeekSound, Looking
  <2>7. r.alone => SeekAlone(r)
    BY <2>2, <2>4, <1>1, GridAssumption DEF SeekAlone
  <2> QED
    BY <2>4, <2>5, <2>6, <2>7, OneSeekMoves DEF SeekRead
<1> QED
  BY <1>2, <1>3

LEMMA SeekMemberKeeps == ASSUME GridInv, NEW t \in Threads, SeekMember(t) PROVE GridInv'
<1> DEFINE next == IF Cached(seek[t].glyph) THEN "touch" ELSE "room"
<1>1. /\ seek[t] \in SeekRecords /\ SeekSound(seek[t])
      /\ seek[t].alone => SeekAlone(seek[t])
      /\ seek[t].pc = "member"
  BY SeekTypes DEF GridInv, SeekInv, SeekMember
<1>2. PICK r : r = [seek[t] EXCEPT !.pc = next]
  OBVIOUS
<1>3. /\ r \in SeekRecords /\ r.pc = next /\ r.ranks = seek[t].ranks
      /\ r.glyph = seek[t].glyph /\ r.alone = seek[t].alone /\ r.essence = seek[t].essence
  BY <1>1, <1>2 DEF SeekRecords, Points
<1>4. seek' = [seek EXCEPT ![t] = r]
  BY <1>2 DEF SeekMember
<1>5. SeekSound(r)
  BY <1>1, <1>3 DEF SeekSound, Looking
<1>6. r.alone => SeekAlone(r)
  BY <1>1, <1>3 DEF SeekAlone
<1> QED
  BY <1>3, <1>4, <1>5, <1>6, OneSeekMoves DEF SeekMember

\* A change of another thread leaves a query as it is but for the mark.
LEMMA DisturbedSeeks ==
  ASSUME TypeOK, NEW others \in SUBSET Threads, NEW u \in Threads
  PROVE  /\ Disturbed(others)[u] \in SeekRecords
         /\ Disturbed(others)[u].pc = seek[u].pc
         /\ Disturbed(others)[u].ranks = seek[u].ranks
         /\ Disturbed(others)[u].glyph = seek[u].glyph
         /\ Disturbed(others)[u].essence = seek[u].essence
         /\ Disturbed(others)[u].left = seek[u].left
         /\ Disturbed(others)[u].right = seek[u].right
         /\ u \in others => seek[u].pc = "idle" \/ ~Disturbed(others)[u].alone
         /\ u \notin others => Disturbed(others)[u] = seek[u]
<1>1. seek[u] \in SeekRecords
  BY SeekTypes
<1>2. CASE u \in others /\ seek[u].pc # "idle"
  <2>1. Disturbed(others)[u] = [seek[u] EXCEPT !.alone = FALSE]
    BY <1>2 DEF Disturbed
  <2> QED
    BY <1>1, <1>2, <2>1 DEF SeekRecords
<1>3. CASE ~(u \in others /\ seek[u].pc # "idle")
  <2>1. Disturbed(others)[u] = seek[u]
    BY <1>3 DEF Disturbed
  <2> QED
    BY <1>1, <1>3, <2>1
<1> QED
  BY <1>2, <1>3

\* A thread that finds room is one more that is about to cache.
LEMMA SeekRoomKeeps == ASSUME GridInv, NEW t \in Threads, SeekRoom(t) PROVE GridInv'
<1>1. /\ seek \in [Threads -> SeekRecords]
      /\ seek[t] \in SeekRecords /\ SeekSound(seek[t])
      /\ seek[t].alone => SeekAlone(seek[t])
      /\ seek[t].pc = "room"
  BY SeekTypes DEF GridInv, SeekInv, SeekRoom
<1> DEFINE next == IF Len(spark) >= SparkMax THEN "pop" ELSE "cache"
<1>2. PICK r : r = [seek[t] EXCEPT !.pc = next]
  OBVIOUS
<1>3. /\ r \in SeekRecords /\ r.pc = next /\ r.ranks = seek[t].ranks
      /\ r.glyph = seek[t].glyph /\ r.alone = seek[t].alone /\ r.essence = seek[t].essence
  BY <1>1, <1>2 DEF SeekRecords, Points
<1>4. seek' = [seek EXCEPT ![t] = r]
  BY <1>2 DEF SeekRoom
<1>5. SeekSound(r)
  BY <1>1, <1>3 DEF SeekSound, Looking
<1>6. spark \in Seq(Entry) /\ SparkMax \in Nat /\ SparkMax > 0
  BY GridAssumption DEF GridInv, TypeOK
<1>7. r.alone => SeekAlone(r)
  <2>1. r.pc = "pop" => spark # <<>>
    BY <1>3, <1>6
  <2> QED
    BY <2>1, <1>1, <1>3 DEF SeekAlone
<1>8. CASE Len(spark) >= SparkMax
  BY <1>3, <1>4, <1>5, <1>7, <1>8, OneSeekMoves DEF SeekRoom
<1>9. CASE ~(Len(spark) >= SparkMax)
  <2>1. /\ seek' \in [Threads -> SeekRecords] /\ seek'[t] = r
        /\ \A u \in Threads : u # t => seek'[u] = seek[u]
    BY <1>1, <1>3, <1>4
  <2>2. TypeOK'
    BY <2>1 DEF GridInv, TypeOK, SeekRoom, SeekRecords, Points, lists
  <2>3. StructuresInv'
    BY StructuresStay DEF GridInv, SeekRoom
  <2>4. SparkCachesStored'
    BY DEF GridInv, SparkCachesStored, Stored, SeekRoom
  <2>5. RoomInv'
    <3>1. Caching' = Caching \cup {t} /\ t \notin Caching
      BY <1>1, <1>3, <1>9, <2>1 DEF Caching
    <3>2. Cardinality(Caching') = Cardinality(Caching) + 1
      BY <3>1, Cardinalities, FS_AddElement
    <3>3. Cardinality(Caching') <= Cardinality(Threads)
      <4>1. Caching' \subseteq Threads
        BY DEF Caching
      <4> QED
        BY <4>1, GridAssumption, FS_Subset
    <3> DEFINE c == Cardinality(Caching)
               c2 == Cardinality(Caching')
               all == Cardinality(Threads)
    <3>4. c \in Nat /\ c2 = c + 1 /\ c2 <= all /\ all \in Nat /\ spark' = spark /\ Len(spark) \in Nat
      BY <3>2, <3>3, <1>6, Cardinalities DEF SeekRoom
    <3>5. Len(spark') + c2 < SparkMax + all
      <4> HIDE DEF c, c2, all
      <4> QED
        BY <3>4, <1>6, <1>9
    <3> QED
      BY <3>5 DEF RoomInv
  <2>6. SeekInv'
    <3> SUFFICES ASSUME NEW u \in Threads
                 PROVE  SeekSound(seek[u])' /\ (seek'[u].alone => SeekAlone(seek[u])')
      BY DEF SeekInv
    <3>1. CASE u = t
      <4>1. SeekSound(seek[u])'
        BY <3>1, <2>1, <1>5 DEF SeekSound, Looking, Stored, SeekRoom
      <4>2. SeekAlone(r) => SeekAlone(seek[u])'
        BY <3>1, <2>1 DEF SeekAlone, Cached, SeekRoom, lists
      <4> QED
        BY <3>1, <2>1, <1>7, <4>1, <4>2
    <3>2. CASE u # t
      BY <3>2, <2>1, <1>6, Undisturbed DEF GridInv, TypeOK, SeekRoom
    <3> QED
      BY <3>1, <3>2
  <2> QED
    BY <2>2, <2>3, <2>4, <2>5, <2>6 DEF GridInv
<1> QED
  BY <1>8, <1>9

LEMMA SeekPopKeeps == ASSUME GridInv, NEW t \in Threads, SeekPop(t) PROVE GridInv'
<1>1. /\ seek \in [Threads -> SeekRecords]
      /\ seek[t] \in SeekRecords /\ SeekSound(seek[t])
      /\ seek[t].alone => SeekAlone(seek[t])
      /\ seek[t].pc = "pop"
  BY SeekTypes DEF GridInv, SeekInv, SeekPop
<1>2. CASE spark = <<>>
  <2>1. ~seek[t].alone
    BY <1>1, <1>2 DEF SeekAlone
  <2> QED
    BY <1>2, <2>1, RaisedKeeps DEF SeekPop
<1>3. CASE spark # <<>>
  <2> DEFINE others == Threads \ {t}
             r == [seek[t] EXCEPT !.pc = "cache"]
  <2>1. seek' = [Disturbed(others) EXCEPT ![t].pc = "cache"] /\ spark' = Tail(spark)
    BY <1>3 DEF SeekPop
  <2>2. /\ r \in SeekRecords /\ r.pc = "cache" /\ r.ranks = seek[t].ranks
        /\ r.glyph = seek[t].glyph /\ r.alone = seek[t].alone /\ r.essence = seek[t].essence
    BY <1>1 DEF SeekRecords, Points
  <2>3. TypeOK
    BY DEF GridInv
  <2>4. Disturbed(others)[t] = seek[t]
    BY <2>3, DisturbedSeeks
  <2>5. DOMAIN Disturbed(others) = Threads
    BY DEF Disturbed
  <2>6. seek'[t] = r /\ DOMAIN seek' = Threads
        /\ \A u \in others : seek'[u] = Disturbed(others)[u]
    BY <2>1, <2>4, <2>5
  <2>7. seek' = [u \in Threads |-> seek'[u]]
    BY <2>1, <2>5 DEF Disturbed
  <2> HIDE DEF r
  <2>8. seek' \in [Threads -> SeekRecords]
    BY <2>2, <2>3, <2>6, <2>7, DisturbedSeeks
  <2>9. Distinct(spark) /\ (\A g \in GlyphsOf(spark) : Stored(g)) /\ spark \in Seq(Entry)
    BY SparkIsCache DEF GridInv, TypeOK
  <2>10. SparkMax \in Nat /\ SparkMax > 0 /\ Len(spark) \in Nat /\ Len(<<>>) = 0
    BY <2>9, GridAssumption
  <2>11. /\ spark' \in Seq(Entry) /\ Distinct(spark') /\ GlyphsOf(spark') \subseteq GlyphsOf(spark)
         /\ Len(spark') = Len(spark) - 1
    BY <1>3, <2>1, <2>9, Popped
  <2>12. TypeOK'
    BY <2>8, <2>11 DEF GridInv, TypeOK, SeekPop, SeekRecords, Points, lists
  <2>13. StructuresInv'
    BY StructuresStay DEF GridInv, SeekPop
  <2>14. SparkCachesStored'
    BY <2>9, <2>11 DEF SparkCachesStored, Distinct, GlyphsOf, Stored, SeekPop
  <2>15. RoomInv'
    <3>1. Caching' = Caching \cup {t} /\ t \notin Caching
      <4>1. \A u \in others : seek'[u].pc = seek[u].pc
        BY <2>3, <2>6, DisturbedSeeks
      <4> QED
        BY <4>1, <1>1, <2>2, <2>6 DEF Caching
    <3>2. Cardinality(Caching') = Cardinality(Caching) + 1
      BY <3>1, Cardinalities, FS_AddElement
    <3>3. Cardinality(Caching') <= Cardinality(Threads)
      <4>1. Caching' \subseteq Threads
        BY DEF Caching
      <4> QED
        BY <4>1, GridAssumption, FS_Subset
    <3>4. Len(spark) + Cardinality(Caching) < SparkMax + Cardinality(Threads)
      BY DEF GridInv, RoomInv
    <3> DEFINE c == Cardinality(Caching)
               c2 == Cardinality(Caching')
               all == Cardinality(Threads)
    <3>5. c \in Nat /\ c2 = c + 1 /\ c2 <= all /\ all \in Nat /\ Len(spark) + c < SparkMax + all
      BY <3>2, <3>3, <3>4, Cardinalities
    <3>6. Len(spark') + c2 < SparkMax + all
      <4> HIDE DEF c, c2, all
      <4> QED
        BY <3>5, <2>10, <2>11, PopArithmetic
    <3> QED
      BY <3>6 DEF RoomInv
  <2>16. SeekInv'
    <3> SUFFICES ASSUME NEW u \in Threads
                 PROVE  SeekSound(seek[u])' /\ (seek'[u].alone => SeekAlone(seek[u])')
      BY DEF SeekInv
    <3>1. CASE u = t
      <4>1. SeekSound(seek[u])'
        BY <3>1, <2>2, <2>6, <1>1 DEF SeekSound, Looking, Stored, SeekPop
      <4>2. seek[t].alone => SeekAlone(seek[u])'
        BY <3>1, <2>2, <2>6, <1>1 DEF SeekAlone, SeekPop, lists
      <4> QED
        BY <3>1, <2>2, <2>6, <4>1, <4>2
    <3>2. CASE u # t
      <4>1. u \in others /\ seek'[u] = Disturbed(others)[u]
        BY <3>2, <2>6
      <4>2. /\ seek'[u].pc = seek[u].pc /\ seek'[u].glyph = seek[u].glyph
            /\ seek'[u].essence = seek[u].essence /\ seek'[u].left = seek[u].left
            /\ seek'[u].right = seek[u].right /\ (seek'[u].pc = "idle" \/ ~seek'[u].alone)
        BY <4>1, <2>3, DisturbedSeeks
      <4> QED
        BY <4>2, WhenDisturbed DEF GridInv, SeekPop
    <3> QED
      BY <3>1, <3>2
  <2> QED
    BY <2>12, <2>13, <2>14, <2>15, <2>16 DEF GridInv
<1> QED
  BY <1>2, <1>3

LEMMA SeekCacheKeeps == ASSUME GridInv, NEW t \in Threads, SeekCache(t) PROVE GridInv'
<1> DEFINE g == seek[t].glyph
           entry == [glyph |-> g, essence |-> seek[t].essence]
<1>1. /\ seek \in [Threads -> SeekRecords]
      /\ seek[t] \in SeekRecords /\ SeekSound(seek[t])
      /\ seek[t].alone => SeekAlone(seek[t])
      /\ seek[t].pc = "cache"
  BY SeekTypes DEF GridInv, SeekInv, SeekCache
<1>2. g \in Glyphs /\ Stored(g) /\ entry \in Entry /\ seek[t].essence \in Essences
  BY <1>1 DEF SeekSound, Looking, Entry
<1>3. Distinct(spark) /\ (\A h \in GlyphsOf(spark) : Stored(h)) /\ spark \in Seq(Entry)
  BY SparkIsCache DEF GridInv, TypeOK
<1>4. spark' = SparkWith(entry) /\ seek' = Found(t, seek[t].essence)
  BY DEF SeekCache
<1>5. /\ spark' \in Seq(Entry) /\ Distinct(spark')
      /\ GlyphsOf(spark') = GlyphsOf(spark) \cup {g}
      /\ Len(spark') \in Nat /\ Len(spark) \in Nat /\ Len(spark') <= Len(spark) + 1
  <2>0. entry.glyph = g
    OBVIOUS
  <2> HIDE DEF entry
  <2>1. CASE Cached(g)
    <3>1. spark' = [i \in DOMAIN spark |-> IF i \in At(spark, entry.glyph) THEN entry ELSE spark[i]]
      BY <2>0, <2>1, <1>4 DEF SparkWith
    <3>2. /\ spark' \in Seq(Entry) /\ Len(spark') = Len(spark) /\ DOMAIN spark' = DOMAIN spark
          /\ \A i \in DOMAIN spark : spark'[i].glyph = spark[i].glyph
      BY <3>1, <1>2, <1>3, Replaced
    <3>3. GlyphsOf(spark') = GlyphsOf(spark) /\ Distinct(spark')
      BY <3>2, <1>3 DEF GlyphsOf, Distinct
    <3>4. g \in GlyphsOf(spark)
      BY <2>1, HasEntry DEF Cached
    <3>5. Len(spark) \in Nat
      BY <1>3
    <3> QED
      BY <3>2, <3>3, <3>4, <3>5
  <2>2. CASE ~Cached(g)
    <3>1. spark' = Append(spark, entry)
      BY <2>0, <2>2, <1>4 DEF SparkWith
    <3>2. entry.glyph \notin GlyphsOf(spark)
      BY <2>0, <2>2, HasEntry DEF Cached
    <3>3. Len(spark) \in Nat
      BY <1>3
    <3> QED
      BY <2>0, <3>1, <3>2, <3>3, <1>2, <1>3, Added
  <2> QED
    BY <2>1, <2>2
<1>6. PICK r : r = [seek[t] EXCEPT !.pc = "found", !.essence = seek[t].essence,
                                   !.left = 1, !.right = 0]
  OBVIOUS
<1>7. /\ r \in SeekRecords /\ r.pc = "found" /\ r.essence = seek[t].essence
      /\ r.alone = seek[t].alone /\ r.ranks = seek[t].ranks
  BY <1>6, <1>1 DEF SeekRecords, Points
<1>8. seek' = [seek EXCEPT ![t] = r]
  BY <1>4, <1>6 DEF Found
<1>9. /\ seek' \in [Threads -> SeekRecords] /\ seek'[t] = r
      /\ \A u \in Threads : u # t => seek'[u] = seek[u]
  BY <1>7, <1>8, <1>1
<1>11. TypeOK'
  BY <1>5, <1>9 DEF GridInv, TypeOK, SeekCache, SeekRecords, Points, lists
<1>12. StructuresInv'
  BY StructuresStay DEF GridInv, SeekCache
<1>13. SparkCachesStored'
  <2>1. \A h \in GlyphsOf(spark') : Stored(h)
    BY <1>2, <1>3, <1>5
  <2> QED
    BY <2>1, <1>5 DEF SparkCachesStored, Distinct, GlyphsOf, Stored, SeekCache
<1>14. RoomInv'
  <2>1. Caching' = Caching \ {t} /\ t \in Caching
    BY <1>1, <1>7, <1>9 DEF Caching
  <2>2. Cardinality(Caching') = Cardinality(Caching) - 1 /\ Cardinality(Caching') \in Nat
    BY <2>1, Cardinalities, FS_RemoveElement, FS_CardinalityType
  <2>3. SparkMax \in Nat
    BY GridAssumption
  <2>4. Len(spark') + Cardinality(Caching') <= Len(spark) + Cardinality(Caching)
    <3> DEFINE c == Cardinality(Caching)
               c2 == Cardinality(Caching')
    <3>1. c \in Nat /\ c2 = c - 1
      BY <2>2, Cardinalities
    <3> HIDE DEF c, c2
    <3>2. Len(spark') + c2 <= Len(spark) + c
      BY <3>1, <1>5
    <3> QED
      BY <3>2 DEF c, c2
  <2> QED
    BY <2>2, <2>3, <2>4, <1>5, Cardinalities, RoomArithmetic DEF GridInv, RoomInv
<1>15. SeekInv'
  <2> SUFFICES ASSUME NEW u \in Threads
               PROVE  SeekSound(seek[u])' /\ (seek'[u].alone => SeekAlone(seek[u])')
    BY DEF SeekInv
  <2>1. CASE u = t
    <3>1. SeekSound(seek[u])'
      BY <2>1, <1>7, <1>9 DEF SeekSound, Looking
    <3>2. r.alone => SeekAlone(seek[u])'
      BY <2>1, <1>1, <1>2, <1>7, <1>9, GridAssumption DEF SeekAlone, SeekCache, lists
    <3> QED
      BY <2>1, <1>9, <3>1, <3>2
  <2>2. CASE u # t
    BY <2>2, <1>5, <1>9, Undisturbed DEF GridInv, TypeOK, SeekCache
  <2> QED
    BY <2>1, <2>2
<1> QED
  BY <1>11, <1>12, <1>13, <1>14, <1>15 DEF GridInv
-----------------------------------------------------------------------------
(* The steps of an injection                                               *)

\* A step of the injection that changes only the lists leaves queries sound.
LEMMA InjectionLeavesQueries ==
  ASSUME GridInv, UNCHANGED <<shards, spark, seek>>,
         (inj.pc = "idle" /\ inj'.pc = "shard") \/ inj.pc \notin {"idle", "shard"},
         DOMAIN glyphs \subseteq DOMAIN glyphs'
  PROVE  SparkCachesStored' /\ RoomInv' /\ SeekInv'
<1>1. SparkCachesStored'
  BY DEF GridInv, SparkCachesStored, Stored
<1>2. RoomInv'
  <2>1. Caching' = Caching
    BY DEF Caching
  <2> QED
    BY <2>1 DEF GridInv, RoomInv
<1>3. SeekInv'
  <2> SUFFICES ASSUME NEW u \in Threads
               PROVE  SeekSound(seek[u])' /\ (seek'[u].alone => SeekAlone(seek[u])')
    BY DEF SeekInv
  <2>1. SeekSound(seek[u]) /\ (seek[u].alone => SeekAlone(seek[u]))
    BY DEF GridInv, SeekInv
  <2>2. SeekSound(seek[u])'
    BY <2>1 DEF SeekSound, Looking, Stored
  <2>3. seek[u].alone => SeekAlone(seek[u])'
    BY <2>1 DEF SeekAlone, Cached
  <2> QED
    BY <2>2, <2>3
<1> QED
  BY <1>1, <1>2, <1>3

LEMMA InjectEtchKeeps ==
  ASSUME GridInv, NEW g \in Glyphs, NEW e \in Essences, InjectEtch(g, e)
  PROVE  GridInv'
<1>1. /\ inj.pc = "idle" /\ echo' = echo \cup Etch[g]
      /\ inj' = [pc |-> "shard", glyph |-> g, essence |-> e]
      /\ UNCHANGED <<shards, total, spark, lists, seek>>
  BY DEF InjectEtch, LoopFree
<1>2. inj'.pc = "shard" /\ inj'.glyph = g /\ inj'.essence = e
  BY <1>1
<1>3. TypeOK'
  <2>1. Etch[g] \subseteq Bits
    BY GridAssumption
  <2>2. inj' \in [pc : {"idle", "shard", "vector", "glyph"}, glyph : Glyphs \cup {0},
                  essence : Essences \cup {None}]
    BY <1>1
  <2> QED
    BY <1>1, <2>1, <2>2 DEF GridInv, TypeOK, lists
<1>4. ShardsInv'
  BY <1>1, <1>2 DEF GridInv, StructuresInv, ShardsInv, ShardsSearchable
<1>5. TotalIsExact' /\ Injecting'
  BY <1>1, <1>2 DEF GridInv, StructuresInv, TotalIsExact, Injecting
<1>6. ListsInv'
  BY <1>1, <1>2 DEF GridInv, StructuresInv, ListsInv, Stored, Pending, InShard, HasVector, lists
<1>7. SparkCachesStored' /\ RoomInv' /\ SeekInv'
  BY <1>1, <1>2, InjectionLeavesQueries DEF lists
<1> QED
  BY <1>3, <1>4, <1>5, <1>6, <1>7 DEF GridInv, StructuresInv

\* A grid has finitely many places: those of its shards.
LEMMA PlacesFinite ==
  ASSUME NEW grid \in [Shards -> Seq(Entry)]
  PROVE  /\ IsFiniteSet(Places(grid)) /\ Cardinality(Places(grid)) \in Nat
         /\ \A u, i : <<u, i>> \in Places(grid) <=> u \in Shards /\ i \in 1..Len(grid[u])
         /\ \A p \in Places(grid) : p = <<p[1], p[2]>>
<1>1. \A u \in Shards : DOMAIN grid[u] = 1..Len(grid[u]) /\ Len(grid[u]) \in Nat
  OBVIOUS
<1> DEFINE of(u) == {u} \X DOMAIN grid[u]
           parts == {of(u) : u \in Shards}
<1>2. IsFiniteSet(parts)
  <2> DEFINE f == [u \in Shards |-> of(u)]
  <2> HIDE DEF of
  <2>1. f \in Surjection(Shards, parts)
    BY DEF Surjection
  <2> HIDE DEF f, parts
  <2> QED
    BY <2>1, GridAssumption, FS_Surjection
<1>3. ASSUME NEW u \in Shards PROVE IsFiniteSet(of(u))
  <2>1. IsFiniteSet(DOMAIN grid[u])
    BY <1>1, FS_Interval
  <2>2. IsFiniteSet({u})
    BY FS_Singleton
  <2> QED
    BY <2>1, <2>2, FS_Product
<1>4. Places(grid) = UNION parts
  BY DEF Places
<1>5. IsFiniteSet(UNION parts)
  <2> HIDE DEF of
  <2> QED
    BY <1>2, <1>3, FS_UNION
<1>6. \A u, i : <<u, i>> \in Places(grid) <=> u \in Shards /\ i \in 1..Len(grid[u])
  BY <1>1 DEF Places
<1>7. \A p \in Places(grid) : p = <<p[1], p[2]>>
  BY DEF Places
<1> QED
  BY <1>4, <1>5, <1>6, <1>7, FS_CardinalityType

\* The number of essences after a shard got one, or replaced one.
LEMMA TotalFollows ==
  ASSUME NEW old \in [Shards -> Seq(Entry)], NEW new \in [Shards -> Seq(Entry)],
         NEW s \in Shards, NEW more \in {0, 1},
         \A u \in Shards : u # s => new[u] = old[u],
         Len(new[s]) = Len(old[s]) + more
  PROVE  Cardinality(Places(new)) = Cardinality(Places(old)) + more
<1>1. /\ IsFiniteSet(Places(old)) /\ Cardinality(Places(old)) \in Nat
      /\ \A u, i : <<u, i>> \in Places(old) <=> u \in Shards /\ i \in 1..Len(old[u])
      /\ \A p \in Places(old) : p = <<p[1], p[2]>>
  BY PlacesFinite
<1>2. /\ \A u, i : <<u, i>> \in Places(new) <=> u \in Shards /\ i \in 1..Len(new[u])
      /\ \A p \in Places(new) : p = <<p[1], p[2]>>
  BY PlacesFinite
<1>3. \A u \in Shards : u # s => Len(new[u]) = Len(old[u])
  OBVIOUS
<1>4. Len(old[s]) \in Nat
  OBVIOUS
<1>5. CASE more = 0
  <2>1. \A u \in Shards : Len(new[u]) = Len(old[u])
    BY <1>3, <1>4, <1>5
  <2>2. Places(new) = Places(old)
    <3>1. ASSUME NEW u, NEW i PROVE <<u, i>> \in Places(new) <=> <<u, i>> \in Places(old)
      BY <1>1, <1>2, <2>1
    <3>2. ASSUME NEW p PROVE p \in Places(new) <=> p \in Places(old)
      BY <1>1, <1>2, <3>1
    <3> QED
      BY <3>2
  <2> QED
    BY <1>1, <1>5, <2>2
<1>6. CASE more = 1
  <2> DEFINE last == <<s, Len(old[s]) + 1>>
  <2>1. last \notin Places(old)
    BY <1>1, <1>4
  <2>2. 1..Len(new[s]) = 1..Len(old[s]) \cup {Len(old[s]) + 1}
    BY <1>4, <1>6
  <2>3. \A u, i : <<u, i>> \in Places(new) <=> <<u, i>> \in Places(old) \/ <<u, i>> = last
    BY <1>1, <1>2, <1>3, <2>2
  <2>4. Places(new) = Places(old) \cup {last}
    <3>1. last = <<last[1], last[2]>>
      OBVIOUS
    <3> HIDE DEF last
    <3>2. ASSUME NEW p PROVE p \in Places(new) <=> p \in Places(old) \/ p = last
      <4>1. <<p[1], p[2]>> \in Places(new) <=> <<p[1], p[2]>> \in Places(old) \/ <<p[1], p[2]>> = last
        BY <2>3
      <4>2. CASE p = <<p[1], p[2]>>
        BY <4>1, <4>2, Zenon
      <4>3. CASE p # <<p[1], p[2]>>
        BY <1>1, <1>2, <3>1, <4>3, Zenon
      <4> QED
        BY <4>2, <4>3
    <3> QED
      BY <3>2
  <2> HIDE DEF last
  <2>5. Cardinality(Places(old) \cup {last}) = Cardinality(Places(old)) + 1
    BY <1>1, <2>1, FS_AddElement
  <2> QED
    BY <1>6, <2>4, <2>5
<1> QED
  BY <1>5, <1>6

LEMMA InjectShardKeeps == ASSUME GridInv, InjectShard PROVE GridInv'
<1> DEFINE g == inj.glyph
           e == inj.essence
           entry == [glyph |-> g, essence |-> e]
           s == ShardOf[g]
           new == Put(shards[s], entry)
<1>0. TypeOK /\ Injecting /\ ShardsInv /\ TotalIsExact /\ ListsInv
  BY DEF GridInv, StructuresInv
<1>1. /\ inj.pc = "shard" /\ g \in Glyphs /\ e \in Essences /\ s \in Shards
      /\ entry \in Entry /\ entry.glyph = g
  BY <1>0, GridAssumption DEF InjectShard, Injecting, Entry
<1>2. shards[s] \in Seq(Entry) /\ Sorted(shards[s]) /\ shards \in [Shards -> Seq(Entry)]
  BY <1>0, <1>1 DEF TypeOK, ShardsInv, ShardsSearchable, Sorted
<1>3. shards' = [shards EXCEPT ![s] = new]
  <2>1. Stored(g) <=> At(shards[s], entry.glyph) # {}
    BY <1>1 DEF Stored
  <2>2. shards' = [shards EXCEPT ![s] =
           IF Stored(g)
           THEN [i \in DOMAIN shards[s] |-> IF i \in At(shards[s], g) THEN entry ELSE shards[s][i]]
           ELSE InsertAt(shards[s], InsertionPoint(shards[s], g), entry)]
    BY DEF InjectShard
  <2> QED
    BY <2>1, <2>2, <1>1 DEF Put
<1>4. /\ total' = Count(g) /\ inj' = [inj EXCEPT !.pc = "vector"]
      /\ seek' = Disturbed(Threads) /\ UNCHANGED <<echo, spark, vectors, glyphs>>
  BY DEF InjectShard, lists
<1>5. /\ new \in Seq(Entry)
      /\ Sorted(new)
      /\ Len(new) = IF Stored(g) THEN Len(shards[s]) ELSE Len(shards[s]) + 1
      /\ \E i \in DOMAIN new : new[i] = entry
      /\ \A i \in DOMAIN new : \/ new[i] = entry
                               \/ /\ new[i].glyph # g
                                  /\ \E k \in DOMAIN shards[s] : new[i] = shards[s][k]
      /\ \A k \in DOMAIN shards[s] : shards[s][k].glyph # g =>
           \E i \in DOMAIN new : new[i] = shards[s][k]
  <2>1. Stored(g) <=> At(shards[s], g) # {}
    BY DEF Stored
  <2>2. PICK shard : shard = shards[s]
    OBVIOUS
  <2>3. PICK x : x = entry
    OBVIOUS
  <2>4. PICK y : y = new
    OBVIOUS
  <2>5. y = Put(shard, x)
    BY <2>2, <2>3, <2>4
  <2>6. x \in Entry /\ shard \in Seq(Entry) /\ Sorted(shard)
    BY <2>2, <2>3, <1>1, <1>2
  <2>7. HoldsNow(y, shard, x)
    BY <2>5, <2>6, PutProperties
  <2>8. x.glyph = g
    BY <2>3
  <2> HIDE DEF new, entry
  <2> QED
    BY <2>1, <2>2, <2>3, <2>4, <2>7, <2>8 DEF HoldsNow
<1> HIDE DEF new
<1>6. /\ shards' \in [Shards -> Seq(Entry)] /\ shards'[s] = new
      /\ \A u \in Shards : u # s => shards'[u] = shards[u]
  BY <1>1, <1>2, <1>3, <1>5
<1>7. /\ inj'.pc = "vector" /\ inj'.glyph = g /\ inj'.essence = e
      /\ inj' \in [pc : {"idle", "shard", "vector", "glyph"}, glyph : Glyphs \cup {0},
                   essence : Essences \cup {None}]
  BY <1>0, <1>4 DEF TypeOK
<1>8. ASSUME NEW h \in Glyphs
      PROVE  Stored(h)' <=> Stored(h) \/ h = g
  <2>1. ShardOf[h] \in Shards
    BY GridAssumption
  <2>2. CASE ShardOf[h] # s
    BY <2>1, <2>2, <1>6 DEF Stored
  <2>3. CASE ShardOf[h] = s
    <3>1. Stored(h) <=> \E k \in DOMAIN shards[s] : shards[s][k].glyph = h
      BY <2>3 DEF Stored, At
    <3>2. Stored(h)' <=> \E i \in DOMAIN new : new[i].glyph = h
      BY <2>3, <1>6 DEF Stored, At
    <3>3. CASE h = g
      BY <3>2, <3>3, <1>1, <1>5
    <3>4. CASE h # g
      BY <3>1, <3>2, <3>4, <1>1, <1>5
    <3> QED
      BY <3>3, <3>4
  <2> QED
    BY <2>2, <2>3
<1>9. ASSUME NEW h \in Glyphs, h # g, NEW f, InShard(h, f)
      PROVE  InShard(h, f)'
  <2> DEFINE pair == [glyph |-> h, essence |-> f]
  <2>1. ShardOf[h] \in Shards
    BY GridAssumption
  <2>2. PICK k \in DOMAIN shards[ShardOf[h]] : shards[ShardOf[h]][k] = pair
    BY <1>9 DEF InShard, Range
  <2>3. pair.glyph # g
    BY <1>9
  <2> HIDE DEF pair
  <2>4. pair \in Range(shards'[ShardOf[h]])
    <3>1. CASE ShardOf[h] # s
      BY <2>1, <2>2, <3>1, <1>6 DEF Range
    <3>2. CASE ShardOf[h] = s
      BY <2>2, <2>3, <3>2, <1>5, <1>6 DEF Range
    <3> QED
      BY <3>1, <3>2
  <2> QED
    BY <2>4 DEF InShard, pair
<1>10. InShard(g, e)'
  <2>1. entry \in Range(shards'[s])
    BY <1>5, <1>6 DEF Range
  <2>2. entry = [glyph |-> inj.glyph, essence |-> inj.essence]'
    BY <1>7
  <2> QED
    BY <2>1, <2>2, <1>7 DEF InShard
<1>11. ShardsInv'
  <2> HIDE DEF entry
  <2>1. \A u \in Shards : \A i, j \in DOMAIN shards'[u] :
          i < j => shards'[u][i].glyph < shards'[u][j].glyph
    BY <1>0, <1>5, <1>6 DEF ShardsInv, ShardsSearchable, Sorted
  <2>2. ASSUME NEW u \in Shards, NEW i \in DOMAIN shards'[u]
        PROVE  ShardOf[shards'[u][i].glyph] = u /\ Etch[shards'[u][i].glyph] \subseteq echo
    <3>1. CASE u # s
      BY <3>1, <1>0, <1>6 DEF ShardsInv, ShardsSearchable
    <3>2. CASE u = s
      <4>1. new[i] = entry \/ \E k \in DOMAIN shards[s] : new[i] = shards[s][k]
        BY <3>2, <1>5, <1>6
      <4>2. Etch[g] \subseteq echo
        BY <1>0, <1>1 DEF ShardsInv
      <4> QED
        BY <3>2, <4>1, <4>2, <1>0, <1>1, <1>6 DEF ShardsInv, ShardsSearchable
    <3> QED
      BY <3>1, <3>2
  <2> QED
    BY <2>1, <2>2, <1>4, <1>7 DEF ShardsInv, ShardsSearchable
<1>12. TotalIsExact' /\ total' \in Nat
  <2> DEFINE more == IF Stored(g) THEN 0 ELSE 1
  <2>1. Len(shards'[s]) = Len(shards[s]) + more /\ more \in {0, 1}
    <3>1. Len(shards[s]) \in Nat
      BY <1>2
    <3> DEFINE len == Len(shards[s])
    <3>2. Len(shards'[s]) = (IF Stored(g) THEN len ELSE len + 1) /\ len \in Nat
      BY <3>1, <1>5, <1>6
    <3> HIDE DEF len
    <3>3. Len(shards'[s]) = len + more /\ more \in {0, 1}
      BY <3>2
    <3> QED
      BY <3>3 DEF len
  <2>2. total' = total + more /\ total \in Nat
    BY <1>0, <1>4 DEF Count, TypeOK
  <2> HIDE DEF more
  <2>3. Cardinality(Places(shards')) = Cardinality(Places(shards)) + more
    BY <2>1, <1>1, <1>2, <1>6, TotalFollows
  <2> QED
    BY <2>1, <2>2, <2>3, <1>0 DEF TotalIsExact
<1>13. ListsInv'
  <2>0. Len(vectors) = Len(glyphs) /\ total = Len(glyphs) /\ Len(glyphs) \in Nat
    BY <1>0, <1>1 DEF ListsInv, TypeOK
  <2>1. \A i \in DOMAIN glyphs : glyphs[i] \in Glyphs
    BY <1>0 DEF TypeOK
  <2>2. \A h : HasVector(h)' <=> HasVector(h)
    BY <1>4 DEF HasVector
  <2>3. \A h : Pending(h)' <=> h = g
    BY <1>7 DEF Pending
  <2>4. \A h : ~Pending(h)
    BY <1>1 DEF Pending
  <2>5. ASSUME NEW i \in DOMAIN glyphs'
        PROVE  Stored(glyphs[i])' /\ (Pending(glyphs[i])' \/ InShard(glyphs[i], vectors[i])')
    <3>1. i \in DOMAIN glyphs /\ glyphs[i] \in Glyphs /\ Stored(glyphs[i]) /\ InShard(glyphs[i], vectors[i])
      BY <2>1, <2>4, <1>0, <1>4 DEF ListsInv
    <3>2. PICK h : h = glyphs[i]
      OBVIOUS
    <3>3. PICK f : f = vectors[i]
      OBVIOUS
    <3>4. Stored(h)' /\ (h = g \/ InShard(h, f)')
      BY <3>1, <3>2, <3>3, <1>8, <1>9
    <3>5. glyphs'[i] = h /\ vectors'[i] = f
      BY <3>2, <3>3, <1>4
    <3> QED
      BY <3>4, <3>5, <1>7 DEF Stored, InShard, Pending
  <2>6. ASSUME NEW h \in Glyphs
        PROVE  Stored(h)' => HasVector(h)' \/ Pending(h)'
    BY <2>2, <2>3, <2>4, <1>0, <1>8 DEF ListsInv
  <2>7. total' = IF ~HasVector(g) THEN Len(glyphs) + 1 ELSE Len(glyphs)
    <3>1. Stored(g) <=> HasVector(g)
      BY <2>4, <1>0, <1>1 DEF ListsInv, HasVector
    <3> QED
      BY <3>1, <2>0, <1>4 DEF Count
  <2>8. \A i, j \in DOMAIN glyphs' : glyphs'[i] = glyphs'[j] => i = j
    BY <1>0, <1>4 DEF ListsInv
  <2>9. inj'.pc \in {"vector", "glyph"} => InShard(inj.glyph, inj.essence)'
    BY <1>7, <1>10 DEF InShard
  <2>10. HasVector(inj.glyph)' <=> HasVector(g)
    BY <1>4, <1>7 DEF HasVector
  <2> QED
    BY <2>0, <2>5, <2>6, <2>7, <2>8, <2>9, <2>10, <1>4, <1>7 DEF ListsInv
<1>14. TypeOK'
  <2>1. seek' \in [Threads -> SeekRecords]
    <3>1. \A u \in Threads : Disturbed(Threads)[u] \in SeekRecords
      BY <1>0, DisturbedSeeks
    <3> QED
      BY <3>1, <1>4 DEF Disturbed
  <2> QED
    BY <2>1, <1>0, <1>4, <1>6, <1>7, <1>12 DEF TypeOK, SeekRecords, Points
<1>15. SparkCachesStored'
  <2>1. \A i \in DOMAIN spark : spark[i].glyph \in Glyphs
    <3>1. \A i \in DOMAIN spark : spark[i] \in Entry
      BY <1>0 DEF TypeOK
    <3> QED
      BY <3>1 DEF Entry
  <2>2. ASSUME NEW i \in DOMAIN spark
        PROVE  Stored(spark[i].glyph)'
    <3>1. PICK h \in Glyphs : h = spark[i].glyph
      BY <2>1
    <3>2. Stored(h)
      BY <3>1 DEF GridInv, SparkCachesStored
    <3>3. Stored(h)'
      BY <3>2, <1>8
    <3> QED
      BY <3>1, <3>3, <1>4 DEF Stored
  <2> QED
    BY <2>2, <1>4 DEF GridInv, SparkCachesStored
<1>16. RoomInv'
  <2>1. Caching' = Caching
    BY <1>0, <1>4, DisturbedSeeks DEF Caching
  <2> QED
    BY <2>1, <1>4 DEF GridInv, RoomInv
<1>17. SeekInv'
  <2> SUFFICES ASSUME NEW u \in Threads
               PROVE  SeekSound(seek[u])' /\ (seek'[u].alone => SeekAlone(seek[u])')
    BY DEF SeekInv
  <2>1. /\ seek'[u].pc = seek[u].pc /\ seek'[u].glyph = seek[u].glyph
        /\ seek'[u].essence = seek[u].essence /\ seek'[u].left = seek[u].left
        /\ seek'[u].right = seek[u].right
        /\ seek'[u].pc = "idle" \/ ~seek'[u].alone
    BY <1>0, <1>4, DisturbedSeeks
  <2>2. SeekSound(seek[u])
    BY DEF GridInv, SeekInv
  <2>3. seek'[u].pc = "idle" => SeekAlone(seek[u])'
    BY DEF SeekAlone
  <2>4. SeekSound(seek[u])'
    <3>1. ASSUME seek[u].pc \in Looking
          PROVE  /\ seek'[u].glyph \in Glyphs /\ Stored(seek[u].glyph)'
                 /\ Len(shards'[ShardOf[seek[u].glyph]]) >= Len(shards[ShardOf[seek[u].glyph]])
                 /\ Len(shards[ShardOf[seek[u].glyph]]) \in Nat
                 /\ Len(shards'[ShardOf[seek[u].glyph]]) \in Nat
      <4>1. PICK h \in Glyphs : h = seek[u].glyph /\ Stored(h)
        BY <3>1, <2>2 DEF SeekSound, Looking
      <4>2. Stored(h)'
        BY <4>1, <1>8
      <4>3. ShardOf[h] \in Shards
        BY GridAssumption
      <4>4. Len(shards[ShardOf[h]]) \in Nat /\ Len(shards'[ShardOf[h]]) \in Nat
        BY <4>3, <1>2, <1>6
      <4>5. Len(shards'[ShardOf[h]]) >= Len(shards[ShardOf[h]])
        BY <4>3, <4>4, <1>5, <1>6
      <4> QED
        BY <4>1, <4>2, <4>4, <4>5, <2>1 DEF Stored
    <3>2. seek[u].right \in Nat
      BY <1>0, SeekTypes DEF SeekRecords
    <3>3. /\ seek'[u].pc \in Looking =>
               seek'[u].glyph \in Glyphs /\ Stored(seek[u].glyph)'
      BY <3>1, <2>1
    <3>4. seek'[u].pc = "probe" => seek'[u].left >= 1 /\ seek'[u].right <= Len(shards'[ShardOf[seek'[u].glyph]])
      <4> SUFFICES ASSUME seek[u].pc = "probe"
                   PROVE  seek[u].left >= 1 /\ seek[u].right <= Len(shards'[ShardOf[seek[u].glyph]])
        BY <2>1
      <4>1. seek[u].left >= 1 /\ seek[u].right <= Len(shards[ShardOf[seek[u].glyph]])
        BY <2>2 DEF SeekSound, Looking
      <4> QED
        BY <4>1, <3>1, <3>2 DEF Looking
    <3>5. seek'[u].pc \in {"touch", "member", "room", "pop", "cache"} => seek'[u].essence \in Essences
      BY <2>1, <2>2 DEF SeekSound, Looking
    <3> QED
      BY <3>3, <3>4, <3>5 DEF SeekSound, Looking
  <2> QED
    BY <2>1, <2>3, <2>4
<1> QED
  BY <1>7, <1>1, <1>11, <1>12, <1>13, <1>14, <1>15, <1>16, <1>17
     DEF GridInv, StructuresInv, Injecting
LEMMA InjectVectorKeeps == ASSUME GridInv, InjectVector PROVE GridInv'
<1> DEFINE g == inj.glyph
           e == inj.essence
<1>0. TypeOK /\ Injecting /\ ShardsInv /\ TotalIsExact /\ ListsInv
  BY DEF GridInv, StructuresInv
<1>1. /\ inj.pc = "vector" /\ g \in Glyphs /\ e \in Essences
      /\ UNCHANGED <<shards, total, echo, spark, glyphs, seek>>
  BY <1>0 DEF InjectVector, Injecting
<1>2. /\ vectors \in Seq(Essences) /\ glyphs \in Seq(Glyphs)
      /\ Len(vectors) = Len(glyphs) /\ Len(glyphs) \in Nat
      /\ DOMAIN vectors = 1..Len(glyphs) /\ DOMAIN glyphs = 1..Len(glyphs)
  BY <1>0, <1>1 DEF TypeOK, ListsInv
<1>3. SparkCachesStored' /\ RoomInv' /\ SeekInv'
  BY <1>1, InjectionLeavesQueries
<1>4. TotalIsExact'
  BY <1>0, <1>1 DEF TotalIsExact
<1>5. ASSUME NEW i \in DOMAIN glyphs
      PROVE  Stored(glyphs[i]) /\ (glyphs[i] = g \/ InShard(glyphs[i], vectors[i]))
  BY <1>0, <1>1 DEF ListsInv, Pending
<1>6. ASSUME NEW h \in Glyphs, Stored(h)
      PROVE  HasVector(h) \/ h = g
  BY <1>0, <1>6 DEF ListsInv, Pending
<1>7. InShard(g, e) /\ \A i, j \in DOMAIN glyphs : glyphs[i] = glyphs[j] => i = j
  BY <1>0, <1>1 DEF ListsInv
<1>8. total = IF HasVector(g) THEN Len(glyphs) ELSE Len(glyphs) + 1
  BY <1>0, <1>1 DEF ListsInv
<1>9. CASE HasVector(g)
  <2>1. /\ vectors' = [i \in DOMAIN vectors |-> IF glyphs[i] = g THEN e ELSE vectors[i]]
        /\ inj' = NoInject
    BY <1>9 DEF InjectVector
  <2>2. inj'.pc = "idle" /\ inj' \in [pc : {"idle", "shard", "vector", "glyph"},
                                      glyph : Glyphs \cup {0}, essence : Essences \cup {None}]
    BY <2>1 DEF NoInject
  <2>3. vectors' \in Seq(Essences) /\ Len(vectors') = Len(vectors)
    <3>1. vectors' \in [1..Len(vectors) -> Essences]
      BY <2>1, <1>1, <1>2
    <3> QED
      BY <3>1, <1>2
  <2>4. TypeOK'
    BY <2>2, <2>3, <1>0, <1>1 DEF TypeOK
  <2>5. ShardsInv' /\ Injecting'
    BY <2>2, <1>0, <1>1 DEF ShardsInv, ShardsSearchable, Injecting
  <2>6. ListsInv'
    <3>1. ASSUME NEW i \in DOMAIN glyphs'
          PROVE  Stored(glyphs[i])' /\ InShard(glyphs[i], vectors[i])'
      <4>1. vectors'[i] = IF glyphs[i] = g THEN e ELSE vectors[i]
        BY <2>1, <1>1, <1>2
      <4> QED
        BY <4>1, <1>1, <1>5, <1>7 DEF Stored, InShard
    <3>2. \A h \in Glyphs : Stored(h)' => HasVector(h)'
      BY <1>1, <1>6, <1>9 DEF Stored, HasVector
    <3> QED
      BY <3>1, <3>2, <2>2, <2>3, <1>1, <1>2, <1>7, <1>8, <1>9 DEF ListsInv
  <2> QED
    BY <2>4, <2>5, <2>6, <1>3, <1>4 DEF GridInv, StructuresInv
<1>10. CASE ~HasVector(g)
  <2>1. /\ vectors' = Append(vectors, e)
        /\ inj' = [inj EXCEPT !.pc = "glyph"]
    BY <1>10 DEF InjectVector
  <2>2. /\ inj'.pc = "glyph" /\ inj'.glyph = g /\ inj'.essence = e
        /\ inj' \in [pc : {"idle", "shard", "vector", "glyph"},
                     glyph : Glyphs \cup {0}, essence : Essences \cup {None}]
    BY <2>1, <1>0 DEF TypeOK
  <2>3. /\ vectors' \in Seq(Essences) /\ Len(vectors') = Len(vectors) + 1
        /\ vectors'[Len(vectors')] = e
        /\ \A i \in DOMAIN glyphs : vectors'[i] = vectors[i]
    BY <2>1, <1>1, <1>2, AppendProperties
  <2>4. TypeOK'
    BY <2>2, <2>3, <1>0, <1>1 DEF TypeOK
  <2>5. ShardsInv' /\ Injecting'
    BY <2>2, <1>0, <1>1 DEF ShardsInv, ShardsSearchable, Injecting
  <2>6. ListsInv'
    <3>1. ASSUME NEW i \in DOMAIN glyphs'
          PROVE  Stored(glyphs[i])' /\ (Pending(glyphs[i])' \/ InShard(glyphs[i], vectors[i])')
      <4>1. vectors'[i] = vectors[i] /\ glyphs'[i] = glyphs[i]
        BY <2>3, <1>1
      <4> QED
        BY <4>1, <2>2, <1>1, <1>5 DEF Stored, InShard, Pending
    <3>2. \A h \in Glyphs : Stored(h)' => HasVector(h)' \/ Pending(h)'
      BY <2>2, <1>1, <1>6 DEF Stored, HasVector, Pending
    <3>3. InShard(inj.glyph, inj.essence)'
      BY <2>2, <1>1, <1>7 DEF InShard
    <3>4. ~HasVector(inj.glyph)'
      BY <2>2, <1>1, <1>10 DEF HasVector
    <3>5. Len(vectors') = Len(glyphs') + 1 /\ vectors'[Len(vectors')] = inj'.essence
      BY <2>2, <2>3, <1>1, <1>2
    <3>6. \A i, j \in DOMAIN glyphs' : glyphs'[i] = glyphs'[j] => i = j
      BY <1>1, <1>7
    <3>7. total' = Len(glyphs') + 1
      BY <1>1, <1>8, <1>10
    <3> QED
      BY <3>1, <3>2, <3>3, <3>4, <3>5, <3>6, <3>7, <2>2 DEF ListsInv
  <2> QED
    BY <2>4, <2>5, <2>6, <1>3, <1>4 DEF GridInv, StructuresInv
<1> QED
  BY <1>9, <1>10

LEMMA InjectGlyphKeeps == ASSUME GridInv, InjectGlyph PROVE GridInv'
<1> DEFINE g == inj.glyph
           e == inj.essence
           n == Len(glyphs)
<1>0. TypeOK /\ Injecting /\ ShardsInv /\ TotalIsExact /\ ListsInv
  BY DEF GridInv, StructuresInv
<1>1. /\ inj.pc = "glyph" /\ g \in Glyphs /\ e \in Essences
      /\ UNCHANGED <<shards, total, echo, spark, vectors, seek>>
      /\ glyphs' = Append(glyphs, g) /\ inj' = NoInject
  BY <1>0 DEF InjectGlyph, Injecting
<1>2. /\ glyphs \in Seq(Glyphs) /\ n \in Nat /\ DOMAIN glyphs = 1..n
      /\ Len(vectors) = n + 1 /\ vectors[n + 1] = e /\ ~HasVector(g)
      /\ total = n + 1 /\ InShard(g, e)
  BY <1>0, <1>1 DEF TypeOK, ListsInv
<1>3. /\ glyphs' \in Seq(Glyphs) /\ Len(glyphs') = n + 1 /\ DOMAIN glyphs' = 1..(n + 1)
      /\ \A i \in 1..n : glyphs'[i] = glyphs[i]
      /\ glyphs'[n + 1] = g
  BY <1>1, <1>2, AppendProperties
<1>4. inj'.pc = "idle" /\ inj' \in [pc : {"idle", "shard", "vector", "glyph"},
                                    glyph : Glyphs \cup {0}, essence : Essences \cup {None}]
  BY <1>1 DEF NoInject
<1> HIDE DEF n
<1>5. SparkCachesStored' /\ RoomInv' /\ SeekInv'
  <2>1. DOMAIN glyphs \subseteq DOMAIN glyphs'
    BY <1>2, <1>3
  <2> QED
    BY <2>1, <1>1, InjectionLeavesQueries
<1>6. TotalIsExact'
  BY <1>0, <1>1 DEF TotalIsExact
<1>7. TypeOK'
  BY <1>0, <1>1, <1>3, <1>4 DEF TypeOK
<1>8. ShardsInv' /\ Injecting'
  BY <1>0, <1>1, <1>4 DEF ShardsInv, ShardsSearchable, Injecting
<1>9. ASSUME NEW i \in 1..n
      PROVE  /\ glyphs[i] # g /\ Stored(glyphs[i]) /\ InShard(glyphs[i], vectors[i])
  BY <1>0, <1>2 DEF ListsInv, Pending, HasVector
<1>10. Stored(g)
  <2>1. PICK k \in DOMAIN shards[ShardOf[g]] :
          shards[ShardOf[g]][k] = [glyph |-> g, essence |-> e]
    BY <1>2 DEF InShard, Range
  <2>2. shards[ShardOf[g]][k].glyph = g
    BY <2>1
  <2> QED
    BY <2>2 DEF Stored, At
<1>11. \A i \in 1..(n + 1) : i \in 1..n \/ i = n + 1
  BY <1>2
<1>12. ASSUME NEW i \in DOMAIN glyphs'
       PROVE  Stored(glyphs[i])' /\ InShard(glyphs[i], vectors[i])'
  <2>1. CASE i \in 1..n
    BY <2>1, <1>1, <1>3, <1>9 DEF Stored, InShard
  <2>2. CASE i = n + 1
    BY <2>2, <1>1, <1>2, <1>3, <1>10 DEF Stored, InShard
  <2> QED
    BY <2>1, <2>2, <1>3, <1>11
<1>13. \A i, j \in DOMAIN glyphs' : glyphs'[i] = glyphs'[j] => i = j
  <2> SUFFICES ASSUME NEW i \in 1..(n + 1), NEW j \in 1..(n + 1), glyphs'[i] = glyphs'[j]
               PROVE  i = j
    BY <1>3
  <2>1. CASE i \in 1..n /\ j \in 1..n
    BY <2>1, <1>0, <1>2, <1>3 DEF ListsInv
  <2>2. CASE i = n + 1 \/ j = n + 1
    BY <2>2, <1>3, <1>9, <1>11
  <2> QED
    BY <2>1, <2>2, <1>11
<1>14. ASSUME NEW h \in Glyphs
       PROVE  Stored(h)' => HasVector(h)'
  <2>1. HasVector(h)' <=> \E i \in 1..(n + 1) : glyphs'[i] = h
    BY <1>3 DEF HasVector
  <2>2. n + 1 \in 1..(n + 1) /\ \A i \in 1..n : i \in 1..(n + 1)
    BY <1>2
  <2>3. Stored(h)' <=> Stored(h)
    BY <1>1 DEF Stored
  <2>4. Stored(h) => h = g \/ \E i \in 1..n : glyphs[i] = h
    BY <1>0, <1>2 DEF ListsInv, Pending, HasVector
  <2> QED
    BY <2>1, <2>2, <2>3, <2>4, <1>3
<1>15. Len(vectors') = Len(glyphs') /\ total' = Len(glyphs')
  BY <1>1, <1>2, <1>3
<1>16. ListsInv'
  BY <1>4, <1>12, <1>13, <1>14, <1>15 DEF ListsInv
<1> QED
  BY <1>5, <1>6, <1>7, <1>8, <1>16 DEF GridInv, StructuresInv

-----------------------------------------------------------------------------
(* The theorems                                                            *)

\* An empty grid satisfies the invariant.
LEMMA EmptyGrid ==
  ASSUME shards = [s \in Shards |-> <<>>], total = 0, echo = {}, spark = <<>>,
         vectors = <<>>, glyphs = <<>>, inj.pc = "idle",
         inj \in [pc : {"idle", "shard", "vector", "glyph"}, glyph : Glyphs \cup {0},
                  essence : Essences \cup {None}],
         seek \in [Threads -> SeekRecords], \A t \in Threads : seek[t].pc = "idle"
  PROVE  GridInv
<1>1. TypeOK
  BY DEF TypeOK, SeekRecords, Points
<1>2. ShardsInv /\ Injecting
  BY DEF ShardsInv, ShardsSearchable, Injecting
<1>3. TotalIsExact
  <2>1. \A s \in Shards : DOMAIN shards[s] = {}
    OBVIOUS
  <2>2. Places(shards) = {}
    BY <2>1 DEF Places
  <2> QED
    BY <2>2, FS_EmptySet DEF TotalIsExact
<1>4. ListsInv
  <2>1. \A g \in Glyphs : ~Stored(g)
    BY GridAssumption DEF Stored, At
  <2> QED
    BY <2>1 DEF ListsInv
<1>5. SparkCachesStored
  BY DEF SparkCachesStored
<1>6. RoomInv
  <2>1. Caching = {}
    BY DEF Caching
  <2>2. Cardinality(Caching) = 0 /\ Cardinality(Threads) \in Nat /\ SparkMax \in Nat \ {0}
    BY <2>1, Cardinalities, FS_EmptySet, GridAssumption
  <2> QED
    BY <2>2 DEF RoomInv
<1>7. SeekInv
  BY DEF SeekInv, SeekSound, Looking, SeekAlone
<1> QED
  BY <1>1, <1>2, <1>3, <1>4, <1>5, <1>6, <1>7 DEF GridInv, StructuresInv

LEMMA ClearKeeps == ASSUME GridInv, Clear PROVE GridInv'
<1> USE DEF Clear, LoopFree
<1>1. seek \in [Threads -> SeekRecords] /\ UNCHANGED <<inj, seek>>
  BY SeekTypes DEF GridInv
<1>2. TypeOK'
  BY DEF GridInv, TypeOK
<1>3. ShardsInv' /\ Injecting'
  BY DEF ShardsInv, ShardsSearchable, Injecting
<1>4. TotalIsExact'
  <2>1. \A s \in Shards : DOMAIN shards'[s] = {}
    OBVIOUS
  <2>2. Places(shards') = {}
    BY <2>1 DEF Places
  <2> QED
    BY <2>2, FS_EmptySet DEF TotalIsExact
<1>5. ListsInv'
  <2>1. \A g \in Glyphs : ~Stored(g)'
    BY GridAssumption DEF Stored, At
  <2> QED
    BY <2>1 DEF ListsInv
<1>6. SparkCachesStored'
  BY DEF SparkCachesStored
<1>7. RoomInv'
  <2>1. Caching' = {}
    BY DEF Caching
  <2>2. Cardinality(Caching') = 0 /\ Cardinality(Threads) \in Nat /\ SparkMax \in Nat \ {0}
    BY <2>1, Cardinalities, FS_EmptySet, GridAssumption
  <2>3. Len(spark') = 0
    OBVIOUS
  <2> QED
    BY <2>2, <2>3 DEF RoomInv
<1>8. SeekInv'
  BY DEF SeekInv, SeekSound, Looking, SeekAlone
<1> QED
  BY <1>2, <1>3, <1>4, <1>5, <1>6, <1>7, <1>8 DEF GridInv, StructuresInv

LEMMA GridStep == GridInv /\ [Next]_vars => GridInv'
<1> SUFFICES ASSUME GridInv, [Next]_vars PROVE GridInv'
  OBVIOUS
<1>1. CASE Inject
  BY <1>1, InjectEtchKeeps, InjectShardKeeps, InjectVectorKeeps, InjectGlyphKeeps DEF Inject
<1>2. ASSUME NEW t \in Threads, Query(t) PROVE GridInv'
  BY <1>2, StartQueryKeeps, NextRankKeeps, EndQueryKeeps, SeekSparkKeeps, SeekTouchKeeps,
     SeekEchoKeeps, SeekProbeKeeps, SeekReadKeeps, SeekMemberKeeps, SeekRoomKeeps, SeekPopKeeps,
     SeekCacheKeeps DEF Query
<1>3. CASE Clear
  BY <1>3, ClearKeeps
<1>4. CASE UNCHANGED vars
  <2>1. UNCHANGED <<shards, total, echo, spark, lists, inj, seek>>
    BY <1>4 DEF vars
  <2>2. TypeOK'
    BY <2>1 DEF GridInv, TypeOK, lists
  <2>3. StructuresInv'
    BY <2>1, StructuresStay DEF GridInv
  <2>4. SparkCachesStored'
    BY <2>1 DEF GridInv, SparkCachesStored, Stored
  <2>5. RoomInv'
    <3>1. Caching' = Caching
      BY <2>1 DEF Caching
    <3> QED
      BY <2>1, <3>1 DEF GridInv, RoomInv
  <2>6. SeekInv'
    BY <2>1, Undisturbed DEF GridInv, TypeOK, SeekInv
  <2> QED
    BY <2>2, <2>3, <2>4, <2>5, <2>6 DEF GridInv
<1> QED
  BY <1>1, <1>2, <1>3, <1>4 DEF Next

LEMMA GridAlways == Spec => []GridInv
<1>1. Init => GridInv
  <2> SUFFICES ASSUME Init PROVE GridInv
    OBVIOUS
  <2>1. NoSeek \in SeekRecords /\ NoSeek.pc = "idle"
    BY DEF NoSeek, SeekRecords, Points
  <2>2. /\ inj.pc = "idle"
        /\ inj \in [pc : {"idle", "shard", "vector", "glyph"}, glyph : Glyphs \cup {0},
                    essence : Essences \cup {None}]
    BY DEF Init, NoInject
  <2> QED
    BY <2>1, <2>2, EmptyGrid DEF Init
<1> QED
  BY <1>1, GridStep, PTL DEF Spec

\* At every step of an injection and of the queries of any number of threads
\* (engine/chronos_grid.py takes no lock) the shards are sorted, hold what hashes
\* to them and pass the echo screen, the count of essences is exact, and between
\* injections each stored glyph has one vector, that of its essence.
THEOREM GridConsistent == Spec => []Consistent
<1>1. GridInv => Consistent
  <2> SUFFICES ASSUME GridInv PROVE Consistent
    OBVIOUS
  <2>1. VectorsFollowShards
    BY DEF GridInv, StructuresInv, ListsInv, Pending, InShard, VectorsFollowShards
  <2> QED
    BY <2>1 DEF Consistent, GridInv, StructuresInv, ShardsInv
<1> QED
  BY <1>1, GridAlways, PTL

\* The spark buffer (_spark_buffer) holds a glyph once at most, only glyphs that
\* are stored, and outgrows its limit by fewer entries than there are threads.
THEOREM SparkStaysCoherent == Spec => []SparkCoherent
<1>1. GridInv => SparkCoherent
  <2> SUFFICES ASSUME GridInv PROVE SparkCoherent
    OBVIOUS
  <2>1. SparkBounded
    <3> DEFINE c == Cardinality(Caching)
               all == Cardinality(Threads)
    <3>1. c \in Nat /\ all \in Nat /\ Len(spark) \in Nat /\ SparkMax \in Nat
      BY Cardinalities, GridAssumption DEF GridInv, TypeOK
    <3>2. Len(spark) + c < SparkMax + all
      BY DEF GridInv, RoomInv
    <3>3. Len(spark) < SparkMax + all
      <4> HIDE DEF c, all
      <4> QED
        BY <3>1, <3>2
    <3> QED
      BY <3>3 DEF SparkBounded
  <2> QED
    BY <2>1 DEF SparkCoherent, GridInv
<1> QED
  BY <1>1, GridAlways, PTL

\* A query that no injection and no eviction of another thread disturbs resolves
\* every glyph it ranked: seek_resonance returns its essence, and nothing raises.
THEOREM UndisturbedQueriesResolve == Spec => []AloneQueriesResolve
<1>1. GridInv => AloneQueriesResolve
  BY DEF GridInv, SeekInv, SeekAlone, AloneQueriesResolve, Resolved
<1> QED
  BY <1>1, GridAlways, PTL
=============================================================================
