--------------------------- MODULE Indexing_proofs ---------------------------
(***************************************************************************)
(* Theorems about Indexing and the embedding providers it uses, for every  *)
(* number of threads, size of the cache and set of texts.                  *)
(*                                                                         *)
(* Of Embedding: its types, how far a cache outgrows its limit, and that a *)
(* cached vector was made of a text with its key.  Of Indexing: what one   *)
(* thread on its own indexes and answers, that its fallback stays, and, of *)
(* any number of threads, that what is indexed of a document is its text,  *)
(* and that chunks keep their budget and stand under their headings.       *)
(*                                                                         *)
(* The last three rest on what each stage of Chunking does to a text.      *)
(* Between the stages that join and split texts, what is kept is the text  *)
(* itself (ChunksText); after the windows, which may overlap, that the     *)
(* chunks tile it (Tiled): each is a stretch of the text, they begin one   *)
(* after the other, and no word is left out.  Headings are followed from   *)
(* block to block: those above stand on a stack, each at its level.        *)
(***************************************************************************)
EXTENDS Indexing, FiniteSetTheorems, SequenceTheorems, TLAPS

-----------------------------------------------------------------------------
(* Lemmas about texts and caches                                           *)

\* The beginning of a text is a text, and is its own beginning.
LEMMA UptoText ==
  ASSUME NEW limit \in Nat, NEW text \in Texts
  PROVE  /\ Upto(limit, text) \in Texts
         /\ Upto(limit, Upto(limit, text)) = Upto(limit, text)
<1>1. CASE Len(text) > limit
  <2>1. /\ SubSeq(text, 1, limit) \in Seq(Words)
        /\ Len(SubSeq(text, 1, limit)) = limit
    BY <1>1 DEF Texts
  <2> QED
    BY <1>1, <2>1 DEF Upto, Texts
<1>2. CASE ~(Len(text) > limit)
  BY <1>2 DEF Upto
<1> QED
  BY <1>1, <1>2

\* A key is a text.
LEMMA KeyText ==
  ASSUME NEW engine \in Engines, NEW text \in Texts
  PROVE  Key(engine, text) \in Texts
BY UptoText, EmbeddingAssumption DEF Key

\* The vector an engine makes of a text fits the text's key.
LEMMA VectorFits ==
  ASSUME NEW engine \in Engines, NEW text \in Texts
  PROVE  /\ Vector(engine, text) \in Vectors
         /\ Fits(engine, Key(engine, text), Vector(engine, text))
<1>1. CASE engine = "dsp"
  BY <1>1, UptoText, EmbeddingAssumption DEF Vector, Vectors, Fits, Key, Engines
<1>2. CASE engine # "dsp"
  BY <1>2 DEF Vector, Vectors, Fits, Key, Engines
<1> QED
  BY <1>1, <1>2

\* Without one of its elements a list is one shorter, and holds nothing new.
LEMMA RemoveAtShorter ==
  ASSUME NEW S, NEW list \in Seq(S), NEW i \in DOMAIN list
  PROVE  /\ RemoveAt(list, i) \in Seq(S)
         /\ Len(RemoveAt(list, i)) = Len(list) - 1
         /\ \A j \in DOMAIN RemoveAt(list, i) :
              \E k \in DOMAIN list : RemoveAt(list, i)[j] = list[k]
<1> DEFINE before == SubSeq(list, 1, i - 1)
           after  == SubSeq(list, i + 1, Len(list))
<1>1. i \in 1..Len(list) /\ Len(list) \in Nat
  OBVIOUS
<1>2. /\ before \in Seq(S) /\ Len(before) = i - 1
      /\ \A j \in 1..(i - 1) : before[j] = list[j]
  BY <1>1
<1>3. /\ after \in Seq(S) /\ Len(after) = Len(list) - i
      /\ \A j \in 1..(Len(list) - i) : after[j] = list[i + j]
  BY <1>1
<1>4. RemoveAt(list, i) = before \o after
  BY DEF RemoveAt
<1> HIDE DEF before, after
<1>5. before \o after \in Seq(S) /\ Len(before \o after) = Len(list) - 1
  BY <1>1, <1>2, <1>3
<1>6. DOMAIN (before \o after) = 1..(Len(list) - 1)
  BY <1>5
<1>7. ASSUME NEW j \in 1..(Len(list) - 1)
      PROVE  \E k \in DOMAIN list : (before \o after)[j] = list[k]
  <2>1. CASE j <= i - 1
    <3>1. (before \o after)[j] = before[j]
      BY <1>1, <1>2, <1>3, <2>1
    <3> QED
      BY <1>1, <1>2, <2>1, <3>1
  <2>2. CASE ~(j <= i - 1)
    <3>1. j - (i - 1) \in 1..(Len(list) - i) /\ i + (j - (i - 1)) = j + 1
      BY <1>1, <2>2
    <3>2. (before \o after)[j] = after[j - (i - 1)]
      BY <1>1, <1>2, <1>3, <2>2, SMTT(60)
    <3>3. after[j - (i - 1)] = list[j + 1]
      BY <1>3, <3>1
    <3> QED
      BY <1>1, <3>2, <3>3
  <2> QED
    BY <2>1, <2>2
<1> QED
  BY <1>4, <1>5, <1>6, <1>7

\* Storing a vector in an entry leaves the others, and the keys, as they are.
LEMMA RefreshedEntries ==
  ASSUME NEW entries \in Seq(Entries), NEW i \in DOMAIN entries, NEW vector \in Vectors
  PROVE  /\ Refreshed(entries, i, vector) \in Seq(Entries)
         /\ Len(Refreshed(entries, i, vector)) = Len(entries)
         /\ \A j \in DOMAIN entries :
              /\ Refreshed(entries, i, vector)[j].key = entries[j].key
              /\ Refreshed(entries, i, vector)[j].vector = IF j = i THEN vector ELSE entries[j].vector
<1> DEFINE entry == [key |-> entries[i].key, vector |-> vector]
<1>1. entries[i] \in Entries
  OBVIOUS
<1>2. entry \in Entries /\ entry.key = entries[i].key /\ entry.vector = vector
  BY <1>1 DEF Entries
<1>3. Refreshed(entries, i, vector) = [entries EXCEPT ![i] = entry]
  BY DEF Refreshed
<1> HIDE DEF entry
<1> QED
  BY <1>2, <1>3, ExceptSeq

-----------------------------------------------------------------------------
(* Types                                                                   *)

LEMMA IdleType == Idle \in Calls /\ Idle.at = "idle"
BY DEF Idle, Calls, Stages, Engines, Texts, Vectors, NoVector

\* Every variable holds a value of its kind, at the start ...
LEMMA TypeInit == EmbeddingInit => EmbeddingTypeOK
BY IdleType DEF EmbeddingInit, EmbeddingTypeOK

\* A call that takes another record of a call keeps the type.
LEMMA BecomesType ==
  ASSUME call \in [Threads -> Calls], NEW t \in Threads, NEW next \in Calls, Becomes(t, next)
  PROVE  call' \in [Threads -> Calls]
BY DEF Becomes

LEMMA GoesType ==
  ASSUME call \in [Threads -> Calls], NEW t \in Threads, NEW stage \in Stages, Goes(t, stage)
  PROVE  call' \in [Threads -> Calls]
<1>1. [call[t] EXCEPT !.at = stage] \in Calls
  BY DEF Calls
<1> QED
  BY <1>1, BecomesType DEF Goes

\* ... and after every step.
LEMMA TypeStep == EmbeddingTypeOK /\ [EmbeddingNext]_embedding => EmbeddingTypeOK'
<1> SUFFICES ASSUME EmbeddingTypeOK, [EmbeddingNext]_embedding
             PROVE  EmbeddingTypeOK'
  OBVIOUS
<1>0. /\ available \in BOOLEAN /\ failures \in Nat
      /\ cache \in [Engines -> Seq(Entries)] /\ call \in [Threads -> Calls]
  BY DEF EmbeddingTypeOK
<1>c. ASSUME NEW t \in Threads
      PROVE  /\ call[t] \in Calls /\ call[t].engine \in Engines /\ call[t].text \in Texts
             /\ call[t].vector \in Vectors /\ call[t].seen \in Nat
             /\ cache[call[t].engine] \in Seq(Entries)
  <2>1. call[t] \in Calls
    BY <1>0
  <2> QED
    BY <1>0, <2>1 DEF Calls
<1>s. \A stage \in {"idle", "lookup", "hit", "post", "failed", "room", "evict", "insert", "done", "raised"} :
        stage \in Stages
  BY DEF Stages
<1>1. ASSUME NEW t \in Threads, NEW text \in Texts, Enter(t, text)
      PROVE  EmbeddingTypeOK'
  <2>1. Entered(text) \in Calls
    BY IdleType DEF Entered, Calls, Stages, Engines
  <2>2. call' \in [Threads -> Calls]
    BY <1>0, <1>1, <2>1, BecomesType DEF Enter
  <2> QED
    BY <1>0, <1>1, <2>2 DEF Enter, EmbeddingTypeOK
<1>2. ASSUME NEW t \in Threads, Lookup(t)
      PROVE  EmbeddingTypeOK'
  <2>1. Vector("dsp", call[t].text) \in Vectors
    BY <1>c, VectorFits DEF Engines
  <2>2. [call[t] EXCEPT !.at = "room", !.vector = Vector("dsp", call[t].text)] \in Calls
    BY <1>c, <2>1 DEF Calls, Stages
  <2>3. call' \in [Threads -> Calls]
    <3>1. \/ Goes(t, "hit") \/ Goes(t, "post")
          \/ Becomes(t, [call[t] EXCEPT !.at = "room", !.vector = Vector("dsp", call[t].text)])
      BY <1>2 DEF Lookup
    <3> QED
      BY <1>0, <1>s, <2>2, <3>1, BecomesType, GoesType
  <2> QED
    BY <1>0, <1>2, <2>3 DEF Lookup, EmbeddingTypeOK
<1>3. ASSUME NEW t \in Threads, Hit(t)
      PROVE  EmbeddingTypeOK'
  <2>1. CASE Cached(t)
    <3>1. PICK i \in Places(call[t].engine, KeyOf(t)) :
            Becomes(t, [call[t] EXCEPT !.at = "done", !.vector = cache[call[t].engine][i].vector])
      BY <1>3, <2>1 DEF Hit
    <3>2. cache[call[t].engine][i] \in Entries
      BY <1>c, <3>1 DEF Places
    <3>3. cache[call[t].engine][i].vector \in Vectors
      BY <3>2 DEF Entries
    <3>4. [call[t] EXCEPT !.at = "done", !.vector = cache[call[t].engine][i].vector] \in Calls
      BY <1>c, <3>3 DEF Calls, Stages
    <3> QED
      BY <1>0, <1>3, <3>1, <3>4, BecomesType DEF Hit, EmbeddingTypeOK
  <2>2. CASE ~Cached(t)
    BY <1>0, <1>3, <1>s, <2>2, GoesType DEF Hit, EmbeddingTypeOK
  <2> QED
    BY <2>1, <2>2
<1>4. ASSUME NEW t \in Threads, Answered(t)
      PROVE  EmbeddingTypeOK'
  <2>1. Vector("ollama", call[t].text) \in Vectors
    BY <1>c, VectorFits DEF Engines
  <2>2. [call[t] EXCEPT !.at = "room", !.vector = Vector("ollama", call[t].text)] \in Calls
    BY <1>c, <2>1 DEF Calls, Stages
  <2> QED
    BY <1>0, <1>4, <2>2, BecomesType DEF Answered, EmbeddingTypeOK
<1>5. ASSUME NEW t \in Threads, Unanswered(t)
      PROVE  EmbeddingTypeOK'
  <2>1. [call[t] EXCEPT !.at = "failed", !.seen = failures] \in Calls
    BY <1>0, <1>c DEF Calls, Stages
  <2> QED
    BY <1>0, <1>5, <2>1, BecomesType DEF Unanswered, EmbeddingTypeOK
<1>6. ASSUME NEW t \in Threads, FallBack(t)
      PROVE  EmbeddingTypeOK'
  <2>1. [call[t] EXCEPT !.at = "lookup", !.engine = "dsp"] \in Calls
    BY <1>c DEF Calls, Stages, Engines
  <2>2. call[t].seen + 1 \in Nat
    BY <1>c
  <2> QED
    BY <1>0, <1>6, <2>1, <2>2, BecomesType DEF FallBack, EmbeddingTypeOK
<1>7. ASSUME NEW t \in Threads, MakeRoom(t)
      PROVE  EmbeddingTypeOK'
  <2>1. CASE RoomLeft(t)
    BY <1>0, <1>7, <1>s, <2>1, GoesType DEF MakeRoom, EmbeddingTypeOK
  <2>2. CASE ~RoomLeft(t)
    <3>1. 1 \in DOMAIN cache[call[t].engine]
      BY <1>c, <2>2, EmbeddingAssumption DEF RoomLeft
    <3>2. cache[call[t].engine][1] \in Entries
      BY <1>c, <3>1
    <3>3. [call[t] EXCEPT !.at = "evict", !.victim = cache[call[t].engine][1].key] \in Calls
      BY <1>c, <3>2 DEF Calls, Stages, Entries
    <3> QED
      BY <1>0, <1>7, <2>2, <3>3, BecomesType DEF MakeRoom, EmbeddingTypeOK
  <2> QED
    BY <2>1, <2>2
<1>8. ASSUME NEW t \in Threads, Evict(t)
      PROVE  EmbeddingTypeOK'
  <2>1. call' \in [Threads -> Calls]
    <3>1. Goes(t, "raised") \/ Goes(t, "insert")
      BY <1>8 DEF Evict
    <3> QED
      BY <1>0, <1>s, <3>1, GoesType
  <2>2. cache' \in [Engines -> Seq(Entries)]
    <3>1. CASE Places(call[t].engine, call[t].victim) = {}
      BY <1>0, <1>8, <3>1 DEF Evict
    <3>2. CASE Places(call[t].engine, call[t].victim) # {}
      <4>1. PICK i \in Places(call[t].engine, call[t].victim) :
              cache' = [cache EXCEPT ![call[t].engine] = RemoveAt(@, i)]
        BY <1>8, <3>2 DEF Evict
      <4>2. RemoveAt(cache[call[t].engine], i) \in Seq(Entries)
        BY <1>c, <4>1, RemoveAtShorter DEF Places
      <4> QED
        BY <1>0, <1>c, <4>1, <4>2
    <3> QED
      BY <3>1, <3>2
  <2> QED
    BY <1>0, <1>8, <2>1, <2>2 DEF Evict, EmbeddingTypeOK
<1>9. ASSUME NEW t \in Threads, Insert(t)
      PROVE  EmbeddingTypeOK'
  <2>1. call' \in [Threads -> Calls]
    BY <1>0, <1>9, <1>s, GoesType DEF Insert
  <2>2. CASE Cached(t)
    <3>1. PICK i \in Places(call[t].engine, KeyOf(t)) :
            cache' = [cache EXCEPT ![call[t].engine] = Refreshed(@, i, call[t].vector)]
      BY <1>9, <2>2 DEF Insert
    <3>2. Refreshed(cache[call[t].engine], i, call[t].vector) \in Seq(Entries)
      BY <1>c, <3>1, RefreshedEntries DEF Places
    <3>4. cache' \in [Engines -> Seq(Entries)]
      BY <1>0, <1>c, <3>1, <3>2
    <3> QED
      BY <1>0, <1>9, <2>1, <3>4 DEF Insert, EmbeddingTypeOK
  <2>3. CASE ~Cached(t)
    <3>1. [key |-> KeyOf(t), vector |-> call[t].vector] \in Entries
      BY <1>c, KeyText DEF KeyOf, Entries
    <3>2. Append(cache[call[t].engine], [key |-> KeyOf(t), vector |-> call[t].vector]) \in Seq(Entries)
      BY <1>c, <3>1
    <3> QED
      BY <1>0, <1>9, <1>c, <2>1, <2>3, <3>2 DEF Insert, EmbeddingTypeOK
  <2> QED
    BY <2>2, <2>3
<1>10. ASSUME NEW t \in Threads, Leave(t)
       PROVE  EmbeddingTypeOK'
  BY <1>0, <1>10, IdleType, BecomesType DEF Leave, EmbeddingTypeOK
<1>11. CASE UNCHANGED embedding
  BY <1>0, <1>11 DEF embedding, EmbeddingTypeOK
<1> QED
  BY <1>1, <1>2, <1>3, <1>4, <1>5, <1>6, <1>7, <1>8, <1>9, <1>10, <1>11 DEF EmbeddingNext, Generate

\* The provider's state is always of its type.
THEOREM EmbeddingTypes == EmbeddingSpec => []EmbeddingTypeOK
<1> QED
  BY TypeInit, TypeStep, PTL DEF EmbeddingSpec

-----------------------------------------------------------------------------
(* The size of a cache.  A thread that has found room, or made it, still    *)
(* has its entry to insert: together with those entries the cache is within *)
(* the bound.  (The bound alone is not inductive.)                          *)
Inserting(engine) == {t \in Threads : call[t].at = "insert" /\ call[t].engine = engine}

Ahead(engine) == Len(cache[engine]) + Cardinality(Inserting(engine))

WithinBound == \A engine \in Engines : Ahead(engine) <= CacheSize + Cardinality(Threads) - 1

\* The threads about to insert are finitely many.
LEMMA InsertingFinite ==
  ASSUME NEW engine \in Engines
  PROVE  /\ IsFiniteSet(Inserting(engine)) /\ Cardinality(Inserting(engine)) \in Nat
         /\ Cardinality(Threads) \in Nat \ {0}
         /\ Cardinality(Inserting(engine)) <= Cardinality(Threads)
<1>1. Inserting(engine) \in SUBSET Threads
  BY DEF Inserting
<1>2. Cardinality(Threads) # 0
  BY FS_EmptySet, EmbeddingAssumption
<1> QED
  BY <1>1, <1>2, FS_Subset, FS_CardinalityType, EmbeddingAssumption

LEMMA BoundInit == EmbeddingInit => WithinBound
<1> SUFFICES ASSUME EmbeddingInit, NEW engine \in Engines
             PROVE  Ahead(engine) <= CacheSize + Cardinality(Threads) - 1
  BY DEF WithinBound
<1>1. cache[engine] = <<>>
  BY DEF EmbeddingInit
<1>2. Inserting(engine) = {}
  BY DEF EmbeddingInit, Inserting, Idle
<1> QED
  BY <1>1, <1>2, InsertingFinite, FS_EmptySet, EmbeddingAssumption DEF Ahead

\* A thread that moves, but neither to an insertion nor from one, changes no set
\* of threads about to insert.
LEMMA OthersInsert ==
  ASSUME call \in [Threads -> Calls], NEW t \in Threads, NEW next, Becomes(t, next),
         NEW engine \in Engines
  PROVE  /\ call[t].at # "insert" /\ next.at # "insert" => Inserting(engine)' = Inserting(engine)
         /\ call[t].at # "insert" /\ next.at = "insert" =>
              Inserting(engine)' = IF next.engine = engine THEN Inserting(engine) \cup {t} ELSE Inserting(engine)
         /\ call[t].at = "insert" /\ next.at # "insert" =>
              Inserting(engine)' = IF call[t].engine = engine THEN Inserting(engine) \ {t} ELSE Inserting(engine)
<1>1. \A u \in Threads : call'[u] = IF u = t THEN next ELSE call[u]
  BY DEF Becomes
<1> QED
  BY <1>1 DEF Inserting

LEMMA GoesTo ==
  ASSUME call \in [Threads -> Calls], NEW t \in Threads, NEW stage, Goes(t, stage)
  PROVE  \E next : /\ Becomes(t, next) /\ next.at = stage
                   /\ next.engine = call[t].engine /\ next.text = call[t].text
                   /\ next.vector = call[t].vector
<1>1. call[t] \in Calls
  OBVIOUS
<1> QED
  BY <1>1 DEF Goes, Calls

\* Each step keeps the bound.
LEMMA BoundStep == EmbeddingTypeOK /\ WithinBound /\ [EmbeddingNext]_embedding => WithinBound'
<1> SUFFICES ASSUME EmbeddingTypeOK, WithinBound, [EmbeddingNext]_embedding, NEW engine \in Engines
             PROVE  (Ahead(engine) <= CacheSize + Cardinality(Threads) - 1)'
  BY DEF WithinBound
<1>0. /\ call \in [Threads -> Calls] /\ cache \in [Engines -> Seq(Entries)]
      /\ Len(cache[engine]) \in Nat
  BY DEF EmbeddingTypeOK
<1>b. Ahead(engine) <= CacheSize + Cardinality(Threads) - 1
  BY DEF WithinBound
<1>1. ASSUME cache'[engine] = cache[engine], Inserting(engine)' = Inserting(engine)
      PROVE  (Ahead(engine) <= CacheSize + Cardinality(Threads) - 1)'
  BY <1>1, <1>b DEF Ahead
<1>2. ASSUME NEW t \in Threads, NEW next, Becomes(t, next), call[t].at # "insert", next.at # "insert",
             UNCHANGED cache
      PROVE  (Ahead(engine) <= CacheSize + Cardinality(Threads) - 1)'
  <2>1. Inserting(engine)' = Inserting(engine)
    BY <1>0, <1>2, OthersInsert
  <2> QED
    BY <1>1, <1>2, <2>1
<1>3. ASSUME NEW t \in Threads, NEW text \in Texts, Enter(t, text)
      PROVE  (Ahead(engine) <= CacheSize + Cardinality(Threads) - 1)'
  <2> DEFINE next == Entered(text)
  <2>1. Becomes(t, next) /\ call[t].at # "insert" /\ UNCHANGED cache
    BY <1>3 DEF Enter
  <2>2. next.at # "insert"
    BY DEF Idle, Entered
  <2> QED
    BY <1>2, <2>1, <2>2
<1>4. ASSUME NEW t \in Threads, Lookup(t) \/ Hit(t) \/ Answered(t) \/ Unanswered(t) \/ FallBack(t) \/ Leave(t)
      PROVE  (Ahead(engine) <= CacheSize + Cardinality(Threads) - 1)'
  <2>0. call[t] \in Calls
    BY <1>0
  <2>1. \E next : Becomes(t, next) /\ next.at # "insert"
    <3>1. CASE Lookup(t)
      <4>1. \/ Goes(t, "hit") \/ Goes(t, "post")
            \/ Becomes(t, [call[t] EXCEPT !.at = "room", !.vector = Vector("dsp", call[t].text)])
        BY <3>1 DEF Lookup
      <4>2. [call[t] EXCEPT !.at = "room", !.vector = Vector("dsp", call[t].text)].at = "room"
        BY <2>0 DEF Calls
      <4>3. ASSUME Goes(t, "hit") PROVE \E next : Becomes(t, next) /\ next.at # "insert"
        BY <1>0, <4>3, GoesTo
      <4>4. ASSUME Goes(t, "post") PROVE \E next : Becomes(t, next) /\ next.at # "insert"
        BY <1>0, <4>4, GoesTo
      <4> QED
        BY <4>1, <4>2, <4>3, <4>4
    <3>2. CASE Hit(t)
      <4>1. CASE Cached(t)
        <5>1. PICK i \in Places(call[t].engine, KeyOf(t)) :
                Becomes(t, [call[t] EXCEPT !.at = "done", !.vector = cache[call[t].engine][i].vector])
          BY <3>2, <4>1 DEF Hit
        <5>2. [call[t] EXCEPT !.at = "done", !.vector = cache[call[t].engine][i].vector].at = "done"
          BY <2>0 DEF Calls
        <5> QED
          BY <5>1, <5>2
      <4>2. CASE ~Cached(t)
        BY <1>0, <3>2, <4>2, GoesTo DEF Hit
      <4> QED
        BY <4>1, <4>2
    <3>3. CASE Answered(t)
      <4>1. Becomes(t, [call[t] EXCEPT !.at = "room", !.vector = Vector("ollama", call[t].text)])
        BY <3>3 DEF Answered
      <4>2. [call[t] EXCEPT !.at = "room", !.vector = Vector("ollama", call[t].text)].at = "room"
        BY <2>0 DEF Calls
      <4> QED
        BY <4>1, <4>2
    <3>4. CASE Unanswered(t)
      <4>1. Becomes(t, [call[t] EXCEPT !.at = "failed", !.seen = failures])
        BY <3>4 DEF Unanswered
      <4>2. [call[t] EXCEPT !.at = "failed", !.seen = failures].at = "failed"
        BY <2>0 DEF Calls
      <4> QED
        BY <4>1, <4>2
    <3>5. CASE FallBack(t)
      <4>1. Becomes(t, [call[t] EXCEPT !.at = "lookup", !.engine = "dsp"])
        BY <3>5 DEF FallBack
      <4>2. [call[t] EXCEPT !.at = "lookup", !.engine = "dsp"].at = "lookup"
        BY <2>0 DEF Calls
      <4> QED
        BY <4>1, <4>2
    <3>6. CASE Leave(t)
      BY <3>6 DEF Leave, Idle
    <3> QED
      BY <1>4, <3>1, <3>2, <3>3, <3>4, <3>5, <3>6
  <2>2. call[t].at # "insert" /\ UNCHANGED cache
    BY <1>4 DEF Lookup, Hit, Answered, Unanswered, FallBack, Leave
  <2> QED
    BY <1>2, <2>1, <2>2
<1>5. ASSUME NEW t \in Threads, MakeRoom(t)
      PROVE  (Ahead(engine) <= CacheSize + Cardinality(Threads) - 1)'
  <2>0. call[t] \in Calls /\ call[t].at # "insert" /\ UNCHANGED cache
    BY <1>0, <1>5 DEF MakeRoom
  <2>1. CASE RoomLeft(t)
    <3>1. PICK next : Becomes(t, next) /\ next.at = "insert" /\ next.engine = call[t].engine
      BY <1>0, <1>5, <2>1, GoesTo DEF MakeRoom
    <3>2. CASE call[t].engine # engine
      <4>1. Inserting(engine)' = Inserting(engine)
        BY <1>0, <2>0, <3>1, <3>2, OthersInsert
      <4> QED
        BY <1>1, <2>0, <4>1
    <3>3. CASE call[t].engine = engine
      <4>1. Len(cache[engine]) <= CacheSize - 1
        BY <1>0, <2>1, <3>3, EmbeddingAssumption DEF RoomLeft
      <4>2. Cardinality(Inserting(engine)') <= Cardinality(Threads) /\ Cardinality(Inserting(engine)') \in Nat
        <5>1. Inserting(engine)' \in SUBSET Threads
          BY DEF Inserting
        <5> QED
          BY <5>1, FS_Subset, FS_CardinalityType, EmbeddingAssumption
      <4>3. Ahead(engine)' = Len(cache[engine]) + Cardinality(Inserting(engine)')
        BY <2>0 DEF Ahead
      <4> QED
        BY <1>0, <4>1, <4>2, <4>3, InsertingFinite, EmbeddingAssumption
    <3> QED
      BY <3>2, <3>3
  <2>2. CASE ~RoomLeft(t)
    <3>1. Becomes(t, [call[t] EXCEPT !.at = "evict", !.victim = cache[call[t].engine][1].key])
      BY <1>5, <2>2 DEF MakeRoom
    <3>2. [call[t] EXCEPT !.at = "evict", !.victim = cache[call[t].engine][1].key].at = "evict"
      BY <2>0 DEF Calls
    <3> QED
      BY <1>2, <2>0, <3>1, <3>2
  <2> QED
    BY <2>1, <2>2
<1>6. ASSUME NEW t \in Threads, Evict(t)
      PROVE  (Ahead(engine) <= CacheSize + Cardinality(Threads) - 1)'
  <2>0. call[t] \in Calls /\ call[t].at # "insert" /\ call[t].engine \in Engines
    BY <1>0, <1>6 DEF Evict, Calls
  <2>1. CASE Places(call[t].engine, call[t].victim) = {}
    <3>1. \E next : Becomes(t, next) /\ next.at = "raised"
      BY <1>0, <1>6, <2>1, GoesTo DEF Evict
    <3>2. UNCHANGED cache
      BY <1>6, <2>1 DEF Evict
    <3> QED
      BY <1>2, <2>0, <3>1, <3>2
  <2>2. CASE Places(call[t].engine, call[t].victim) # {}
    <3>1. PICK i \in Places(call[t].engine, call[t].victim) :
            cache' = [cache EXCEPT ![call[t].engine] = RemoveAt(@, i)]
      BY <1>6, <2>2 DEF Evict
    <3>2. PICK next : Becomes(t, next) /\ next.at = "insert" /\ next.engine = call[t].engine
      BY <1>0, <1>6, <2>2, GoesTo DEF Evict
    <3>3. CASE call[t].engine # engine
      <4>1. Inserting(engine)' = Inserting(engine)
        BY <1>0, <2>0, <3>2, <3>3, OthersInsert
      <4>2. cache'[engine] = cache[engine]
        BY <1>0, <3>1, <3>3
      <4> QED
        BY <1>1, <4>1, <4>2
    <3>4. CASE call[t].engine = engine
      <4>1. Inserting(engine)' = Inserting(engine) \cup {t} /\ t \notin Inserting(engine)
        <5>1. Inserting(engine)' = Inserting(engine) \cup {t}
          BY <1>0, <2>0, <3>2, <3>4, OthersInsert
        <5> QED
          BY <2>0, <5>1 DEF Inserting
      <4>2. Cardinality(Inserting(engine)') = Cardinality(Inserting(engine)) + 1
        BY <4>1, InsertingFinite, FS_AddElement
      <4>3. cache'[engine] = RemoveAt(cache[engine], i)
        BY <1>0, <3>1, <3>4
      <4>4. Len(cache'[engine]) = Len(cache[engine]) - 1
        BY <1>0, <3>1, <3>4, <4>3, RemoveAtShorter DEF Places
      <4> QED
        BY <1>0, <1>b, <4>2, <4>4, InsertingFinite, EmbeddingAssumption DEF Ahead
    <3> QED
      BY <3>3, <3>4
  <2> QED
    BY <2>1, <2>2
<1>7. ASSUME NEW t \in Threads, Insert(t)
      PROVE  (Ahead(engine) <= CacheSize + Cardinality(Threads) - 1)'
  <2>0. call[t] \in Calls /\ call[t].at = "insert" /\ call[t].engine \in Engines /\ call[t].vector \in Vectors
        /\ call[t].text \in Texts
    BY <1>0, <1>7 DEF Insert, Calls
  <2>1. PICK next : Becomes(t, next) /\ next.at = "done"
    BY <1>0, <1>7, GoesTo DEF Insert
  <2>2. CASE call[t].engine # engine
    <3>1. Inserting(engine)' = Inserting(engine)
      BY <1>0, <2>0, <2>1, <2>2, OthersInsert
    <3>2. cache'[engine] = cache[engine]
      BY <1>0, <1>7, <2>2 DEF Insert
    <3> QED
      BY <1>1, <3>1, <3>2
  <2>3. CASE call[t].engine = engine
    <3>1. Inserting(engine)' = Inserting(engine) \ {t} /\ t \in Inserting(engine)
      <4>1. Inserting(engine)' = Inserting(engine) \ {t}
        BY <1>0, <2>0, <2>1, <2>3, OthersInsert
      <4> QED
        BY <2>0, <2>3, <4>1 DEF Inserting
    <3>2. Cardinality(Inserting(engine)') = Cardinality(Inserting(engine)) - 1
      BY <3>1, InsertingFinite, FS_RemoveElement, ZenonT(60)
    <3>3. Len(cache'[engine]) \in Nat /\ Len(cache'[engine]) <= Len(cache[engine]) + 1
      <4>1. CASE Cached(t)
        <5>1. PICK i \in Places(call[t].engine, KeyOf(t)) :
                cache' = [cache EXCEPT ![call[t].engine] = Refreshed(@, i, call[t].vector)]
          BY <1>7, <4>1 DEF Insert
        <5>2. cache'[engine] = Refreshed(cache[engine], i, call[t].vector)
          BY <1>0, <2>3, <5>1
        <5> QED
          BY <1>0, <2>0, <2>3, <5>1, <5>2, RefreshedEntries DEF Places
      <4>2. CASE ~Cached(t)
        <5>1. cache'[engine] = Append(cache[engine], [key |-> KeyOf(t), vector |-> call[t].vector])
          BY <1>0, <1>7, <2>3, <4>2 DEF Insert
        <5>2. [key |-> KeyOf(t), vector |-> call[t].vector] \in Entries
          BY <2>0, KeyText DEF KeyOf, Entries
        <5> QED
          BY <1>0, <5>1, <5>2, AppendProperties
      <4> QED
        BY <4>1, <4>2
    <3> QED
      BY <1>0, <1>b, <3>2, <3>3, InsertingFinite, EmbeddingAssumption DEF Ahead
  <2> QED
    BY <2>2, <2>3
<1>8. CASE UNCHANGED embedding
  <2>1. Inserting(engine)' = Inserting(engine) /\ cache'[engine] = cache[engine]
    BY <1>8 DEF embedding, Inserting
  <2> QED
    BY <1>1, <2>1
<1> QED
  BY <1>3, <1>4, <1>5, <1>6, <1>7, <1>8 DEF EmbeddingNext, Generate

LEMMA WithinBoundSuffices == EmbeddingTypeOK /\ WithinBound => CacheBounded
<1> SUFFICES ASSUME EmbeddingTypeOK, WithinBound, NEW engine \in Engines
             PROVE  Len(cache[engine]) <= CacheSize + Cardinality(Threads) - 1
  BY DEF CacheBounded
<1>1. Len(cache[engine]) \in Nat
  BY DEF EmbeddingTypeOK
<1> QED
  BY <1>1, InsertingFinite, EmbeddingAssumption DEF WithinBound, Ahead

\* However its threads interleave, a cache outgrows its limit by the number of
\* threads but one at most.
THEOREM CacheIsBounded == EmbeddingSpec => []CacheBounded
<1>1. EmbeddingInit => EmbeddingTypeOK /\ WithinBound
  BY TypeInit, BoundInit
<1>2. EmbeddingTypeOK /\ WithinBound /\ [EmbeddingNext]_embedding => (EmbeddingTypeOK /\ WithinBound)'
  BY TypeStep, BoundStep
<1> QED
  BY <1>1, <1>2, WithinBoundSuffices, PTL DEF EmbeddingSpec

-----------------------------------------------------------------------------
(* What a cached vector was made of.  A vector fits its key from the moment *)
(* it is made, through the eviction, to the insertion; only the provider's  *)
(* server is waited for.                                                    *)
FitsWhenMade(c) ==
  /\ c.at \in {"room", "evict", "insert", "done"} => Fits(c.engine, Key(c.engine, c.text), c.vector)
  /\ c.at = "post" => c.engine = "ollama"

CallsFit == \A t \in Threads : FitsWhenMade(call[t])
CachesFit ==
  \A engine \in Engines : \A i \in DOMAIN cache[engine] :
    Fits(engine, cache[engine][i].key, cache[engine][i].vector)

LEMMA FitInit == EmbeddingInit => CachesFit /\ CallsFit
BY DEF EmbeddingInit, CachesFit, CallsFit, FitsWhenMade, Idle

\* One call changes, to one that fits.
LEMMA CallsFitStep ==
  ASSUME call \in [Threads -> Calls], CallsFit, NEW t \in Threads, NEW next, Becomes(t, next),
         FitsWhenMade(next)
  PROVE  CallsFit'
<1>1. \A u \in Threads : call'[u] = IF u = t THEN next ELSE call[u]
  BY DEF Becomes
<1> QED
  BY <1>1 DEF CallsFit, FitsWhenMade

\* Each step keeps the fit.
LEMMA FitStep ==
  EmbeddingTypeOK /\ CachesFit /\ CallsFit /\ [EmbeddingNext]_embedding => CachesFit' /\ CallsFit'
<1> SUFFICES ASSUME EmbeddingTypeOK, CachesFit, CallsFit, [EmbeddingNext]_embedding
             PROVE  CachesFit' /\ CallsFit'
  OBVIOUS
<1>0. call \in [Threads -> Calls] /\ cache \in [Engines -> Seq(Entries)]
  BY DEF EmbeddingTypeOK
<1>c. ASSUME NEW t \in Threads
      PROVE  /\ call[t] \in Calls /\ call[t].engine \in Engines /\ call[t].text \in Texts
             /\ call[t].vector \in Vectors /\ cache[call[t].engine] \in Seq(Entries)
             /\ FitsWhenMade(call[t])
  <2>1. call[t] \in Calls
    BY <1>0
  <2> QED
    BY <1>0, <2>1 DEF Calls, CallsFit
<1>1. ASSUME UNCHANGED cache
      PROVE  CachesFit'
  BY <1>1 DEF CachesFit
\* A call that only moves on fits if it fitted, or if its vector is not yet made.
<1>2. ASSUME NEW t \in Threads, NEW stage, Goes(t, stage),
             stage = "post" => call[t].engine = "ollama",
             \/ stage \notin {"room", "evict", "insert", "done"}
             \/ call[t].at \in {"room", "evict", "insert", "done"}
      PROVE  CallsFit'
  <2>1. PICK next : /\ Becomes(t, next) /\ next.at = stage
                    /\ next.engine = call[t].engine /\ next.text = call[t].text
                    /\ next.vector = call[t].vector
    BY <1>0, <1>2, GoesTo
  <2>2. FitsWhenMade(next)
    BY <1>2, <1>c, <2>1 DEF FitsWhenMade
  <2> QED
    BY <1>0, <2>1, <2>2, CallsFitStep
<1>3. ASSUME NEW t \in Threads, NEW text \in Texts, Enter(t, text)
      PROVE  CachesFit' /\ CallsFit'
  <2> DEFINE next == Entered(text)
  <2>1. Becomes(t, next) /\ UNCHANGED cache
    BY <1>3 DEF Enter
  <2>2. FitsWhenMade(next)
    <3>1. CASE text = <<>>
      <4>1. /\ next.at = "done" /\ next.engine = "dsp" /\ next.text = <<>>
            /\ next.vector = [by |-> "dsp", of |-> <<>>]
        BY <3>1 DEF Entered, Idle, NoVector
      <4>2. Len(<<>>) = 0
        OBVIOUS
      <4>3. Key("dsp", <<>>) = <<>>
        BY <4>2, EmbeddingAssumption DEF Key, Upto
      <4>4. Fits(next.engine, Key(next.engine, next.text), next.vector)
        BY <4>1, <4>3 DEF Fits
      <4> QED
        BY <4>1, <4>4 DEF FitsWhenMade
    <3>2. CASE text # <<>>
      <4>1. next.at = "lookup"
        BY <3>2 DEF Entered, Idle
      <4> QED
        BY <4>1 DEF FitsWhenMade
    <3> QED
      BY <3>1, <3>2
  <2> QED
    BY <1>0, <1>1, <2>1, <2>2, CallsFitStep
<1>4. ASSUME NEW t \in Threads, Lookup(t)
      PROVE  CachesFit' /\ CallsFit'
  <2>1. CASE Goes(t, "hit")
    BY <1>1, <1>2, <1>4, <2>1 DEF Lookup
  <2>3. CASE Goes(t, "post") /\ call[t].engine # "dsp"
    <3>1. call[t].engine = "ollama"
      BY <1>c, <2>3 DEF Engines
    <3> QED
      BY <1>1, <1>2, <1>4, <2>3, <3>1 DEF Lookup
  <2>2. CASE ~Cached(t) /\ call[t].engine = "dsp"
    <3> DEFINE next == [call[t] EXCEPT !.at = "room", !.vector = Vector("dsp", call[t].text)]
    <3>1. Becomes(t, next) /\ UNCHANGED cache
      BY <1>4, <2>2 DEF Lookup
    <3>2. next.engine = "dsp" /\ next.text = call[t].text /\ next.vector = Vector("dsp", call[t].text)
      BY <1>c, <2>2 DEF Calls
    <3>3. FitsWhenMade(next)
      BY <1>c, <3>2, VectorFits DEF FitsWhenMade, Engines
    <3> QED
      BY <1>0, <1>1, <3>1, <3>3, CallsFitStep
  <2> QED
    BY <1>4, <2>1, <2>2, <2>3 DEF Lookup
<1>5. ASSUME NEW t \in Threads, Hit(t)
      PROVE  CachesFit' /\ CallsFit'
  <2>1. CASE Cached(t)
    <3>1. PICK i \in Places(call[t].engine, KeyOf(t)) :
            Becomes(t, [call[t] EXCEPT !.at = "done", !.vector = cache[call[t].engine][i].vector])
      BY <1>5, <2>1 DEF Hit
    <3> DEFINE next == [call[t] EXCEPT !.at = "done", !.vector = cache[call[t].engine][i].vector]
    <3>2. /\ next.engine = call[t].engine /\ next.text = call[t].text
          /\ next.vector = cache[call[t].engine][i].vector
      BY <1>c DEF Calls
    <3>3. Fits(call[t].engine, KeyOf(t), cache[call[t].engine][i].vector)
      BY <1>c, <3>1 DEF CachesFit, Places
    <3>4. FitsWhenMade(next)
      BY <3>2, <3>3 DEF FitsWhenMade, KeyOf
    <3>5. UNCHANGED cache
      BY <1>5 DEF Hit
    <3> QED
      BY <1>0, <1>1, <3>1, <3>4, <3>5, CallsFitStep
  <2>2. CASE ~Cached(t)
    BY <1>1, <1>2, <1>5, <2>2 DEF Hit
  <2> QED
    BY <2>1, <2>2
<1>6. ASSUME NEW t \in Threads, Answered(t)
      PROVE  CachesFit' /\ CallsFit'
  <2>0. call[t].engine = "ollama"
    BY <1>6, <1>c DEF Answered, FitsWhenMade
  <2> DEFINE next == [call[t] EXCEPT !.at = "room", !.vector = Vector("ollama", call[t].text)]
  <2>1. Becomes(t, next) /\ UNCHANGED cache
    BY <1>6 DEF Answered
  <2>2. next.engine = "ollama" /\ next.text = call[t].text /\ next.vector = Vector("ollama", call[t].text)
    BY <1>c, <2>0 DEF Calls
  <2>3. FitsWhenMade(next)
    BY <1>c, <2>2, VectorFits DEF FitsWhenMade, Engines
  <2> QED
    BY <1>0, <1>1, <2>1, <2>3, CallsFitStep
<1>7. ASSUME NEW t \in Threads, Unanswered(t)
      PROVE  CachesFit' /\ CallsFit'
  <2> DEFINE next == [call[t] EXCEPT !.at = "failed", !.seen = failures]
  <2>1. Becomes(t, next) /\ UNCHANGED cache
    BY <1>7 DEF Unanswered
  <2>2. next.at = "failed"
    BY <1>c DEF Calls
  <2>3. FitsWhenMade(next)
    BY <2>2 DEF FitsWhenMade
  <2> QED
    BY <1>0, <1>1, <2>1, <2>3, CallsFitStep
<1>8. ASSUME NEW t \in Threads, FallBack(t)
      PROVE  CachesFit' /\ CallsFit'
  <2> DEFINE next == [call[t] EXCEPT !.at = "lookup", !.engine = "dsp"]
  <2>1. Becomes(t, next) /\ UNCHANGED cache
    BY <1>8 DEF FallBack
  <2>2. next.at = "lookup"
    BY <1>c DEF Calls
  <2>3. FitsWhenMade(next)
    BY <2>2 DEF FitsWhenMade
  <2> QED
    BY <1>0, <1>1, <2>1, <2>3, CallsFitStep
<1>9. ASSUME NEW t \in Threads, MakeRoom(t)
      PROVE  CachesFit' /\ CallsFit'
  <2>0. call[t].at = "room" /\ UNCHANGED cache
    BY <1>9 DEF MakeRoom
  <2>1. CASE RoomLeft(t)
    BY <1>1, <1>2, <1>9, <2>0, <2>1 DEF MakeRoom
  <2>2. CASE ~RoomLeft(t)
    <3> DEFINE next == [call[t] EXCEPT !.at = "evict", !.victim = cache[call[t].engine][1].key]
    <3>1. Becomes(t, next)
      BY <1>9, <2>2 DEF MakeRoom
    <3>2. /\ next.at = "evict" /\ next.engine = call[t].engine /\ next.text = call[t].text
          /\ next.vector = call[t].vector
      BY <1>c DEF Calls
    <3>3. FitsWhenMade(next)
      BY <1>c, <2>0, <3>2 DEF FitsWhenMade
    <3> QED
      BY <1>0, <1>1, <2>0, <3>1, <3>3, CallsFitStep
  <2> QED
    BY <2>1, <2>2
<1>10. ASSUME NEW t \in Threads, Evict(t)
       PROVE  CachesFit' /\ CallsFit'
  <2>1. CallsFit'
    <3>1. (Goes(t, "raised") \/ Goes(t, "insert")) /\ call[t].at = "evict"
      BY <1>10 DEF Evict
    <3> QED
      BY <1>2, <3>1
  <2>2. CASE Places(call[t].engine, call[t].victim) = {}
    BY <1>1, <1>10, <2>1, <2>2 DEF Evict
  <2>3. CASE Places(call[t].engine, call[t].victim) # {}
    <3>1. PICK i \in Places(call[t].engine, call[t].victim) :
            cache' = [cache EXCEPT ![call[t].engine] = RemoveAt(@, i)]
      BY <1>10, <2>3 DEF Evict
    <3>2. ASSUME NEW engine \in Engines, NEW j \in DOMAIN cache'[engine]
          PROVE  Fits(engine, cache'[engine][j].key, cache'[engine][j].vector)
      <4>1. CASE engine = call[t].engine
        <5>1. cache'[engine] = RemoveAt(cache[engine], i) /\ i \in DOMAIN cache[engine]
          BY <1>0, <3>1, <4>1 DEF Places
        <5>2. PICK k \in DOMAIN cache[engine] : cache'[engine][j] = cache[engine][k]
          BY <1>0, <5>1, RemoveAtShorter
        <5> QED
          BY <5>2 DEF CachesFit
      <4>2. CASE engine # call[t].engine
        <5>1. cache'[engine] = cache[engine]
          BY <1>0, <3>1, <4>2
        <5> QED
          BY <5>1 DEF CachesFit
      <4> QED
        BY <4>1, <4>2
    <3> QED
      BY <2>1, <3>2 DEF CachesFit
  <2> QED
    BY <2>2, <2>3
<1>11. ASSUME NEW t \in Threads, Insert(t)
       PROVE  CachesFit' /\ CallsFit'
  <2>0. call[t].at = "insert"
    BY <1>11 DEF Insert
  <2>1. CallsFit'
    BY <1>2, <1>11, <2>0 DEF Insert
  <2>2. Fits(call[t].engine, KeyOf(t), call[t].vector)
    BY <1>c, <2>0 DEF FitsWhenMade, KeyOf
  <2>3. ASSUME NEW engine \in Engines, NEW j \in DOMAIN cache'[engine]
        PROVE  Fits(engine, cache'[engine][j].key, cache'[engine][j].vector)
    <3>1. CASE engine # call[t].engine
      <4>1. cache'[engine] = cache[engine]
        BY <1>0, <1>11, <3>1 DEF Insert
      <4> QED
        BY <4>1 DEF CachesFit
    <3>2. CASE engine = call[t].engine /\ Cached(t)
      <4>1. PICK i \in Places(engine, KeyOf(t)) :
              cache' = [cache EXCEPT ![engine] = Refreshed(@, i, call[t].vector)]
        BY <1>11, <3>2 DEF Insert
      <4>2. i \in DOMAIN cache[engine] /\ cache[engine][i].key = KeyOf(t)
        BY <4>1 DEF Places
      <4>3. cache'[engine] = Refreshed(cache[engine], i, call[t].vector)
        BY <1>0, <4>1
      <4>4. /\ j \in DOMAIN cache[engine] /\ cache'[engine][j].key = cache[engine][j].key
            /\ cache'[engine][j].vector = IF j = i THEN call[t].vector ELSE cache[engine][j].vector
        <5>1. cache'[engine] \in Seq(Entries) /\ Len(cache'[engine]) = Len(cache[engine])
          BY <1>0, <1>c, <4>2, <4>3, RefreshedEntries
        <5>2. j \in DOMAIN cache[engine]
          BY <1>0, <5>1
        <5> QED
          BY <1>0, <1>c, <4>2, <4>3, <5>2, RefreshedEntries
      <4> QED
        BY <2>2, <3>2, <4>2, <4>4 DEF CachesFit
    <3>3. CASE engine = call[t].engine /\ ~Cached(t)
      <4> DEFINE entry == [key |-> KeyOf(t), vector |-> call[t].vector]
      <4>1. cache'[engine] = Append(cache[engine], entry)
        BY <1>0, <1>11, <3>3 DEF Insert
      <4>2. \/ j \in DOMAIN cache[engine] /\ cache'[engine][j] = cache[engine][j]
            \/ cache'[engine][j] = entry
        BY <1>0, <4>1
      <4> QED
        BY <2>2, <3>3, <4>2 DEF CachesFit
    <3> QED
      BY <3>1, <3>2, <3>3
  <2> QED
    BY <2>1, <2>3 DEF CachesFit
<1>12. ASSUME NEW t \in Threads, Leave(t)
       PROVE  CachesFit' /\ CallsFit'
  <2>1. FitsWhenMade(Idle)
    BY DEF FitsWhenMade, Idle
  <2>2. Becomes(t, Idle) /\ UNCHANGED cache
    BY <1>12 DEF Leave
  <2> QED
    BY <1>0, <1>1, <2>1, <2>2, CallsFitStep
<1>13. CASE UNCHANGED embedding
  BY <1>13 DEF embedding, CachesFit, CallsFit
<1> QED
  BY <1>3, <1>4, <1>5, <1>6, <1>7, <1>8, <1>9, <1>10, <1>11, <1>12, <1>13 DEF EmbeddingNext, Generate

LEMMA FitSuffices == CachesFit /\ CallsFit => VectorsAreTheirTexts
BY DEF CachesFit, CallsFit, FitsWhenMade, VectorsAreTheirTexts, KeyOf

\* No interleaving of lookups, failures, evictions and insertions gives a text
\* the vector of a text with another key, or of another engine.
THEOREM VectorsAreSound == EmbeddingSpec => []VectorsAreTheirTexts
<1>1. EmbeddingInit => EmbeddingTypeOK /\ CachesFit /\ CallsFit
  BY TypeInit, FitInit
<1>2. /\ EmbeddingTypeOK /\ CachesFit /\ CallsFit /\ [EmbeddingNext]_embedding
      => (EmbeddingTypeOK /\ CachesFit /\ CallsFit)'
  BY TypeStep, FitStep
<1> QED
  BY <1>1, <1>2, FitSuffices, PTL DEF EmbeddingSpec

-----------------------------------------------------------------------------
(* One thread that indexes and searches.  With nobody else to evict what it *)
(* found, no call of it raises; without a server all its vectors are made   *)
(* by the projection, and can be compared.                                  *)

\* A call is a record of its fields, to one of the engines.
IsCall(c) ==
  /\ c = [at |-> c.at, engine |-> c.engine, text |-> c.text, vector |-> c.vector,
          victim |-> c.victim, seen |-> c.seen]
  /\ c.engine \in Engines

\* What one thread's call knows of the server and of the cache still holds.
CallHolds(c) ==
  /\ IsCall(c) /\ c.at # "raised"
  /\ c.at \in {"post", "failed"} => c.engine = "ollama"
  /\ c.at # "idle" /\ c.engine = "ollama" => failures < MaxFailures
  /\ c.at = "failed" => c.seen = failures
  /\ c.at = "hit" => Places(c.engine, Key(c.engine, c.text)) # {}
  /\ c.at = "evict" => Places(c.engine, c.victim) # {}

\* A cache is a sequence of something.
IsList(list) == \E S : list \in Seq(S)

CallsHold(a) ==
  /\ call = [t \in Threads |-> call[t]]
  /\ \A t \in Threads \ {a} : call[t].at = "idle"
  /\ CallHolds(call[a])
  /\ failures \in Nat
  /\ cache = [engine \in Engines |-> cache[engine]]
  /\ \A engine \in Engines : IsList(cache[engine])

\* Without a server: the projection makes every vector.
ByProjection(c) == c.engine = "dsp" /\ (c.at \in {"room", "evict", "insert", "done"} => c.vector.by = "dsp")

Projected(a) ==
  /\ ~available
  /\ ByProjection(call[a])
  /\ \A i \in DOMAIN cache["dsp"] : cache["dsp"][i].vector.by = "dsp"

\* One call changes.
LEMMA OneCallChanges ==
  ASSUME NEW a \in Threads, call = [t \in Threads |-> call[t]], NEW next, Becomes(a, next)
  PROVE  /\ call' = [t \in Threads |-> call'[t]]
         /\ call'[a] = next
         /\ \A t \in Threads \ {a} : call'[t] = call[t]
BY DEF Becomes

\* A call with some of its fields changed.
LEMMA StillACall ==
  ASSUME NEW c, IsCall(c), NEW at
  PROVE  /\ IsCall([c EXCEPT !.at = at])
         /\ [c EXCEPT !.at = at].at = at
         /\ [c EXCEPT !.at = at].engine = c.engine /\ [c EXCEPT !.at = at].text = c.text
         /\ [c EXCEPT !.at = at].vector = c.vector /\ [c EXCEPT !.at = at].victim = c.victim
         /\ [c EXCEPT !.at = at].seen = c.seen
BY DEF IsCall

\* The calls a stage leads to: the stage, and one more field.
WithVector(next, c, at, vector) == next = [c EXCEPT !.at = at, !.vector = vector]
WithVictim(next, c, at, victim) == next = [c EXCEPT !.at = at, !.victim = victim]
WithSeen(next, c, at, seen)     == next = [c EXCEPT !.at = at, !.seen = seen]
WithEngine(next, c, at, engine) == next = [c EXCEPT !.at = at, !.engine = engine]

\* A call that is given its vector.
LEMMA CallWithVector ==
  ASSUME NEW c, IsCall(c), NEW at, NEW vector, NEW next,
         WithVector(next, c, at, vector)
  PROVE  /\ IsCall(next) /\ next.at = at /\ next.engine = c.engine /\ next.vector = vector
<1>1. next = [[c EXCEPT !.at = at] EXCEPT !.vector = vector]
  BY DEF WithVector
<1>2. PICK d : d = [c EXCEPT !.at = at]
  OBVIOUS
<1>3. IsCall(d) /\ d.at = at /\ d.engine = c.engine
  BY <1>2, StillACall
<1>4. next = [d EXCEPT !.vector = vector]
  BY <1>1, <1>2
<1> QED
  BY <1>3, <1>4 DEF IsCall

\* A call that has chosen what to evict.
LEMMA CallWithVictim ==
  ASSUME NEW c, IsCall(c), NEW at, NEW victim, NEW next,
         WithVictim(next, c, at, victim)
  PROVE  /\ IsCall(next) /\ next.at = at /\ next.engine = c.engine /\ next.victim = victim
         /\ next.vector = c.vector
<1>1. next = [[c EXCEPT !.at = at] EXCEPT !.victim = victim]
  BY DEF WithVictim
<1>2. PICK d : d = [c EXCEPT !.at = at]
  OBVIOUS
<1>3. IsCall(d) /\ d.at = at /\ d.engine = c.engine /\ d.vector = c.vector
  BY <1>2, StillACall, SMTT(60)
<1>4. next = [d EXCEPT !.victim = victim]
  BY <1>1, <1>2
<1> QED
  BY <1>3, <1>4 DEF IsCall

\* A call that has read the count of failures.
LEMMA CallThatFailed ==
  ASSUME NEW c, IsCall(c), NEW at, NEW seen, NEW next,
         WithSeen(next, c, at, seen)
  PROVE  /\ IsCall(next) /\ next.at = at /\ next.engine = c.engine /\ next.seen = seen
<1>1. next = [[c EXCEPT !.at = at] EXCEPT !.seen = seen]
  BY DEF WithSeen
<1>2. PICK d : d = [c EXCEPT !.at = at]
  OBVIOUS
<1>3. IsCall(d) /\ d.at = at /\ d.engine = c.engine
  BY <1>2, StillACall
<1>4. next = [d EXCEPT !.seen = seen]
  BY <1>1, <1>2
<1> QED
  BY <1>3, <1>4 DEF IsCall

\* A call that turns to the projection.
LEMMA CallByProjection ==
  ASSUME NEW c, IsCall(c), NEW at, NEW next, WithEngine(next, c, at, "dsp")
  PROVE  /\ IsCall(next) /\ next.at = at /\ next.engine = "dsp"
<1>1. next = [[c EXCEPT !.at = at] EXCEPT !.engine = "dsp"]
  BY DEF WithEngine
<1>2. PICK d : d = [c EXCEPT !.at = at]
  OBVIOUS
<1>3. IsCall(d) /\ d.at = at
  BY <1>2, StillACall
<1>4. next = [d EXCEPT !.engine = "dsp"]
  BY <1>1, <1>2
<1> QED
  BY <1>3, <1>4 DEF IsCall, Engines

\* The call that generate begins with.
Asks(next, text, engine) == next = [Idle EXCEPT !.at = "lookup", !.text = text, !.engine = engine]

\* A call that begins asks for a text.
LEMMA NewCall ==
  ASSUME NEW next, NEW text, NEW engine \in Engines, Asks(next, text, engine)
  PROVE  IsCall(next) /\ next.at = "lookup" /\ next.engine = engine
<1>1. next = [[[Idle EXCEPT !.at = "lookup"] EXCEPT !.text = text] EXCEPT !.engine = engine]
  BY DEF Asks
<1>2. PICK c : c = [Idle EXCEPT !.at = "lookup"]
  OBVIOUS
<1>3. IsCall(Idle)
  BY DEF IsCall, Idle, Engines
<1>4. IsCall(c) /\ c.at = "lookup"
  BY <1>2, <1>3, StillACall
<1>5. PICK d : d = [c EXCEPT !.text = text]
  OBVIOUS
<1>6. IsCall(d) /\ d.at = "lookup"
  BY <1>4, <1>5 DEF IsCall
<1>7. next = [d EXCEPT !.engine = engine]
  BY <1>1, <1>2, <1>5
<1> QED
  BY <1>6, <1>7 DEF IsCall

\* A thread that asks for a vector.
LEMMA EnterHolds ==
  ASSUME NEW a \in Threads, CallsHold(a), NEW text, Enter(a, text)
  PROVE  CallsHold(a)' /\ (Projected(a) => Projected(a)')
<1> DEFINE next == Entered(text)
<1>1. UNCHANGED <<available, failures, cache>> /\ Becomes(a, next)
  BY DEF Enter
<1>2. /\ call' = [t \in Threads |-> call'[t]] /\ call'[a] = next
      /\ \A t \in Threads \ {a} : call'[t].at = "idle"
  BY <1>1, OneCallChanges DEF CallsHold
<1>3. CASE text # <<>>
  <2>1. PICK engine \in Engines : engine = IF available /\ ~GivenUp THEN "ollama" ELSE "dsp"
    BY DEF Engines
  <2>2. Asks(next, text, engine)
    BY <1>3, <2>1 DEF Asks, Entered
  <2> HIDE DEF next
  <2>3. next.at = "lookup" /\ next.engine = engine /\ IsCall(next)
    BY <2>2, NewCall
  <2>4. next.engine = "ollama" => failures < MaxFailures
    BY <2>1, <2>3, EmbeddingAssumption DEF GivenUp, CallsHold
  <2>5. CallHolds(call[a])'
    BY <1>1, <1>2, <2>3, <2>4 DEF CallHolds, IsCall
  <2>6. Projected(a) => Projected(a)'
    BY <1>1, <1>2, <2>1, <2>3 DEF Projected, ByProjection, IsCall, Engines
  <2>7. CallsHold(a)'
    BY <1>1, <1>2, <2>5 DEF CallsHold
  <2> QED
    BY <2>6, <2>7
<1>4. CASE text = <<>>
  <2>1. next = [Idle EXCEPT !.at = "done"]
    BY <1>4 DEF Entered
  <2>2. IsCall(Idle) /\ Idle.engine = "dsp" /\ Idle.vector.by = "dsp"
    BY DEF IsCall, Idle, Engines, NoVector
  <2> HIDE DEF next
  <2>3. /\ IsCall(next) /\ next.at = "done" /\ next.engine = "dsp"
        /\ next.vector.by = "dsp"
    BY <2>1, <2>2, StillACall DEF Idle, NoVector
  <2>4. CallHolds(call[a])'
    BY <1>1, <1>2, <2>3 DEF CallHolds, IsCall
  <2>5. Projected(a) => Projected(a)'
    BY <1>1, <1>2, <2>3 DEF Projected, ByProjection
  <2>6. CallsHold(a)'
    BY <1>1, <1>2, <2>4 DEF CallsHold
  <2> QED
    BY <2>5, <2>6
<1> QED
  BY <1>3, <1>4

\* A thread that takes its vector.
LEMMA LeaveHolds ==
  ASSUME NEW a \in Threads, CallsHold(a), Leave(a)
  PROVE  CallsHold(a)' /\ (Projected(a) => Projected(a)')
<1>1. UNCHANGED <<available, failures, cache>> /\ Becomes(a, Idle)
  BY DEF Leave
<1>2. /\ call' = [t \in Threads |-> call'[t]] /\ call'[a] = Idle
      /\ \A t \in Threads \ {a} : call'[t].at = "idle"
  BY <1>1, OneCallChanges DEF CallsHold
<1>3. IsCall(Idle) /\ Idle.at = "idle" /\ Idle.engine = "dsp"
  BY DEF IsCall, Idle, Engines
<1>5. CallHolds(call[a])'
  BY <1>1, <1>2, <1>3 DEF CallHolds, IsCall
<1>6. CallsHold(a)'
  BY <1>1, <1>2, <1>5 DEF CallsHold
<1>7. Projected(a) => Projected(a)'
  BY <1>1, <1>2, <1>3 DEF Projected, ByProjection
<1> QED
  BY <1>6, <1>7

\* A thread whose call moves on, and nothing else.
LEMMA MoveHolds ==
  ASSUME NEW a \in Threads, CallsHold(a), NEW next, Becomes(a, next), CallHolds(next),
         UNCHANGED <<available, failures, cache>>
  PROVE  CallsHold(a)' /\ (Projected(a) /\ ByProjection(next) => Projected(a)')
<1>2. /\ call' = [t \in Threads |-> call'[t]] /\ call'[a] = next
      /\ \A t \in Threads \ {a} : call'[t].at = "idle"
  BY OneCallChanges DEF CallsHold
<1>5. CallHolds(call[a])'
  BY <1>2 DEF CallHolds, IsCall, Places
<1>6. CallsHold(a)'
  BY <1>2, <1>5 DEF CallsHold
<1>7. Projected(a) /\ ByProjection(next) => Projected(a)'
  BY <1>2 DEF Projected, ByProjection
<1> QED
  BY <1>6, <1>7

\* The stages of a call that change the call alone.
LEMMA QuietCallSteps ==
  ASSUME NEW a \in Threads, CallsHold(a), Lookup(a) \/ Hit(a) \/ Unanswered(a) \/ MakeRoom(a)
  PROVE  CallsHold(a)' /\ (Projected(a) => Projected(a)')
<1> DEFINE c == call[a]
<1>0. CallHolds(c) /\ IsCall(c)
  BY DEF CallsHold, CallHolds
<1>1. ASSUME Lookup(a) PROVE \E next : Becomes(a, next) /\ CallHolds(next) /\ (Projected(a) => ByProjection(next))
  <2>1. CASE Cached(a)
    <3> DEFINE next == [c EXCEPT !.at = "hit"]
    <3>1. Becomes(a, next)
      BY <1>1, <2>1 DEF Lookup, Goes
    <3>2. /\ IsCall(next) /\ next.at = "hit" /\ next.engine = c.engine /\ next.text = c.text
      BY <1>0, StillACall
    <3>3. Places(c.engine, Key(c.engine, c.text)) # {} /\ c.at = "lookup"
      BY <1>1, <2>1 DEF Cached, KeyOf, Lookup
    <3> HIDE DEF next, c
    <3>4. CallHolds(next) /\ (Projected(a) => ByProjection(next))
      BY <1>0, <3>2, <3>3 DEF CallHolds, Projected, ByProjection, c
    <3> QED
      BY <3>1, <3>4
  <2>2. CASE ~Cached(a) /\ c.engine = "dsp"
    <3> DEFINE next == [c EXCEPT !.at = "room", !.vector = Vector("dsp", c.text)]
    <3>1. Becomes(a, next)
      BY <1>1, <2>2 DEF Lookup
    <3>2. /\ IsCall(next) /\ next.at = "room" /\ next.engine = "dsp" /\ next.vector.by = "dsp"
      <4>1. Vector("dsp", c.text).by = "dsp"
        BY DEF Vector
      <4>2. WithVector(next, c, "room", Vector("dsp", c.text))
        BY DEF WithVector
      <4> HIDE DEF c, next
      <4>3. /\ IsCall(next) /\ next.at = "room" /\ next.engine = c.engine
            /\ next.vector = Vector("dsp", c.text)
        BY <1>0, <4>2, CallWithVector
      <4> QED
        BY <2>2, <4>1, <4>3
    <3> HIDE DEF next, c
    <3>4. CallHolds(next) /\ (Projected(a) => ByProjection(next))
      BY <3>2 DEF CallHolds, ByProjection
    <3> QED
      BY <3>1, <3>4
  <2>3. CASE ~Cached(a) /\ c.engine # "dsp"
    <3> DEFINE next == [c EXCEPT !.at = "post"]
    <3>1. Becomes(a, next)
      BY <1>1, <2>3 DEF Lookup, Goes
    <3>2. /\ IsCall(next) /\ next.at = "post" /\ next.engine = c.engine
      BY <1>0, StillACall
    <3>3. c.at = "lookup" /\ c.engine = "ollama"
      BY <1>0, <1>1, <2>3 DEF Lookup, IsCall, Engines
    <3> HIDE DEF next, c
    <3>4. CallHolds(next) /\ (Projected(a) => ByProjection(next))
      BY <1>0, <3>2, <3>3 DEF CallHolds, Projected, ByProjection, c
    <3> QED
      BY <3>1, <3>4
  <2> QED
    BY <2>1, <2>2, <2>3
<1>2. ASSUME Hit(a) PROVE \E next : Becomes(a, next) /\ CallHolds(next) /\ (Projected(a) => ByProjection(next))
  <2>1. Cached(a) /\ c.at = "hit"
    BY <1>0, <1>2, ZenonT(60) DEF CallHolds, Cached, KeyOf, Hit
  <2>2. PICK i \in Places(c.engine, KeyOf(a)) :
          Becomes(a, [c EXCEPT !.at = "done", !.vector = cache[c.engine][i].vector])
    BY <1>2, <2>1 DEF Hit
  <2> DEFINE next == [c EXCEPT !.at = "done", !.vector = cache[c.engine][i].vector]
  <2>3. /\ IsCall(next) /\ next.at = "done" /\ next.engine = c.engine
        /\ next.vector = cache[c.engine][i].vector /\ i \in DOMAIN cache[c.engine]
    <3>1. i \in DOMAIN cache[c.engine]
      BY DEF Places
    <3>2. WithVector(next, c, "done", cache[c.engine][i].vector)
      BY DEF WithVector
    <3> HIDE DEF c, next
    <3> QED
      BY <1>0, <3>1, <3>2, CallWithVector
  <2>4. Becomes(a, next)
    BY <2>2
  <2> HIDE DEF next, c
  <2>5. CallHolds(next) /\ (Projected(a) => ByProjection(next))
    BY <1>0, <2>1, <2>3 DEF CallHolds, Projected, ByProjection, c
  <2> QED
    BY <2>4, <2>5, SMTT(60)
<1>3. ASSUME Unanswered(a) PROVE \E next : Becomes(a, next) /\ CallHolds(next) /\ (Projected(a) => ByProjection(next))
  <2> DEFINE next == [c EXCEPT !.at = "failed", !.seen = failures]
  <2>1. c.at = "post" /\ Becomes(a, next)
    BY <1>3 DEF Unanswered
  <2>2. /\ IsCall(next) /\ next.at = "failed" /\ next.engine = c.engine /\ next.seen = failures
    <3>1. WithSeen(next, c, "failed", failures)
      BY DEF WithSeen
    <3> HIDE DEF c, next
    <3> QED
      BY <1>0, <3>1, CallThatFailed
  <2> HIDE DEF next, c
  <2>5. CallHolds(next) /\ (Projected(a) => ByProjection(next))
    BY <1>0, <2>1, <2>2 DEF CallHolds, Projected, ByProjection, c
  <2> QED
    BY <2>1, <2>5
<1>4. ASSUME MakeRoom(a) PROVE \E next : Becomes(a, next) /\ CallHolds(next) /\ (Projected(a) => ByProjection(next))
  <2>1. CASE RoomLeft(a)
    <3> DEFINE next == [c EXCEPT !.at = "insert"]
    <3>1. c.at = "room" /\ Becomes(a, next)
      BY <1>4, <2>1 DEF MakeRoom, Goes
    <3>2. /\ IsCall(next) /\ next.at = "insert" /\ next.engine = c.engine /\ next.vector = c.vector
      BY <1>0, StillACall
    <3> HIDE DEF next, c
    <3>4. CallHolds(next) /\ (Projected(a) => ByProjection(next))
      BY <1>0, <3>1, <3>2 DEF CallHolds, Projected, ByProjection, c
    <3> QED
      BY <3>1, <3>4
  <2>2. CASE ~RoomLeft(a)
    <3> DEFINE victim == cache[c.engine][1].key
               next == [c EXCEPT !.at = "evict", !.victim = victim]
    <3>1. c.at = "room" /\ Becomes(a, next)
      BY <1>4, <2>2 DEF MakeRoom
    <3>2. /\ IsCall(next) /\ next.at = "evict" /\ next.engine = c.engine /\ next.vector = c.vector
          /\ next.victim = victim
      <4>1. WithVictim(next, c, "evict", victim)
        BY DEF WithVictim
      <4> HIDE DEF c, victim, next
      <4> QED
        BY <1>0, <4>1, CallWithVictim
    <3>3. PICK S : cache[c.engine] \in Seq(S)
      BY <1>0 DEF CallsHold, IsCall, IsList
    <3>4. 1 \in DOMAIN cache[c.engine]
      BY <2>2, <3>3, EmbeddingAssumption DEF RoomLeft
    <3>5. 1 \in Places(c.engine, victim)
      BY <3>4 DEF Places
    <3> HIDE DEF next, c, victim
    <3>6. CallHolds(next) /\ (Projected(a) => ByProjection(next))
      BY <1>0, <3>1, <3>2, <3>5 DEF CallHolds, Projected, ByProjection, c
    <3> QED
      BY <3>1, <3>6
  <2> QED
    BY <2>1, <2>2
<1>5. UNCHANGED <<available, failures, cache>>
  BY DEF Lookup, Hit, Unanswered, MakeRoom
<1>6. PICK next : Becomes(a, next) /\ CallHolds(next) /\ (Projected(a) => ByProjection(next))
  BY <1>1, <1>2, <1>3, <1>4
<1> QED
  BY <1>5, <1>6, MoveHolds

\* The server answers, and the count of failures starts anew.
LEMMA AnsweredHolds ==
  ASSUME NEW a \in Threads, CallsHold(a), Answered(a)
  PROVE  CallsHold(a)' /\ (Projected(a) => Projected(a)')
<1> DEFINE c == call[a]
           vector == Vector("ollama", c.text)
           next == [c EXCEPT !.at = "room", !.vector = vector]
<1>0. CallHolds(c) /\ IsCall(c)
  BY DEF CallsHold, CallHolds
<1>1. c.at = "post" /\ Becomes(a, next) /\ failures' = 0 /\ UNCHANGED <<available, cache>>
  BY DEF Answered
<1>2. WithVector(next, c, "room", vector)
  BY DEF WithVector
<1>3. c.engine = "ollama"
  BY <1>0, <1>1 DEF CallHolds
<1> HIDE DEF next, c, vector
<1>4. IsCall(next) /\ next.at = "room"
  BY <1>0, <1>2, CallWithVector
<1>5. /\ call' = [t \in Threads |-> call'[t]] /\ call'[a] = next
      /\ \A t \in Threads \ {a} : call'[t].at = "idle"
  BY <1>1, OneCallChanges DEF CallsHold
<1>6. CallHolds(call[a])'
  BY <1>1, <1>4, <1>5, EmbeddingAssumption DEF CallHolds, IsCall
<1>7. CallsHold(a)'
  BY <1>1, <1>5, <1>6 DEF CallsHold
<1> QED
  BY <1>3, <1>7 DEF Projected, ByProjection, c

\* The thread falls back to the projection.
LEMMA FallBackHolds ==
  ASSUME NEW a \in Threads, CallsHold(a), FallBack(a)
  PROVE  CallsHold(a)' /\ (Projected(a) => Projected(a)') /\ failures' = failures + 1
<1> DEFINE c == call[a]
           next == [c EXCEPT !.at = "lookup", !.engine = "dsp"]
<1>0. CallHolds(c) /\ IsCall(c) /\ failures \in Nat
  BY DEF CallsHold, CallHolds
<1>1. /\ c.at = "failed" /\ Becomes(a, next) /\ failures' = c.seen + 1
      /\ UNCHANGED <<available, cache>>
  BY DEF FallBack
<1>2. WithEngine(next, c, "lookup", "dsp")
  BY DEF WithEngine
<1>3. c.engine = "ollama" /\ c.seen = failures
  BY <1>0, <1>1 DEF CallHolds
<1> HIDE DEF next, c
<1>4. IsCall(next) /\ next.at = "lookup" /\ next.engine = "dsp"
  BY <1>0, <1>2, CallByProjection
<1>5. /\ call' = [t \in Threads |-> call'[t]] /\ call'[a] = next
      /\ \A t \in Threads \ {a} : call'[t].at = "idle"
  BY <1>1, OneCallChanges DEF CallsHold
<1>6. CallHolds(call[a])'
  BY <1>4, <1>5 DEF CallHolds, IsCall
<1>7. failures' = failures + 1
  BY <1>1, <1>3
<1>8. CallsHold(a)'
  BY <1>0, <1>1, <1>5, <1>6, <1>7 DEF CallsHold
<1> QED
  BY <1>3, <1>7, <1>8 DEF Projected, ByProjection, c

\* A cache keeps being a list when one engine's list becomes another.
LEMMA CachesStay ==
  ASSUME NEW a, CallsHold(a), NEW engine \in Engines, NEW list, IsList(list),
         cache' = [cache EXCEPT ![engine] = list]
  PROVE  /\ cache' = [e \in Engines |-> cache'[e]]
         /\ \A e \in Engines : IsList(cache'[e])
         /\ cache'[engine] = list
         /\ \A e \in Engines \ {engine} : cache'[e] = cache[e]
<1>1. cache = [e \in Engines |-> cache[e]] /\ \A e \in Engines : IsList(cache[e])
  BY DEF CallsHold
<1>2. /\ cache'[engine] = list
      /\ \A e \in Engines \ {engine} : cache'[e] = cache[e]
      /\ cache' = [e \in Engines |-> cache'[e]]
  BY <1>1
<1> QED
  BY <1>1, <1>2

\* With one thread the key it chose to remove is there.
LEMMA EvictHolds ==
  ASSUME NEW a \in Threads, CallsHold(a), Evict(a)
  PROVE  CallsHold(a)' /\ (Projected(a) => Projected(a)')
<1> DEFINE c == call[a]
           list == cache[c.engine]
           next == [c EXCEPT !.at = "insert"]
<1>0. CallHolds(c) /\ IsCall(c) /\ c.engine \in Engines
  BY DEF CallsHold, CallHolds, IsCall
<1>1. c.at = "evict" /\ Places(c.engine, c.victim) # {} /\ UNCHANGED <<available, failures>>
  BY <1>0 DEF Evict, CallHolds
<1>2. PICK i \in Places(c.engine, c.victim) : cache' = [cache EXCEPT ![c.engine] = RemoveAt(@, i)]
  BY <1>1 DEF Evict
<1>3. Becomes(a, next)
  BY <1>1 DEF Evict, Goes
<1>4. i \in DOMAIN list
  BY DEF Places
<1>5. PICK S : list \in Seq(S)
  BY <1>0 DEF CallsHold, IsList
<1>6. cache' = [cache EXCEPT ![c.engine] = RemoveAt(list, i)]
  BY <1>0, <1>2 DEF CallsHold
<1> HIDE DEF list
<1>7. /\ RemoveAt(list, i) \in Seq(S)
      /\ \A j \in DOMAIN RemoveAt(list, i) : \E k \in DOMAIN list : RemoveAt(list, i)[j] = list[k]
  BY <1>4, <1>5, RemoveAtShorter
<1>8. IsList(RemoveAt(list, i))
  BY <1>7 DEF IsList
<1> HIDE DEF c, next
<1>9. /\ cache' = [e \in Engines |-> cache'[e]]
      /\ \A e \in Engines : IsList(cache'[e])
      /\ cache'[c.engine] = RemoveAt(list, i)
      /\ \A e \in Engines \ {c.engine} : cache'[e] = cache[e]
  BY <1>0, <1>6, <1>8, CachesStay
<1>10. /\ IsCall(next) /\ next.at = "insert" /\ next.engine = c.engine /\ next.vector = c.vector
  BY <1>0, StillACall DEF next
<1>11. /\ call' = [t \in Threads |-> call'[t]] /\ call'[a] = next
       /\ \A t \in Threads \ {a} : call'[t].at = "idle"
  BY <1>3, OneCallChanges DEF CallsHold
<1>12. CallHolds(call[a])'
  BY <1>0, <1>1, <1>10, <1>11 DEF CallHolds, IsCall
<1>13. CallsHold(a)'
  BY <1>1, <1>9, <1>11, <1>12 DEF CallsHold
<1>14. ASSUME Projected(a) PROVE Projected(a)'
  <2>1. ByProjection(c) /\ \A k \in DOMAIN cache["dsp"] : cache["dsp"][k].vector.by = "dsp"
    BY <1>14 DEF Projected, c
  <2>2. c.engine = "dsp" /\ list = cache["dsp"]
    BY <2>1 DEF ByProjection, list
  <2>3. \A j \in DOMAIN cache'["dsp"] : cache'["dsp"][j].vector.by = "dsp"
    BY <1>7, <1>9, <2>1, <2>2
  <2>4. ByProjection(next)
    BY <1>1, <1>10, <2>1 DEF ByProjection
  <2> QED
    BY <1>1, <1>11, <1>14, <2>3, <2>4 DEF Projected
<1> QED
  BY <1>13, <1>14

\* The thread caches its vector.
LEMMA InsertHolds ==
  ASSUME NEW a \in Threads, CallsHold(a), Insert(a)
  PROVE  CallsHold(a)' /\ (Projected(a) => Projected(a)')
<1> DEFINE c == call[a]
           list == cache[c.engine]
           next == [c EXCEPT !.at = "done"]
<1>0. CallHolds(c) /\ IsCall(c) /\ c.engine \in Engines
  BY DEF CallsHold, CallHolds, IsCall
<1>1. c.at = "insert" /\ Becomes(a, next) /\ UNCHANGED <<available, failures>>
  BY DEF Insert, Goes
<1>5. PICK S : list \in Seq(S)
  BY <1>0 DEF CallsHold, IsList
<1>6. \E new : /\ IsList(new)
               /\ cache' = [cache EXCEPT ![c.engine] = new]
               /\ \A j \in DOMAIN new : (\E k \in DOMAIN list : new[j] = list[k]) \/ new[j].vector = c.vector
  <2>1. CASE Cached(a)
    <3>1. PICK i \in Places(c.engine, KeyOf(a)) :
            cache' = [cache EXCEPT ![c.engine] = Refreshed(@, i, c.vector)]
      BY <2>1 DEF Insert
    <3> DEFINE new == Refreshed(list, i, c.vector)
               entry == [key |-> list[i].key, vector |-> c.vector]
    <3>2. cache' = [cache EXCEPT ![c.engine] = new]
      BY <1>0, <3>1 DEF CallsHold
    <3>3. i \in DOMAIN list /\ new = [list EXCEPT ![i] = entry]
      BY DEF Places, Refreshed
    <3>4. entry.vector = c.vector
      OBVIOUS
    <3> HIDE DEF list, new, c, entry
    <3>5. new \in Seq(S \cup {entry})
      BY <1>5, <3>3
    <3>6. \A j \in DOMAIN new : (\E k \in DOMAIN list : new[j] = list[k]) \/ new[j].vector = c.vector
      BY <1>5, <3>3, <3>4
    <3> QED
      BY <3>2, <3>5, <3>6 DEF IsList
  <2>2. CASE ~Cached(a)
    <3> DEFINE entry == [key |-> KeyOf(a), vector |-> c.vector]
               new == Append(list, entry)
    <3>1. cache' = [cache EXCEPT ![c.engine] = Append(@, entry)]
      BY <2>2 DEF Insert
    <3>2. cache' = [cache EXCEPT ![c.engine] = new]
      BY <1>0, <3>1 DEF CallsHold
    <3>4. entry.vector = c.vector
      OBVIOUS
    <3> HIDE DEF list, c, entry
    <3>5. new \in Seq(S \cup {entry})
      BY <1>5
    <3>6. \A j \in DOMAIN new : (\E k \in DOMAIN list : new[j] = list[k]) \/ new[j].vector = c.vector
      <4>1. Len(list) \in Nat /\ DOMAIN list = 1..Len(list)
        BY <1>5
      <4>2. DOMAIN new = 1..(Len(list) + 1) /\ \A j \in 1..(Len(list) + 1) : new[j] = IF j <= Len(list) THEN list[j] ELSE entry
        BY <1>5, <4>1
      <4> HIDE DEF new
      <4>3. ASSUME NEW j \in 1..(Len(list) + 1)
            PROVE  (\E k \in DOMAIN list : new[j] = list[k]) \/ new[j].vector = c.vector
        <5>1. CASE j <= Len(list)
          BY <4>1, <4>2, <5>1
        <5>2. CASE ~(j <= Len(list))
          BY <3>4, <4>2, <5>2
        <5> QED
          BY <5>1, <5>2
      <4> QED
        BY <4>2, <4>3
    <3> HIDE DEF new
    <3> QED
      BY <3>2, <3>5, <3>6 DEF IsList
  <2> QED
    BY <2>1, <2>2
<1>7. PICK new : /\ IsList(new)
                 /\ cache' = [cache EXCEPT ![c.engine] = new]
                 /\ \A j \in DOMAIN new : (\E k \in DOMAIN list : new[j] = list[k]) \/ new[j].vector = c.vector
  BY <1>6
<1> HIDE DEF c, next, list
<1>9. /\ cache' = [e \in Engines |-> cache'[e]]
      /\ \A e \in Engines : IsList(cache'[e])
      /\ cache'[c.engine] = new
      /\ \A e \in Engines \ {c.engine} : cache'[e] = cache[e]
  BY <1>0, <1>7, CachesStay
<1>10. /\ IsCall(next) /\ next.at = "done" /\ next.engine = c.engine /\ next.vector = c.vector
  BY <1>0, StillACall DEF next
<1>11. /\ call' = [t \in Threads |-> call'[t]] /\ call'[a] = next
       /\ \A t \in Threads \ {a} : call'[t].at = "idle"
  BY <1>1, OneCallChanges DEF CallsHold
<1>12. CallHolds(call[a])'
  BY <1>0, <1>1, <1>10, <1>11 DEF CallHolds, IsCall
<1>13. CallsHold(a)'
  BY <1>1, <1>9, <1>11, <1>12 DEF CallsHold
<1>14. ASSUME Projected(a) PROVE Projected(a)'
  <2>1. ByProjection(c) /\ \A k \in DOMAIN cache["dsp"] : cache["dsp"][k].vector.by = "dsp"
    BY <1>14 DEF Projected, c
  <2>2. c.engine = "dsp" /\ list = cache["dsp"] /\ c.vector.by = "dsp"
    BY <1>1, <2>1 DEF ByProjection, list
  <2>3. \A j \in DOMAIN cache'["dsp"] : cache'["dsp"][j].vector.by = "dsp"
    BY <1>7, <1>9, <2>1, <2>2
  <2>4. ByProjection(next)
    BY <1>10, <2>2 DEF ByProjection
  <2> QED
    BY <1>1, <1>11, <1>14, <2>3, <2>4 DEF Projected
<1> QED
  BY <1>13, <1>14

\* Whatever the one thread does in a call, its call stays one that does not raise.
LEMMA GenerateHolds ==
  ASSUME NEW a \in Threads, CallsHold(a), Generate(a)
  PROVE  CallsHold(a)' /\ (Projected(a) => Projected(a)')
<1>1. CASE Lookup(a) \/ Hit(a) \/ Unanswered(a) \/ MakeRoom(a)
  BY <1>1, QuietCallSteps
<1>2. CASE Answered(a)
  BY <1>2, AnsweredHolds
<1>3. CASE FallBack(a)
  BY <1>3, FallBackHolds
<1>4. CASE Evict(a)
  BY <1>4, EvictHolds
<1>5. CASE Insert(a)
  BY <1>5, InsertHolds
<1> QED
  BY <1>1, <1>2, <1>3, <1>4, <1>5 DEF Generate

-----------------------------------------------------------------------------
(* What that thread has stored and answered.                                *)

\* A job is a record of its fields.
IsJob(j) == j = [task |-> j.task, stage |-> j.stage, chunks |-> j.chunks, at |-> j.at]

\* Every chunk before the current one is an atom, unless it is too short.
AtomsKept(a) ==
  job[a].stage \in {"chunks", "atom"} =>
    /\ job[a].at \in Nat \ {0}
    /\ \A i \in 1..(job[a].at - 1) :
         ~(Len(job[a].chunks[i].embed) < MinChunk) => <<Task(a).name, i>> \in atoms

JobsHold(a) ==
  /\ job = [t \in Threads |-> job[t]]
  /\ IsJob(job[a])
  /\ AtomsKept(a)
  /\ outcome = [t \in Threads |-> outcome[t]]
  /\ outcome[a] \in Seq({"stored", "answered"})
  /\ \A entry \in grid : entry.vector.by = "dsp"

\* The invariant of an instance in which one thread is active.
OneThread(a) ==
  /\ CallsHold(a)
  /\ ~setup.server => Projected(a) /\ JobsHold(a)

\* A job that moves to another stage, with other chunks.
LEMMA WorkJob ==
  ASSUME NEW a \in Threads, job = [t \in Threads |-> job[t]], IsJob(job[a]),
         NEW stage, NEW chunks, NEW at, Work(a, stage, chunks, at)
  PROVE  /\ job' = [t \in Threads |-> job'[t]] /\ IsJob(job'[a])
         /\ job'[a].task = job[a].task /\ job'[a].stage = stage
         /\ job'[a].chunks = chunks /\ job'[a].at = at
<1>1. PICK j : j = job[a]
  OBVIOUS
<1>2. IsJob(j)
  BY <1>1
<1>3. PICK k : k = [j EXCEPT !.stage = stage]
  OBVIOUS
<1>4. IsJob(k) /\ k.task = j.task /\ k.stage = stage
  BY <1>2, <1>3 DEF IsJob
<1>5. PICK l : l = [k EXCEPT !.chunks = chunks]
  OBVIOUS
<1>6. IsJob(l) /\ l.task = j.task /\ l.stage = stage /\ l.chunks = chunks
  BY <1>4, <1>5 DEF IsJob
<1>7. PICK m : m = [l EXCEPT !.at = at]
  OBVIOUS
<1>8. IsJob(m) /\ m.task = j.task /\ m.stage = stage /\ m.chunks = chunks /\ m.at = at
  BY <1>6, <1>7 DEF IsJob
<1>9. m = [j EXCEPT !.stage = stage, !.chunks = chunks, !.at = at]
  BY <1>3, <1>5, <1>7
<1>10. job' = [job EXCEPT ![a] = m]
  BY <1>1, <1>9 DEF Work
<1>11. job' = [t \in Threads |-> job'[t]] /\ job'[a] = m
  BY <1>10
<1> QED
  BY <1>1, <1>8, <1>11

\* A step that leaves the chunks, or begins with them.
LEMMA StageHolds ==
  ASSUME NEW a \in Threads, JobsHold(a), NEW stage, NEW chunks, NEW at, Work(a, stage, chunks, at),
         stage \notin {"chunks", "atom"} \/ at = 1,
         UNCHANGED <<setup, outcome>>, \A entry \in grid' : entry.vector.by = "dsp"
  PROVE  JobsHold(a)'
<1>1. /\ job' = [t \in Threads |-> job'[t]] /\ IsJob(job'[a])
      /\ job'[a].stage = stage /\ job'[a].at = at
  BY WorkJob DEF JobsHold
<1>2. AtomsKept(a)'
  BY <1>1 DEF AtomsKept
<1> QED
  BY <1>1, <1>2 DEF JobsHold

\* The end of a task.
LEMMA EndHolds ==
  ASSUME NEW a \in Threads, JobsHold(a), NEW how \in {"stored", "answered"}, Ends(a, how),
         UNCHANGED <<setup, grid>>
  PROVE  JobsHold(a)'
<1>1. job' = [job EXCEPT ![a] = [task |-> job[a].task + 1, stage |-> "start", chunks |-> <<>>, at |-> 0]]
  BY DEF Ends, JobsHold
<1>2. PICK j : j = [task |-> job[a].task + 1, stage |-> "start", chunks |-> <<>>, at |-> 0]
  OBVIOUS
<1>3. IsJob(j) /\ j.stage = "start"
  BY <1>2 DEF IsJob
<1>4. job' = [t \in Threads |-> job'[t]] /\ job'[a] = j
  BY <1>1, <1>2 DEF JobsHold
<1>5. AtomsKept(a)'
  BY <1>3, <1>4 DEF AtomsKept
<1>6. outcome' = [t \in Threads |-> outcome'[t]] /\ outcome'[a] = Append(outcome[a], how)
  BY DEF Ends, JobsHold
<1>7. Append(outcome[a], how) \in Seq({"stored", "answered"})
  BY DEF JobsHold
<1> QED
  BY <1>3, <1>4, <1>5, <1>6, <1>7 DEF JobsHold

\* The next chunk, or the same one.
LEMMA ChunkHolds ==
  ASSUME NEW a \in Threads, JobsHold(a), job[a].stage \in {"chunks", "atom"},
         NEW stage \in {"chunks", "atom"}, NEW next \in {job[a].at, job[a].at + 1},
         Work(a, stage, job[a].chunks, next),
         atoms \subseteq atoms',
         next = job[a].at + 1 => Len(Chunk(a).embed) < MinChunk \/ AtomId(a) \in atoms',
         UNCHANGED <<setup, outcome>>, \A entry \in grid' : entry.vector.by = "dsp"
  PROVE  JobsHold(a)'
<1>1. /\ job' = [t \in Threads |-> job'[t]] /\ IsJob(job'[a])
      /\ job'[a].task = job[a].task /\ job'[a].stage = stage
      /\ job'[a].chunks = job[a].chunks /\ job'[a].at = next
  BY WorkJob DEF JobsHold
<1>2. PICK at, chunks, name : at = job[a].at /\ chunks = job[a].chunks /\ name = Task(a).name
  OBVIOUS
<1>3. Task(a)' = Task(a)
  BY <1>1 DEF Task
<1>4. /\ at \in Nat \ {0}
      /\ \A i \in 1..(at - 1) : ~(Len(chunks[i].embed) < MinChunk) => <<name, i>> \in atoms
  BY <1>2 DEF JobsHold, AtomsKept
<1>5. next = at \/ next = at + 1
  BY <1>2
<1>6. next = at + 1 => Len(chunks[at].embed) < MinChunk \/ <<name, at>> \in atoms'
  BY <1>2 DEF Chunk, AtomId
<1>7. next \in Nat \ {0}
  BY <1>4, <1>5
<1>8. ASSUME NEW i \in 1..(next - 1), ~(Len(chunks[i].embed) < MinChunk)
      PROVE  <<name, i>> \in atoms'
  <2>1. i \in 1..(at - 1) \/ (i = at /\ next = at + 1)
    BY <1>4, <1>5
  <2>2. CASE i \in 1..(at - 1)
    BY <1>4, <1>8, <2>2
  <2>3. CASE i = at /\ next = at + 1
    BY <1>6, <1>8, <2>3
  <2> QED
    BY <2>1, <2>2, <2>3
<1>9. AtomsKept(a)'
  BY <1>1, <1>2, <1>3, <1>7, <1>8 DEF AtomsKept
<1> QED
  BY <1>1, <1>9 DEF JobsHold

\* A vector of the projection joins the grid.
LEMMA InjectHolds ==
  ASSUME NEW a, JobsHold(a), NEW id, NEW text, NEW vector, vector.by = "dsp", Inject(id, text, vector)
  PROVE  \A entry \in grid' : entry.vector.by = "dsp"
BY DEF JobsHold, Inject

\* The active thread's call, when a step begins or ends one, or is none of its business.
LEMMA StepCallsHold ==
  ASSUME NEW a \in Threads, CallsHold(a), Step(a)
  PROVE  CallsHold(a)' /\ (Projected(a) => Projected(a)')
<1>1. CASE Generate(a)
  BY <1>1, GenerateHolds
<1>2. CASE \E text : Enter(a, text)
  BY <1>2, EnterHolds
<1>3. CASE Leave(a)
  BY <1>3, LeaveHolds
<1>4. CASE UNCHANGED embedding
  BY <1>4 DEF embedding, CallsHold, CallHolds, IsCall, Places, Projected, ByProjection
<1>5. Generate(a) \/ (\E text : Enter(a, text)) \/ Leave(a) \/ UNCHANGED embedding
  <2>1. CASE EmbedFile(a) \/ EmbedChunk(a) \/ EmbedQuery(a)
    BY <2>1, Zenon DEF EmbedFile, EmbedChunk, EmbedQuery
  <2>2. CASE StoreFile(a) \/ FileFails(a) \/ StoreAtom(a) \/ DropAtom(a) \/ Seek(a) \/ QueryFails(a)
    BY <2>2, Zenon DEF StoreFile, FileFails, StoreAtom, DropAtom, Seek, QueryFails
  <2>3. CASE \/ FindSections(a) \/ SplitSections(a) \/ MergeSmall(a) \/ ResplitLong(a) \/ EnrichAll(a)
             \/ WindowFile(a) \/ SkipChunk(a) \/ EndUpload(a)
    BY <2>3, Zenon DEF FindSections, SplitSections, MergeSmall, ResplitLong, EnrichAll, WindowFile,
       SkipChunk, EndUpload
  <2> QED
    BY <2>1, <2>2, <2>3, Zenon DEF Step
<1> QED
  BY <1>1, <1>2, <1>3, <1>4, <1>5

\* What it has stored and answered, when there is no server.
LEMMA StepJobsHold ==
  ASSUME NEW a \in Threads, CallsHold(a), Projected(a), JobsHold(a), Step(a)
  PROVE  JobsHold(a)'
<1>0. /\ call[a].at # "raised"
      /\ call[a].at = "done" => call[a].vector.by = "dsp"
      /\ \A entry \in grid : entry.vector.by = "dsp"
  BY DEF CallsHold, CallHolds, Projected, ByProjection, JobsHold
<1>1. CASE EmbedFile(a)
  BY <1>0, <1>1, StageHolds DEF EmbedFile, Reach
<1>2. CASE StoreFile(a)
  <2>1. \A entry \in grid' : entry.vector.by = "dsp"
    BY <1>0, <1>2, InjectHolds DEF StoreFile
  <2> QED
    BY <1>2, <2>1, StageHolds DEF StoreFile, Reach
<1>3. ~FileFails(a) /\ ~DropAtom(a) /\ ~QueryFails(a)
  BY <1>0 DEF FileFails, DropAtom, QueryFails
<1>4. CASE FindSections(a) \/ SplitSections(a) \/ MergeSmall(a) \/ ResplitLong(a) \/ EnrichAll(a) \/ WindowFile(a)
  <2>1. PICK stage, chunks, at : /\ Work(a, stage, chunks, at) /\ (stage \notin {"chunks", "atom"} \/ at = 1)
                                 /\ UNCHANGED <<setup, outcome, grid>>
    BY <1>4 DEF FindSections, SplitSections, MergeSmall, ResplitLong, EnrichAll, WindowFile
  <2> QED
    BY <1>0, <2>1, StageHolds
<1>5. CASE SkipChunk(a)
  <2>1. /\ job[a].stage = "chunks" /\ Work(a, "chunks", job[a].chunks, job[a].at + 1)
        /\ Len(Chunk(a).embed) < MinChunk
        /\ UNCHANGED <<setup, grid, atoms, outcome>>
    BY <1>5 DEF SkipChunk, More, At, TooShort
  <2> QED
    BY <1>0, <2>1, ChunkHolds
<1>6. CASE EmbedChunk(a)
  <2>1. /\ job[a].stage = "chunks" /\ Work(a, "atom", job[a].chunks, job[a].at)
        /\ UNCHANGED <<setup, grid, atoms, outcome>>
    BY <1>6 DEF EmbedChunk, More, At, Reach
  <2>2. job[a].at # job[a].at + 1
    BY <2>1 DEF JobsHold, AtomsKept
  <2> QED
    BY <1>0, <2>1, <2>2, ChunkHolds
<1>7. CASE StoreAtom(a)
  <2>1. /\ job[a].stage = "atom" /\ Work(a, "chunks", job[a].chunks, job[a].at + 1)
        /\ atoms' = atoms \cup {AtomId(a)}
        /\ UNCHANGED <<setup, outcome>>
    BY <1>7 DEF StoreAtom, At
  <2>2. \A entry \in grid' : entry.vector.by = "dsp"
    BY <1>0, <1>7, InjectHolds DEF StoreAtom
  <2>3. AtomId(a) \in atoms' /\ atoms \subseteq atoms'
    BY <2>1
  <2> QED
    BY <2>1, <2>2, <2>3, ChunkHolds
<1>8. CASE EndUpload(a)
  BY <1>8, EndHolds DEF EndUpload
<1>9. CASE EmbedQuery(a)
  BY <1>0, <1>9, StageHolds DEF EmbedQuery, Reach
<1>10. CASE Seek(a)
  <2>1. Comparable(call[a].vector)
    BY <1>0, <1>10 DEF Comparable, Seek
  <2> QED
    BY <1>10, <2>1, EndHolds DEF Seek
<1>11. CASE UNCHANGED <<setup, job, grid, atoms, outcome>>
  BY <1>11 DEF JobsHold, IsJob, AtomsKept, Task
<1> QED
  BY <1>1, <1>2, <1>3, <1>4, <1>5, <1>6, <1>7, <1>8, <1>9, <1>10, <1>11, Zenon DEF Step

\* In an instance with one active thread the others never move.
LEMMA OthersRest ==
  ASSUME NEW a \in Threads, Active = {a}, CallsHold(a), NEW t \in Threads \ {a}
  PROVE  ~Step(t)
<1>1. setup.tasks[t] = <<>>
  BY DEF Active
<1>2. DOMAIN setup.tasks[t] = {}
  BY <1>1
<1>3. ~Busy(t)
  BY <1>2 DEF Busy
<1>4. call[t].at = "idle"
  BY DEF CallsHold
<1>5. ~Generate(t)
  BY <1>4 DEF Generate, Lookup, Hit, Answered, Unanswered, FallBack, MakeRoom, Evict, Insert
<1> QED
  BY <1>3, <1>5 DEF Step, EmbedFile, StoreFile, FileFails, FindSections, SplitSections, MergeSmall,
     ResplitLong, EnrichAll, WindowFile, SkipChunk, EmbedChunk, StoreAtom, DropAtom, EndUpload,
     EmbedQuery, Seek, QueryFails, At, More

\* No step changes what the threads were given to do.
LEMMA SetupStays ==
  ASSUME NEW a, Step(a)
  PROVE  setup' = setup
BY DEF Step, EmbedFile, StoreFile, FileFails, FindSections, SplitSections, MergeSmall,
   ResplitLong, EnrichAll, WindowFile, SkipChunk, EmbedChunk, StoreAtom, DropAtom, EndUpload,
   EmbedQuery, Seek, QueryFails

\* What a thread knows when nobody has done anything.
LEMMA OneThreadInit ==
  ASSUME Init, NEW a \in Threads
  PROVE  OneThread(a)
<1>1. /\ call = [t \in Threads |-> Idle] /\ failures = 0
      /\ cache = [engine \in Engines |-> <<>>]
      /\ available = setup.server
      /\ grid = {}
      /\ outcome = [t \in Threads |-> <<>>]
  BY DEF Init, EmbeddingInit
<1>2. IsCall(Idle) /\ Idle.at = "idle" /\ Idle.engine = "dsp"
  BY DEF IsCall, Idle, Engines
<1>3. call[a] = Idle /\ \A t \in Threads : call[t].at = "idle"
  BY <1>1, <1>2
<1>4. CallHolds(call[a])
  BY <1>2, <1>3 DEF CallHolds
<1>5. <<>> \in Seq({})
  OBVIOUS
<1>6. \A engine \in Engines : IsList(cache[engine])
  BY <1>1, <1>5 DEF IsList
<1>7. CallsHold(a)
  BY <1>1, <1>3, <1>4, <1>6 DEF CallsHold
<1>8. ASSUME ~setup.server PROVE Projected(a)
  <2>1. cache["dsp"] = <<>>
    BY <1>1 DEF Engines
  <2>2. ByProjection(call[a])
    BY <1>2, <1>3 DEF ByProjection
  <2> QED
    BY <1>1, <1>8, <2>1, <2>2 DEF Projected
<1>9. JobsHold(a)
  <2>1. PICK j : j = [task |-> 1, stage |-> "start", chunks |-> <<>>, at |-> 0]
    OBVIOUS
  <2>2. IsJob(j) /\ j.stage = "start"
    BY <2>1 DEF IsJob
  <2>3. job = [t \in Threads |-> j]
    BY <2>1 DEF Init
  <2>4. job[a] = j /\ job = [t \in Threads |-> job[t]]
    BY <2>3
  <2>5. AtomsKept(a)
    BY <2>2, <2>4 DEF AtomsKept
  <2>6. outcome[a] \in Seq({"stored", "answered"}) /\ outcome = [t \in Threads |-> outcome[t]]
    BY <1>1
  <2> QED
    BY <1>1, <2>2, <2>4, <2>5, <2>6 DEF JobsHold
<1> QED
  BY <1>7, <1>8, <1>9 DEF OneThread

\* Whoever is the only one active, what it knows holds.
OnlyOne == \A a \in Threads : Active = {a} => OneThread(a)

\* A step keeps what it knows, and who is active.
LEMMA OneThreadStep ==
  ASSUME NEW a \in Threads, Active = {a}, OneThread(a), [Next]_vars
  PROVE  OneThread(a)' /\ Active' = Active
<1>1. CallsHold(a) /\ (~setup.server => Projected(a) /\ JobsHold(a))
  BY DEF OneThread
<1>2. CASE UNCHANGED vars
  <2>1. UNCHANGED <<available, failures, cache, call, setup, job, grid, atoms, outcome>>
    BY <1>2 DEF vars, embedding
  <2>2. CallsHold(a)' /\ (Projected(a) => Projected(a)')
    BY <1>1, <2>1 DEF CallsHold, CallHolds, IsCall, Places, Projected, ByProjection
  <2>3. JobsHold(a) => JobsHold(a)'
    BY <2>1 DEF JobsHold, IsJob, AtomsKept, Task
  <2>4. Active' = Active
    BY <2>1 DEF Active
  <2> QED
    BY <1>1, <2>1, <2>2, <2>3, <2>4 DEF OneThread
<1>3. CASE Next
  <2>1. Step(a)
    BY <1>1, <1>3, OthersRest DEF Next
  <2>2. setup' = setup
    BY <2>1, SetupStays
  <2>3. CallsHold(a)' /\ (Projected(a) => Projected(a)')
    BY <1>1, <2>1, StepCallsHold
  <2>4. Projected(a) /\ JobsHold(a) => JobsHold(a)'
    BY <1>1, <2>1, StepJobsHold
  <2>5. Active' = Active
    BY <2>2 DEF Active
  <2> QED
    BY <1>1, <2>2, <2>3, <2>4, <2>5 DEF OneThread
<1> QED
  BY <1>2, <1>3

\* The inductive invariant of an instance with one active thread.
LEMMA OnlyOneInvariant == Spec => []OnlyOne
<1>1. Init => OnlyOne
  BY OneThreadInit DEF OnlyOne
<1>2. OnlyOne /\ [Next]_vars => OnlyOne'
  <2> SUFFICES ASSUME OnlyOne, [Next]_vars, NEW a \in Threads, Active' = {a}
               PROVE  OneThread(a)'
    BY DEF OnlyOne
  <2>1. Active = {a}
    <3>1. setup' = setup
      BY SetupStays DEF Next, vars
    <3> QED
      BY <3>1 DEF Active
  <2>2. OneThread(a)
    BY <2>1 DEF OnlyOne
  <2> QED
    BY <2>1, <2>2, OneThreadStep
<1> QED
  BY <1>1, <1>2, PTL DEF Spec

\* Who is alone is the one active thread.
LEMMA TheOneActive ==
  ASSUME Alone
  PROVE  \E a \in Threads : Active = {a}
<1>1. Active \subseteq Threads
  BY DEF Active
<1>2. IsFiniteSet(Active)
  BY <1>1, EmbeddingAssumption, FS_Subset
<1>3. PICK a : Active = {a}
  BY <1>2, FS_Singleton DEF Alone
<1> QED
  BY <1>1, <1>3

(* One thread that needs no server fails at nothing: each chunk that is not *)
(* too short is an atom, each upload is stored and each search answered.    *)
THEOREM AloneSucceeds == Spec => []AloneAllSucceeds
<1>1. OnlyOne => AloneAllSucceeds
  <2> SUFFICES ASSUME OnlyOne, Alone, ~setup.server
               PROVE  /\ \A t \in Active : \A i \in DOMAIN outcome[t] : outcome[t][i] \in {"stored", "answered"}
                      /\ \A t \in Active : job[t].stage \in {"chunks", "atom"} =>
                           \A i \in 1..(job[t].at - 1) :
                              ~(Len(job[t].chunks[i].embed) < MinChunk) => <<Task(t).name, i>> \in atoms
    BY DEF AloneAllSucceeds
  <2>1. PICK a \in Threads : Active = {a}
    BY TheOneActive
  <2>2. JobsHold(a)
    BY <2>1 DEF OnlyOne, OneThread
  <2>3. \A i \in DOMAIN outcome[a] : outcome[a][i] \in {"stored", "answered"}
    BY <2>2 DEF JobsHold
  <2>4. AtomsKept(a)
    BY <2>2 DEF JobsHold
  <2> QED
    BY <2>1, <2>3, <2>4 DEF AtomsKept
<1> QED
  BY <1>1, OnlyOneInvariant, PTL

(* A thread on its own that has given the server up does not ask it again:  *)
(* the fallback stays for the session.                                      *)
THEOREM FallbackStays == Spec => SessionFallback
<1>1. OnlyOne /\ [Next]_vars => [Alone /\ failures >= MaxFailures => failures' >= MaxFailures]_failures
  <2> SUFFICES ASSUME OnlyOne, [Next]_vars, Alone, failures >= MaxFailures, failures' # failures
               PROVE  failures' >= MaxFailures
    OBVIOUS
  <2>1. PICK a \in Threads : Active = {a}
    BY TheOneActive
  <2>2. CallsHold(a)
    BY <2>1 DEF OnlyOne, OneThread
  <2>3. Step(a)
    BY <2>1, <2>2, OthersRest DEF Next, vars, embedding
  <2>4. failures \in Nat /\ CallHolds(call[a])
    BY <2>2 DEF CallsHold
  <2>5. ~Answered(a)
    BY <2>4, EmbeddingAssumption DEF CallHolds, Answered
  <2>6. Answered(a) \/ FallBack(a)
    <3>1. CASE Generate(a)
      <4>1. Lookup(a) \/ Hit(a) \/ Unanswered(a) \/ MakeRoom(a) => UNCHANGED <<available, failures, cache>>
        BY Zenon DEF Lookup, Hit, Unanswered, MakeRoom
      <4>2. Evict(a) \/ Insert(a) => UNCHANGED <<available, failures>>
        BY Zenon DEF Evict, Insert
      <4>3. ~(Lookup(a) \/ Hit(a) \/ Unanswered(a) \/ MakeRoom(a)) /\ ~(Evict(a) \/ Insert(a))
        BY <4>1, <4>2
      <4> QED
        BY <3>1, <4>3, Zenon DEF Generate
    <3>2. CASE ~Generate(a)
      BY <2>3, <3>2 DEF Step, EmbedFile, StoreFile, FileFails, FindSections, SplitSections, MergeSmall,
         ResplitLong, EnrichAll, WindowFile, SkipChunk, EmbedChunk, StoreAtom, DropAtom, EndUpload,
         EmbedQuery, Seek, QueryFails, Enter, Leave, embedding
    <3> QED
      BY <3>1, <3>2
  <2>7. failures' = failures + 1
    BY <2>2, <2>5, <2>6, FallBackHolds
  <2> QED
    BY <2>4, <2>7, EmbeddingAssumption
<1> QED
  BY <1>1, OnlyOneInvariant, PTL DEF Spec, SessionFallback

\* A set of numbers that is not empty has a least one, ...
LEMMA Least ==
  ASSUME NEW T \in SUBSET Nat, T # {}
  PROVE  \E m \in T : \A n \in T : m <= n
<1>1. PICK m \in T : \A n \in T : ~(<<n, m>> \in OpToRel(<, Nat))
  BY NatLessThanWellFounded, WFMin
<1>2. \A n \in T : ~(n < m)
  BY <1>1 DEF OpToRel
<1> QED
  BY <1>2

\* ... so that a set that holds the successor of each of its numbers holds all
\* from its first one on.
LEMMA Climb ==
  ASSUME NEW a \in Nat, NEW n \in Nat, NEW T, a \in T, \A i \in a..(n - 1) : i \in T => i + 1 \in T
  PROVE  a..n \subseteq T
<1> SUFFICES ASSUME (a..n) \ T # {} PROVE FALSE
  OBVIOUS
<1>1. PICK m \in (a..n) \ T : \A k \in (a..n) \ T : m <= k
  <2>1. (a..n) \ T \in SUBSET Nat
    OBVIOUS
  <2> QED
    BY <2>1, Least
<1>2. m # a /\ m - 1 \in a..n /\ m - 1 \in T
  BY <1>1
<1> QED
  BY <1>1, <1>2
\* Two lists joined.
Join(s, t) == s \o t

\* f is the recursive function inside FlattenSeq.
Flattens(f, seqs, n) == f = [i \in 1..n |-> IF i = 1 THEN seqs[i] ELSE Join(f[i - 1], seqs[i])]

\* Flattening by its recursive function.
LEMMA FlattenIs ==
  ASSUME NEW seqs, Len(seqs) # 0
  PROVE  FlattenSeq(seqs) = (CHOOSE f : Flattens(f, seqs, Len(seqs)))[Len(seqs)]
BY DEF FlattenSeq, Flattens, Join

\* That function exists for every list of lists.
LEMMA FlattensExists ==
  ASSUME NEW seqs, NEW n \in Nat, n >= 1
  PROVE  \E f : Flattens(f, seqs, n)
<1> DEFINE T == {m \in Nat : m >= 1 /\ \E f : Flattens(f, seqs, m)}
<1>1. 1 \in T
  <2>1. Flattens([i \in 1..1 |-> seqs[i]], seqs, 1)
    BY DEF Flattens
  <2> QED
    BY <2>1
<1>2. ASSUME NEW m \in 1..(n - 1), m \in T PROVE m + 1 \in T
  <2>1. PICK f : Flattens(f, seqs, m)
    BY <1>2
  <2> DEFINE g == [i \in 1..(m + 1) |-> IF i <= m THEN f[i] ELSE Join(f[m], seqs[m + 1])]
  <2>2. f[1] = seqs[1] /\ \A i \in 2..m : f[i] = Join(f[i - 1], seqs[i])
    BY <2>1 DEF Flattens
  <2>3. ASSUME NEW i \in 1..(m + 1) PROVE g[i] = IF i = 1 THEN seqs[i] ELSE Join(g[i - 1], seqs[i])
    <3>1. CASE i = 1
      BY <2>2, <3>1
    <3>2. CASE i \in 2..m
      BY <2>2, <3>2
    <3>3. CASE i = m + 1
      BY <3>3
    <3> QED
      BY <3>1, <3>2, <3>3
  <2>4. g = [i \in 1..(m + 1) |-> g[i]]
    OBVIOUS
  <2> HIDE DEF g
  <2>5. Flattens(g, seqs, m + 1)
    BY <2>3, <2>4, Zenon DEF Flattens
  <2> QED
    BY <2>5
<1>3. 1..n \subseteq T
  <2> HIDE DEF T
  <2>1. 1 \in Nat
    OBVIOUS
  <2> QED
    BY <1>1, <1>2, <2>1, Climb
<1> QED
  BY <1>3
\* What the function gives is in steps.
LEMMA FlattenSteps ==
  ASSUME NEW seqs, NEW n \in Nat, n >= 1, Len(seqs) = n
  PROVE  \E f : /\ FlattenSeq(seqs) = f[n] /\ f[1] = seqs[1]
                /\ \A i \in 2..n : f[i] = Join(f[i - 1], seqs[i])
<1> DEFINE f == CHOOSE f : Flattens(f, seqs, n)
<1>1. Flattens(f, seqs, n)
  BY FlattensExists
<1>2. FlattenSeq(seqs) = f[n]
  <2>1. Len(seqs) # 0
    OBVIOUS
  <2> QED
    BY <2>1, FlattenIs
<1> HIDE DEF f
<1>3. f[1] = seqs[1] /\ \A i \in 2..n : f[i] = Join(f[i - 1], seqs[i])
  BY <1>1 DEF Flattens
<1> QED
  BY <1>2, <1>3

\* Nothing flattens to nothing, a single list to itself.
LEMMA FlattenFew ==
  /\ FlattenSeq(<<>>) = <<>>
  /\ \A s : FlattenSeq(<<s>>) = s
<1>1. FlattenSeq(<<>>) = <<>>
  BY DEF FlattenSeq
<1>2. ASSUME NEW s PROVE FlattenSeq(<<s>>) = s
  <2>1. Len(<<s>>) = 1 /\ <<s>>[1] = s
    OBVIOUS
  <2>2. 1 \in Nat /\ 1 >= 1
    OBVIOUS
  <2>3. PICK q : q = <<s>>
    OBVIOUS
  <2>4. \E f : FlattenSeq(q) = f[1] /\ f[1] = q[1]
    BY <2>1, <2>2, <2>3, FlattenSteps
  <2> QED
    BY <2>1, <2>3, <2>4
<1> QED
  BY <1>1, <1>2

\* One list more comes last.
LEMMA FlattenAppend ==
  ASSUME NEW S, NEW seqs \in Seq(Seq(S)), NEW s \in Seq(S)
  PROVE  FlattenSeq(Append(seqs, s)) = FlattenSeq(seqs) \o s
<1>1. PICK n : n = Len(seqs)
  OBVIOUS
<1>2. PICK more : more = Append(seqs, s)
  OBVIOUS
<1>3. n \in Nat /\ Len(more) = n + 1 /\ more[n + 1] = s /\ \A i \in 1..n : more[i] = seqs[i]
  BY <1>1, <1>2
<1>4. CASE n = 0
  <2>1. seqs = <<>> /\ more = <<s>>
    <3>1. seqs = <<>>
      BY <1>1, <1>4, EmptySeq
    <3> QED
      BY <1>2, <3>1
  <2>2. <<>> \o s = s
    BY ConcatEmptySeq
  <2> QED
    BY <1>2, <2>1, <2>2, FlattenFew
<1>5. CASE n # 0
  <2>1. n >= 1 /\ n + 1 \in Nat /\ n + 1 >= 1
    BY <1>3, <1>5
  <2>2. PICK f : /\ FlattenSeq(seqs) = f[n] /\ f[1] = seqs[1]
                 /\ \A i \in 2..n : f[i] = Join(f[i - 1], seqs[i])
    BY <1>1, <1>3, <2>1, FlattenSteps
  <2>3. PICK g : /\ FlattenSeq(more) = g[n + 1] /\ g[1] = more[1]
                 /\ \A i \in 2..(n + 1) : g[i] = Join(g[i - 1], more[i])
    BY <1>3, <2>1, FlattenSteps
  <2> DEFINE T == {m \in 1..n : f[m] = g[m]}
  <2>4. 1 \in T
    BY <1>3, <2>1, <2>2, <2>3
  <2>5. ASSUME NEW m \in 1..(n - 1), m \in T PROVE m + 1 \in T
    <3>1. m + 1 \in 2..n /\ m + 1 \in 2..(n + 1) /\ m + 1 \in 1..n /\ (m + 1) - 1 = m
      BY <1>3
    <3>2. f[m + 1] = Join(f[m], seqs[m + 1]) /\ g[m + 1] = Join(g[m], more[m + 1])
      BY <2>2, <2>3, <3>1
    <3> QED
      BY <1>3, <2>5, <3>1, <3>2
  <2>6. 1..n \subseteq T
    <3> HIDE DEF T
    <3>1. 1 \in Nat
      OBVIOUS
    <3> QED
      BY <1>3, <2>4, <2>5, <3>1, Climb
  <2>7. f[n] = g[n]
    BY <1>3, <2>1, <2>6
  <2>8. g[n + 1] = Join(g[n], s)
    <3>1. n + 1 \in 2..(n + 1) /\ (n + 1) - 1 = n
      BY <1>3, <2>1
    <3> QED
      BY <1>3, <2>3, <3>1
  <2> QED
    BY <1>2, <2>2, <2>3, <2>7, <2>8 DEF Join
<1> QED
  BY <1>4, <1>5

\* A set of lists that is closed under one element more holds all lists.
LEMMA ListInduction ==
  ASSUME NEW S, NEW X, <<>> \in X, \A s \in Seq(S), e \in S : s \in X => Append(s, e) \in X
  PROVE  Seq(S) \subseteq X
<1> SUFFICES ASSUME NEW list \in Seq(S) PROVE list \in X
  OBVIOUS
<1> DEFINE n == Len(list)
           T == {i \in 0..n : SubSeq(list, 1, i) \in X}
<1>1. n \in Nat
  OBVIOUS
<1>2. 0 \in T
  <2>1. SubSeq(list, 1, 0) = <<>> /\ 0 \in 0..n
    BY <1>1, SubSeqEmpty
  <2> HIDE DEF n
  <2> QED
    BY <2>1
<1>3. ASSUME NEW i \in 0..(n - 1), i \in T PROVE i + 1 \in T
  <2>1. i + 1 \in 1..n /\ i + 1 \in 0..n
    BY <1>1
  <2>2. SubSeq(list, 1, i) \in Seq(S) /\ list[i + 1] \in S
    BY <2>1
  <2>3. SubSeq(list, 1, i + 1) = Append(SubSeq(list, 1, i), list[i + 1])
    BY <2>1
  <2>4. SubSeq(list, 1, i) \in X
    BY <1>3
  <2> QED
    BY <2>1, <2>2, <2>3, <2>4
<1>4. 0..n \subseteq T
  <2> HIDE DEF T, n
  <2> QED
    BY <1>1, <1>2, <1>3, Climb
<1>5. n \in 0..n
  BY <1>1
<1>6. SubSeq(list, 1, n) = list
  BY SubSeqFull
<1> QED
  BY <1>4, <1>5, <1>6

\* Lists flatten to a list of what theirs are made of.
LEMMA FlattenType ==
  ASSUME NEW S, NEW seqs \in Seq(Seq(S))
  PROVE  FlattenSeq(seqs) \in Seq(S)
<1> DEFINE X == {q \in Seq(Seq(S)) : FlattenSeq(q) \in Seq(S)}
<1>1. <<>> \in X
  BY FlattenFew, EmptySeq
<1>2. ASSUME NEW q \in Seq(Seq(S)), NEW s \in Seq(S), q \in X PROVE Append(q, s) \in X
  <2>1. FlattenSeq(Append(q, s)) = FlattenSeq(q) \o s
    BY FlattenAppend
  <2>2. FlattenSeq(q) \in Seq(S) /\ Append(q, s) \in Seq(Seq(S))
    BY <1>2
  <2>3. FlattenSeq(q) \o s \in Seq(S)
    BY <2>2, ConcatProperties
  <2> QED
    BY <2>1, <2>2, <2>3
<1>3. Seq(Seq(S)) \subseteq X
  <2> HIDE DEF X
  <2> QED
    BY <1>1, <1>2, ListInduction
<1> QED
  BY <1>3

\* Lists of lists flatten one after the other.
LEMMA FlattenConcat ==
  ASSUME NEW S, NEW a \in Seq(Seq(S)), NEW b \in Seq(Seq(S))
  PROVE  FlattenSeq(a \o b) = FlattenSeq(a) \o FlattenSeq(b)
<1> DEFINE X == {q \in Seq(Seq(S)) : FlattenSeq(a \o q) = FlattenSeq(a) \o FlattenSeq(q)}
<1>0. FlattenSeq(a) \in Seq(S)
  BY FlattenType
<1>1. <<>> \in X
  <2>1. a \o <<>> = a /\ FlattenSeq(a) \o <<>> = FlattenSeq(a)
    BY <1>0, ConcatEmptySeq
  <2> QED
    BY <2>1, FlattenFew, EmptySeq
<1>2. ASSUME NEW q \in Seq(Seq(S)), NEW s \in Seq(S), q \in X PROVE Append(q, s) \in X
  <2>1. FlattenSeq(Append(q, s)) = FlattenSeq(q) \o s
    BY FlattenAppend
  <2>2. a \o q \in Seq(Seq(S)) /\ Append(q, s) \in Seq(Seq(S)) /\ FlattenSeq(q) \in Seq(S)
    BY FlattenType, ConcatProperties
  <2>3. a \o Append(q, s) = Append(a \o q, s)
    <3>1. Append(q, s) = q \o <<s>> /\ Append(a \o q, s) = (a \o q) \o <<s>>
      BY <2>2, AppendIsConcat
    <3>2. <<s>> \in Seq(Seq(S))
      OBVIOUS
    <3>3. (a \o q) \o <<s>> = a \o (q \o <<s>>)
      BY <3>2, ConcatAssociative, SMTT(60)
    <3> QED
      BY <3>1, <3>3
  <2>4. FlattenSeq(Append(a \o q, s)) = FlattenSeq(a \o q) \o s
    BY <2>2, FlattenAppend
  <2>5. (FlattenSeq(a) \o FlattenSeq(q)) \o s = FlattenSeq(a) \o (FlattenSeq(q) \o s)
    BY <1>0, <2>2, ConcatAssociative
  <2>6. FlattenSeq(a \o q) = FlattenSeq(a) \o FlattenSeq(q)
    BY <1>2
  <2> QED
    BY <2>1, <2>2, <2>3, <2>4, <2>5, <2>6
<1>3. Seq(Seq(S)) \subseteq X
  <2> HIDE DEF X
  <2> QED
    BY <1>1, <1>2, ListInduction
<1> QED
  BY <1>3
\* A function on the first numbers is a list of its values.
LEMMA ListOf ==
  ASSUME NEW S, NEW n \in Nat, NEW f, f = [k \in 1..n |-> f[k]], \A k \in 1..n : f[k] \in S
  PROVE  f \in Seq(S) /\ Len(f) = n
OBVIOUS

\* Three lists in a row.
LEMMA Regroup ==
  ASSUME NEW S, NEW x, NEW y, NEW z, x \in Seq(S) /\ y \in Seq(S) /\ z \in Seq(S)
  PROVE  (x \o y) \o z = x \o (y \o z)
BY ConcatAssociative

\* A list that is another one and an element.
LEMMA IsAppend ==
  ASSUME NEW S, NEW a \in Seq(S), NEW e \in S, NEW u \in Seq(S), Len(u) = Len(a) + 1,
         u[Len(a) + 1] = e, \A k \in 1..Len(a) : u[k] = a[k]
  PROVE  u = Append(a, e)
<1>1. PICK v : v = Append(a, e)
  OBVIOUS
<1>2. PICK n : n = Len(a)
  OBVIOUS
<1>3. n \in Nat /\ Len(u) = n + 1 /\ u[n + 1] = e /\ \A k \in 1..n : u[k] = a[k]
  BY <1>2
<1>4. v \in Seq(S) /\ Len(v) = n + 1 /\ v[n + 1] = e /\ \A k \in 1..n : v[k] = a[k]
  BY <1>1, <1>2, AppendProperties
<1>5. ASSUME NEW k \in 1..Len(u) PROVE u[k] = v[k]
  <2>1. CASE k = n + 1
    BY <1>3, <1>4, <2>1
  <2>2. CASE k \in 1..n
    BY <1>3, <1>4, <2>2
  <2> QED
    BY <1>3, <1>5, <2>1, <2>2
<1>6. u = v
  BY <1>3, <1>4, <1>5, SeqEqual
<1> QED
  BY <1>1, <1>6

\* What a list begins with, one element at a time.
LEMMA PrefixGrows ==
  ASSUME NEW S, NEW list \in Seq(S), NEW i \in 0..(Len(list) - 1)
  PROVE  /\ SubSeq(list, 1, i) \in Seq(S) /\ list[i + 1] \in S
         /\ SubSeq(list, 1, i + 1) = Append(SubSeq(list, 1, i), list[i + 1])
OBVIOUS

\* What is added to the last list, added afterwards.
LEMMA FlattenLonger ==
  ASSUME NEW S, NEW a \in Seq(Seq(S)), NEW e \in Seq(S), NEW s \in Seq(S)
  PROVE  FlattenSeq(Append(a, e \o s)) = FlattenSeq(Append(a, e)) \o s
<1>1. PICK f, g : f = e \o s /\ g = FlattenSeq(a)
  OBVIOUS
<1>2. f \in Seq(S) /\ g \in Seq(S)
  BY <1>1, ConcatProperties, FlattenType
<1>3. FlattenSeq(Append(a, f)) = g \o f /\ FlattenSeq(Append(a, e)) = g \o e
  BY <1>1, <1>2, FlattenAppend
<1>4. (g \o e) \o s = g \o (e \o s)
  BY <1>2, Regroup
<1> QED
  BY <1>1, <1>3, <1>4

\* A list and an element more, and a list with an element exchanged.
IsMore(list, a, e)       == list = Append(a, e)
IsExcept(t, list, i, e) == t = [list EXCEPT ![i] = e]

\* Another last element.
LEMMA ExceptLast ==
  ASSUME NEW S, NEW a \in Seq(S), NEW e \in S, NEW list, IsMore(list, a, e), NEW f \in S
  PROVE  list \in Seq(S) /\ list[Len(list)] = e /\ IsExcept(Append(a, f), list, Len(list), f)
<1>1. PICK n : n = Len(a)
  OBVIOUS
<1>2. /\ list \in Seq(S) /\ n \in Nat /\ Len(list) = n + 1 /\ list[n + 1] = e
      /\ \A k \in 1..n : list[k] = a[k]
  BY <1>1, AppendProperties DEF IsMore
<1>3. PICK t : IsExcept(t, list, n + 1, f)
  BY DEF IsExcept
<1>4. t \in Seq(S) /\ Len(t) = Len(list) /\ \A k \in 1..Len(list) : t[k] = IF k = n + 1 THEN f ELSE list[k]
  <2>1. n + 1 \in 1..Len(list)
    BY <1>2
  <2>2. /\ [list EXCEPT ![n + 1] = f] \in Seq(S)
        /\ Len([list EXCEPT ![n + 1] = f]) = Len(list)
        /\ \A k \in 1..Len(list) : [list EXCEPT ![n + 1] = f][k] = IF k = n + 1 THEN f ELSE list[k]
    BY <1>2, <2>1, ExceptSeq
  <2> QED
    BY <1>3, <2>2 DEF IsExcept
<1>5. Len(t) = n + 1 /\ t[n + 1] = f /\ \A k \in 1..n : t[k] = a[k]
  BY <1>2, <1>4
<1>6. t = Append(a, f)
  BY <1>1, <1>4, <1>5, IsAppend
<1> QED
  BY <1>2, <1>3, <1>6

-----------------------------------------------------------------------------
(* Sections                                                                *)

\* Words that are titles, and words that are not.
IsTitle(word) == Len(word) = 1
TitleWords == {w \in Words : IsTitle(w)}
PlainWords == {w \in Words : ~IsTitle(w)}

\* Sentences, paragraphs and sections.
SentenceTexts == {x \in Seq(PlainWords) : x # <<>> /\ OneSentence(x)}
Paras         == Seq(SentenceTexts) \ {<<>>}
SectionRecs   == [headings : Seq(TitleWords), paras : Seq(Paras)]

\* The text of some paragraphs, of each section, and of sections.
ParasText(paras)   == FlattenSeq(FlattenSeq(paras))
TextPerSection(sections) == [j \in DOMAIN sections |-> ParasText(sections[j].paras)]
SectionsText(sections) == FlattenSeq(TextPerSection(sections))

\* What the block of a document adds to the text below its headings.
BodyPart(doc, i) == IF doc[i].kind = "heading" THEN <<>> ELSE BlockWords(i, doc[i])

\* A document of those that are uploaded.
IsDocument(doc) ==
  /\ doc \in Documents
  /\ \A i \in DOMAIN doc :
       IF doc[i].kind = "heading" THEN Title(i) \in Words ELSE Sentences(i, doc[i]) \in Seq(Texts)

\* A sentence is one, and what it is made of is no title.
LEMMA SentenceIsOne ==
  ASSUME NEW i, NEW s, NEW length \in Nat \ {0}, Sentence(i, s, length) \in Texts
  PROVE  Sentence(i, s, length) \in SentenceTexts
<1> DEFINE x == Sentence(i, s, length)
<1>1. DOMAIN x = 1..length /\ \A w \in 1..length : x[w] = <<i, s, w>>
  BY DEF Sentence
<1>2. Len(x) = length /\ \A w \in 1..length : x[w] \in Words
  BY <1>1 DEF Texts
<1>3. \A w : /\ Len(<<i, s, w>>) = 3
            /\ SubSeq(<<i, s, w>>, 1, 2) \in Seq({i, s}) /\ Len(SubSeq(<<i, s, w>>, 1, 2)) = 2
            /\ SubSeq(<<i, s, w>>, 1, 2)[1] = i /\ SubSeq(<<i, s, w>>, 1, 2)[2] = s
  <2> TAKE w
  <2>1. PICK v : v = <<i, s, w>>
    OBVIOUS
  <2>2. Len(v) = 3 /\ v[1] = i /\ v[2] = s
    BY <2>1
  <2>3. \A k \in 1..2 : v[k] \in {i, s}
    BY <2>2
  <2>4. PICK q : q = SubSeq(v, 1, 2)
    OBVIOUS
  <2>5. q \in Seq({i, s}) /\ Len(q) = 2 /\ q[1] = v[1] /\ q[2] = v[2]
    BY <2>3, <2>4, SubSeqProperties
  <2> QED
    BY <2>1, <2>2, <2>4, <2>5
<1>4. \A w \in 1..length : x[w] \in PlainWords
  BY <1>1, <1>2, <1>3 DEF PlainWords, IsTitle
<1> HIDE DEF x
<1>5. x \in Seq(PlainWords) /\ x # <<>>
  <2>1. x \in Seq(Words)
    BY DEF Texts, x
  <2> QED
    BY <1>2, <1>4, <2>1
<1>6. OneSentence(x)
  <2>1. 1 \in 1..length
    OBVIOUS
  <2>2. ASSUME NEW w \in DOMAIN x PROVE SubSeq(x[w], 1, 2) = SubSeq(x[1], 1, 2)
    <3>1. PICK p, q : p = SubSeq(<<i, s, w>>, 1, 2) /\ q = SubSeq(<<i, s, 1>>, 1, 2)
      OBVIOUS
    <3>2. /\ p \in Seq({i, s}) /\ Len(p) = 2 /\ p[1] = i /\ p[2] = s
          /\ q \in Seq({i, s}) /\ Len(q) = 2 /\ q[1] = i /\ q[2] = s
      BY <1>3, <3>1
    <3>3. \A k \in 1..Len(p) : p[k] = q[k]
      BY <3>2
    <3>4. p = q
      BY <3>2, <3>3, SeqEqual
    <3>5. x[w] = <<i, s, w>> /\ x[1] = <<i, s, 1>>
      BY <1>1, <2>1, <2>2
    <3> QED
      BY <3>1, <3>4, <3>5
  <2> QED
    BY <2>2 DEF OneSentence
<1> QED
  BY <1>5, <1>6 DEF SentenceTexts, x

\* A paragraph of a document is one.
LEMMA ParagraphIsOne ==
  ASSUME NEW doc, IsDocument(doc), NEW i \in DOMAIN doc, doc[i].kind # "heading"
  PROVE  Sentences(i, doc[i]) \in Paras
<1>1. Sentences(i, doc[i]) \in Seq(Texts)
  BY DEF IsDocument
<1>2. doc[i] \in Paragraphs
  <2>1. doc \in Seq(Headings \cup Paragraphs)
    BY DEF IsDocument, Documents
  <2>2. doc[i] \in Headings \cup Paragraphs
    BY <2>1
  <2> QED
    BY <2>2 DEF Headings
<1>3. doc[i].sentences \in Seq(Nat \ {0}) \ {<<>>}
  BY <1>2 DEF Paragraphs
<1> DEFINE q == doc[i].sentences
           x == Sentences(i, doc[i])
<1>4. DOMAIN x = DOMAIN q /\ \A s \in DOMAIN q : x[s] = Sentence(i, s, q[s])
  BY DEF Sentences
<1>5. \A s \in DOMAIN q : q[s] \in Nat \ {0}
  BY <1>3
<1>6. DOMAIN q = 1..Len(q) /\ Len(q) \in Nat \ {0}
  BY <1>3, EmptySeq
<1> HIDE DEF q, x
<1>7. ASSUME NEW s \in DOMAIN x PROVE x[s] \in SentenceTexts
  <2>1. x[s] = Sentence(i, s, q[s]) /\ q[s] \in Nat \ {0} /\ x[s] \in Texts
    BY <1>1, <1>4, <1>5, <1>6, <1>7 DEF x
  <2> QED
    BY <2>1, SentenceIsOne
<1>8. x \in Seq(SentenceTexts) /\ x # <<>>
  <2>1. x \in Seq(Texts) /\ Len(x) = Len(q)
    BY <1>1, <1>4, <1>6 DEF x
  <2> QED
    BY <1>6, <1>7, <2>1
<1> QED
  BY <1>8 DEF Paras, x

\* The text of paragraphs is a text without titles.
LEMMA ParasTextType ==
  ASSUME NEW paras \in Seq(Paras)
  PROVE  /\ FlattenSeq(paras) \in Seq(SentenceTexts) /\ FlattenSeq(paras) \in Seq(Seq(PlainWords))
         /\ ParasText(paras) \in Seq(PlainWords)
<1>1. paras \in Seq(Seq(SentenceTexts))
  BY SeqMonotonic DEF Paras
<1>2. FlattenSeq(paras) \in Seq(SentenceTexts)
  BY <1>1, FlattenType
<1>3. SentenceTexts \subseteq Seq(PlainWords)
  BY DEF SentenceTexts
<1>4. FlattenSeq(paras) \in Seq(Seq(PlainWords))
  BY <1>2, <1>3, SeqMonotonic
<1> QED
  BY <1>2, <1>4, FlattenType DEF ParasText

\* One paragraph more comes last.
LEMMA ParasTextAppend ==
  ASSUME NEW paras \in Seq(Paras), NEW para \in Paras
  PROVE  /\ FlattenSeq(para) \in Seq(PlainWords)
         /\ ParasText(Append(paras, para)) = ParasText(paras) \o FlattenSeq(para)
<1>1. paras \in Seq(Seq(SentenceTexts)) /\ para \in Seq(SentenceTexts)
  BY SeqMonotonic DEF Paras
<1>2. FlattenSeq(Append(paras, para)) = FlattenSeq(paras) \o para
  BY <1>1, FlattenAppend
<1>3. SentenceTexts \subseteq Seq(PlainWords)
  BY DEF SentenceTexts
<1>4. para \in Seq(Seq(PlainWords)) /\ FlattenSeq(paras) \in Seq(Seq(PlainWords))
  BY <1>1, <1>3, SeqMonotonic, ParasTextType
<1>5. FlattenSeq(FlattenSeq(paras) \o para) = ParasText(paras) \o FlattenSeq(para)
  BY <1>4, FlattenConcat DEF ParasText
<1> QED
  BY <1>2, <1>4, <1>5, FlattenType DEF ParasText
\* f is the recursive function inside Sections.
SectionsUpto(f, doc, n) == f = [i \in 0..n |-> IF i = 0 THEN <<>> ELSE AddBlock(doc, f[i - 1], i)]

\* Sections by their recursive function.
LEMMA SectionsIs ==
  ASSUME NEW doc
  PROVE  Sections(doc) = (CHOOSE f : SectionsUpto(f, doc, Len(doc)))[Len(doc)]
BY DEF Sections, SectionsUpto

\* That function exists for every document.
LEMMA SectionsUptoExists ==
  ASSUME NEW doc, NEW n \in Nat
  PROVE  \E f : SectionsUpto(f, doc, n)
<1> DEFINE T == {m \in Nat : \E f : SectionsUpto(f, doc, m)}
<1>1. 0 \in T
  <2>1. SectionsUpto([i \in 0..0 |-> <<>>], doc, 0)
    BY DEF SectionsUpto
  <2> QED
    BY <2>1
<1>2. ASSUME NEW m \in 0..(n - 1), m \in T PROVE m + 1 \in T
  <2>1. PICK f : SectionsUpto(f, doc, m)
    BY <1>2
  <2> DEFINE g == [i \in 0..(m + 1) |-> IF i <= m THEN f[i] ELSE AddBlock(doc, f[m], m + 1)]
  <2>2. f[0] = <<>> /\ \A i \in 1..m : f[i] = AddBlock(doc, f[i - 1], i)
    BY <2>1 DEF SectionsUpto
  <2>3. ASSUME NEW i \in 0..(m + 1) PROVE g[i] = IF i = 0 THEN <<>> ELSE AddBlock(doc, g[i - 1], i)
    <3>1. CASE i = 0
      BY <2>2, <3>1
    <3>2. CASE i \in 1..m
      BY <2>2, <3>2
    <3>3. CASE i = m + 1
      BY <3>3
    <3> QED
      BY <3>1, <3>2, <3>3
  <2>4. g = [i \in 0..(m + 1) |-> g[i]]
    OBVIOUS
  <2> HIDE DEF g
  <2>5. SectionsUpto(g, doc, m + 1)
    BY <2>3, <2>4, Zenon DEF SectionsUpto
  <2> QED
    BY <2>5
<1>3. 0..n \subseteq T
  <2> HIDE DEF T
  <2> QED
    BY <1>1, <1>2, Climb
<1> QED
  BY <1>3

\* Sections grow block by block.
LEMMA SectionsSteps ==
  ASSUME NEW doc, NEW n \in Nat, Len(doc) = n
  PROVE  \E f : /\ f[0] = <<>> /\ f[n] = Sections(doc)
                /\ \A i \in 1..n : f[i] = AddBlock(doc, f[i - 1], i)
<1> DEFINE f == CHOOSE f : SectionsUpto(f, doc, n)
<1>1. SectionsUpto(f, doc, n)
  BY SectionsUptoExists
<1>2. f[n] = Sections(doc)
  BY SectionsIs
<1> HIDE DEF f
<1>3. f[0] = <<>> /\ \A i \in 1..n : f[i] = AddBlock(doc, f[i - 1], i)
  BY <1>1 DEF SectionsUpto
<1> QED
  BY <1>2, <1>3

\* The text of one section more comes last.
LEMMA SectionsTextAppend ==
  ASSUME NEW sections \in Seq(SectionRecs), NEW section \in SectionRecs
  PROVE  /\ TextPerSection(sections) \in Seq(Seq(PlainWords))
         /\ SectionsText(Append(sections, section)) = SectionsText(sections) \o ParasText(section.paras)
<1>1. ASSUME NEW r \in SectionRecs PROVE ParasText(r.paras) \in Seq(PlainWords)
  BY ParasTextType DEF SectionRecs
<1>2. PICK n : n = Len(sections)
  OBVIOUS
<1>3. PICK t : t = TextPerSection(sections)
  OBVIOUS
<1>4. n \in Nat /\ DOMAIN sections = 1..n /\ \A k \in 1..n : sections[k] \in SectionRecs
  BY <1>2
<1>5. DOMAIN t = 1..n /\ \A k \in 1..n : t[k] = ParasText(sections[k].paras)
  BY <1>3, <1>4 DEF TextPerSection
<1>6. t = [k \in 1..n |-> t[k]]
  BY <1>3, <1>4 DEF TextPerSection
<1>7. t \in Seq(Seq(PlainWords)) /\ Len(t) = n
  <2>1. \A k \in 1..n : t[k] \in Seq(PlainWords)
    BY <1>1, <1>4, <1>5
  <2> QED
    BY <1>4, <1>6, <2>1, ListOf
<1>8. PICK more, u : more = Append(sections, section) /\ u = TextPerSection(more)
  OBVIOUS
<1>9. DOMAIN more = 1..(n + 1) /\ more[n + 1] = section /\ \A k \in 1..n : more[k] = sections[k]
  BY <1>2, <1>4, <1>8
<1>10. DOMAIN u = 1..(n + 1) /\ \A k \in 1..(n + 1) : u[k] = ParasText(more[k].paras)
  BY <1>8, <1>9 DEF TextPerSection
<1>11. u = [k \in 1..(n + 1) |-> u[k]]
  BY <1>8, <1>9 DEF TextPerSection
<1>12. \A k \in 1..(n + 1) : u[k] = IF k = n + 1 THEN ParasText(section.paras) ELSE t[k]
  BY <1>4, <1>5, <1>9, <1>10
<1>13. PICK last : last = ParasText(section.paras)
  OBVIOUS
<1>14. last \in Seq(PlainWords)
  BY <1>1, <1>13
<1>15. u = Append(t, last)
  <2>1. \A k \in 1..(n + 1) : u[k] \in Seq(PlainWords)
    <3>1. \A k \in 1..n : t[k] \in Seq(PlainWords)
      BY <1>1, <1>4, <1>5
    <3> QED
      BY <1>4, <1>12, <1>13, <1>14, <3>1
  <2>2. n + 1 \in Nat
    BY <1>4
  <2>3. u \in Seq(Seq(PlainWords)) /\ Len(u) = n + 1
    BY <1>11, <2>1, <2>2, ListOf
  <2>4. u[n + 1] = last /\ \A k \in 1..n : u[k] = t[k]
    BY <1>4, <1>12, <1>13
  <2> QED
    BY <1>7, <1>14, <2>3, <2>4, IsAppend
<1>16. FlattenSeq(u) = FlattenSeq(t) \o last
  BY <1>7, <1>14, <1>15, FlattenAppend
<1> QED
  BY <1>3, <1>7, <1>8, <1>13, <1>16 DEF SectionsText

\* A paragraph of the last section comes last, too.
LEMMA SectionsTextLast ==
  ASSUME NEW sections \in Seq(SectionRecs), sections # <<>>, NEW para \in Paras
  PROVE  LET more == [sections EXCEPT ![Len(sections)].paras = Append(@, para)]
         IN  /\ more \in Seq(SectionRecs)
             /\ SectionsText(more) = SectionsText(sections) \o FlattenSeq(para)
<1>1. PICK a, e : a \in Seq(SectionRecs) /\ e \in SectionRecs /\ sections = Append(a, e)
  BY SequenceEmptyOrAppend
<1>2. PICK n : n = Len(sections)
  OBVIOUS
<1>3. n = Len(a) + 1 /\ Len(a) \in Nat /\ sections[n] = e /\ \A k \in 1..Len(a) : sections[k] = a[k]
  BY <1>1, <1>2, AppendProperties
<1>4. PICK f : f = [e EXCEPT !.paras = Append(@, para)]
  OBVIOUS
<1>5. f \in SectionRecs /\ f.paras = Append(e.paras, para) /\ e.paras \in Seq(Paras)
  <2>1. e.paras \in Seq(Paras) /\ e.headings \in Seq(TitleWords)
    BY <1>1 DEF SectionRecs
  <2>2. PICK paras : paras = Append(e.paras, para)
    OBVIOUS
  <2>3. paras \in Seq(Paras)
    BY <2>1, <2>2, AppendProperties
  <2>4. f = [headings |-> e.headings, paras |-> paras]
    BY <1>1, <1>4, <2>2 DEF SectionRecs
  <2> QED
    BY <2>1, <2>2, <2>3, <2>4 DEF SectionRecs
<1>6. PICK more : more = [sections EXCEPT ![n].paras = Append(@, para)]
  OBVIOUS
<1>7. more = [sections EXCEPT ![n] = f]
  BY <1>3, <1>4, <1>6
<1>8. more = Append(a, f)
  <2>1. IsMore(sections, a, e)
    BY <1>1 DEF IsMore
  <2>2. IsExcept(Append(a, f), sections, Len(sections), f)
    BY <1>1, <1>5, <2>1, ExceptLast
  <2> QED
    BY <1>2, <1>7, <2>2 DEF IsExcept
<1>9. /\ more \in Seq(SectionRecs)
      /\ SectionsText(more) = SectionsText(a) \o ParasText(f.paras)
      /\ SectionsText(sections) = SectionsText(a) \o ParasText(e.paras)
  <2>1. more \in Seq(SectionRecs)
    BY <1>1, <1>5, <1>8, AppendProperties
  <2>2. SectionsText(Append(a, f)) = SectionsText(a) \o ParasText(f.paras)
    BY <1>1, <1>5, SectionsTextAppend
  <2>3. SectionsText(Append(a, e)) = SectionsText(a) \o ParasText(e.paras)
    BY <1>1, SectionsTextAppend
  <2> QED
    BY <1>1, <1>8, <2>1, <2>2, <2>3
<1>10. ParasText(f.paras) = ParasText(e.paras) \o FlattenSeq(para) /\ FlattenSeq(para) \in Seq(PlainWords)
  BY <1>5, ParasTextAppend
<1>11. SectionsText(a) \o (ParasText(e.paras) \o FlattenSeq(para)) = (SectionsText(a) \o ParasText(e.paras)) \o FlattenSeq(para)
  <2>1. PICK x, y, z : x = SectionsText(a) /\ y = ParasText(e.paras) /\ z = FlattenSeq(para)
    OBVIOUS
  <2>2. x \in Seq(PlainWords)
    BY <1>1, <1>5, <2>1, SectionsTextAppend, FlattenType DEF SectionsText
  <2>3. y \in Seq(PlainWords) /\ z \in Seq(PlainWords)
    BY <1>5, <1>10, <2>1, ParasTextType
  <2>4. (x \o y) \o z = x \o (y \o z)
    BY <2>2, <2>3, ConcatAssociative
  <2> QED
    BY <2>1, <2>4
<1> QED
  BY <1>2, <1>6, <1>9, <1>10, <1>11
\* A block adds a section or to the last one.
LEMMA AddBlockFacts ==
  ASSUME NEW doc, IsDocument(doc), NEW i \in DOMAIN doc, NEW sections \in Seq(SectionRecs)
  PROVE  /\ AddBlock(doc, sections, i) \in Seq(SectionRecs)
         /\ BodyPart(doc, i) \in Seq(PlainWords)
         /\ SectionsText(AddBlock(doc, sections, i)) = SectionsText(sections) \o BodyPart(doc, i)
<1> DEFINE titles == IF sections = <<>> THEN <<>> ELSE Last(sections).headings
<1>1. titles \in Seq(TitleWords)
  <2>1. CASE sections = <<>>
    BY <2>1, EmptySeq
  <2>2. CASE sections # <<>>
    <3>1. Len(sections) \in 1..Len(sections)
      BY <2>2, EmptySeq
    <3>2. Last(sections) \in SectionRecs
      BY <3>1, ElementOfSeq DEF Last
    <3> QED
      BY <2>2, <3>2 DEF SectionRecs
  <2> QED
    BY <2>1, <2>2
<1>2. SectionsText(sections) \in Seq(PlainWords)
  <2>1. CASE sections = <<>>
    <3>1. TextPerSection(<<>>) = <<>>
      BY DEF TextPerSection
    <3> QED
      BY <2>1, <3>1, FlattenFew, EmptySeq DEF SectionsText
  <2>2. CASE sections # <<>>
    <3>1. PICK r \in SectionRecs : TRUE
      <4>1. Len(sections) \in 1..Len(sections)
        BY <2>2, EmptySeq
      <4> QED
        BY <4>1, ElementOfSeq
    <3>2. TextPerSection(sections) \in Seq(Seq(PlainWords))
      BY <3>1, SectionsTextAppend
    <3> QED
      BY <3>2, FlattenType DEF SectionsText
  <2> QED
    BY <2>1, <2>2
<1>3. ParasText(<<>>) = <<>>
  BY FlattenFew DEF ParasText
<1>4. doc[i].kind \in {"heading", "paragraph"}
  <2>1. doc \in Seq(Headings \cup Paragraphs)
    BY DEF IsDocument, Documents
  <2>2. doc[i] \in Headings \cup Paragraphs
    BY <2>1
  <2> QED
    BY <2>2 DEF Headings, Paragraphs
<1>5. CASE doc[i].kind = "heading"
  <2>1. Title(i) \in TitleWords
    BY <1>5 DEF IsDocument, TitleWords, IsTitle, Title
  <2>2. PICK above : above = Above(titles, doc[i].level)
    OBVIOUS
  <2>3. doc[i].level \in Nat
    <3>1. doc \in Seq(Headings \cup Paragraphs)
      BY DEF IsDocument, Documents
    <3>2. doc[i] \in Headings \cup Paragraphs
      BY <3>1
    <3> QED
      BY <1>5, <3>2 DEF Headings, Paragraphs
  <2>4. above \in Seq(TitleWords)
    <3>1. PICK level : level = doc[i].level
      OBVIOUS
    <3>2. PICK u : u = titles
      OBVIOUS
    <3>3. u \in Seq(TitleWords) /\ level \in Nat /\ above = IF level <= Len(u) THEN SubSeq(u, 1, level - 1) ELSE u
      BY <1>1, <2>2, <2>3, <3>1, <3>2 DEF Above
    <3>4. level <= Len(u) => SubSeq(u, 1, level - 1) \in Seq(TitleWords)
      BY <3>3
    <3> QED
      BY <3>3, <3>4
  <2>5. PICK section : section = [headings |-> Append(above, Title(i)), paras |-> <<>>]
    OBVIOUS
  <2>6. section \in SectionRecs /\ section.paras = <<>>
    BY <2>1, <2>4, <2>5, AppendProperties, EmptySeq DEF SectionRecs
  <2>7. AddBlock(doc, sections, i) = Append(sections, section)
    BY <1>5, <2>2, <2>5 DEF AddBlock
  <2>8. SectionsText(Append(sections, section)) = SectionsText(sections) \o <<>>
    BY <1>3, <2>6, SectionsTextAppend
  <2>9. BodyPart(doc, i) = <<>>
    BY <1>5 DEF BodyPart
  <2> QED
    BY <2>6, <2>7, <2>8, <2>9, AppendProperties, EmptySeq
<1>6. CASE doc[i].kind # "heading"
  <2>1. PICK para : para = Sentences(i, doc[i])
    OBVIOUS
  <2>2. para \in Paras /\ para \in Seq(Seq(PlainWords))
    <3>1. para \in Paras
      BY <1>6, <2>1, ParagraphIsOne
    <3>2. para \in Seq(SentenceTexts) /\ SentenceTexts \subseteq Seq(PlainWords)
      BY <3>1 DEF Paras, SentenceTexts
    <3> QED
      BY <3>1, <3>2, SeqMonotonic
  <2>3. BodyPart(doc, i) = FlattenSeq(para) /\ FlattenSeq(para) \in Seq(PlainWords)
    BY <1>6, <2>1, <2>2, FlattenType DEF BodyPart, BlockWords
  <2>4. CASE sections = <<>>
    <3>1. PICK section : section = [headings |-> <<>>, paras |-> <<para>>]
      OBVIOUS
    <3>2. <<para>> = Append(<<>>, para)
      OBVIOUS
    <3>3. section \in SectionRecs
      BY <2>2, <3>1, <3>2, AppendProperties, EmptySeq DEF SectionRecs
    <3>4. AddBlock(doc, sections, i) = <<section>>
      BY <1>4, <1>6, <2>1, <2>4, <3>1 DEF AddBlock
    <3>5. <<section>> = Append(sections, section)
      BY <2>4
    <3>6. SectionsText(Append(sections, section)) = SectionsText(sections) \o ParasText(section.paras)
      BY <3>3, SectionsTextAppend
    <3>7. ParasText(<<para>>) = FlattenSeq(para)
      BY FlattenFew DEF ParasText
    <3>8. ParasText(section.paras) = FlattenSeq(para)
      BY <3>1, <3>7
    <3>9. Append(sections, section) \in Seq(SectionRecs)
      BY <3>3, AppendProperties
    <3>10. AddBlock(doc, sections, i) = Append(sections, section)
      BY <3>4, <3>5
    <3>11. SectionsText(Append(sections, section)) = SectionsText(sections) \o BodyPart(doc, i)
      BY <2>3, <3>6, <3>8
    <3> QED
      BY <2>3, <3>9, <3>10, <3>11
  <2>5. CASE sections # <<>>
    <3>1. AddBlock(doc, sections, i) = [sections EXCEPT ![Len(sections)].paras = Append(@, para)]
      BY <1>4, <1>6, <2>1, <2>5 DEF AddBlock
    <3> QED
      BY <2>2, <2>3, <2>5, <3>1, SectionsTextLast
  <2> QED
    BY <2>4, <2>5
<1> QED
  BY <1>5, <1>6

\* The sections of a document hold the text below its headings.
LEMMA SectionsFacts ==
  ASSUME NEW doc, IsDocument(doc)
  PROVE  /\ Sections(doc) \in Seq(SectionRecs)
         /\ Body(doc) \in Seq(PlainWords)
         /\ SectionsText(Sections(doc)) = Body(doc)
<1>1. PICK n : n = Len(doc)
  OBVIOUS
<1>2. n \in Nat /\ DOMAIN doc = 1..n
  BY <1>1 DEF IsDocument, Documents
<1>3. PICK f : /\ f[0] = <<>> /\ f[n] = Sections(doc)
               /\ \A i \in 1..n : f[i] = AddBlock(doc, f[i - 1], i)
  BY <1>1, <1>2, SectionsSteps
<1>4. PICK parts : parts = [i \in 1..n |-> BodyPart(doc, i)]
  OBVIOUS
<1>5. Body(doc) = FlattenSeq(parts)
  BY <1>2, <1>4 DEF Body, BodyPart
<1>6. \A i \in 1..n : BodyPart(doc, i) \in Seq(PlainWords)
  BY <1>2, AddBlockFacts, EmptySeq
<1>7. parts \in Seq(Seq(PlainWords)) /\ Len(parts) = n
  <2>1. parts = [i \in 1..n |-> parts[i]] /\ \A i \in 1..n : parts[i] \in Seq(PlainWords)
    BY <1>4, <1>6
  <2> QED
    BY <1>2, <2>1, ListOf
<1> DEFINE T == {i \in 0..n : /\ f[i] \in Seq(SectionRecs)
                              /\ SectionsText(f[i]) = FlattenSeq(SubSeq(parts, 1, i))}
<1>8. 0 \in T
  <2>1. SubSeq(parts, 1, 0) = <<>> /\ TextPerSection(<<>>) = <<>>
    BY SubSeqEmpty DEF TextPerSection
  <2> QED
    <3>1. SectionsText(<<>>) = <<>> /\ FlattenSeq(SubSeq(parts, 1, 0)) = <<>>
      BY <2>1, FlattenFew DEF SectionsText
    <3>2. <<>> \in Seq(SectionRecs) /\ f[0] = <<>> /\ 0 \in 0..n
      BY <1>2, <1>3, EmptySeq
    <3> QED
      BY <3>1, <3>2
<1>9. ASSUME NEW i \in 0..(n - 1), i \in T PROVE i + 1 \in T
  <2>1. i + 1 \in 1..n /\ i + 1 \in 0..n /\ (i + 1) - 1 = i /\ i \in 0..(Len(parts) - 1)
    BY <1>2, <1>7
  <2>2. PICK secs : secs = f[i]
    OBVIOUS
  <2>3. secs \in Seq(SectionRecs) /\ SectionsText(secs) = FlattenSeq(SubSeq(parts, 1, i))
    BY <1>9, <2>2
  <2>4. f[i + 1] = AddBlock(doc, secs, i + 1)
    BY <1>3, <2>1, <2>2
  <2>5. /\ AddBlock(doc, secs, i + 1) \in Seq(SectionRecs)
        /\ SectionsText(AddBlock(doc, secs, i + 1)) = SectionsText(secs) \o BodyPart(doc, i + 1)
    BY <1>2, <2>1, <2>3, AddBlockFacts
  <2>6. /\ SubSeq(parts, 1, i) \in Seq(Seq(PlainWords)) /\ parts[i + 1] \in Seq(PlainWords)
        /\ SubSeq(parts, 1, i + 1) = Append(SubSeq(parts, 1, i), parts[i + 1])
    BY <1>7, <2>1, PrefixGrows
  <2>7. FlattenSeq(SubSeq(parts, 1, i + 1)) = FlattenSeq(SubSeq(parts, 1, i)) \o parts[i + 1]
    BY <2>6, FlattenAppend
  <2>8. parts[i + 1] = BodyPart(doc, i + 1)
    BY <1>4, <2>1
  <2> QED
    BY <2>1, <2>3, <2>4, <2>5, <2>7, <2>8
<1>10. n \in T
  <2>1. 0..n \subseteq T
    <3> HIDE DEF T
    <3> QED
      BY <1>2, <1>8, <1>9, Climb
  <2> QED
    BY <1>2, <2>1
<1>11. SubSeq(parts, 1, n) = parts
  BY <1>7, SubSeqFull
<1> QED
  BY <1>3, <1>5, <1>7, <1>10, <1>11, FlattenType
-----------------------------------------------------------------------------
(* Splitting                                                               *)

\* A text within the budget, and texts that are.
InBudget(text, max) == Len(text) <= max \/ OneSentence(text)
Pieces(max) == {x \in Seq(PlainWords) : x # <<>> /\ InBudget(x, max)}

\* The parts packed so far are the text so far, and within the budget; those of
\* the group that is filled are within it as it counts them, or one sentence.
PackOK(pack, max, text) ==
  /\ pack \in [groups : Seq(Pieces(max)), current : Seq(PlainWords), tokens : Nat]
  /\ FlattenSeq(pack.groups) \o pack.current = text
  /\ pack.current = <<>> => pack.tokens = 0
  /\ Len(pack.current) <= pack.tokens
  /\ pack.tokens <= max \/ OneSentence(pack.current)

\* A text has at least as many tokens as words.
LEMMA TokensEnough ==
  ASSUME NEW n, NEW text, n = Len(text), n \in Nat
  PROVE  Tokens(text) \in Nat /\ n <= Tokens(text)
BY DEF Tokens

\* Pieces are texts.
LEMMA PiecesFlatten ==
  ASSUME NEW max, NEW groups \in Seq(Pieces(max))
  PROVE  groups \in Seq(Seq(PlainWords)) /\ FlattenSeq(groups) \in Seq(PlainWords)
<1>1. Pieces(max) \subseteq Seq(PlainWords)
  BY DEF Pieces
<1>2. groups \in Seq(Seq(PlainWords))
  BY <1>1, SeqMonotonic
<1> QED
  BY <1>2, FlattenType

\* Nothing is packed at first.
LEMMA NothingPacked ==
  ASSUME NEW max \in Nat
  PROVE  PackOK(NoPack, max, <<>>)
<1>1. <<>> \in Seq(Pieces(max)) /\ <<>> \in Seq(PlainWords) /\ Len(<<>>) = 0
  BY EmptySeq
<1>2. <<>> \o <<>> = <<>>
  BY <1>1, ConcatEmptySeq
<1> QED
  BY <1>1, <1>2, FlattenFew DEF PackOK, NoPack

\* The groups of what is packed.
LEMMA GroupsFacts ==
  ASSUME NEW max \in Nat, NEW text, NEW pack, PackOK(pack, max, text)
  PROVE  Groups(pack) \in Seq(Pieces(max)) /\ FlattenSeq(Groups(pack)) = text
<1> DEFINE g == pack.groups
           c == pack.current
<1>1. g \in Seq(Pieces(max)) /\ c \in Seq(PlainWords) /\ FlattenSeq(g) \o c = text
  BY DEF PackOK
<1>2. g \in Seq(Seq(PlainWords)) /\ FlattenSeq(g) \in Seq(PlainWords)
  BY <1>1, PiecesFlatten
<1>3. CASE c = <<>>
  <2>1. FlattenSeq(g) \o <<>> = FlattenSeq(g)
    BY <1>2, ConcatEmptySeq
  <2> QED
    BY <1>1, <1>3, <2>1 DEF Groups
<1>4. CASE c # <<>>
  <2>1. Len(c) <= max \/ OneSentence(c)
    <3>1. pack.tokens \in Nat /\ Len(c) <= pack.tokens /\ (pack.tokens <= max \/ OneSentence(c))
      BY DEF PackOK
    <3>2. Len(c) \in Nat
      BY <1>1
    <3> HIDE DEF c
    <3> QED
      BY <3>1, <3>2
  <2>2. c \in Pieces(max)
    BY <1>1, <1>4, <2>1 DEF Pieces, InBudget
  <2>3. Append(g, c) \in Seq(Pieces(max))
    BY <1>1, <2>2, AppendProperties
  <2>4. FlattenSeq(Append(g, c)) = FlattenSeq(g) \o c
    BY <1>1, <1>2, FlattenAppend
  <2> QED
    BY <1>1, <1>4, <2>3, <2>4 DEF Groups
<1> QED
  BY <1>3, <1>4

\* A part is packed into the group that is filled or starts a new one.
LEMMA PackFacts ==
  ASSUME NEW max \in Nat, NEW text, NEW pack, PackOK(pack, max, text),
         NEW part \in Seq(PlainWords), part # <<>>, Tokens(part) <= max \/ OneSentence(part)
  PROVE  PackOK(Pack(pack, part, max), max, text \o part)
<1> DEFINE g == pack.groups
           c == pack.current
           k == pack.tokens
<1>1. /\ g \in Seq(Pieces(max)) /\ c \in Seq(PlainWords) /\ k \in Nat
      /\ FlattenSeq(g) \o c = text /\ (c = <<>> => k = 0) /\ Len(c) <= k
      /\ k <= max \/ OneSentence(c)
      /\ pack = [groups |-> g, current |-> c, tokens |-> k]
  BY DEF PackOK
<1>2. g \in Seq(Seq(PlainWords)) /\ FlattenSeq(g) \in Seq(PlainWords)
  BY <1>1, PiecesFlatten
<1>3. PICK p : p = Tokens(part)
  OBVIOUS
<1>4. Len(part) \in Nat /\ p \in Nat /\ Len(part) <= p
  BY <1>3, TokensEnough
<1>5. p <= max \/ OneSentence(part)
  BY <1>3
<1>6. Full(pack, part, max) <=> k + p > max /\ c # <<>>
  BY <1>3 DEF Full
<1>7. CASE Full(pack, part, max)
  <2>1. Pack(pack, part, max) = [groups |-> Append(g, c), current |-> part, tokens |-> p]
    BY <1>3, <1>7 DEF Pack
  <2>2. Groups(pack) = Append(g, c)
    BY <1>6, <1>7 DEF Groups
  <2>3. Append(g, c) \in Seq(Pieces(max)) /\ FlattenSeq(Append(g, c)) = text
    BY <2>2, GroupsFacts
  <2> HIDE DEF g, c, k
  <2> QED
    BY <1>4, <1>5, <2>1, <2>3 DEF PackOK
<1>8. CASE ~Full(pack, part, max)
  <2>1. Pack(pack, part, max) = [groups |-> g, current |-> c \o part, tokens |-> k + p]
    BY <1>1, <1>3, <1>8 DEF Pack
  <2> HIDE DEF g, c, k
  <2>2. c \o part \in Seq(PlainWords) /\ Len(c \o part) = Len(c) + Len(part) /\ Len(c) \in Nat
    BY <1>1, ConcatProperties
  <2>3. c \o part # <<>> /\ Len(c \o part) <= k + p /\ k + p \in Nat
    <3>1. Len(part) > 0
      BY <1>4, EmptySeq
    <3>2. Len(c \o part) > 0
      BY <1>4, <2>2, <3>1
    <3> QED
      BY <1>1, <1>4, <2>2, <3>2, EmptySeq
  <2>4. (FlattenSeq(g) \o c) \o part = FlattenSeq(g) \o (c \o part)
    <3>1. PICK h : h = FlattenSeq(g)
      OBVIOUS
    <3>2. h \in Seq(PlainWords) /\ c \in Seq(PlainWords) /\ part \in Seq(PlainWords)
      BY <1>1, <1>2, <3>1
    <3>3. (h \o c) \o part = h \o (c \o part)
      BY <3>2, Regroup
    <3> QED
      BY <3>1, <3>3
  <2>5. k + p <= max \/ OneSentence(c \o part)
    <3>1. CASE c = <<>>
      <4>1. <<>> \o part = part
        BY ConcatEmptySeq
      <4> QED
        BY <1>1, <1>4, <1>5, <3>1, <4>1
    <3>2. CASE c # <<>>
      BY <1>1, <1>4, <1>6, <1>8, <3>2
    <3> QED
      BY <3>1, <3>2
  <2>6. FlattenSeq(g) \o (c \o part) = text \o part
    BY <1>1, <2>4
  <2> QED
    <3>1. PICK more, sum : more = c \o part /\ sum = k + p
      OBVIOUS
    <3>2. PICK new : new = [groups |-> g, current |-> more, tokens |-> sum]
      OBVIOUS
    <3>3. new \in [groups : Seq(Pieces(max)), current : Seq(PlainWords), tokens : Nat]
      BY <1>1, <2>2, <2>3, <3>1, <3>2
    <3>4. new.groups = g /\ new.current = more /\ new.tokens = sum
      BY <3>2
    <3>5. more # <<>> /\ Len(more) <= sum /\ (sum <= max \/ OneSentence(more))
      BY <2>3, <2>5, <3>1
    <3>6. FlattenSeq(g) \o more = text \o part
      BY <2>6, <3>1
    <3>7. PackOK(new, max, text \o part)
      BY <3>3, <3>4, <3>5, <3>6 DEF PackOK
    <3> QED
      BY <2>1, <3>1, <3>2, <3>7
<1> QED
  BY <1>7, <1>8
\* The recursive function inside BySentences.
PackedUpto(f, para, max, n) == f = [i \in 0..n |-> IF i = 0 THEN NoPack ELSE Pack(f[i - 1], para[i], max)]

\* What BySentences makes by its recursive function.
LEMMA BySentencesIs ==
  ASSUME NEW para, NEW max
  PROVE  BySentences(para, max) = Groups((CHOOSE f : PackedUpto(f, para, max, Len(para)))[Len(para)])
BY DEF BySentences, PackedUpto

\* That function exists for every paragraph.
LEMMA PackedUptoExists ==
  ASSUME NEW para, NEW max, NEW n \in Nat
  PROVE  \E f : PackedUpto(f, para, max, n)
<1> DEFINE T == {m \in Nat : \E f : PackedUpto(f, para, max, m)}
<1>1. 0 \in T
  <2>1. PackedUpto([i \in 0..0 |-> NoPack], para, max, 0)
    BY DEF PackedUpto
  <2> QED
    BY <2>1
<1>2. ASSUME NEW m \in 0..(n - 1), m \in T PROVE m + 1 \in T
  <2>1. PICK f : PackedUpto(f, para, max, m)
    BY <1>2
  <2> DEFINE g == [i \in 0..(m + 1) |-> IF i <= m THEN f[i] ELSE Pack(f[m], para[m + 1], max)]
  <2>2. f[0] = NoPack /\ \A i \in 1..m : f[i] = Pack(f[i - 1], para[i], max)
    BY <2>1 DEF PackedUpto
  <2>3. ASSUME NEW i \in 0..(m + 1) PROVE g[i] = IF i = 0 THEN NoPack ELSE Pack(g[i - 1], para[i], max)
    <3>1. CASE i = 0
      BY <2>2, <3>1
    <3>2. CASE i \in 1..m
      BY <2>2, <3>2
    <3>3. CASE i = m + 1
      BY <3>3
    <3> QED
      BY <3>1, <3>2, <3>3
  <2>4. g = [i \in 0..(m + 1) |-> g[i]]
    OBVIOUS
  <2> HIDE DEF g
  <2>5. PackedUpto(g, para, max, m + 1)
    BY <2>3, <2>4, Zenon DEF PackedUpto
  <2> QED
    BY <2>5
<1>3. 0..n \subseteq T
  <2> HIDE DEF T
  <2> QED
    BY <1>1, <1>2, Climb
<1> QED
  BY <1>3

\* A paragraph is packed sentence by sentence.
LEMMA BySentencesSteps ==
  ASSUME NEW para, NEW max, NEW n \in Nat, Len(para) = n
  PROVE  \E f : /\ f[0] = NoPack /\ Groups(f[n]) = BySentences(para, max)
                /\ \A i \in 1..n : f[i] = Pack(f[i - 1], para[i], max)
<1> DEFINE f == CHOOSE f : PackedUpto(f, para, max, n)
<1>1. PackedUpto(f, para, max, n)
  BY PackedUptoExists
<1>2. Groups(f[n]) = BySentences(para, max)
  BY BySentencesIs
<1> HIDE DEF f
<1>3. f[0] = NoPack /\ \A i \in 1..n : f[i] = Pack(f[i - 1], para[i], max)
  BY <1>1 DEF PackedUpto
<1> QED
  BY <1>2, <1>3

\* The groups of a paragraph's sentences are its text, within the budget.
LEMMA BySentencesFacts ==
  ASSUME NEW max \in Nat, NEW para \in Paras
  PROVE  /\ BySentences(para, max) \in Seq(Pieces(max))
         /\ FlattenSeq(BySentences(para, max)) = FlattenSeq(para)
<1>1. PICK n : n = Len(para)
  OBVIOUS
<1>2. SentenceTexts \subseteq Seq(PlainWords)
  BY DEF SentenceTexts
<1>3. n \in Nat /\ para \in Seq(SentenceTexts)
  BY <1>1 DEF Paras
<1>4. para \in Seq(Seq(PlainWords))
  BY <1>2, <1>3, SeqMonotonic
<1>5. PICK f : /\ f[0] = NoPack /\ Groups(f[n]) = BySentences(para, max)
               /\ \A i \in 1..n : f[i] = Pack(f[i - 1], para[i], max)
  BY <1>1, <1>3, BySentencesSteps
<1> DEFINE T == {i \in 0..n : PackOK(f[i], max, FlattenSeq(SubSeq(para, 1, i)))}
<1>6. 0 \in T
  <2>1. SubSeq(para, 1, 0) = <<>> /\ 0 \in 0..n
    BY <1>3, SubSeqEmpty
  <2> QED
    BY <1>5, <2>1, FlattenFew, NothingPacked
<1>7. ASSUME NEW i \in 0..(n - 1), i \in T PROVE i + 1 \in T
  <2>1. i + 1 \in 1..n /\ i + 1 \in 0..n /\ (i + 1) - 1 = i /\ i \in 0..(Len(para) - 1)
    BY <1>1, <1>3
  <2>2. PICK text, part, pack : text = FlattenSeq(SubSeq(para, 1, i)) /\ part = para[i + 1] /\ pack = f[i]
    OBVIOUS
  <2>3. PackOK(pack, max, text)
    BY <1>7, <2>2
  <2>4. part \in SentenceTexts
    BY <1>1, <1>3, <2>1, <2>2, ElementOfSeq
  <2>5. part \in Seq(PlainWords) /\ part # <<>> /\ OneSentence(part)
    BY <2>4 DEF SentenceTexts
  <2>6. PackOK(Pack(pack, part, max), max, text \o part)
    BY <2>3, <2>5, PackFacts
  <2>7. /\ SubSeq(para, 1, i) \in Seq(Seq(PlainWords)) /\ para[i + 1] \in Seq(PlainWords)
        /\ SubSeq(para, 1, i + 1) = Append(SubSeq(para, 1, i), para[i + 1])
    BY <1>4, <2>1, PrefixGrows
  <2>8. FlattenSeq(SubSeq(para, 1, i + 1)) = text \o part
    BY <2>2, <2>7, FlattenAppend
  <2>9. f[i + 1] = Pack(pack, part, max)
    BY <1>5, <2>1, <2>2
  <2> QED
    BY <2>1, <2>6, <2>8, <2>9
<1>8. n \in T
  <2>1. 0..n \subseteq T
    <3> HIDE DEF T
    <3> QED
      BY <1>3, <1>6, <1>7, Climb
  <2> QED
    BY <1>3, <2>1
<1>9. SubSeq(para, 1, n) = para
  BY <1>1, <1>3, SubSeqFull
<1>10. PackOK(f[n], max, FlattenSeq(para))
  BY <1>8, <1>9
<1> QED
  BY <1>5, <1>10, GroupsFacts

\* A paragraph is packed whole, or split by itself.
LEMMA PackParaFacts ==
  ASSUME NEW max \in Nat, NEW text, NEW pack, PackOK(pack, max, text), NEW para \in Paras
  PROVE  PackOK(PackPara(pack, para, max), max, text \o FlattenSeq(para))
<1>1. PICK part : part = FlattenSeq(para)
  OBVIOUS
<1>2. para \in Seq(SentenceTexts) /\ para # <<>>
  BY DEF Paras
<1>3. para \in Seq(Seq(PlainWords)) /\ part \in Seq(PlainWords)
  <2>1. SentenceTexts \subseteq Seq(PlainWords)
    BY DEF SentenceTexts
  <2>2. para \in Seq(Seq(PlainWords))
    BY <1>2, <2>1, SeqMonotonic
  <2> QED
    BY <1>1, <2>2, FlattenType
<1>4. part # <<>>
  <2>1. PICK a, e : a \in Seq(SentenceTexts) /\ e \in SentenceTexts /\ para = Append(a, e)
    BY <1>2, SequenceEmptyOrAppend
  <2>2. a \in Seq(Seq(PlainWords)) /\ e \in Seq(PlainWords) /\ e # <<>>
    <3>1. SentenceTexts \subseteq Seq(PlainWords)
      BY DEF SentenceTexts
    <3> QED
      BY <2>1, <3>1, SeqMonotonic DEF SentenceTexts
  <2>3. part = FlattenSeq(a) \o e /\ FlattenSeq(a) \in Seq(PlainWords)
    BY <1>1, <2>1, <2>2, FlattenAppend, FlattenType
  <2> QED
    BY <2>2, <2>3, ConcatEqualIffEmpty
<1>5. CASE Tokens(part) > max
  <2>1. PICK a, b : a = Groups(pack) /\ b = BySentences(para, max)
    OBVIOUS
  <2>2. /\ a \in Seq(Pieces(max)) /\ FlattenSeq(a) = text
        /\ b \in Seq(Pieces(max)) /\ FlattenSeq(b) = part
    BY <1>1, <2>1, GroupsFacts, BySentencesFacts
  <2>3. a \o b \in Seq(Pieces(max)) /\ a \in Seq(Seq(PlainWords)) /\ b \in Seq(Seq(PlainWords))
    BY <2>2, ConcatProperties, PiecesFlatten
  <2>4. FlattenSeq(a \o b) = text \o part
    BY <2>2, <2>3, FlattenConcat
  <2>5. FlattenSeq(a \o b) \o <<>> = FlattenSeq(a \o b)
    BY <2>3, PiecesFlatten, ConcatEmptySeq
  <2>6. PICK c : c = a \o b
    OBVIOUS
  <2>7. PackPara(pack, para, max) = [groups |-> c, current |-> <<>>, tokens |-> 0]
    BY <1>1, <1>5, <2>1, <2>6 DEF PackPara, NoPack
  <2>8. PackOK([groups |-> c, current |-> <<>>, tokens |-> 0], max, text \o part)
    BY <2>3, <2>4, <2>5, <2>6, EmptySeq DEF PackOK
  <2> QED
    BY <1>1, <2>7, <2>8
<1>6. CASE ~(Tokens(part) > max)
  <2>1. PackPara(pack, para, max) = Pack(pack, part, max)
    BY <1>1, <1>6 DEF PackPara
  <2>2. Tokens(part) <= max
    <3>1. Len(part) \in Nat
      BY <1>3
    <3>2. Tokens(part) \in Nat
      BY <3>1, TokensEnough
    <3> QED
      BY <1>6, <3>2
  <2> QED
    BY <1>1, <1>3, <1>4, <2>1, <2>2, PackFacts
<1> QED
  BY <1>5, <1>6
\* The recursive function inside ByParagraphs.
ParasUpto(f, paras, max, n) == f = [i \in 0..n |-> IF i = 0 THEN NoPack ELSE PackPara(f[i - 1], paras[i], max)]

\* What ByParagraphs makes by its recursive function.
LEMMA ByParagraphsIs ==
  ASSUME NEW paras, NEW max
  PROVE  ByParagraphs(paras, max) = Groups((CHOOSE f : ParasUpto(f, paras, max, Len(paras)))[Len(paras)])
BY DEF ByParagraphs, ParasUpto

\* That function exists for every list of paragraphs.
LEMMA ParasUptoExists ==
  ASSUME NEW paras, NEW max, NEW n \in Nat
  PROVE  \E f : ParasUpto(f, paras, max, n)
<1> DEFINE T == {m \in Nat : \E f : ParasUpto(f, paras, max, m)}
<1>1. 0 \in T
  <2>1. ParasUpto([i \in 0..0 |-> NoPack], paras, max, 0)
    BY DEF ParasUpto
  <2> QED
    BY <2>1
<1>2. ASSUME NEW m \in 0..(n - 1), m \in T PROVE m + 1 \in T
  <2>1. PICK f : ParasUpto(f, paras, max, m)
    BY <1>2
  <2> DEFINE g == [i \in 0..(m + 1) |-> IF i <= m THEN f[i] ELSE PackPara(f[m], paras[m + 1], max)]
  <2>2. f[0] = NoPack /\ \A i \in 1..m : f[i] = PackPara(f[i - 1], paras[i], max)
    BY <2>1 DEF ParasUpto
  <2>3. ASSUME NEW i \in 0..(m + 1) PROVE g[i] = IF i = 0 THEN NoPack ELSE PackPara(g[i - 1], paras[i], max)
    <3>1. CASE i = 0
      BY <2>2, <3>1
    <3>2. CASE i \in 1..m
      BY <2>2, <3>2
    <3>3. CASE i = m + 1
      BY <3>3
    <3> QED
      BY <3>1, <3>2, <3>3
  <2>4. g = [i \in 0..(m + 1) |-> g[i]]
    OBVIOUS
  <2> HIDE DEF g
  <2>5. ParasUpto(g, paras, max, m + 1)
    BY <2>3, <2>4, Zenon DEF ParasUpto
  <2> QED
    BY <2>5
<1>3. 0..n \subseteq T
  <2> HIDE DEF T
  <2> QED
    BY <1>1, <1>2, Climb
<1> QED
  BY <1>3

\* A section is packed paragraph by paragraph.
LEMMA ByParagraphsSteps ==
  ASSUME NEW paras, NEW max, NEW n \in Nat, Len(paras) = n
  PROVE  \E f : /\ f[0] = NoPack /\ Groups(f[n]) = ByParagraphs(paras, max)
                /\ \A i \in 1..n : f[i] = PackPara(f[i - 1], paras[i], max)
<1> DEFINE f == CHOOSE f : ParasUpto(f, paras, max, n)
<1>1. ParasUpto(f, paras, max, n)
  BY ParasUptoExists
<1>2. Groups(f[n]) = ByParagraphs(paras, max)
  BY ByParagraphsIs
<1> HIDE DEF f
<1>3. f[0] = NoPack /\ \A i \in 1..n : f[i] = PackPara(f[i - 1], paras[i], max)
  BY <1>1 DEF ParasUpto
<1> QED
  BY <1>2, <1>3
\* The groups of a section's paragraphs are its text, within the budget.
LEMMA ByParagraphsFacts ==
  ASSUME NEW max \in Nat, NEW paras \in Seq(Paras)
  PROVE  /\ ByParagraphs(paras, max) \in Seq(Pieces(max))
         /\ FlattenSeq(ByParagraphs(paras, max)) = ParasText(paras)
<1>1. PICK n : n = Len(paras)
  OBVIOUS
<1>2. n \in Nat
  BY <1>1
<1>3. PICK f : /\ f[0] = NoPack /\ Groups(f[n]) = ByParagraphs(paras, max)
               /\ \A i \in 1..n : f[i] = PackPara(f[i - 1], paras[i], max)
  BY <1>1, <1>2, ByParagraphsSteps
<1> DEFINE T == {i \in 0..n : PackOK(f[i], max, ParasText(SubSeq(paras, 1, i)))}
<1>4. 0 \in T
  <2>1. SubSeq(paras, 1, 0) = <<>> /\ 0 \in 0..n
    BY <1>2, SubSeqEmpty
  <2>2. ParasText(<<>>) = <<>>
    BY FlattenFew DEF ParasText
  <2> QED
    BY <1>3, <2>1, <2>2, NothingPacked
<1>5. ASSUME NEW i \in 0..(n - 1), i \in T PROVE i + 1 \in T
  <2>1. i + 1 \in 1..n /\ i + 1 \in 0..n /\ (i + 1) - 1 = i /\ i \in 0..(Len(paras) - 1)
    BY <1>1, <1>2
  <2>2. PICK before, para, pack : before = SubSeq(paras, 1, i) /\ para = paras[i + 1] /\ pack = f[i]
    OBVIOUS
  <2>3. PackOK(pack, max, ParasText(before))
    BY <1>5, <2>2
  <2>4. before \in Seq(Paras) /\ para \in Paras /\ SubSeq(paras, 1, i + 1) = Append(before, para)
    BY <2>1, <2>2, PrefixGrows
  <2>5. PackOK(PackPara(pack, para, max), max, ParasText(before) \o FlattenSeq(para))
    BY <2>3, <2>4, PackParaFacts
  <2>6. ParasText(Append(before, para)) = ParasText(before) \o FlattenSeq(para)
    BY <2>4, ParasTextAppend
  <2>7. f[i + 1] = PackPara(pack, para, max)
    BY <1>3, <2>1, <2>2
  <2> QED
    BY <2>1, <2>4, <2>5, <2>6, <2>7
<1>6. n \in T
  <2>1. 0..n \subseteq T
    <3> HIDE DEF T
    <3> QED
      BY <1>2, <1>4, <1>5, Climb
  <2> QED
    BY <1>2, <2>1
<1>7. SubSeq(paras, 1, n) = paras
  BY <1>1, SubSeqFull
<1>8. PackOK(f[n], max, ParasText(paras))
  BY <1>6, <1>7
<1> QED
  BY <1>3, <1>8, GroupsFacts

\* Some paragraphs have a text that is not empty.
LEMMA ParasTextNotEmpty ==
  ASSUME NEW paras \in Seq(Paras), paras # <<>>
  PROVE  ParasText(paras) # <<>>
<1>1. PICK a, p : a \in Seq(Paras) /\ p \in Paras /\ paras = Append(a, p)
  BY SequenceEmptyOrAppend
<1>2. FlattenSeq(p) \in Seq(PlainWords) /\ ParasText(paras) = ParasText(a) \o FlattenSeq(p)
  BY <1>1, ParasTextAppend
<1>3. ParasText(a) \in Seq(PlainWords)
  BY <1>1, ParasTextType
<1>4. PICK b, e : b \in Seq(SentenceTexts) /\ e \in SentenceTexts /\ p = Append(b, e)
  <2>1. p \in Seq(SentenceTexts) /\ p # <<>>
    BY <1>1 DEF Paras
  <2> QED
    BY <2>1, SequenceEmptyOrAppend
<1>5. SentenceTexts \subseteq Seq(PlainWords) /\ e # <<>>
  BY <1>4 DEF SentenceTexts
<1>6. b \in Seq(Seq(PlainWords)) /\ e \in Seq(PlainWords)
  BY <1>4, <1>5, SeqMonotonic
<1>7. FlattenSeq(p) = FlattenSeq(b) \o e /\ FlattenSeq(b) \in Seq(PlainWords)
  BY <1>4, <1>6, FlattenAppend, FlattenType
<1>8. FlattenSeq(p) # <<>>
  BY <1>5, <1>6, <1>7, ConcatEqualIffEmpty
<1> QED
  BY <1>2, <1>3, <1>8, ConcatEqualIffEmpty

\* The texts of a section are its text, within the budget.
LEMMA SectionTextsFacts ==
  ASSUME NEW max \in Nat, NEW paras \in Seq(Paras), paras # <<>>
  PROVE  /\ SectionTexts(paras, max) \in Seq(Pieces(max))
         /\ FlattenSeq(SectionTexts(paras, max)) = ParasText(paras)
<1>1. PICK whole : whole = ParasText(paras)
  OBVIOUS
<1>2. whole \in Seq(PlainWords) /\ whole # <<>>
  BY <1>1, ParasTextType, ParasTextNotEmpty
<1>3. CASE Tokens(whole) <= max
  <2>1. Len(whole) \in Nat
    BY <1>2
  <2>2. Tokens(whole) \in Nat /\ Len(whole) <= Tokens(whole)
    BY <2>1, TokensEnough
  <2>3. whole \in Pieces(max)
    BY <1>2, <1>3, <2>1, <2>2 DEF Pieces, InBudget
  <2>4. SectionTexts(paras, max) = <<whole>>
    BY <1>1, <1>3 DEF SectionTexts, ParasText
  <2>5. <<whole>> \in Seq(Pieces(max))
    BY <2>3
  <2> QED
    BY <1>1, <2>4, <2>5, FlattenFew
<1>4. CASE ~(Tokens(whole) <= max)
  <2>1. SectionTexts(paras, max) = ByParagraphs(paras, max)
    BY <1>1, <1>4 DEF SectionTexts, ParasText
  <2> QED
    BY <1>1, <2>1, ByParagraphsFacts
<1> QED
  BY <1>3, <1>4

-----------------------------------------------------------------------------
(* Chunks                                                                  *)

\* Chunks, and their texts.
ChunkRecs(max) == [headings : Seq(TitleWords), text : Pieces(max)]
TextsOf(chunks) == [i \in DOMAIN chunks |-> chunks[i].text]

\* The texts of chunks are pieces.
LEMMA TextsOfType ==
  ASSUME NEW max, NEW chunks \in Seq(ChunkRecs(max))
  PROVE  /\ TextsOf(chunks) \in Seq(Pieces(max)) /\ TextsOf(chunks) \in Seq(Seq(PlainWords))
         /\ Len(TextsOf(chunks)) = Len(chunks)
         /\ \A i \in 1..Len(chunks) : TextsOf(chunks)[i] = chunks[i].text
<1>1. PICK t, n : t = TextsOf(chunks) /\ n = Len(chunks)
  OBVIOUS
<1>2. n \in Nat /\ DOMAIN chunks = 1..n /\ \A i \in 1..n : chunks[i] \in ChunkRecs(max)
  BY <1>1
<1>3. \A i \in 1..n : chunks[i].text \in Pieces(max)
  BY <1>2 DEF ChunkRecs
<1>4. t = [i \in 1..n |-> t[i]] /\ \A i \in 1..n : t[i] = chunks[i].text
  BY <1>1, <1>2 DEF TextsOf
<1>5. t \in Seq(Pieces(max)) /\ Len(t) = n
  BY <1>2, <1>3, <1>4, ListOf
<1>6. t \in Seq(Seq(PlainWords))
  BY <1>5, PiecesFlatten
<1> QED
  BY <1>1, <1>4, <1>5, <1>6

\* The texts of lists of chunks in a row.
LEMMA TextsOfConcat ==
  ASSUME NEW max, NEW a \in Seq(ChunkRecs(max)), NEW b \in Seq(ChunkRecs(max))
  PROVE  TextsOf(a \o b) = TextsOf(a) \o TextsOf(b)
<1>1. PICK c, m, n : c = a \o b /\ m = Len(a) /\ n = Len(b)
  OBVIOUS
<1>2. /\ c \in Seq(ChunkRecs(max)) /\ m \in Nat /\ n \in Nat /\ Len(c) = m + n
      /\ \A i \in 1..(m + n) : c[i] = IF i <= m THEN a[i] ELSE b[i - m]
  BY <1>1, ConcatProperties
<1>3. PICK s, t, u : s = TextsOf(a) /\ t = TextsOf(b) /\ u = TextsOf(c)
  OBVIOUS
<1>4. /\ s \in Seq(Pieces(max)) /\ Len(s) = m /\ (\A i \in 1..m : s[i] = a[i].text)
      /\ t \in Seq(Pieces(max)) /\ Len(t) = n /\ (\A i \in 1..n : t[i] = b[i].text)
      /\ u \in Seq(Pieces(max)) /\ Len(u) = m + n /\ (\A i \in 1..(m + n) : u[i] = c[i].text)
  BY <1>1, <1>2, <1>3, TextsOfType, ZenonT(60)
<1>5. PICK v : v = s \o t
  OBVIOUS
<1>6. /\ v \in Seq(Pieces(max)) /\ Len(v) = m + n
      /\ \A i \in 1..(m + n) : v[i] = IF i <= m THEN s[i] ELSE t[i - m]
  BY <1>4, <1>5, ConcatProperties
<1>7. ASSUME NEW i \in 1..Len(u) PROVE u[i] = v[i]
  <2>1. i \in 1..(m + n) /\ u[i] = c[i].text
    BY <1>2, <1>4
  <2>2. CASE i <= m
    <3>1. i \in 1..m
      BY <1>2, <2>1, <2>2
    <3>2. v[i] = s[i] /\ s[i] = a[i].text /\ c[i] = a[i]
      BY <1>2, <1>4, <1>6, <2>1, <2>2, <3>1
    <3> QED
      BY <2>1, <3>2
  <2>3. CASE ~(i <= m)
    <3>1. i - m \in 1..n
      BY <1>2, <2>1, <2>3
    <3> QED
      BY <1>2, <1>4, <1>6, <2>1, <2>3, <3>1
  <2> QED
    BY <2>2, <2>3
<1>8. u = v
  BY <1>4, <1>6, <1>7, SeqEqual
<1> QED
  BY <1>1, <1>3, <1>5, <1>8

\* The text of one chunk more comes last.
LEMMA TextsOfAppend ==
  ASSUME NEW max, NEW a \in Seq(ChunkRecs(max)), NEW c \in ChunkRecs(max)
  PROVE  /\ FlattenSeq(TextsOf(a)) \in Seq(PlainWords)
         /\ FlattenSeq(TextsOf(Append(a, c))) = FlattenSeq(TextsOf(a)) \o c.text
<1>1. <<c>> \in Seq(ChunkRecs(max))
  OBVIOUS
<1>2. Append(a, c) = a \o <<c>>
  BY AppendIsConcat
<1>3. TextsOf(a \o <<c>>) = TextsOf(a) \o TextsOf(<<c>>)
  BY <1>1, TextsOfConcat
<1>4. TextsOf(<<c>>) = <<c.text>>
  BY DEF TextsOf
<1>5. TextsOf(a) \in Seq(Seq(PlainWords)) /\ TextsOf(<<c>>) \in Seq(Seq(PlainWords))
  BY <1>1, TextsOfType
<1>6. FlattenSeq(TextsOf(a) \o TextsOf(<<c>>)) = FlattenSeq(TextsOf(a)) \o FlattenSeq(TextsOf(<<c>>))
  BY <1>5, FlattenConcat
<1> QED
  BY <1>2, <1>3, <1>4, <1>5, <1>6, FlattenFew, FlattenType

\* The chunks of a section hold its text.
LEMMA SectionChunksFacts ==
  ASSUME NEW max \in Nat, NEW section \in SectionRecs, section.paras # <<>>
  PROVE  /\ SectionChunks(section, max) \in Seq(ChunkRecs(max))
         /\ FlattenSeq(TextsOf(SectionChunks(section, max))) = ParasText(section.paras)
<1>1. PICK texts : texts = SectionTexts(section.paras, max)
  OBVIOUS
<1>2. section.paras \in Seq(Paras) /\ section.headings \in Seq(TitleWords)
  BY DEF SectionRecs
<1>3. texts \in Seq(Pieces(max)) /\ FlattenSeq(texts) = ParasText(section.paras)
  BY <1>1, <1>2, SectionTextsFacts
<1>4. PICK n, chunks : n = Len(texts) /\ chunks = SectionChunks(section, max)
  OBVIOUS
<1>5. n \in Nat /\ DOMAIN texts = 1..n /\ \A i \in 1..n : texts[i] \in Pieces(max)
  BY <1>3, <1>4
<1>6. chunks = [i \in 1..n |-> [headings |-> section.headings, text |-> texts[i]]]
  BY <1>1, <1>4, <1>5 DEF SectionChunks
<1>7. chunks = [i \in 1..n |-> chunks[i]] /\ \A i \in 1..n : chunks[i] = [headings |-> section.headings, text |-> texts[i]]
  BY <1>6
<1>8. \A i \in 1..n : chunks[i] \in ChunkRecs(max)
  BY <1>2, <1>5, <1>7 DEF ChunkRecs
<1>9. chunks \in Seq(ChunkRecs(max)) /\ Len(chunks) = n
  BY <1>5, <1>7, <1>8, ListOf
<1>10. TextsOf(chunks) = texts
  <2>1. PICK u : u = TextsOf(chunks)
    OBVIOUS
  <2>2. u \in Seq(Pieces(max)) /\ Len(u) = n /\ \A i \in 1..n : u[i] = chunks[i].text
    BY <1>9, <2>1, TextsOfType
  <2>3. \A i \in 1..n : u[i] = texts[i]
    BY <1>7, <2>2
  <2>4. u = texts
    BY <1>3, <1>4, <2>2, <2>3, SeqEqual
  <2> QED
    BY <2>1, <2>4
<1> QED
  BY <1>3, <1>4, <1>9, <1>10
\* The text of chunks.
ChunksText(chunks) == FlattenSeq(TextsOf(chunks))

\* The texts of chunks in a row are in a row.
LEMMA ChunksTextConcat ==
  ASSUME NEW max, NEW a \in Seq(ChunkRecs(max)), NEW b \in Seq(ChunkRecs(max))
  PROVE  /\ ChunksText(a) \in Seq(PlainWords)
         /\ ChunksText(a \o b) = ChunksText(a) \o ChunksText(b)
<1>1. PICK s, t : s = TextsOf(a) /\ t = TextsOf(b)
  OBVIOUS
<1>2. s \in Seq(Seq(PlainWords)) /\ t \in Seq(Seq(PlainWords))
  BY <1>1, TextsOfType
<1>3. TextsOf(a \o b) = s \o t
  BY <1>1, TextsOfConcat
<1>4. FlattenSeq(s \o t) = FlattenSeq(s) \o FlattenSeq(t) /\ FlattenSeq(s) \in Seq(PlainWords)
  BY <1>2, FlattenConcat, FlattenType
<1> QED
  BY <1>1, <1>3, <1>4 DEF ChunksText

\* What a section adds to the chunks.
SplitPart(section, max) == IF section.paras = <<>> THEN <<>> ELSE SectionChunks(section, max)

\* Whether a section has a text or not, its chunks hold it.
LEMMA SplitPartFacts ==
  ASSUME NEW max \in Nat, NEW section \in SectionRecs
  PROVE  /\ SplitPart(section, max) \in Seq(ChunkRecs(max))
         /\ ChunksText(SplitPart(section, max)) = ParasText(section.paras)
<1>1. CASE section.paras = <<>>
  <2>1. SplitPart(section, max) = <<>>
    BY <1>1 DEF SplitPart
  <2>2. <<>> \in Seq(ChunkRecs(max))
    BY EmptySeq
  <2>3. TextsOf(<<>>) = <<>>
    BY DEF TextsOf
  <2>4. ChunksText(<<>>) = <<>> /\ ParasText(<<>>) = <<>>
    BY <2>3, FlattenFew DEF ChunksText, ParasText
  <2> QED
    BY <1>1, <2>1, <2>2, <2>4
<1>2. CASE section.paras # <<>>
  <2>1. SplitPart(section, max) = SectionChunks(section, max)
    BY <1>2 DEF SplitPart
  <2> QED
    BY <1>2, <2>1, SectionChunksFacts DEF ChunksText
<1> QED
  BY <1>1, <1>2

\* Split sections hold the text of the sections.
LEMMA SplitFacts ==
  ASSUME NEW max \in Nat, NEW sections \in Seq(SectionRecs)
  PROVE  /\ Split(sections, max) \in Seq(ChunkRecs(max))
         /\ ChunksText(Split(sections, max)) = SectionsText(sections)
<1>1. PICK n, parts : n = Len(sections) /\ parts = [i \in 1..n |-> SplitPart(sections[i], max)]
  OBVIOUS
<1>2. n \in Nat /\ DOMAIN sections = 1..n /\ \A i \in 1..n : sections[i] \in SectionRecs
  BY <1>1
<1>3. Split(sections, max) = FlattenSeq(parts)
  BY <1>1, <1>2 DEF Split, SplitPart
<1>4. \A i \in 1..n : parts[i] = SplitPart(sections[i], max) /\ parts[i] \in Seq(ChunkRecs(max))
  BY <1>1, <1>2, SplitPartFacts
<1>5. parts \in Seq(Seq(ChunkRecs(max))) /\ Len(parts) = n
  <2>1. parts = [i \in 1..n |-> parts[i]]
    BY <1>1
  <2> QED
    BY <1>2, <1>4, <2>1, ListOf
<1> DEFINE Good(i) == ChunksText(FlattenSeq(SubSeq(parts, 1, i))) = SectionsText(SubSeq(sections, 1, i))
           T == {i \in 0..n : Good(i)}
<1>6. 0 \in T
  <2>1. SubSeq(parts, 1, 0) = <<>> /\ SubSeq(sections, 1, 0) = <<>> /\ 0 \in 0..n
    BY <1>2, SubSeqEmpty
  <2>2. TextsOf(<<>>) = <<>> /\ TextPerSection(<<>>) = <<>>
    BY DEF TextsOf, TextPerSection
  <2>3. ChunksText(<<>>) = <<>> /\ SectionsText(<<>>) = <<>>
    BY <2>2, FlattenFew DEF ChunksText, SectionsText
  <2> QED
    BY <2>1, <2>3, FlattenFew
<1>7. ASSUME NEW i \in 0..(n - 1), i \in T PROVE i + 1 \in T
  <2>1. i + 1 \in 1..n /\ i + 1 \in 0..n /\ i \in 0..(Len(sections) - 1) /\ i \in 0..(Len(parts) - 1)
    BY <1>1, <1>2, <1>5
  <2>2. PICK p, part, q, section : /\ p = SubSeq(parts, 1, i) /\ part = parts[i + 1]
                                   /\ q = SubSeq(sections, 1, i) /\ section = sections[i + 1]
    OBVIOUS
  <2>3. q \in Seq(SectionRecs) /\ section \in SectionRecs /\ SubSeq(sections, 1, i + 1) = Append(q, section)
    BY <2>1, <2>2, PrefixGrows
  <2>4. p \in Seq(Seq(ChunkRecs(max))) /\ part \in Seq(ChunkRecs(max)) /\ SubSeq(parts, 1, i + 1) = Append(p, part)
    BY <1>5, <2>1, <2>2, PrefixGrows
  <2>5. FlattenSeq(Append(p, part)) = FlattenSeq(p) \o part /\ FlattenSeq(p) \in Seq(ChunkRecs(max))
    BY <2>4, FlattenAppend, FlattenType
  <2>6. ChunksText(FlattenSeq(p) \o part) = ChunksText(FlattenSeq(p)) \o ChunksText(part)
    BY <2>4, <2>5, ChunksTextConcat
  <2>7. ChunksText(FlattenSeq(p)) = SectionsText(q)
    BY <1>7, <2>2
  <2>8. ChunksText(part) = ParasText(section.paras)
    BY <1>4, <2>1, <2>2, <2>3, SplitPartFacts
  <2>9. SectionsText(Append(q, section)) = SectionsText(q) \o ParasText(section.paras)
    BY <2>3, SectionsTextAppend
  <2>10. Good(i + 1)
    BY <2>3, <2>4, <2>5, <2>6, <2>7, <2>8, <2>9
  <2> QED
    BY <2>1, <2>10
<1>8. n \in T
  <2>1. 0..n \subseteq T
    <3> HIDE DEF T
    <3> QED
      BY <1>2, <1>6, <1>7, Climb
  <2> QED
    BY <1>2, <2>1
<1>9. SubSeq(parts, 1, n) = parts /\ SubSeq(sections, 1, n) = sections
  BY <1>1, <1>5, SubSeqFull
<1> QED
  BY <1>3, <1>5, <1>8, <1>9, FlattenType
\* f is the recursive function inside Merge.
MergedUpto(f, chunks, min, max, n) ==
  f = [i \in 0..n |-> IF i = 0 THEN <<>> ELSE MergeNext(f[i - 1], chunks[i], min, max)]

\* What Merge makes by its recursive function.
LEMMA MergeIs ==
  ASSUME NEW chunks, NEW min, NEW max
  PROVE  Merge(chunks, min, max) = (CHOOSE f : MergedUpto(f, chunks, min, max, Len(chunks)))[Len(chunks)]
BY DEF Merge, MergedUpto

\* That function exists for all chunks.
LEMMA MergedUptoExists ==
  ASSUME NEW chunks, NEW min, NEW max, NEW n \in Nat
  PROVE  \E f : MergedUpto(f, chunks, min, max, n)
<1> DEFINE T == {m \in Nat : \E f : MergedUpto(f, chunks, min, max, m)}
<1>1. 0 \in T
  <2>1. MergedUpto([i \in 0..0 |-> <<>>], chunks, min, max, 0)
    BY DEF MergedUpto
  <2> QED
    BY <2>1
<1>2. ASSUME NEW m \in 0..(n - 1), m \in T PROVE m + 1 \in T
  <2>1. PICK f : MergedUpto(f, chunks, min, max, m)
    BY <1>2
  <2> DEFINE g == [i \in 0..(m + 1) |-> IF i <= m THEN f[i] ELSE MergeNext(f[m], chunks[m + 1], min, max)]
  <2>2. f[0] = <<>> /\ \A i \in 1..m : f[i] = MergeNext(f[i - 1], chunks[i], min, max)
    BY <2>1 DEF MergedUpto
  <2>3. ASSUME NEW i \in 0..(m + 1)
        PROVE  g[i] = IF i = 0 THEN <<>> ELSE MergeNext(g[i - 1], chunks[i], min, max)
    <3>1. CASE i = 0
      BY <2>2, <3>1
    <3>2. CASE i \in 1..m
      BY <2>2, <3>2
    <3>3. CASE i = m + 1
      BY <3>3
    <3> QED
      BY <3>1, <3>2, <3>3
  <2>4. g = [i \in 0..(m + 1) |-> g[i]]
    OBVIOUS
  <2> HIDE DEF g
  <2>5. MergedUpto(g, chunks, min, max, m + 1)
    BY <2>3, <2>4, Zenon DEF MergedUpto
  <2> QED
    BY <2>5
<1>3. 0..n \subseteq T
  <2> HIDE DEF T
  <2> QED
    BY <1>1, <1>2, Climb
<1> QED
  BY <1>3

\* The chunks as they are merged one by one.
MergedSteps(f, chunks, min, max, n) ==
  /\ f[0] = <<>> /\ f[n] = Merge(chunks, min, max)
  /\ \A i \in 1..n : f[i] = MergeNext(f[i - 1], chunks[i], min, max)

\* Chunks are merged one by one.
LEMMA MergeSteps ==
  ASSUME NEW chunks, NEW min, NEW max, NEW n \in Nat, Len(chunks) = n
  PROVE  \E f : MergedSteps(f, chunks, min, max, n)
<1> DEFINE f == CHOOSE f : MergedUpto(f, chunks, min, max, n)
<1>1. MergedUpto(f, chunks, min, max, n)
  BY MergedUptoExists
<1>2. f[n] = Merge(chunks, min, max)
  BY MergeIs
<1> HIDE DEF f
<1>3. f[0] = <<>> /\ \A i \in 1..n : f[i] = MergeNext(f[i - 1], chunks[i], min, max)
  BY <1>1 DEF MergedUpto
<1> QED
  BY <1>2, <1>3 DEF MergedSteps

\* The text of a chunk more comes last.
LEMMA ChunksTextAppend ==
  ASSUME NEW max, NEW a \in Seq(ChunkRecs(max)), NEW c \in ChunkRecs(max)
  PROVE  ChunksText(Append(a, c)) = ChunksText(a) \o c.text
BY TextsOfAppend DEF ChunksText

\* A chunk is added to those that are merged, or its text to the last of them.
LEMMA MergeNextFacts ==
  ASSUME NEW min \in Nat, NEW max \in Nat, NEW merged \in Seq(ChunkRecs(max)), NEW chunk \in ChunkRecs(max)
  PROVE  /\ MergeNext(merged, chunk, min, max) \in Seq(ChunkRecs(max))
         /\ ChunksText(MergeNext(merged, chunk, min, max)) = ChunksText(merged) \o chunk.text
<1>1. CASE ~Absorbs(merged, chunk, min, max)
  <2>1. MergeNext(merged, chunk, min, max) = Append(merged, chunk)
    BY <1>1 DEF MergeNext
  <2>2. Append(merged, chunk) \in Seq(ChunkRecs(max))
    BY AppendProperties
  <2> QED
    BY <2>1, <2>2, ChunksTextAppend
<1>2. CASE Absorbs(merged, chunk, min, max)
  <2>1. merged # <<>> /\ Tokens(Last(merged).text) + Tokens(chunk.text) <= max
    BY <1>2 DEF Absorbs
  <2>2. PICK a, e : a \in Seq(ChunkRecs(max)) /\ e \in ChunkRecs(max) /\ merged = Append(a, e)
    BY <2>1, SequenceEmptyOrAppend
  <2>3. PICK n : n = Len(merged)
    OBVIOUS
  <2>4. n = Len(a) + 1 /\ Len(a) \in Nat /\ merged[n] = e /\ Last(merged) = e
    BY <2>2, <2>3, AppendProperties DEF Last
  <2>5. PICK x, y : x = e.text /\ y = chunk.text
    OBVIOUS
  <2>6. x \in Seq(PlainWords) /\ x # <<>> /\ y \in Seq(PlainWords) /\ y # <<>> /\ e.headings \in Seq(TitleWords)
    BY <2>2, <2>5 DEF ChunkRecs, Pieces
  <2>7. PICK z : z = x \o y
    OBVIOUS
  <2>8. z \in Pieces(max)
    <3>1. z \in Seq(PlainWords) /\ Len(z) = Len(x) + Len(y) /\ Len(x) \in Nat /\ Len(y) \in Nat
      BY <2>6, <2>7, ConcatProperties
    <3>2. PICK m, k : m = Len(x) /\ k = Len(y)
      OBVIOUS
    <3>3. Tokens(x) \in Nat /\ m <= Tokens(x) /\ Tokens(y) \in Nat /\ k <= Tokens(y)
      BY <3>1, <3>2, TokensEnough
    <3>4. Tokens(x) + Tokens(y) <= max
      BY <2>1, <2>4, <2>5
    <3>5. Len(z) <= max
      BY <3>1, <3>2, <3>3, <3>4
    <3>6. z # <<>>
      BY <2>6, <2>7, ConcatEqualIffEmpty
    <3> QED
      BY <3>1, <3>5, <3>6 DEF Pieces, InBudget
  <2>9. PICK f : f = [e EXCEPT !.text = z]
    OBVIOUS
  <2>10. f \in ChunkRecs(max) /\ f.text = z
    <3>1. f = [headings |-> e.headings, text |-> z]
      BY <2>2, <2>9 DEF ChunkRecs
    <3> QED
      BY <2>6, <2>8, <3>1 DEF ChunkRecs
  <2>11. PICK more : more = MergeNext(merged, chunk, min, max)
    OBVIOUS
  <2>12. more = [merged EXCEPT ![n] = f]
    <3>1. more = [merged EXCEPT ![n].text = @ \o y]
      BY <1>2, <2>3, <2>5, <2>11 DEF MergeNext
    <3> QED
      BY <2>4, <2>5, <2>7, <2>9, <3>1
  <2>13. more = Append(a, f)
    <3>1. IsMore(merged, a, e)
      BY <2>2 DEF IsMore
    <3>2. IsExcept(Append(a, f), merged, Len(merged), f)
      BY <2>2, <2>10, <3>1, ExceptLast
    <3> QED
      BY <2>3, <2>12, <3>2 DEF IsExcept
  <2>14. ChunksText(Append(a, f)) = ChunksText(a) \o z /\ ChunksText(Append(a, e)) = ChunksText(a) \o x
    BY <2>2, <2>5, <2>10, ChunksTextAppend
  <2>15. (ChunksText(a) \o x) \o y = ChunksText(a) \o (x \o y)
    <3>1. ChunksText(a) \in Seq(PlainWords)
      BY <2>2, ChunksTextConcat
    <3> QED
      BY <2>6, <3>1, Regroup
  <2>16. more \in Seq(ChunkRecs(max))
    BY <2>2, <2>10, <2>13, AppendProperties
  <2> QED
    BY <2>2, <2>5, <2>7, <2>11, <2>13, <2>14, <2>15, <2>16
<1> QED
  BY <1>1, <1>2

\* Merged chunks hold the text of the chunks.
LEMMA MergeFacts ==
  ASSUME NEW min \in Nat, NEW max \in Nat, NEW chunks \in Seq(ChunkRecs(max))
  PROVE  /\ Merge(chunks, min, max) \in Seq(ChunkRecs(max))
         /\ ChunksText(Merge(chunks, min, max)) = ChunksText(chunks)
<1>1. PICK n : n = Len(chunks)
  OBVIOUS
<1>2. n \in Nat
  BY <1>1
<1>3. PICK f : MergedSteps(f, chunks, min, max, n)
  BY <1>1, <1>2, MergeSteps
<1> DEFINE Good(i) == /\ f[i] \in Seq(ChunkRecs(max))
                      /\ ChunksText(f[i]) = ChunksText(SubSeq(chunks, 1, i))
           T == {i \in 0..n : Good(i)}
<1>4. 0 \in T
  <2>1. SubSeq(chunks, 1, 0) = <<>> /\ 0 \in 0..n
    BY <1>2, SubSeqEmpty
  <2>2. <<>> \in Seq(ChunkRecs(max))
    BY EmptySeq
  <2> QED
    BY <1>3, <2>1, <2>2 DEF MergedSteps
<1>5. ASSUME NEW i \in 0..(n - 1), i \in T PROVE i + 1 \in T
  <2>1. i + 1 \in 1..n /\ i + 1 \in 0..n /\ (i + 1) - 1 = i /\ i \in 0..(Len(chunks) - 1)
    BY <1>1, <1>2
  <2>2. PICK before, chunk, merged : before = SubSeq(chunks, 1, i) /\ chunk = chunks[i + 1] /\ merged = f[i]
    OBVIOUS
  <2>3. /\ before \in Seq(ChunkRecs(max)) /\ chunk \in ChunkRecs(max)
        /\ SubSeq(chunks, 1, i + 1) = Append(before, chunk)
    BY <2>1, <2>2, PrefixGrows
  <2>4. merged \in Seq(ChunkRecs(max)) /\ ChunksText(merged) = ChunksText(before)
    BY <1>5, <2>2
  <2>5. /\ MergeNext(merged, chunk, min, max) \in Seq(ChunkRecs(max))
        /\ ChunksText(MergeNext(merged, chunk, min, max)) = ChunksText(merged) \o chunk.text
    BY <2>3, <2>4, MergeNextFacts
  <2>6. f[i + 1] = MergeNext(merged, chunk, min, max)
    BY <1>3, <2>1, <2>2 DEF MergedSteps
  <2>7. ChunksText(Append(before, chunk)) = ChunksText(before) \o chunk.text
    BY <2>3, ChunksTextAppend
  <2>8. Good(i + 1)
    BY <2>3, <2>4, <2>5, <2>6, <2>7
  <2> QED
    BY <2>1, <2>8
<1>6. n \in T
  <2>1. 0..n \subseteq T
    <3> HIDE DEF T
    <3> QED
      BY <1>2, <1>4, <1>5, Climb
  <2> QED
    BY <1>2, <2>1
<1>7. SubSeq(chunks, 1, n) = chunks
  BY <1>1, SubSeqFull
<1> QED
  BY <1>3, <1>6, <1>7 DEF MergedSteps
-----------------------------------------------------------------------------
(* Tiles                                                                   *)

\* u is two lists in a row.
IsJoin(u, s, t) ==
  /\ Len(s) \in Nat /\ Len(t) \in Nat /\ Len(u) = Len(s) + Len(t)
  /\ \A i \in 1..Len(s) : u[i] = s[i]
  /\ \A i \in 1..Len(t) : u[Len(s) + i] = t[i]

\* x stands in src behind its first o words.
Stretch(x, src, o) ==
  /\ Len(x) \in Nat \ {0} /\ o \in Nat /\ o + Len(x) <= Len(src)
  /\ \A w \in 1..Len(x) : x[w] = src[o + w]

\* The texts are stretches of src, each begins behind the one before it, and
\* every word is in one; unless they overlap, each begins where the one before
\* it has ended.
Covers(p, st, texts) == \E i \in 1..Len(texts) : st[i] < p /\ p <= st[i] + Len(texts[i])
Tile(st, texts, src) ==
  /\ Len(texts) \in Nat /\ Len(src) \in Nat
  /\ \A i \in 1..Len(texts) : Stretch(texts[i], src, st[i])
  /\ \A i \in 2..Len(texts) : st[i - 1] < st[i]
  /\ \A p \in 1..Len(src) : Covers(p, st, texts)
Apart(st, texts) ==
  \A i \in 1..Len(texts), j \in 1..Len(texts) : i < j => st[i] + Len(texts[i]) <= st[j]
Tiled(texts, src, apart) == \E st : Tile(st, texts, src) /\ (apart => Apart(st, texts))

\* What begins behind something begins behind its beginning.
LEMMA Between ==
  ASSUME NEW x, NEW l, NEW k, NEW y, x \in Nat, l \in Nat \ {0}, k \in Nat, y \in Nat, x + l <= k
  PROVE  x < k + y
OBVIOUS

\* What begins behind something does so wherever both are.
LEMMA Behind ==
  ASSUME NEW x, NEW l, NEW k, NEW y, x \in Nat, l \in Nat, k \in Nat, y \in Nat, x + l <= y
  PROVE  (k + x) + l <= k + y
OBVIOUS

\* Concatenation is two lists in a row.
LEMMA Joined ==
  ASSUME NEW S, NEW s \in Seq(S), NEW t \in Seq(S)
  PROVE  IsJoin(s \o t, s, t)
<1>1. PICK u : u = s \o t
  OBVIOUS
<1>2. Len(s) \in Nat /\ Len(t) \in Nat /\ Len(u) = Len(s) + Len(t)
  BY <1>1, ConcatProperties
<1>3. ASSUME NEW i \in 1..Len(s) PROVE u[i] = s[i]
  BY <1>1, <1>2, ConcatProperties
<1>4. ASSUME NEW i \in 1..Len(t) PROVE u[Len(s) + i] = t[i]
  <2>1. Len(s) + i \in 1..(Len(s) + Len(t)) /\ ~(Len(s) + i <= Len(s)) /\ (Len(s) + i) - Len(s) = i
    BY <1>2
  <2> QED
    BY <1>1, <1>2, <2>1, ConcatProperties
<1> QED
  BY <1>1, <1>2, <1>3, <1>4 DEF IsJoin

\* A stretch of one of two texts is one of both.
LEMMA StretchJoined ==
  ASSUME NEW c, NEW a, NEW b, IsJoin(c, a, b), NEW x, NEW o
  PROVE  /\ Stretch(x, a, o) => Stretch(x, c, o)
         /\ Stretch(x, b, o) => Stretch(x, c, Len(a) + o)
<1>1. ASSUME Stretch(x, a, o) PROVE Stretch(x, c, o)
  <2>1. /\ Len(x) \in Nat \ {0} /\ o \in Nat /\ o + Len(x) <= Len(a)
        /\ \A w \in 1..Len(x) : x[w] = a[o + w]
    BY <1>1 DEF Stretch
  <2>2. ASSUME NEW w \in 1..Len(x) PROVE x[w] = c[o + w]
    <3>1. o + w \in 1..Len(a)
      BY <2>1 DEF IsJoin
    <3>2. c[o + w] = a[o + w]
      BY <3>1 DEF IsJoin
    <3> QED
      BY <2>1, <3>2
  <2> QED
    BY <2>1, <2>2 DEF Stretch, IsJoin
<1>2. ASSUME Stretch(x, b, o) PROVE Stretch(x, c, Len(a) + o)
  <2>1. /\ Len(x) \in Nat \ {0} /\ o \in Nat /\ o + Len(x) <= Len(b)
        /\ \A w \in 1..Len(x) : x[w] = b[o + w]
    BY <1>2 DEF Stretch
  <2>2. ASSUME NEW w \in 1..Len(x) PROVE x[w] = c[(Len(a) + o) + w]
    <3>1. o + w \in 1..Len(b) /\ Len(a) + (o + w) = (Len(a) + o) + w
      BY <2>1 DEF IsJoin
    <3>2. c[Len(a) + (o + w)] = b[o + w]
      BY <3>1 DEF IsJoin
    <3> QED
      BY <2>1, <3>1, <3>2
  <2> QED
    BY <2>1, <2>2 DEF Stretch, IsJoin
<1> QED
  BY <1>1, <1>2

\* Tiles of two texts are tiles of both in a row.
LEMMA TileJoined ==
  ASSUME NEW u, NEW s, NEW t, IsJoin(u, s, t), NEW c, NEW a, NEW b, IsJoin(c, a, b), NEW apart,
         Tiled(s, a, apart), Tiled(t, b, apart)
  PROVE  Tiled(u, c, apart)
<1>1. PICK f, g : /\ Tile(f, s, a) /\ (apart => Apart(f, s))
                  /\ Tile(g, t, b) /\ (apart => Apart(g, t))
  BY DEF Tiled
<1>2. PICK m, n, k : m = Len(s) /\ n = Len(t) /\ k = Len(a)
  OBVIOUS
<1>3. /\ m \in Nat /\ n \in Nat /\ k \in Nat /\ Len(u) = m + n /\ Len(c) = k + Len(b) /\ Len(b) \in Nat
      /\ \A i \in 1..m : u[i] = s[i]
      /\ \A i \in 1..n : u[m + i] = t[i]
  BY <1>2 DEF IsJoin
<1>4. PICK st : st = [i \in 1..(m + n) |-> IF i <= m THEN f[i] ELSE k + g[i - m]]
  OBVIOUS
<1>5. \A i \in 1..m : st[i] = f[i]
  BY <1>3, <1>4
<1>6. \A i \in 1..n : st[m + i] = k + g[i]
  BY <1>3, <1>4
<1>7. /\ \A i \in 1..m : Stretch(s[i], a, f[i])
      /\ \A i \in 1..n : Stretch(t[i], b, g[i])
  BY <1>1, <1>2 DEF Tile
<1>8. /\ \A i \in 1..m : f[i] \in Nat /\ Len(s[i]) \in Nat \ {0} /\ f[i] + Len(s[i]) <= k
      /\ \A i \in 1..n : g[i] \in Nat /\ Len(t[i]) \in Nat \ {0}
  BY <1>2, <1>7 DEF Stretch
<1>9. ASSUME NEW i \in 1..(m + n)
      PROVE  i \in 1..m \/ (i - m \in 1..n /\ m + (i - m) = i)
  BY <1>3
<1>10. ASSUME NEW i \in 1..(m + n) PROVE Stretch(u[i], c, st[i])
  <2>1. CASE i \in 1..m
    BY <1>3, <1>5, <1>7, <2>1, StretchJoined
  <2>2. CASE i - m \in 1..n /\ m + (i - m) = i
    <3>1. PICK j \in 1..n : m + j = i
      BY <2>2
    <3>2. Stretch(t[j], c, k + g[j])
      BY <1>2, <1>7, StretchJoined
    <3> QED
      BY <1>3, <1>6, <3>1, <3>2
  <2> QED
    BY <1>9, <2>1, <2>2
<1>11. ASSUME NEW i \in 2..(m + n) PROVE st[i - 1] < st[i]
  <2>1. CASE i \in 1..m
    <3>1. i \in 2..m /\ i - 1 \in 1..m
      BY <1>3, <2>1
    <3>2. f[i - 1] < f[i]
      BY <1>1, <1>2, <3>1 DEF Tile
    <3> QED
      BY <1>5, <2>1, <3>1, <3>2
  <2>2. CASE i = m + 1
    <3>1. m \in 1..m /\ 1 \in 1..n /\ i - 1 = m
      BY <1>3, <2>2
    <3>2. st[m] = f[m] /\ st[m + 1] = k + g[1]
      BY <1>5, <1>6, <3>1
    <3>3. f[m] \in Nat /\ Len(s[m]) \in Nat \ {0} /\ f[m] + Len(s[m]) <= k /\ g[1] \in Nat
      BY <1>8, <3>1
    <3>4. f[m] < k + g[1]
      BY <1>3, <3>3, Between
    <3> QED
      BY <2>2, <3>1, <3>2, <3>4
  <2>3. CASE i > m + 1
    <3>1. PICK j \in 2..n : m + j = i
      <4>1. i - m \in 2..n /\ m + (i - m) = i
        BY <1>3, <2>3
      <4> QED
        BY <4>1
    <3>2. j - 1 \in 1..n /\ j \in 1..n /\ m + (j - 1) = i - 1
      BY <1>3, <3>1
    <3>3. g[j - 1] < g[j]
      BY <1>1, <1>2, <3>1 DEF Tile
    <3>4. st[i - 1] = k + g[j - 1] /\ st[i] = k + g[j]
      BY <1>6, <3>1, <3>2
    <3> QED
      BY <1>3, <1>8, <3>2, <3>3, <3>4
  <2> QED
    BY <1>3, <2>1, <2>2, <2>3
<1>12. ASSUME NEW p \in 1..Len(c) PROVE Covers(p, st, u)
  <2>1. CASE p \in 1..k
    <3>1. Covers(p, f, s)
      BY <1>1, <1>2, <2>1 DEF Tile
    <3>2. PICK i \in 1..m : f[i] < p /\ p <= f[i] + Len(s[i])
      BY <1>2, <3>1 DEF Covers
    <3>3. i \in 1..Len(u)
      BY <1>3
    <3> QED
      BY <1>3, <1>5, <3>2, <3>3 DEF Covers
  <2>2. CASE p > k
    <3>1. p - k \in 1..Len(b)
      BY <1>3, <2>2
    <3>2. Covers(p - k, g, t)
      BY <1>1, <3>1 DEF Tile
    <3>3. PICK i \in 1..n : g[i] < p - k /\ p - k <= g[i] + Len(t[i])
      BY <1>2, <3>2 DEF Covers
    <3>4. m + i \in 1..Len(u) /\ u[m + i] = t[i] /\ st[m + i] = k + g[i]
      BY <1>3, <1>6
    <3>5. k + g[i] < p /\ p <= (k + g[i]) + Len(t[i])
      BY <1>3, <1>8, <3>1, <3>3
    <3> QED
      BY <3>4, <3>5 DEF Covers
  <2> QED
    BY <1>3, <2>1, <2>2
<1>13. Tile(st, u, c)
  BY <1>3, <1>10, <1>11, <1>12 DEF Tile
<1>14. ASSUME apart PROVE Apart(st, u)
  <2>1. Apart(f, s) /\ Apart(g, t)
    BY <1>1, <1>14
  <2>2. ASSUME NEW i \in 1..(m + n), NEW j \in 1..(m + n), i < j
        PROVE  st[i] + Len(u[i]) <= st[j]
    <3>1. CASE j \in 1..m
      <4>1. i \in 1..m
        BY <1>3, <2>2, <3>1
      <4>2. f[i] + Len(s[i]) <= f[j]
        BY <1>2, <2>1, <2>2, <3>1, <4>1 DEF Apart
      <4> QED
        BY <1>3, <1>5, <3>1, <4>1, <4>2
    <3>2. CASE i \in 1..m /\ j > m
      <4>1. PICK y \in 1..n : m + y = j
        BY <1>3, <1>9, <3>2
      <4>2. st[i] = f[i] /\ u[i] = s[i] /\ st[j] = k + g[y]
        BY <1>3, <1>5, <1>6, <3>2, <4>1
      <4>3. f[i] + Len(s[i]) <= k /\ f[i] + Len(s[i]) \in Nat
        BY <1>8, <3>2
      <4>4. k <= k + g[y] /\ k + g[y] \in Nat
        BY <1>3, <1>8, <4>1
      <4>5. f[i] + Len(s[i]) <= k + g[y]
        BY <1>3, <4>3, <4>4
      <4> QED
        BY <4>2, <4>5
    <3>3. CASE i > m
      <4>1. PICK x \in 1..n, y \in 1..n : m + x = i /\ m + y = j
        <5>1. i - m \in 1..n /\ j - m \in 1..n /\ m + (i - m) = i /\ m + (j - m) = j
          BY <1>3, <2>2, <3>3
        <5> QED
          BY <5>1
      <4>2. x < y
        BY <1>3, <2>2, <4>1
      <4>3. g[x] + Len(t[x]) <= g[y]
        BY <1>2, <2>1, <4>2 DEF Apart
      <4>4. st[i] = k + g[x] /\ u[i] = t[x] /\ st[j] = k + g[y]
        BY <1>3, <1>6, <4>1
      <4>5. g[x] \in Nat /\ Len(t[x]) \in Nat /\ g[y] \in Nat
        BY <1>8
      <4>6. (k + g[x]) + Len(t[x]) <= k + g[y]
        BY <1>3, <4>3, <4>5, Behind
      <4> QED
        BY <4>4, <4>6
    <3> QED
      BY <1>3, <2>2, <3>1, <3>2, <3>3
  <2> QED
    BY <1>3, <2>2 DEF Apart
<1> QED
  BY <1>13, <1>14 DEF Tiled

\* A text is a tile of itself, and nothing is tiled by no texts.
LEMMA TileOne ==
  ASSUME NEW S, NEW x \in Seq(S), x # <<>>, NEW apart
  PROVE  Tiled(<<x>>, x, apart)
<1>1. Len(x) \in Nat \ {0}
  BY EmptySeq
<1>2. PICK texts, st : texts = <<x>> /\ st = [i \in 1..1 |-> 0]
  OBVIOUS
<1>3. Len(texts) = 1 /\ texts[1] = x /\ st[1] = 0
  BY <1>2
<1>4. \A i \in 1..Len(texts) : i = 1
  BY <1>3
<1>5. Stretch(x, x, 0)
  BY <1>1 DEF Stretch
<1>6. ASSUME NEW p \in 1..Len(x) PROVE Covers(p, st, texts)
  <2>1. 1 \in 1..Len(texts) /\ 0 < p /\ p <= 0 + Len(x)
    BY <1>1, <1>3
  <2> QED
    BY <1>3, <2>1 DEF Covers
<1>7. Tile(st, texts, x)
  BY <1>1, <1>3, <1>4, <1>5, <1>6 DEF Tile
<1>8. Apart(st, texts)
  BY <1>3, <1>4 DEF Apart
<1> QED
  BY <1>2, <1>7, <1>8 DEF Tiled

\* No texts tile nothing.
LEMMA TileNone == ASSUME NEW apart PROVE Tiled(<<>>, <<>>, apart)
<1>1. PICK e : e = <<>>
  OBVIOUS
<1>2. Len(e) = 0
  BY <1>1
<1>3. Tile(e, e, e) /\ Apart(e, e)
  BY <1>2 DEF Tile, Apart
<1> QED
  BY <1>1, <1>3 DEF Tiled
-----------------------------------------------------------------------------
(* Windows                                                                 *)

\* Where window k begins, and where the last one does.
Multiple(k, d) == k * d

\* The windows begin a step apart.
LEMMA Multiples ==
  ASSUME NEW d \in Nat \ {0}
  PROVE  /\ Multiple(0, d) = 0
         /\ \A k \in Nat : Multiple(k, d) \in Nat /\ Multiple(k + 1, d) = Multiple(k, d) + d
         /\ \A k \in Nat, j \in Nat : j <= k => Multiple(j, d) <= Multiple(k, d)
<1>1. ASSUME NEW k \in Nat PROVE k * d \in Nat /\ (k + 1) * d = k * d + d
  OBVIOUS
<1>2. ASSUME NEW k \in Nat, NEW j \in Nat, j <= k PROVE j * d <= k * d
  BY <1>2
<1>3. 0 * d = 0
  OBVIOUS
<1> QED
  BY <1>1, <1>2, <1>3 DEF Multiple

\* As many steps as a length has room for.
LEMMA Quotient ==
  ASSUME NEW m \in Nat, NEW d \in Nat \ {0}
  PROVE  /\ m \div d \in Nat
         /\ Multiple(m \div d, d) <= m /\ m < Multiple(m \div d, d) + d
BY DEF Multiple

\* The last window begins before the end, and reaches it.
LEMMA LastWindow ==
  ASSUME NEW n \in Nat \ {0}, NEW size \in Nat, NEW overlap \in Nat, overlap < size,
         NEW last, last = WindowsOf(n, size, overlap) - 1
  PROVE  /\ last \in Nat /\ WindowsOf(n, size, overlap) = last + 1
         /\ Multiple(last, size - overlap) < n /\ n <= Multiple(last, size - overlap) + size
<1> DEFINE d == size - overlap
<1>0. d \in Nat \ {0}
  OBVIOUS
<1>1. CASE n <= size
  <2>1. WindowsOf(n, size, overlap) = 1 /\ last = 0
    BY <1>1 DEF WindowsOf
  <2>2. Multiple(last, d) = 0
    BY <1>0, <2>1, Multiples
  <2> QED
    BY <1>1, <2>1, <2>2
<1>2. CASE ~(n <= size)
  <2>1. PICK m : m = n - overlap - 1
    OBVIOUS
  <2>2. m \in Nat /\ m < n /\ m + 1 + overlap = n
    BY <1>2, <2>1
  <2>3. PICK q : q = m \div d
    OBVIOUS
  <2>4. q \in Nat /\ Multiple(q, d) <= m /\ m < Multiple(q, d) + d
    BY <1>0, <2>2, <2>3, Quotient
  <2>5. WindowsOf(n, size, overlap) = 1 + q
    BY <1>2, <2>1, <2>3 DEF WindowsOf
  <2>6. last = q
    BY <2>4, <2>5
  <2>7. Multiple(q, d) \in Nat
    BY <1>0, <2>4, Multiples
  <2>8. PICK y : y = Multiple(q, d)
    OBVIOUS
  <2>9. y < n /\ n <= y + size
    <3>1. y \in Nat /\ y <= m /\ m < y + (size - overlap)
      BY <2>4, <2>7, <2>8
    <3> QED
      BY <2>2, <3>1
  <2> QED
    BY <2>4, <2>5, <2>6, <2>8, <2>9
<1> QED
  BY <1>1, <1>2

\* The texts of the windows of a text.
WindowTexts(x, size, overlap) ==
  [k \in 1..WindowsOf(Len(x), size, overlap) |-> Window(x, k, size, overlap)]

\* What is behind the first o words of a text, up to word e.
LEMMA CutOut ==
  ASSUME NEW S, NEW x \in Seq(S), NEW o \in Nat, NEW e \in Nat, o < e, e <= Len(x)
  PROVE  /\ SubSeq(x, o + 1, e) \in Seq(S) /\ Len(SubSeq(x, o + 1, e)) = e - o
         /\ \A w \in 1..(e - o) : SubSeq(x, o + 1, e)[w] = x[o + w]
<1>1. PICK m, n : m = o + 1 /\ n = Len(x)
  OBVIOUS
<1>2. m \in Int /\ e \in Int /\ n \in Nat /\ m <= e /\ e - m + 1 = e - o
  BY <1>1
<1>3. \A i \in m..e : x[i] \in S
  BY <1>1, <1>2
<1>4. PICK y : y = SubSeq(x, m, e)
  OBVIOUS
<1>5. /\ y \in Seq(S) /\ Len(y) = IF m <= e THEN e - m + 1 ELSE 0
      /\ \A i \in 1..(e - m + 1) : y[i] = x[m + i - 1]
  BY <1>2, <1>3, <1>4, SubSeqProperties
<1>6. ASSUME NEW w \in 1..(e - o) PROVE y[w] = x[o + w]
  <2>1. m + w - 1 = o + w /\ w \in 1..(e - m + 1)
    BY <1>1, <1>2
  <2> QED
    BY <1>5, <2>1
<1> QED
  BY <1>1, <1>2, <1>4, <1>5, <1>6

WindowAt(y, o, x, j, size, overlap) == o = Multiple(j, size - overlap) /\ y = Window(x, j + 1, size, overlap)

\* A window is a stretch of the text that is as long as windows are, or ends
\* with the text.
LEMMA WindowIs ==
  ASSUME NEW S, NEW x \in Seq(S), NEW size \in Nat, NEW overlap \in Nat, overlap < size,
         NEW j \in Nat, NEW o, o < Len(x), NEW y, WindowAt(y, o, x, j, size, overlap)
  PROVE  /\ y \in Seq(S) /\ Stretch(y, x, o)
         /\ Len(y) <= size /\ o + Len(y) = IF o + size < Len(x) THEN o + size ELSE Len(x)
<1>0. size - overlap \in Nat \ {0}
  OBVIOUS
<1>1. o \in Nat
  BY <1>0, Multiples DEF WindowAt
<1>2. PICK n, e : n = Len(x) /\ e = IF o + size < n THEN o + size ELSE n
  OBVIOUS
<1>3. n \in Nat /\ e \in Nat /\ o < e /\ e <= n /\ e <= o + size
  BY <1>1, <1>2
<1>4. y = SubSeq(x, o + 1, e)
  <2>1. ((j + 1) - 1) * (size - overlap) = o
    BY DEF Multiple, WindowAt
  <2> QED
    BY <1>2, <2>1 DEF Window, WindowAt
<1>5. y \in Seq(S) /\ Len(y) = e - o /\ \A w \in 1..(e - o) : y[w] = x[o + w]
  <2>1. e <= Len(x)
    BY <1>2, <1>3
  <2>2. /\ SubSeq(x, o + 1, e) \in Seq(S) /\ Len(SubSeq(x, o + 1, e)) = e - o
        /\ \A w \in 1..(e - o) : SubSeq(x, o + 1, e)[w] = x[o + w]
    BY <1>1, <1>3, <2>1, CutOut
  <2> QED
    BY <1>4, <2>2
<1>6. Stretch(y, x, o)
  BY <1>1, <1>2, <1>3, <1>5 DEF Stretch
<1>7. Len(y) <= size /\ o + Len(y) = e
  BY <1>1, <1>3, <1>5
<1> QED
  BY <1>2, <1>5, <1>6, <1>7

\* The windows of a text tile it, and do not overlap unless they are to.
LEMMA WindowsTile ==
  ASSUME NEW S, NEW x \in Seq(S), x # <<>>, NEW size \in Nat, NEW overlap \in Nat, overlap < size
  PROVE  /\ WindowTexts(x, size, overlap) \in Seq(Seq(S))
         /\ \A k \in 1..Len(WindowTexts(x, size, overlap)) :
              Len(WindowTexts(x, size, overlap)[k]) <= size /\ \E o : Stretch(WindowTexts(x, size, overlap)[k], x, o)
         /\ Tiled(WindowTexts(x, size, overlap), x, overlap = 0)
<1>1. PICK n, d, last, texts : /\ n = Len(x) /\ d = size - overlap /\ last = WindowsOf(n, size, overlap) - 1
                               /\ texts = WindowTexts(x, size, overlap)
  OBVIOUS
<1>2. n \in Nat \ {0} /\ d \in Nat \ {0}
  BY <1>1, EmptySeq
<1>3. /\ last \in Nat /\ WindowsOf(n, size, overlap) = last + 1
      /\ Multiple(last, d) < n /\ n <= Multiple(last, d) + size
  BY <1>1, <1>2, LastWindow
<1>4. PICK m : m = last + 1
  OBVIOUS
<1>5. m \in Nat \ {0} /\ m - 1 = last
  BY <1>3, <1>4
<1>6. texts = [k \in 1..m |-> Window(x, k, size, overlap)]
  BY <1>1, <1>3, <1>4 DEF WindowTexts
<1>7. PICK st : st = [k \in 1..m |-> Multiple(k - 1, d)]
  OBVIOUS
<1>8. ASSUME NEW k \in 1..m
      PROVE  /\ k - 1 \in Nat /\ st[k] = Multiple(k - 1, d) /\ st[k] \in Nat /\ st[k] < n
             /\ texts[k] \in Seq(S) /\ Stretch(texts[k], x, st[k]) /\ Len(texts[k]) <= size
             /\ st[k] + Len(texts[k]) = IF st[k] + size < n THEN st[k] + size ELSE n
  <2>1. k - 1 \in Nat /\ k - 1 <= last /\ (k - 1) + 1 = k
    BY <1>5
  <2>2. PICK o, y : o = Multiple(k - 1, d) /\ y = Window(x, (k - 1) + 1, size, overlap)
    OBVIOUS
  <2>3. o \in Nat /\ o <= Multiple(last, d) /\ Multiple(last, d) \in Nat
    BY <1>2, <1>3, <2>1, <2>2, Multiples
  <2>4. o < n
    BY <1>2, <1>3, <2>3
  <2>5. o < Len(x) /\ WindowAt(y, o, x, k - 1, size, overlap)
    BY <1>1, <2>2, <2>4 DEF WindowAt
  <2>6. /\ y \in Seq(S) /\ Stretch(y, x, o)
        /\ Len(y) <= size /\ o + Len(y) = IF o + size < Len(x) THEN o + size ELSE Len(x)
    BY <2>1, <2>5, WindowIs
  <2>7. st[k] = o /\ texts[k] = y
    BY <1>6, <1>7, <2>1, <2>2
  <2> QED
    BY <1>1, <2>1, <2>2, <2>3, <2>4, <2>6, <2>7
<1>9. texts \in Seq(Seq(S)) /\ Len(texts) = m
  <2>1. texts = [k \in 1..m |-> texts[k]]
    BY <1>6
  <2>2. \A k \in 1..m : texts[k] \in Seq(S)
    BY <1>8
  <2>3. m \in Nat
    BY <1>5
  <2> QED
    BY <2>1, <2>2, <2>3, ListOf
<1>10. ASSUME NEW k \in 2..m PROVE st[k - 1] < st[k]
  <2>1. k - 1 \in 1..m /\ k \in 1..m /\ (k - 1) - 1 \in Nat /\ ((k - 1) - 1) + 1 = k - 1
    BY <1>5
  <2>2. Multiple(((k - 1) - 1) + 1, d) = Multiple((k - 1) - 1, d) + d /\ Multiple((k - 1) - 1, d) \in Nat
    BY <1>2, <2>1, Multiples
  <2>3. st[k] = st[k - 1] + d /\ st[k - 1] \in Nat
    BY <1>8, <2>1, <2>2
  <2> QED
    BY <1>2, <2>3
<1>11. ASSUME NEW p \in 1..n PROVE Covers(p, st, texts)
  <2>1. PICK j : j = (p - 1) \div d
    OBVIOUS
  <2>2. p - 1 \in Nat
    BY <1>2
  <2>3. j \in Nat /\ Multiple(j, d) <= p - 1 /\ p - 1 < Multiple(j, d) + d /\ Multiple(j, d) \in Nat
    BY <1>2, <2>1, <2>2, Quotient, Multiples
  <2>4. CASE j <= last
    <3>1. j + 1 \in 1..m /\ (j + 1) - 1 = j
      BY <1>3, <1>4, <2>3, <2>4
    <3>2. st[j + 1] = Multiple(j, d)
      BY <1>8, <3>1
    <3>3. /\ st[j + 1] \in Nat
          /\ st[j + 1] + Len(texts[j + 1]) = IF st[j + 1] + size < n THEN st[j + 1] + size ELSE n
      BY <1>8, <3>1
    <3>4. PICK o, e : o = st[j + 1] /\ e = Len(texts[j + 1])
      OBVIOUS
    <3>5. o < p /\ p <= o + e
      <4>1. o \in Nat /\ o <= p - 1 /\ p - 1 < o + d /\ o + e = IF o + size < n THEN o + size ELSE n
        BY <2>3, <3>2, <3>3, <3>4
      <4>2. d <= size /\ d \in Nat /\ p \in 1..n /\ n \in Nat
        BY <1>1, <1>2
      <4> QED
        BY <4>1, <4>2
    <3> QED
      BY <1>9, <3>1, <3>4, <3>5 DEF Covers
  <2>5. CASE ~(j <= last)
    <3>1. m \in 1..m
      BY <1>5
    <3>2. st[m] = Multiple(last, d)
      BY <1>5, <1>8, <3>1
    <3>3. Multiple(last, d) <= Multiple(j, d) /\ Multiple(last, d) \in Nat
      BY <1>2, <1>3, <2>3, <2>5, Multiples
    <3>4. st[m] + Len(texts[m]) = n
      <4>1. st[m] + Len(texts[m]) = IF st[m] + size < n THEN st[m] + size ELSE n
        BY <1>8, <3>1
      <4>2. ~(st[m] + size < n)
        BY <1>2, <1>3, <3>2, <3>3
      <4> QED
        BY <4>1, <4>2
    <3>5. st[m] < p
      BY <2>3, <3>2, <3>3
    <3> QED
      BY <1>2, <1>9, <3>1, <3>4, <3>5 DEF Covers
  <2> QED
    BY <1>3, <2>3, <2>4, <2>5
<1>12. Tile(st, texts, x)
  BY <1>1, <1>2, <1>5, <1>8, <1>9, <1>10, <1>11 DEF Tile
<1>13. ASSUME overlap = 0 PROVE Apart(st, texts)
  <2>1. d = size
    BY <1>1, <1>13
  <2>2. ASSUME NEW i \in 1..m, NEW j \in 1..m, i < j PROVE st[i] + Len(texts[i]) <= st[j]
    <3>1. i - 1 \in Nat /\ (i - 1) + 1 = i /\ i \in Nat /\ j - 1 \in Nat /\ i <= j - 1
      BY <1>5, <2>2
    <3>2. Multiple((i - 1) + 1, d) = Multiple(i - 1, d) + d
      BY <1>2, <3>1, Multiples
    <3>3. Multiple(i, d) <= Multiple(j - 1, d)
      BY <1>2, <3>1, Multiples
    <3>4. PICK a, e, b : a = Multiple(i - 1, d) /\ e = Len(texts[i]) /\ b = Multiple(j - 1, d)
      OBVIOUS
    <3>5. st[i] = a /\ st[j] = b /\ a \in Nat /\ b \in Nat /\ e <= size
      BY <1>8, <3>4
    <3>6. a + size <= b
      BY <2>1, <3>1, <3>2, <3>3, <3>4
    <3>7. e \in Nat
      BY <1>8, <3>4 DEF Stretch
    <3> QED
      BY <3>4, <3>5, <3>6, <3>7
  <2> QED
    BY <1>9, <2>2 DEF Apart
<1>14. Tiled(texts, x, overlap = 0)
  BY <1>12, <1>13 DEF Tiled
<1> QED
  BY <1>1, <1>8, <1>9, <1>14
\* Chunks that are no longer than a window.
ShortRecs(max, size) == {c \in ChunkRecs(max) : Len(c.text) <= size}

\* Tiles of chunks in a row.
LEMMA TiledChunks ==
  ASSUME NEW max, NEW a \in Seq(ChunkRecs(max)), NEW b \in Seq(ChunkRecs(max)),
         NEW s \in Seq(PlainWords), NEW t \in Seq(PlainWords), NEW apart,
         Tiled(TextsOf(a), s, apart), Tiled(TextsOf(b), t, apart)
  PROVE  Tiled(TextsOf(a \o b), s \o t, apart)
<1>1. PICK x, y, c : x = TextsOf(a) /\ y = TextsOf(b) /\ c = a \o b
  OBVIOUS
<1>2. x \in Seq(Pieces(max)) /\ y \in Seq(Pieces(max))
  BY <1>1, TextsOfType
<1>3. TextsOf(c) = x \o y
  BY <1>1, TextsOfConcat
<1>4. IsJoin(x \o y, x, y)
  BY <1>2, Joined
<1>5. IsJoin(s \o t, s, t)
  BY Joined
<1>6. Tiled(x \o y, s \o t, apart)
  BY <1>1, <1>4, <1>5, TileJoined
<1> QED
  BY <1>1, <1>3, <1>6

\* Chunks tile their text.
LEMMA TilesExact ==
  ASSUME NEW max, NEW chunks \in Seq(ChunkRecs(max)), NEW apart
  PROVE  Tiled(TextsOf(chunks), ChunksText(chunks), apart)
<1> DEFINE X == {q \in Seq(ChunkRecs(max)) : Tiled(TextsOf(q), ChunksText(q), apart)}
<1>1. <<>> \in X
  <2>1. TextsOf(<<>>) = <<>>
    BY DEF TextsOf
  <2>2. ChunksText(<<>>) = <<>>
    BY <2>1, FlattenFew DEF ChunksText
  <2>3. Tiled(<<>>, <<>>, apart)
    BY TileNone
  <2>4. <<>> \in Seq(ChunkRecs(max))
    BY EmptySeq
  <2> QED
    BY <2>1, <2>2, <2>3, <2>4
<1>2. ASSUME NEW q \in Seq(ChunkRecs(max)), NEW c \in ChunkRecs(max), q \in X PROVE Append(q, c) \in X
  <2>1. PICK one : one = <<c>>
    OBVIOUS
  <2>2. one \in Seq(ChunkRecs(max)) /\ Append(q, c) = q \o one
    BY <2>1, AppendIsConcat
  <2>3. TextsOf(one) = <<c.text>>
    BY <2>1 DEF TextsOf
  <2>4. ChunksText(one) = c.text
    BY <2>3, FlattenFew DEF ChunksText
  <2>5. c.text \in Seq(PlainWords) /\ c.text # <<>>
    BY DEF ChunkRecs, Pieces
  <2>6. Tiled(TextsOf(one), ChunksText(one), apart)
    BY <2>3, <2>4, <2>5, TileOne
  <2>7. /\ ChunksText(q) \in Seq(PlainWords) /\ ChunksText(one) \in Seq(PlainWords)
        /\ ChunksText(q \o one) = ChunksText(q) \o ChunksText(one)
    BY <2>2, ChunksTextConcat
  <2>8. Tiled(TextsOf(q), ChunksText(q), apart)
    BY <1>2
  <2>9. Tiled(TextsOf(q \o one), ChunksText(q) \o ChunksText(one), apart)
    BY <2>2, <2>6, <2>7, <2>8, TiledChunks
  <2>10. Append(q, c) \in Seq(ChunkRecs(max))
    BY AppendProperties
  <2> QED
    BY <2>2, <2>7, <2>9, <2>10
<1>3. Seq(ChunkRecs(max)) \subseteq X
  <2> HIDE DEF X
  <2> QED
    BY <1>1, <1>2, ListInduction
<1> QED
  BY <1>3

\* A stretch of a text within the budget is within it.
LEMMA StretchInBudget ==
  ASSUME NEW S, NEW x \in Seq(S), NEW y \in Seq(S), NEW o, Stretch(y, x, o), NEW max \in Nat, InBudget(x, max)
  PROVE  InBudget(y, max)
<1>1. /\ Len(y) \in Nat \ {0} /\ o \in Nat /\ o + Len(y) <= Len(x) /\ Len(x) \in Nat
      /\ \A w \in 1..Len(y) : y[w] = x[o + w]
  BY DEF Stretch
<1>2. CASE Len(x) <= max
  BY <1>1, <1>2 DEF InBudget
<1>3. CASE OneSentence(x)
  <2>1. ASSUME NEW w \in 1..Len(y) PROVE SubSeq(y[w], 1, 2) = SubSeq(x[1], 1, 2)
    <3>1. o + w \in DOMAIN x
      BY <1>1
    <3> QED
      BY <1>1, <1>3, <3>1 DEF OneSentence
  <2>2. 1 \in 1..Len(y) /\ DOMAIN y = 1..Len(y)
    BY <1>1
  <2>3. OneSentence(y)
    BY <2>1, <2>2 DEF OneSentence
  <2> QED
    BY <2>3 DEF InBudget
<1> QED
  BY <1>2, <1>3 DEF InBudget

\* The windows of a chunk tile its text.
LEMMA WindowsFacts ==
  ASSUME NEW max \in Nat, NEW chunk \in ChunkRecs(max), NEW size \in Nat, NEW overlap \in Nat, overlap < size
  PROVE  /\ Windows(chunk, size, overlap) \in Seq(ShortRecs(max, size))
         /\ Tiled(TextsOf(Windows(chunk, size, overlap)), chunk.text, overlap = 0)
<1>1. PICK x, texts, windows : /\ x = chunk.text /\ texts = WindowTexts(x, size, overlap)
                               /\ windows = Windows(chunk, size, overlap)
  OBVIOUS
<1>2. x \in Seq(PlainWords) /\ x # <<>> /\ InBudget(x, max) /\ chunk.headings \in Seq(TitleWords)
  BY <1>1 DEF ChunkRecs, Pieces
<1>3. /\ texts \in Seq(Seq(PlainWords))
      /\ \A k \in 1..Len(texts) : Len(texts[k]) <= size /\ \E o : Stretch(texts[k], x, o)
      /\ Tiled(texts, x, overlap = 0)
  BY <1>1, <1>2, WindowsTile
<1>4. PICK m : m = Len(texts)
  OBVIOUS
<1>5. m \in Nat /\ DOMAIN texts = 1..m
  BY <1>3, <1>4
<1>6. texts = [k \in 1..WindowsOf(Len(x), size, overlap) |-> Window(x, k, size, overlap)]
  BY <1>1 DEF WindowTexts
<1>7. 1..WindowsOf(Len(x), size, overlap) = 1..m
  BY <1>5, <1>6
<1>8. windows = [k \in 1..m |-> [chunk EXCEPT !.text = Window(@, k, size, overlap)]]
  BY <1>1, <1>7 DEF Windows
<1>9. ASSUME NEW k \in 1..m
      PROVE  windows[k] = [headings |-> chunk.headings, text |-> texts[k]]
  <2>1. texts[k] = Window(x, k, size, overlap)
    BY <1>6, <1>7
  <2>2. windows[k] = [chunk EXCEPT !.text = Window(x, k, size, overlap)]
    BY <1>1, <1>8
  <2> QED
    BY <2>1, <2>2 DEF ChunkRecs
<1>10. ASSUME NEW k \in 1..m
       PROVE  windows[k] \in ShortRecs(max, size) /\ windows[k].text = texts[k]
  <2>1. PICK y : y = texts[k]
    OBVIOUS
  <2>2. PICK o : Len(y) <= size /\ Stretch(y, x, o)
    BY <1>3, <1>4, <2>1
  <2>3. y \in Seq(PlainWords)
    BY <1>3, <1>4, <2>1
  <2>4. InBudget(y, max)
    BY <1>2, <2>2, <2>3, StretchInBudget
  <2>5. y # <<>>
    BY <2>2, <2>3, EmptySeq DEF Stretch
  <2>6. y \in Pieces(max)
    BY <2>3, <2>4, <2>5 DEF Pieces
  <2>7. windows[k] = [headings |-> chunk.headings, text |-> y]
    BY <1>9, <2>1
  <2>8. windows[k] \in ChunkRecs(max) /\ windows[k].text = y
    BY <1>2, <2>6, <2>7 DEF ChunkRecs
  <2> QED
    BY <2>1, <2>2, <2>8 DEF ShortRecs
<1>11. windows \in Seq(ShortRecs(max, size)) /\ Len(windows) = m
  <2>1. windows = [k \in 1..m |-> windows[k]]
    BY <1>8
  <2>2. \A k \in 1..m : windows[k] \in ShortRecs(max, size)
    BY <1>10
  <2> QED
    BY <1>5, <2>1, <2>2, ListOf
<1>12. TextsOf(windows) = texts
  <2>1. windows \in Seq(ChunkRecs(max))
    BY <1>11, SeqMonotonic DEF ShortRecs
  <2>2. PICK u : u = TextsOf(windows)
    OBVIOUS
  <2>3. u \in Seq(Seq(PlainWords)) /\ Len(u) = m /\ \A i \in 1..m : u[i] = windows[i].text
    BY <1>11, <2>1, <2>2, TextsOfType
  <2>4. \A i \in 1..m : u[i] = texts[i]
    BY <1>10, <2>3
  <2>5. u = texts
    BY <1>3, <1>4, <2>3, <2>4, SeqEqual
  <2> QED
    BY <2>2, <2>5
<1> QED
  BY <1>1, <1>3, <1>11, <1>12

\* However chunks are cut into windows, they tile the text.
LEMMA ResplitFacts ==
  ASSUME NEW max \in Nat, NEW chunks \in Seq(ChunkRecs(max)), NEW size \in Nat, NEW overlap \in Nat
  PROVE  /\ Resplit(chunks, size, overlap) \in Seq(ChunkRecs(max))
         /\ overlap < size => Resplit(chunks, size, overlap) \in Seq(ShortRecs(max, size))
         /\ Tiled(TextsOf(Resplit(chunks, size, overlap)), ChunksText(chunks), overlap = 0)
<1>1. CASE ~(overlap < size)
  <2>1. Resplit(chunks, size, overlap) = chunks
    BY <1>1 DEF Resplit
  <2> QED
    BY <1>1, <2>1, TilesExact
<1>2. CASE overlap < size
  <2>1. PICK n, parts, apart : /\ n = Len(chunks) /\ parts = [i \in 1..n |-> Windows(chunks[i], size, overlap)]
                               /\ apart = (overlap = 0)
    OBVIOUS
  <2>2. n \in Nat /\ DOMAIN chunks = 1..n /\ \A i \in 1..n : chunks[i] \in ChunkRecs(max)
    BY <2>1
  <2>3. Resplit(chunks, size, overlap) = FlattenSeq(parts)
    BY <1>2, <2>1, <2>2 DEF Resplit
  <2>4. ASSUME NEW i \in 1..n
        PROVE  parts[i] \in Seq(ShortRecs(max, size)) /\ Tiled(TextsOf(parts[i]), chunks[i].text, apart)
    <3>1. parts[i] = Windows(chunks[i], size, overlap) /\ chunks[i] \in ChunkRecs(max)
      BY <2>1, <2>2
    <3> QED
      BY <1>2, <2>1, <3>1, WindowsFacts
  <2>5. parts \in Seq(Seq(ShortRecs(max, size))) /\ Len(parts) = n
    <3>1. parts = [i \in 1..n |-> parts[i]]
      BY <2>1
    <3>2. \A i \in 1..n : parts[i] \in Seq(ShortRecs(max, size))
      BY <2>4
    <3> QED
      BY <2>2, <3>1, <3>2, ListOf
  <2>6. Seq(ShortRecs(max, size)) \subseteq Seq(ChunkRecs(max))
    BY SeqMonotonic DEF ShortRecs
  <2> DEFINE Good(i) == Tiled(TextsOf(FlattenSeq(SubSeq(parts, 1, i))), ChunksText(SubSeq(chunks, 1, i)), apart)
             T == {i \in 0..n : Good(i)}
  <2>7. 0 \in T
    <3>1. SubSeq(parts, 1, 0) = <<>> /\ SubSeq(chunks, 1, 0) = <<>> /\ 0 \in 0..n
      BY <2>2, SubSeqEmpty
    <3>2. TextsOf(<<>>) = <<>>
      BY DEF TextsOf
    <3>3. ChunksText(<<>>) = <<>>
      BY <3>2, FlattenFew DEF ChunksText
    <3> QED
      BY <3>1, <3>2, <3>3, FlattenFew, TileNone
  <2>8. ASSUME NEW i \in 0..(n - 1), i \in T PROVE i + 1 \in T
    <3>1. i + 1 \in 1..n /\ i + 1 \in 0..n /\ i \in 0..(Len(chunks) - 1) /\ i \in 0..(Len(parts) - 1)
      BY <2>1, <2>2, <2>5
    <3>2. PICK p, part, q, chunk : /\ p = SubSeq(parts, 1, i) /\ part = parts[i + 1]
                                   /\ q = SubSeq(chunks, 1, i) /\ chunk = chunks[i + 1]
      OBVIOUS
    <3>3. /\ q \in Seq(ChunkRecs(max)) /\ chunk \in ChunkRecs(max)
          /\ SubSeq(chunks, 1, i + 1) = Append(q, chunk)
      BY <3>1, <3>2, PrefixGrows
    <3>4. /\ p \in Seq(Seq(ShortRecs(max, size))) /\ part \in Seq(ShortRecs(max, size))
          /\ SubSeq(parts, 1, i + 1) = Append(p, part)
      BY <2>5, <3>1, <3>2, PrefixGrows
    <3>5. PICK flat : flat = FlattenSeq(p)
      OBVIOUS
    <3>6. FlattenSeq(Append(p, part)) = flat \o part /\ flat \in Seq(ShortRecs(max, size))
      BY <3>4, <3>5, FlattenAppend, FlattenType
    <3>7. flat \in Seq(ChunkRecs(max)) /\ part \in Seq(ChunkRecs(max))
      BY <2>6, <3>4, <3>6
    <3>8. ChunksText(Append(q, chunk)) = ChunksText(q) \o chunk.text /\ ChunksText(q) \in Seq(PlainWords)
      BY <3>3, ChunksTextAppend, ChunksTextConcat
    <3>9. chunk.text \in Seq(PlainWords)
      BY <3>3 DEF ChunkRecs, Pieces
    <3>10. Tiled(TextsOf(flat), ChunksText(q), apart)
      BY <2>8, <3>2, <3>5
    <3>11. Tiled(TextsOf(part), chunk.text, apart)
      BY <2>4, <3>1, <3>2
    <3>12. Tiled(TextsOf(flat \o part), ChunksText(q) \o chunk.text, apart)
      BY <3>7, <3>8, <3>9, <3>10, <3>11, TiledChunks
    <3>13. Good(i + 1)
      BY <3>3, <3>4, <3>6, <3>8, <3>12
    <3> QED
      BY <3>1, <3>13
  <2>9. n \in T
    <3>1. 0..n \subseteq T
      <4> HIDE DEF T
      <4> QED
        BY <2>2, <2>7, <2>8, Climb
    <3> QED
      BY <2>2, <3>1
  <2>10. SubSeq(parts, 1, n) = parts /\ SubSeq(chunks, 1, n) = chunks
    BY <2>1, <2>5, SubSeqFull
  <2>11. Tiled(TextsOf(FlattenSeq(parts)), ChunksText(chunks), apart)
    BY <2>9, <2>10
  <2>12. FlattenSeq(parts) \in Seq(ShortRecs(max, size))
    BY <2>5, FlattenType
  <2> QED
    BY <2>1, <2>3, <2>6, <2>11, <2>12
<1> QED
  BY <1>1, <1>2
-----------------------------------------------------------------------------
(* Words                                                                   *)

\* No word twice in a text, or in both of two.
Distinct(x)    == \A p \in 1..Len(x), q \in 1..Len(x) : p # q => x[p] # x[q]
Disjoint(a, b) == \A p \in 1..Len(a), q \in 1..Len(b) : a[p] # b[q]
IsIn(e, x)     == \E p \in 1..Len(x) : x[p] = e

\* Words that differ from each other and from those of another text.
LEMMA DistinctJoined ==
  ASSUME NEW c, NEW a, NEW b, IsJoin(c, a, b), Distinct(a), Distinct(b), Disjoint(a, b)
  PROVE  Distinct(c)
<1>1. PICK m, n : m = Len(a) /\ n = Len(b)
  OBVIOUS
<1>2. /\ m \in Nat /\ n \in Nat /\ Len(c) = m + n
      /\ \A i \in 1..m : c[i] = a[i]
      /\ \A i \in 1..n : c[m + i] = b[i]
  BY <1>1 DEF IsJoin
<1>3. ASSUME NEW i \in 1..(m + n)
      PROVE  i \in 1..m \/ \E j \in 1..n : i = m + j
  <2>1. i \in 1..m \/ (i - m \in 1..n /\ i = m + (i - m))
    BY <1>2
  <2> QED
    BY <2>1
<1>4. ASSUME NEW p \in 1..(m + n), NEW q \in 1..(m + n), p # q PROVE c[p] # c[q]
  <2>1. CASE p \in 1..m /\ q \in 1..m
    BY <1>1, <1>2, <1>4, <2>1 DEF Distinct
  <2>2. ASSUME NEW i \in 1..m, NEW j \in 1..n PROVE c[i] # c[m + j]
    BY <1>1, <1>2 DEF Disjoint
  <2>3. ASSUME NEW i \in 1..n, NEW j \in 1..n, p = m + i, q = m + j PROVE c[p] # c[q]
    <3>1. i # j
      BY <1>4, <2>3
    <3>2. b[i] # b[j]
      BY <1>1, <3>1 DEF Distinct
    <3> QED
      BY <1>2, <2>3, <3>2
  <2> QED
    BY <1>3, <2>1, <2>2, <2>3
<1> QED
  BY <1>2, <1>4 DEF Distinct

\* Every word of lists in a row is of one of them.
LEMMA FlattenFrom ==
  ASSUME NEW S, NEW seqs \in Seq(Seq(S)), NEW e, IsIn(e, FlattenSeq(seqs))
  PROVE  \E i \in 1..Len(seqs) : IsIn(e, seqs[i])
<1> DEFINE X == {q \in Seq(Seq(S)) : IsIn(e, FlattenSeq(q)) => \E i \in 1..Len(q) : IsIn(e, q[i])}
<1>1. <<>> \in X
  <2>1. Len(<<>>) = 0
    OBVIOUS
  <2>2. ~IsIn(e, <<>>)
    BY <2>1 DEF IsIn
  <2> QED
    BY <2>2, FlattenFew, EmptySeq
<1>2. ASSUME NEW q \in Seq(Seq(S)), NEW s \in Seq(S), q \in X PROVE Append(q, s) \in X
  <2>1. PICK more, n, flat : more = Append(q, s) /\ n = Len(q) /\ flat = FlattenSeq(q)
    OBVIOUS
  <2>2. /\ more \in Seq(Seq(S)) /\ n \in Nat /\ Len(more) = n + 1 /\ more[n + 1] = s
        /\ \A i \in 1..n : more[i] = q[i]
    BY <2>1, AppendProperties
  <2>3. FlattenSeq(more) = flat \o s /\ flat \in Seq(S)
    BY <2>1, FlattenAppend, FlattenType
  <2>4. IsJoin(flat \o s, flat, s)
    BY <2>3, Joined
  <2>5. ASSUME IsIn(e, flat \o s) PROVE \E i \in 1..Len(more) : IsIn(e, more[i])
    <3>1. IsIn(e, flat) \/ IsIn(e, s)
      <4>1. PICK c : c = flat \o s
        OBVIOUS
      <4>2. PICK p \in 1..Len(c) : c[p] = e
        BY <2>5, <4>1 DEF IsIn
      <4>3. /\ Len(flat) \in Nat /\ Len(s) \in Nat /\ Len(c) = Len(flat) + Len(s)
            /\ \A i \in 1..Len(flat) : c[i] = flat[i]
            /\ \A i \in 1..Len(s) : c[Len(flat) + i] = s[i]
        BY <2>4, <4>1 DEF IsJoin
      <4>4. CASE p \in 1..Len(flat)
        BY <4>2, <4>3, <4>4 DEF IsIn
      <4>5. CASE p > Len(flat)
        <5>1. p - Len(flat) \in 1..Len(s) /\ Len(flat) + (p - Len(flat)) = p
          BY <4>2, <4>3, <4>5
        <5>2. s[p - Len(flat)] = e
          BY <4>2, <4>3, <5>1
        <5> QED
          BY <5>1, <5>2 DEF IsIn
      <4> QED
        BY <4>2, <4>3, <4>4, <4>5
    <3>2. CASE IsIn(e, s)
      <4>1. n + 1 \in 1..Len(more)
        BY <2>2
      <4> QED
        BY <2>2, <3>2, <4>1
    <3>3. CASE IsIn(e, flat)
      <4>1. PICK i \in 1..n : IsIn(e, q[i])
        BY <1>2, <2>1, <3>3
      <4>2. i \in 1..Len(more)
        BY <2>2
      <4> QED
        BY <2>2, <4>1, <4>2
    <3> QED
      BY <3>1, <3>2, <3>3
  <2> QED
    BY <2>1, <2>2, <2>3, <2>5
<1>3. Seq(Seq(S)) \subseteq X
  <2> HIDE DEF X
  <2> QED
    BY <1>1, <1>2, ListInduction
<1> QED
  BY <1>3

\* Lists that have no word twice, nor one in common, have none twice in a row.
LEMMA FlattenDistinct ==
  ASSUME NEW S, NEW seqs \in Seq(Seq(S)), \A i \in 1..Len(seqs) : Distinct(seqs[i]),
         \A i \in 1..Len(seqs), j \in 1..Len(seqs) : i # j => Disjoint(seqs[i], seqs[j])
  PROVE  Distinct(FlattenSeq(seqs))
<1>1. PICK n : n = Len(seqs)
  OBVIOUS
<1>2. n \in Nat
  BY <1>1
<1> DEFINE T == {i \in 0..n : Distinct(FlattenSeq(SubSeq(seqs, 1, i)))}
<1>3. 0 \in T
  <2>1. SubSeq(seqs, 1, 0) = <<>> /\ 0 \in 0..n
    BY <1>2, SubSeqEmpty
  <2>2. Distinct(<<>>)
    <3>1. Len(<<>>) = 0
      OBVIOUS
    <3> QED
      BY <3>1 DEF Distinct
  <2> QED
    BY <2>1, <2>2, FlattenFew
<1>4. ASSUME NEW i \in 0..(n - 1), i \in T PROVE i + 1 \in T
  <2>1. i + 1 \in 1..n /\ i + 1 \in 0..n /\ i \in 0..(Len(seqs) - 1) /\ i \in Nat /\ i <= n
    BY <1>1, <1>2
  <2>2. PICK p, s, flat : p = SubSeq(seqs, 1, i) /\ s = seqs[i + 1] /\ flat = FlattenSeq(p)
    OBVIOUS
  <2>3. p \in Seq(Seq(S)) /\ s \in Seq(S) /\ SubSeq(seqs, 1, i + 1) = Append(p, s)
    BY <2>1, <2>2, PrefixGrows
  <2>4. FlattenSeq(Append(p, s)) = flat \o s /\ flat \in Seq(S)
    BY <2>2, <2>3, FlattenAppend, FlattenType
  <2>5. IsJoin(flat \o s, flat, s)
    BY <2>3, <2>4, Joined
  <2>6. Len(p) = i /\ \A k \in 1..i : p[k] = seqs[k]
    BY <1>1, <2>1, <2>2
  <2>7. Disjoint(flat, s)
    <3>1. ASSUME NEW v \in 1..Len(flat), NEW w \in 1..Len(s), flat[v] = s[w] PROVE FALSE
      <4>1. PICK e : e = flat[v]
        OBVIOUS
      <4>2. IsIn(e, flat) /\ s[w] = e
        BY <3>1, <4>1 DEF IsIn
      <4>3. PICK k \in 1..i : IsIn(e, p[k])
        BY <2>2, <2>3, <2>6, <4>2, FlattenFrom
      <4>4. k \in 1..Len(seqs) /\ i + 1 \in 1..Len(seqs) /\ k # i + 1
        BY <1>1, <2>1
      <4>5. Disjoint(seqs[k], s)
        BY <2>2, <4>4
      <4>6. IsIn(e, seqs[k])
        BY <2>6, <4>3
      <4> QED
        BY <4>2, <4>5, <4>6 DEF Disjoint, IsIn
    <3> QED
      BY <3>1 DEF Disjoint
  <2>8. Distinct(flat) /\ Distinct(s)
    BY <1>1, <1>4, <2>1, <2>2
  <2>9. Distinct(flat \o s)
    BY <2>5, <2>7, <2>8, DistinctJoined
  <2> QED
    BY <2>1, <2>3, <2>4, <2>9
<1>5. n \in T
  <2>1. 0..n \subseteq T
    <3> HIDE DEF T
    <3> QED
      BY <1>2, <1>3, <1>4, Climb
  <2> QED
    BY <1>2, <2>1
<1>6. SubSeq(seqs, 1, n) = seqs
  BY <1>1, SubSeqFull
<1> QED
  BY <1>5, <1>6

\* The words of a block are its own.
LEMMA BlockFacts ==
  ASSUME NEW doc, IsDocument(doc), NEW i \in DOMAIN doc
  PROVE  /\ BlockWords(i, doc[i]) \in Seq(Words) /\ BlockWords(i, doc[i]) # <<>>
         /\ Distinct(BlockWords(i, doc[i]))
         /\ \A w \in 1..Len(BlockWords(i, doc[i])) : BlockWords(i, doc[i])[w][1] = i
<1>1. CASE doc[i].kind = "heading"
  <2>1. BlockWords(i, doc[i]) = <<Title(i)>> /\ Title(i) \in Words
    BY <1>1 DEF BlockWords, IsDocument
  <2>2. PICK x : x = <<Title(i)>>
    OBVIOUS
  <2>3. Len(x) = 1 /\ x[1] = Title(i) /\ x \in Seq(Words) /\ x # <<>>
    BY <2>1, <2>2
  <2>4. Title(i)[1] = i
    BY DEF Title
  <2>5. \A w \in 1..Len(x) : w = 1
    BY <2>3
  <2>6. Distinct(x) /\ \A w \in 1..Len(x) : x[w][1] = i
    BY <2>3, <2>4, <2>5 DEF Distinct
  <2> QED
    BY <2>1, <2>2, <2>3, <2>6
<1>2. CASE doc[i].kind # "heading"
  <2>1. PICK q, x, flat : q = doc[i].sentences /\ x = Sentences(i, doc[i]) /\ flat = FlattenSeq(x)
    OBVIOUS
  <2>2. BlockWords(i, doc[i]) = flat
    BY <1>2, <2>1 DEF BlockWords
  <2>3. x \in Paras
    BY <1>2, <2>1, ParagraphIsOne
  <2>4. x \in Seq(Texts) /\ x # <<>> /\ x \in Seq(Seq(Words))
    BY <1>2, <2>1, <2>3 DEF IsDocument, Paras, Texts
  <2>5. DOMAIN x = DOMAIN q /\ \A s \in DOMAIN x : x[s] = Sentence(i, s, q[s])
    BY <2>1 DEF Sentences
  <2>6. doc[i] \in Paragraphs
    <3>1. doc \in Seq(Headings \cup Paragraphs)
      BY DEF IsDocument, Documents
    <3>2. doc[i] \in Headings \cup Paragraphs
      BY <3>1
    <3> QED
      BY <1>2, <3>2 DEF Headings
  <2>7. \A s \in DOMAIN x : q[s] \in Nat \ {0}
    BY <2>1, <2>5, <2>6 DEF Paragraphs
  <2>8. DOMAIN x = 1..Len(x) /\ Len(x) \in Nat
    BY <2>4
  <2>9. ASSUME NEW s \in 1..Len(x)
        PROVE  /\ Len(x[s]) \in Nat
               /\ \A w \in 1..Len(x[s]) : x[s][w] = <<i, s, w>>
    <3>1. x[s] = [w \in 1..q[s] |-> <<i, s, w>>] /\ q[s] \in Nat
      BY <2>5, <2>7, <2>8 DEF Sentence
    <3> QED
      BY <3>1
  <2>10. ASSUME NEW s \in 1..Len(x) PROVE Distinct(x[s])
    <3>1. ASSUME NEW v \in 1..Len(x[s]), NEW w \in 1..Len(x[s]), v # w PROVE x[s][v] # x[s][w]
      <4>1. x[s][v] = <<i, s, v>> /\ x[s][w] = <<i, s, w>>
        BY <2>9
      <4> QED
        BY <3>1, <4>1
    <3> QED
      BY <3>1 DEF Distinct
  <2>11. ASSUME NEW s \in 1..Len(x), NEW r \in 1..Len(x), s # r PROVE Disjoint(x[s], x[r])
    <3>1. ASSUME NEW v \in 1..Len(x[s]), NEW w \in 1..Len(x[r]) PROVE x[s][v] # x[r][w]
      <4>1. x[s][v] = <<i, s, v>> /\ x[r][w] = <<i, r, w>>
        BY <2>9
      <4> QED
        BY <2>11, <4>1
    <3> QED
      BY <3>1 DEF Disjoint
  <2>12. Distinct(flat)
    BY <2>1, <2>4, <2>10, <2>11, FlattenDistinct
  <2>13. flat \in Seq(Words)
    BY <2>1, <2>4, FlattenType
  <2>14. ASSUME NEW w \in 1..Len(flat) PROVE flat[w][1] = i
    <3>1. PICK e : e = flat[w]
      OBVIOUS
    <3>2. IsIn(e, FlattenSeq(x))
      BY <2>1, <3>1 DEF IsIn
    <3>3. PICK s \in 1..Len(x) : IsIn(e, x[s])
      BY <2>4, <3>2, FlattenFrom
    <3>4. PICK v \in 1..Len(x[s]) : x[s][v] = e
      BY <3>3 DEF IsIn
    <3>5. e = <<i, s, v>>
      BY <2>9, <3>4
    <3> QED
      BY <3>1, <3>5
  <2>15. flat # <<>>
    <3>1. PICK b, e : b \in Seq(SentenceTexts) /\ e \in SentenceTexts /\ x = Append(b, e)
      <4>1. x \in Seq(SentenceTexts)
        BY <2>3 DEF Paras
      <4> QED
        BY <2>4, <4>1, SequenceEmptyOrAppend
    <3>2. SentenceTexts \subseteq Seq(PlainWords) /\ e # <<>>
      BY <3>1 DEF SentenceTexts
    <3>3. b \in Seq(Seq(PlainWords)) /\ e \in Seq(PlainWords)
      BY <3>1, <3>2, SeqMonotonic
    <3>4. flat = FlattenSeq(b) \o e /\ FlattenSeq(b) \in Seq(PlainWords)
      BY <2>1, <3>1, <3>3, FlattenAppend, FlattenType
    <3> QED
      BY <3>2, <3>3, <3>4, ConcatEqualIffEmpty
  <2> QED
    BY <2>2, <2>12, <2>13, <2>14, <2>15
<1> QED
  BY <1>1, <1>2
\* Some blocks of a document.
PartsOf(parts, doc) ==
  /\ parts = [i \in 1..Len(doc) |-> parts[i]]
  /\ \A i \in 1..Len(doc) : parts[i] = <<>> \/ parts[i] = BlockWords(i, doc[i])

\* No word of some blocks comes twice.
LEMMA PartsFacts ==
  ASSUME NEW doc, IsDocument(doc), NEW parts, PartsOf(parts, doc)
  PROVE  /\ parts \in Seq(Seq(Words)) /\ Len(parts) = Len(doc)
         /\ FlattenSeq(parts) \in Seq(Words)
         /\ Distinct(FlattenSeq(parts))
<1>1. PICK n : n = Len(doc)
  OBVIOUS
<1>2. n \in Nat /\ DOMAIN doc = 1..n
  BY <1>1 DEF IsDocument, Documents
<1>3. ASSUME NEW i \in 1..n
      PROVE  /\ parts[i] \in Seq(Words) /\ Distinct(parts[i])
             /\ \A w \in 1..Len(parts[i]) : parts[i][w][1] = i
  <2>1. CASE parts[i] = BlockWords(i, doc[i])
    BY <1>2, <2>1, BlockFacts
  <2>2. CASE parts[i] = <<>>
    <3>1. Len(parts[i]) = 0 /\ parts[i] \in Seq(Words)
      BY <2>2, EmptySeq
    <3> QED
      BY <3>1 DEF Distinct
  <2> QED
    BY <1>1, <2>1, <2>2 DEF PartsOf
<1>4. parts \in Seq(Seq(Words)) /\ Len(parts) = n
  <2>1. parts = [i \in 1..n |-> parts[i]]
    BY <1>1 DEF PartsOf
  <2>2. \A i \in 1..n : parts[i] \in Seq(Words)
    BY <1>3
  <2> QED
    BY <1>2, <2>1, <2>2, ListOf
<1>5. ASSUME NEW i \in 1..n, NEW j \in 1..n, i # j PROVE Disjoint(parts[i], parts[j])
  BY <1>3, <1>5 DEF Disjoint
<1>6. Distinct(FlattenSeq(parts))
  BY <1>3, <1>4, <1>5, FlattenDistinct
<1>7. FlattenSeq(parts) \in Seq(Words)
  BY <1>4, FlattenType
<1> QED
  BY <1>1, <1>4, <1>6, <1>7

\* No word of a document comes twice; it has words.
LEMMA ContentFacts ==
  ASSUME NEW doc, IsDocument(doc)
  PROVE  Content(doc) \in Seq(Words) /\ Content(doc) # <<>> /\ Distinct(Content(doc))
<1>1. PICK n, parts : n = Len(doc) /\ parts = [i \in 1..n |-> BlockWords(i, doc[i])]
  OBVIOUS
<1>2. n \in Nat \ {0} /\ DOMAIN doc = 1..n
  BY <1>1, EmptySeq DEF IsDocument, Documents
<1>3. Content(doc) = FlattenSeq(parts)
  BY <1>1, <1>2 DEF Content
<1>4. PartsOf(parts, doc)
  BY <1>1 DEF PartsOf
<1>5. parts \in Seq(Seq(Words)) /\ Len(parts) = n /\ FlattenSeq(parts) \in Seq(Words) /\ Distinct(FlattenSeq(parts))
  BY <1>1, <1>4, PartsFacts
<1>6. FlattenSeq(parts) # <<>>
  <2>1. parts # <<>>
    BY <1>2, <1>5
  <2>2. PICK a, e : a \in Seq(Seq(Words)) /\ e \in Seq(Words) /\ parts = Append(a, e)
    <3>1. PICK W : W = Seq(Words)
      OBVIOUS
    <3>2. parts \in Seq(W)
      BY <1>5, <3>1
    <3>3. \E a \in Seq(W), e \in W : parts = Append(a, e)
      BY <2>1, <3>2, SequenceEmptyOrAppend
    <3> QED
      BY <3>1, <3>3
  <2>3. e = parts[n] /\ n \in 1..n
    <3>1. Len(parts) = Len(a) + 1 /\ Len(a) \in Nat /\ parts[Len(a) + 1] = e
      BY <2>2, AppendProperties
    <3> QED
      BY <1>2, <1>5, <3>1
  <2>4. e # <<>>
    BY <1>1, <1>2, <2>3, BlockFacts
  <2>5. FlattenSeq(parts) = FlattenSeq(a) \o e /\ FlattenSeq(a) \in Seq(Words)
    BY <2>2, FlattenAppend, FlattenType
  <2> QED
    BY <2>2, <2>4, <2>5, ConcatEqualIffEmpty
<1> QED
  BY <1>3, <1>5, <1>6

\* Nor does one of the text below its headings, or of the headings.
LEMMA BodyFacts ==
  ASSUME NEW doc, IsDocument(doc)
  PROVE  Distinct(Body(doc)) /\ Titles(doc) \in Seq(Words)
<1>1. PICK n : n = Len(doc)
  OBVIOUS
<1>2. n \in Nat /\ DOMAIN doc = 1..n
  BY <1>1 DEF IsDocument, Documents
<1>3. PICK parts : parts = [i \in 1..n |-> IF doc[i].kind = "heading" THEN <<>> ELSE BlockWords(i, doc[i])]
  OBVIOUS
<1>4. PICK tops : tops = [i \in 1..n |-> IF doc[i].kind = "heading" THEN BlockWords(i, doc[i]) ELSE <<>>]
  OBVIOUS
<1>5. Body(doc) = FlattenSeq(parts) /\ Titles(doc) = FlattenSeq(tops)
  BY <1>2, <1>3, <1>4 DEF Body, Titles
<1>6. PartsOf(parts, doc) /\ PartsOf(tops, doc)
  BY <1>1, <1>3, <1>4 DEF PartsOf
<1>7. Distinct(FlattenSeq(parts)) /\ FlattenSeq(tops) \in Seq(Words)
  BY <1>6, PartsFacts
<1> QED
  BY <1>5, <1>7

\* The beginning of a text.
LEMMA CutFacts ==
  ASSUME NEW S, NEW limit \in Nat, NEW text \in Seq(S)
  PROVE  Cut(limit, text) \in Seq(S) /\ Len(Cut(limit, text)) <= limit
         /\ \A w \in 1..Len(Cut(limit, text)) : w \in 1..Len(text) /\ Cut(limit, text)[w] = text[w]
<1>1. PICK n, e : n = Len(text) /\ e = IF limit < n THEN limit ELSE n
  OBVIOUS
<1>2. n \in Nat /\ e \in Nat /\ e <= n /\ e <= limit
  BY <1>1
<1>3. Cut(limit, text) = SubSeq(text, 1, e)
  BY <1>1 DEF Cut
<1>4. PICK c : c = SubSeq(text, 1, e)
  OBVIOUS
<1>5. c \in Seq(S) /\ Len(c) = e /\ \A w \in 1..e : c[w] = text[w]
  BY <1>1, <1>2, <1>4
<1> QED
  BY <1>1, <1>2, <1>3, <1>4, <1>5

\* What the vector of a file is made of is a text.
LEMMA FileTextType ==
  ASSUME NEW task, IsTask(task)
  PROVE  IsDocument(task.doc) /\ FileText(task) \in Texts /\ Content(task.doc) \in Texts
<1>1. IsDocument(task.doc)
  BY DEF IsTask, IsDocument
<1>2. Content(task.doc) \in Seq(Words) /\ Titles(task.doc) \in Seq(Words)
  BY <1>1, ContentFacts, BodyFacts
<1>3. PICK text : text = IF task.kind = "note" THEN Titles(task.doc) \o Content(task.doc) ELSE Content(task.doc)
  OBVIOUS
<1>4. text \in Seq(Words)
  <2>1. Titles(task.doc) \o Content(task.doc) \in Seq(Words)
    BY <1>2, ConcatProperties
  <2> QED
    BY <1>2, <1>3, <2>1
<1>5. FileLimit \in Nat
  BY IndexingAssumption
<1>6. Cut(FileLimit, text) \in Seq(Words)
  BY <1>4, <1>5, CutFacts
<1>7. FileText(task) = Cut(FileLimit, text)
  BY <1>3 DEF FileText
<1> QED
  BY <1>1, <1>2, <1>6, <1>7 DEF Texts
\* A word's place in a text that has none twice.
LEMMA PlaceIs ==
  ASSUME NEW S, NEW source \in Seq(S), Distinct(source), NEW p \in 1..Len(source)
  PROVE  PlaceOf(source, source[p]) = p
<1>1. p \in DOMAIN source
  OBVIOUS
<1>2. \A i \in DOMAIN source : source[i] = source[p] => i = p
  BY DEF Distinct
<1> QED
  BY <1>1, <1>2 DEF PlaceOf

\* The places of the words of chunks, and places that are all, in their order.
PlacesOf(chunks, source) ==
  [i \in DOMAIN chunks |-> [w \in DOMAIN chunks[i].text |-> PlaceOf(source, chunks[i].text[w])]]
InOrder(places, source) ==
  /\ \A i \in DOMAIN places : \A w \in DOMAIN places[i] : places[i][w] = places[i][1] + w - 1
  /\ \A i \in DOMAIN places : i > 1 => places[i - 1][1] < places[i][1]
  /\ UNION {{places[i][w] : w \in DOMAIN places[i]} : i \in DOMAIN places} = DOMAIN source

\* Chunks with texts.
HaveTexts(chunks, S) ==
  /\ Len(chunks) \in Nat /\ DOMAIN chunks = 1..Len(chunks)
  /\ \A i \in 1..Len(chunks) : chunks[i].text \in Seq(S)

\* The texts of chunks are as many.
LEMMA TextsOfThem ==
  ASSUME NEW S, NEW chunks, HaveTexts(chunks, S)
  PROVE  /\ TextsOf(chunks) \in Seq(Seq(S)) /\ Len(TextsOf(chunks)) = Len(chunks)
         /\ \A i \in 1..Len(chunks) : TextsOf(chunks)[i] = chunks[i].text
<1>1. PICK t, n : t = TextsOf(chunks) /\ n = Len(chunks)
  OBVIOUS
<1>2. n \in Nat /\ DOMAIN chunks = 1..n /\ \A i \in 1..n : chunks[i].text \in Seq(S)
  BY <1>1 DEF HaveTexts
<1>3. t = [i \in 1..n |-> t[i]] /\ \A i \in 1..n : t[i] = chunks[i].text
  BY <1>1, <1>2 DEF TextsOf
<1>4. \A i \in 1..n : t[i] \in Seq(S)
  BY <1>2, <1>3
<1>5. t \in Seq(Seq(S)) /\ Len(t) = n
  BY <1>2, <1>3, <1>4, ListOf
<1> QED
  BY <1>1, <1>3, <1>5

\* What tiles a text holds all its words, in their order.
LEMMA TilesSurvive ==
  ASSUME NEW S, NEW source \in Seq(S), Distinct(source), NEW chunks, HaveTexts(chunks, S), NEW apart,
         Tiled(TextsOf(chunks), source, apart)
  PROVE  InOrder(PlacesOf(chunks, source), source)
<1>1. PICK st : Tile(st, TextsOf(chunks), source)
  BY DEF Tiled
<1>2. PICK n, texts, m : n = Len(chunks) /\ texts = TextsOf(chunks) /\ m = Len(source)
  OBVIOUS
<1>3. /\ n \in Nat /\ DOMAIN chunks = 1..n /\ Len(texts) = n
      /\ \A i \in 1..n : texts[i] = chunks[i].text /\ chunks[i].text \in Seq(S)
  BY <1>2, TextsOfThem DEF HaveTexts
<1>4. m \in Nat /\ DOMAIN source = 1..m
  BY <1>2
<1>5. ASSUME NEW i \in 1..n
      PROVE  /\ Len(chunks[i].text) \in Nat \ {0} /\ DOMAIN chunks[i].text = 1..Len(chunks[i].text)
             /\ st[i] \in Nat /\ st[i] + Len(chunks[i].text) <= m
             /\ \A w \in 1..Len(chunks[i].text) : chunks[i].text[w] = source[st[i] + w]
  <2>1. Stretch(texts[i], source, st[i])
    BY <1>1, <1>2, <1>3 DEF Tile
  <2> QED
    BY <1>2, <1>3, <2>1 DEF Stretch
<1>6. PICK places : places = PlacesOf(chunks, source)
  OBVIOUS
<1>7. DOMAIN places = 1..n
  BY <1>3, <1>6 DEF PlacesOf
<1>8. ASSUME NEW i \in 1..n
      PROVE  /\ DOMAIN places[i] = 1..Len(chunks[i].text)
             /\ \A w \in 1..Len(chunks[i].text) : places[i][w] = st[i] + w
  <2>1. places[i] = [w \in DOMAIN chunks[i].text |-> PlaceOf(source, chunks[i].text[w])]
    BY <1>3, <1>6 DEF PlacesOf
  <2>2. ASSUME NEW w \in 1..Len(chunks[i].text) PROVE places[i][w] = st[i] + w
    <3>1. st[i] + w \in 1..Len(source)
      BY <1>2, <1>4, <1>5
    <3>2. PlaceOf(source, source[st[i] + w]) = st[i] + w
      BY <3>1, PlaceIs
    <3>3. chunks[i].text[w] = source[st[i] + w] /\ w \in DOMAIN chunks[i].text
      BY <1>5
    <3> QED
      BY <2>1, <3>2, <3>3
  <2> QED
    BY <1>5, <2>1, <2>2
<1>9. ASSUME NEW i \in 1..n PROVE 1 \in 1..Len(chunks[i].text) /\ places[i][1] = st[i] + 1
  BY <1>5, <1>8
<1>10. ASSUME NEW i \in 1..n, NEW w \in DOMAIN places[i] PROVE places[i][w] = places[i][1] + w - 1
  <2>1. w \in 1..Len(chunks[i].text) /\ places[i][w] = st[i] + w /\ places[i][1] = st[i] + 1
    BY <1>8, <1>9
  <2> QED
    BY <1>5, <2>1
<1>11. ASSUME NEW i \in 1..n, i > 1 PROVE places[i - 1][1] < places[i][1]
  <2>1. i - 1 \in 1..n /\ i \in 2..n
    BY <1>3, <1>11
  <2>2. st[i - 1] < st[i]
    BY <1>1, <1>2, <1>3, <2>1 DEF Tile
  <2>3. places[i - 1][1] = st[i - 1] + 1 /\ places[i][1] = st[i] + 1 /\ st[i - 1] \in Nat /\ st[i] \in Nat
    BY <1>5, <1>9, <2>1
  <2> QED
    BY <2>2, <2>3
<1>12. ASSUME NEW i \in 1..n, NEW w \in DOMAIN places[i] PROVE places[i][w] \in 1..m
  <2>1. w \in 1..Len(chunks[i].text) /\ places[i][w] = st[i] + w
    BY <1>8
  <2> QED
    BY <1>4, <1>5, <2>1
<1>13. ASSUME NEW p \in 1..m PROVE \E i \in 1..n : \E w \in DOMAIN places[i] : places[i][w] = p
  <2>1. Covers(p, st, texts)
    BY <1>1, <1>2 DEF Tile
  <2>2. PICK i \in 1..n : st[i] < p /\ p <= st[i] + Len(chunks[i].text)
    BY <1>3, <2>1 DEF Covers
  <2>3. p - st[i] \in 1..Len(chunks[i].text) /\ st[i] + (p - st[i]) = p
    BY <1>5, <2>2
  <2> QED
    BY <1>8, <2>3
<1>14. UNION {{places[i][w] : w \in DOMAIN places[i]} : i \in DOMAIN places} = DOMAIN source
  <2> DEFINE U == UNION {{places[i][w] : w \in DOMAIN places[i]} : i \in DOMAIN places}
  <2>1. ASSUME NEW p \in U PROVE p \in 1..m
    <3>1. PICK i \in 1..n : p \in {places[i][w] : w \in DOMAIN places[i]}
      BY <1>7, <2>1
    <3>2. PICK w \in DOMAIN places[i] : p = places[i][w]
      BY <3>1
    <3> QED
      BY <1>12, <3>2
  <2>2. ASSUME NEW p \in 1..m PROVE p \in U
    <3>1. PICK i \in 1..n : \E w \in DOMAIN places[i] : places[i][w] = p
      BY <1>13
    <3>2. p \in {places[i][w] : w \in DOMAIN places[i]}
      BY <3>1
    <3> QED
      BY <1>7, <3>1, <3>2
  <2> HIDE DEF U
  <2>3. U = 1..m
    BY <2>1, <2>2
  <2> QED
    BY <1>4, <2>3 DEF U
<1> QED
  BY <1>6, <1>7, <1>10, <1>11, <1>14 DEF InOrder

\* Words of different stretches that are apart differ.
LEMMA ApartDiffer ==
  ASSUME NEW S, NEW source \in Seq(S), Distinct(source), NEW texts, Tiled(texts, source, TRUE),
         NEW i \in 1..Len(texts), NEW j \in 1..Len(texts), i # j
  PROVE  Disjoint(texts[i], texts[j])
<1>1. PICK st : Tile(st, texts, source) /\ Apart(st, texts)
  BY DEF Tiled
<1>2. Stretch(texts[i], source, st[i]) /\ Stretch(texts[j], source, st[j])
  BY <1>1 DEF Tile
<1>3. st[i] + Len(texts[i]) <= st[j] \/ st[j] + Len(texts[j]) <= st[i]
  <2>1. Len(texts) \in Nat
    BY <1>1 DEF Tile
  <2>2. i < j \/ j < i
    BY <2>1
  <2> QED
    BY <1>1, <2>2 DEF Apart
<1>4. ASSUME NEW v \in 1..Len(texts[i]), NEW w \in 1..Len(texts[j]) PROVE texts[i][v] # texts[j][w]
  <2>1. PICK a, b, k, l, n : a = st[i] /\ b = st[j] /\ k = Len(texts[i]) /\ l = Len(texts[j]) /\ n = Len(source)
    OBVIOUS
  <2>2. /\ a \in Nat /\ b \in Nat /\ k \in Nat /\ l \in Nat /\ n \in Nat /\ a + k <= n /\ b + l <= n
        /\ texts[i][v] = source[a + v] /\ texts[j][w] = source[b + w]
    BY <1>2, <2>1 DEF Stretch
  <2>3. a + v \in 1..n /\ b + w \in 1..n /\ a + v # b + w
    <3>1. a + k <= b \/ b + l <= a
      BY <1>3, <2>1
    <3>2. v \in 1..k /\ w \in 1..l
      BY <2>1
    <3>3. a + v \in 1..n /\ b + w \in 1..n
      BY <2>2, <3>2
    <3>4. a + v # b + w
      BY <2>2, <3>1, <3>2
    <3> QED
      BY <3>3, <3>4
  <2> QED
    BY <2>1, <2>2, <2>3 DEF Distinct
<1> QED
  BY <1>4 DEF Disjoint
-----------------------------------------------------------------------------
(* Contexts                                                                *)

\* A word of two texts in a row is of one of them.
LEMMA InJoined ==
  ASSUME NEW c, NEW a, NEW b, IsJoin(c, a, b), NEW e, IsIn(e, c)
  PROVE  IsIn(e, a) \/ IsIn(e, b)
<1>1. PICK p \in 1..Len(c) : c[p] = e
  BY DEF IsIn
<1>2. /\ Len(a) \in Nat /\ Len(b) \in Nat /\ Len(c) = Len(a) + Len(b)
      /\ \A i \in 1..Len(a) : c[i] = a[i]
      /\ \A i \in 1..Len(b) : c[Len(a) + i] = b[i]
  BY DEF IsJoin
<1>3. CASE p \in 1..Len(a)
  BY <1>1, <1>2, <1>3 DEF IsIn
<1>4. CASE p > Len(a)
  <2>1. p - Len(a) \in 1..Len(b) /\ Len(a) + (p - Len(a)) = p
    BY <1>1, <1>2, <1>4
  <2>2. b[p - Len(a)] = e
    BY <1>1, <1>2, <2>1
  <2> QED
    BY <2>1, <2>2 DEF IsIn
<1> QED
  BY <1>1, <1>2, <1>3, <1>4

\* What surrounds a chunk is made of the headings and texts of others.
LEMMA ContextFrom ==
  ASSUME NEW max, NEW chunks \in Seq(ChunkRecs(max)), NEW i \in 1..Len(chunks),
         NEW window \in Nat, NEW limit \in Nat
  PROVE  /\ Context(chunks, i, window, limit) \in Seq(Words)
         /\ \A e : IsIn(e, Context(chunks, i, window, limit)) =>
              \E j \in 1..Len(chunks) :
                j # i /\ (IsIn(e, chunks[j].headings) \/ IsIn(e, chunks[j].text))
<1>1. PICK n : n = Len(chunks)
  OBVIOUS
<1>2. n \in Nat /\ DOMAIN chunks = 1..n /\ \A j \in 1..n : chunks[j] \in ChunkRecs(max)
  BY <1>1
<1>3. PICK parts, context : /\ parts = [j \in 1..n |-> IF j \in Neighbours(i, chunks, window)
                                                       THEN chunks[j].headings \o chunks[j].text ELSE <<>>]
                            /\ context = Context(chunks, i, window, limit)
  OBVIOUS
<1>4. context = Cut(limit, FlattenSeq(parts))
  BY <1>2, <1>3 DEF Context
<1>5. ASSUME NEW j \in 1..n
      PROVE  chunks[j].headings \in Seq(Words) /\ chunks[j].text \in Seq(Words)
  <2>1. chunks[j].headings \in Seq(TitleWords) /\ chunks[j].text \in Seq(PlainWords)
    BY <1>2 DEF ChunkRecs, Pieces
  <2>2. TitleWords \subseteq Words /\ PlainWords \subseteq Words
    BY DEF TitleWords, PlainWords
  <2> QED
    BY <2>1, <2>2, SeqMonotonic
<1>6. ASSUME NEW j \in 1..n PROVE parts[j] \in Seq(Words)
  <2>1. chunks[j].headings \o chunks[j].text \in Seq(Words) /\ <<>> \in Seq(Words)
    BY <1>5, ConcatProperties, EmptySeq
  <2> QED
    BY <1>3, <2>1
<1>7. parts \in Seq(Seq(Words)) /\ Len(parts) = n
  <2>1. parts = [j \in 1..n |-> parts[j]] /\ \A j \in 1..n : parts[j] \in Seq(Words)
    BY <1>3, <1>6
  <2> QED
    BY <1>2, <2>1, ListOf
<1>8. PICK flat : flat = FlattenSeq(parts)
  OBVIOUS
<1>9. flat \in Seq(Words)
  BY <1>7, <1>8, FlattenType
<1>10. /\ context \in Seq(Words)
       /\ \A w \in 1..Len(context) : w \in 1..Len(flat) /\ context[w] = flat[w]
  BY <1>4, <1>8, <1>9, CutFacts
<1>11. ASSUME NEW e, IsIn(e, context)
       PROVE  \E j \in 1..n : j # i /\ (IsIn(e, chunks[j].headings) \/ IsIn(e, chunks[j].text))
  <2>1. IsIn(e, flat)
    BY <1>10, <1>11 DEF IsIn
  <2>2. PICK j \in 1..n : IsIn(e, parts[j])
    BY <1>7, <1>8, <2>1, FlattenFrom
  <2>3. CASE j \in Neighbours(i, chunks, window)
    <3>1. j # i
      BY <2>3 DEF Neighbours
    <3>2. PICK a, b, c : a = chunks[j].headings /\ b = chunks[j].text /\ c = a \o b
      OBVIOUS
    <3>3. IsIn(e, c)
      BY <1>3, <2>2, <2>3, <3>2
    <3>4. IsJoin(a \o b, a, b)
      BY <1>5, <3>2, Joined
    <3>5. IsIn(e, a) \/ IsIn(e, b)
      BY <3>2, <3>3, <3>4, InJoined
    <3> QED
      BY <3>1, <3>2, <3>5
  <2>4. CASE j \notin Neighbours(i, chunks, window)
    <3>1. parts[j] = <<>>
      BY <1>3, <2>4
    <3>2. Len(parts[j]) = 0
      BY <3>1
    <3> QED
      BY <2>2, <3>2 DEF IsIn
  <2> QED
    BY <2>3, <2>4
<1> QED
  BY <1>1, <1>3, <1>10, <1>11

\* Chunks as they are embedded.
EnrichedRecs == [headings : Seq(Words), text : Seq(Words), embed : Seq(Words), context : Seq(Words)]
Elsewhere(chunk) == \A v \in DOMAIN chunk.context, w \in DOMAIN chunk.text : chunk.context[v] # chunk.text[w]

\* Enriched chunks keep their texts; unless they overlap, their contexts have
\* none of their words.
LEMMA EnrichFacts ==
  ASSUME NEW max, NEW chunks \in Seq(ChunkRecs(max)), NEW window \in Nat, NEW limit \in Nat,
         NEW source \in Seq(PlainWords), Distinct(source), NEW apart, Tiled(TextsOf(chunks), source, apart)
  PROVE  LET enriched == Enrich(chunks, window, limit)
         IN  /\ enriched \in Seq(EnrichedRecs) /\ Len(enriched) = Len(chunks)
             /\ \A i \in 1..Len(chunks) : enriched[i].text = chunks[i].text
             /\ TextsOf(enriched) = TextsOf(chunks)
             /\ apart => \A i \in 1..Len(chunks) : Elsewhere(enriched[i])
<1>1. PICK n, enriched : n = Len(chunks) /\ enriched = Enrich(chunks, window, limit)
  OBVIOUS
<1>2. n \in Nat /\ DOMAIN chunks = 1..n /\ \A j \in 1..n : chunks[j] \in ChunkRecs(max)
  BY <1>1
<1>3. enriched = [i \in 1..n |->
        [headings |-> chunks[i].headings, text |-> chunks[i].text,
         embed |-> chunks[i].headings \o chunks[i].text, context |-> Context(chunks, i, window, limit)]]
  BY <1>1, <1>2 DEF Enrich
<1>4. ASSUME NEW j \in 1..n
      PROVE  /\ chunks[j].headings \in Seq(TitleWords) /\ chunks[j].text \in Seq(PlainWords)
             /\ chunks[j].headings \in Seq(Words) /\ chunks[j].text \in Seq(Words)
  <2>1. chunks[j].headings \in Seq(TitleWords) /\ chunks[j].text \in Seq(PlainWords)
    BY <1>2 DEF ChunkRecs, Pieces
  <2>2. TitleWords \subseteq Words /\ PlainWords \subseteq Words
    BY DEF TitleWords, PlainWords
  <2> QED
    BY <2>1, <2>2, SeqMonotonic
<1>5. ASSUME NEW i \in 1..n
      PROVE  /\ enriched[i] \in EnrichedRecs /\ enriched[i].text = chunks[i].text
             /\ enriched[i].context = Context(chunks, i, window, limit)
  <2>1. Context(chunks, i, window, limit) \in Seq(Words)
    BY <1>1, ContextFrom
  <2>2. chunks[i].headings \o chunks[i].text \in Seq(Words)
    BY <1>4, ConcatProperties
  <2>3. PICK h, x, e, c : h = chunks[i].headings /\ x = chunks[i].text /\ e = h \o x /\ c = Context(chunks, i, window, limit)
    OBVIOUS
  <2>4. enriched[i] = [headings |-> h, text |-> x, embed |-> e, context |-> c]
    BY <1>3, <2>3
  <2>5. h \in Seq(Words) /\ x \in Seq(Words) /\ e \in Seq(Words) /\ c \in Seq(Words)
    BY <1>4, <2>1, <2>2, <2>3
  <2> QED
    BY <2>3, <2>4, <2>5 DEF EnrichedRecs
<1>6. enriched \in Seq(EnrichedRecs) /\ Len(enriched) = n
  <2>1. enriched = [i \in 1..n |-> enriched[i]]
    BY <1>3
  <2>2. \A i \in 1..n : enriched[i] \in EnrichedRecs
    BY <1>5
  <2> QED
    BY <1>2, <2>1, <2>2, ListOf
<1>7. TextsOf(enriched) = TextsOf(chunks)
  <2>1. DOMAIN enriched = 1..n
    BY <1>3
  <2>2. TextsOf(enriched) = [i \in 1..n |-> enriched[i].text]
    BY <2>1 DEF TextsOf
  <2>3. TextsOf(chunks) = [i \in 1..n |-> chunks[i].text]
    BY <1>2 DEF TextsOf
  <2>4. \A i \in 1..n : enriched[i].text = chunks[i].text
    BY <1>5
  <2> QED
    BY <2>2, <2>3, <2>4
<1>8. ASSUME apart, NEW i \in 1..n PROVE Elsewhere(enriched[i])
  <2>1. PICK texts : texts = TextsOf(chunks)
    OBVIOUS
  <2>2. Len(texts) = n /\ \A j \in 1..n : texts[j] = chunks[j].text
    BY <1>1, <2>1, TextsOfType
  <2>3. Tiled(texts, source, TRUE)
    BY <1>8, <2>1 DEF Tiled
  <2>4. ASSUME NEW v \in DOMAIN enriched[i].context, NEW w \in DOMAIN enriched[i].text,
               enriched[i].context[v] = enriched[i].text[w]
        PROVE  FALSE
    <3>1. PICK e, context, x : e = enriched[i].context[v] /\ context = enriched[i].context /\ x = chunks[i].text
      OBVIOUS
    <3>2. context \in Seq(Words) /\ x \in Seq(PlainWords) /\ w \in 1..Len(x) /\ x[w] = e
      BY <1>4, <1>5, <2>4, <3>1, SMTT(60) DEF EnrichedRecs
    <3>3. IsIn(e, Context(chunks, i, window, limit))
      <4>1. v \in 1..Len(context) /\ context[v] = e
        BY <3>1, <3>2
      <4> QED
        BY <1>5, <3>1, <4>1 DEF IsIn
    <3>4. PICK j \in 1..n : j # i /\ (IsIn(e, chunks[j].headings) \/ IsIn(e, chunks[j].text))
      BY <1>1, <3>3, ContextFrom
    <3>5. CASE IsIn(e, chunks[j].text)
      <4>1. Disjoint(texts[j], texts[i])
        BY <2>2, <2>3, <3>4, ApartDiffer
      <4>2. Disjoint(chunks[j].text, x)
        BY <2>2, <3>1, <4>1
      <4> QED
        BY <3>2, <3>5, <4>2 DEF Disjoint, IsIn
    <3>6. CASE IsIn(e, chunks[j].headings)
      <4>1. e \in TitleWords
        BY <1>4, <3>6 DEF IsIn
      <4>2. e \in PlainWords
        BY <3>2
      <4> QED
        BY <4>1, <4>2 DEF TitleWords, PlainWords
    <3> QED
      BY <3>4, <3>5, <3>6
  <2> QED
    BY <2>4 DEF Elsewhere
<1> QED
  BY <1>1, <1>5, <1>6, <1>7, <1>8
\* The chunks of a file that is no note.
FileChunks(doc) ==
  Enrich(Windows([headings |-> <<>>, text |-> Content(doc)], FileSize, FileOverlap), 0, 0)

\* They tile its content, and have no context.
LEMMA FileChunksFacts ==
  ASSUME NEW doc, IsDocument(doc)
  PROVE  /\ FileChunks(doc) \in Seq(EnrichedRecs)
         /\ Tiled(TextsOf(FileChunks(doc)), Content(doc), FALSE)
         /\ \A i \in 1..Len(FileChunks(doc)) : Elsewhere(FileChunks(doc)[i])
<1>1. PICK whole, x : whole = [headings |-> <<>>, text |-> x] /\ x = Content(doc)
  OBVIOUS
<1>2. x \in Seq(Words) /\ x # <<>>
  BY <1>1, ContentFacts
<1>3. PICK size, overlap : size = FileSize /\ overlap = FileOverlap
  OBVIOUS
<1>4. size \in Nat /\ overlap \in Nat /\ overlap < size
  BY <1>3, IndexingAssumption
<1>5. PICK texts, windows, enriched : /\ texts = WindowTexts(x, size, overlap)
                                      /\ windows = Windows(whole, size, overlap)
                                      /\ enriched = Enrich(windows, 0, 0)
  OBVIOUS
<1>6. texts \in Seq(Seq(Words)) /\ Tiled(texts, x, overlap = 0)
  BY <1>2, <1>4, <1>5, WindowsTile
<1>7. PICK m : m = Len(texts)
  OBVIOUS
<1>8. m \in Nat /\ DOMAIN texts = 1..m /\ \A k \in 1..m : texts[k] \in Seq(Words)
  BY <1>6, <1>7
<1>9. texts = [k \in 1..WindowsOf(Len(x), size, overlap) |-> Window(x, k, size, overlap)]
  BY <1>5 DEF WindowTexts
<1>10. 1..WindowsOf(Len(x), size, overlap) = 1..m
  BY <1>8, <1>9
<1>11. windows = [k \in 1..m |-> [whole EXCEPT !.text = Window(@, k, size, overlap)]]
  BY <1>1, <1>5, <1>10 DEF Windows
<1>12. ASSUME NEW k \in 1..m PROVE windows[k].headings = <<>> /\ windows[k].text = texts[k]
  <2>1. texts[k] = Window(x, k, size, overlap)
    BY <1>9, <1>10
  <2>2. windows[k] = [whole EXCEPT !.text = Window(x, k, size, overlap)]
    BY <1>1, <1>11
  <2> QED
    BY <1>1, <2>1, <2>2
<1>13. DOMAIN windows = 1..m
  BY <1>11
<1>14. enriched = [i \in 1..m |->
         [headings |-> windows[i].headings, text |-> windows[i].text,
          embed |-> windows[i].headings \o windows[i].text, context |-> Context(windows, i, 0, 0)]]
  BY <1>5, <1>13 DEF Enrich
<1>15. ASSUME NEW i \in 1..m
       PROVE  Context(windows, i, 0, 0) = <<>>
  <2>1. PICK parts : parts = [j \in 1..m |-> IF j \in Neighbours(i, windows, 0)
                                             THEN windows[j].headings \o windows[j].text ELSE <<>>]
    OBVIOUS
  <2>2. ASSUME NEW j \in 1..m PROVE parts[j] = <<>>
    <3>1. j \notin Neighbours(i, windows, 0)
      BY <1>8 DEF Neighbours
    <3> QED
      BY <2>1, <3>1
  <2>3. parts \in Seq(Seq(Words))
    <3>1. <<>> \in Seq(Words)
      BY EmptySeq
    <3>2. parts = [j \in 1..m |-> parts[j]] /\ \A j \in 1..m : parts[j] \in Seq(Words)
      BY <2>1, <2>2, <3>1
    <3> QED
      BY <1>8, <3>2, ListOf
  <2>4. PICK flat : flat = FlattenSeq(parts)
    OBVIOUS
  <2>5. flat \in Seq(Words)
    BY <2>3, <2>4, FlattenType
  <2>6. Context(windows, i, 0, 0) = Cut(0, flat)
    BY <1>13, <2>1, <2>4 DEF Context
  <2>7. Cut(0, flat) \in Seq(Words) /\ Len(Cut(0, flat)) <= 0
    BY <2>5, CutFacts
  <2> QED
    BY <2>6, <2>7, EmptySeq
<1>16. ASSUME NEW i \in 1..m
       PROVE  enriched[i] \in EnrichedRecs /\ enriched[i].text = texts[i] /\ Elsewhere(enriched[i])
  <2>1. PICK e : e = <<>> \o texts[i]
    OBVIOUS
  <2>2. texts[i] \in Seq(Words) /\ e \in Seq(Words) /\ <<>> \in Seq(Words)
    BY <1>8, <2>1, EmptySeq, ConcatEmptySeq
  <2>3. enriched[i] = [headings |-> <<>>, text |-> texts[i], embed |-> e, context |-> <<>>]
    BY <1>12, <1>14, <1>15, <2>1
  <2>4. enriched[i] \in EnrichedRecs /\ enriched[i].text = texts[i] /\ enriched[i].context = <<>>
    BY <2>2, <2>3 DEF EnrichedRecs
  <2>5. DOMAIN enriched[i].context = {}
    BY <2>4
  <2> QED
    BY <2>4, <2>5 DEF Elsewhere
<1>17. enriched \in Seq(EnrichedRecs) /\ Len(enriched) = m
  <2>1. enriched = [i \in 1..m |-> enriched[i]]
    BY <1>14
  <2>2. \A i \in 1..m : enriched[i] \in EnrichedRecs
    BY <1>16
  <2> QED
    BY <1>8, <2>1, <2>2, ListOf
<1>18. TextsOf(enriched) = texts
  <2>1. DOMAIN enriched = 1..m
    BY <1>14
  <2>2. TextsOf(enriched) = [i \in 1..m |-> enriched[i].text]
    BY <2>1 DEF TextsOf
  <2>3. texts = [i \in 1..m |-> texts[i]]
    BY <1>8, <1>9, <1>10
  <2>4. \A i \in 1..m : enriched[i].text = texts[i]
    BY <1>16
  <2> QED
    BY <2>2, <2>3, <2>4
<1>19. Tiled(texts, x, FALSE)
  BY <1>6 DEF Tiled
<1>20. enriched = FileChunks(doc)
  BY <1>1, <1>3, <1>5 DEF FileChunks
<1> QED
  BY <1>1, <1>16, <1>17, <1>18, <1>19, <1>20

-----------------------------------------------------------------------------
(* What a job has                                                          *)

\* The text that an upload is to index.
SourceOf(task) == IF task.kind = "note" THEN Body(task.doc) ELSE Content(task.doc)

\* A chunk that keeps the limits of a note's.
Fitting(chunk, limits) ==
  /\ InBudget(chunk.text, limits.max)
  /\ limits.overlap < limits.size => Len(chunk.text) <= limits.size

\* The chunks of a task at a stage.
SectionsHold(chunks, task, limits) ==
  /\ task.kind = "note"
  /\ chunks \in Seq(SectionRecs) /\ SectionsText(chunks) = Body(task.doc)
PiecesHold(chunks, task, limits) ==
  /\ task.kind = "note"
  /\ chunks \in Seq(ChunkRecs(limits.max)) /\ ChunksText(chunks) = Body(task.doc)
WindowsHold(chunks, task, limits) ==
  /\ task.kind = "note"
  /\ chunks \in Seq(ChunkRecs(limits.max))
  /\ limits.overlap < limits.size => chunks \in Seq(ShortRecs(limits.max, limits.size))
  /\ Tiled(TextsOf(chunks), Body(task.doc), limits.overlap = 0)
EnrichedHold(chunks, task, limits) ==
  /\ task.kind \in {"note", "file"}
  /\ chunks \in Seq(EnrichedRecs)
  /\ Tiled(TextsOf(chunks), SourceOf(task), FALSE)
  /\ limits.overlap = 0 => \A i \in 1..Len(chunks) : Elsewhere(chunks[i])
  /\ task.kind = "note" => \A i \in 1..Len(chunks) : Fitting(chunks[i], limits)

\* The configuration of an instance.
IsLimits(limits) == limits \in [{"max", "min", "size", "overlap", "window", "context"} -> Nat]

\* The sections hold the text of a note.  Each of the stages after it makes, of
\* the chunks of the one before it, those that it should.
LEMMA FindHolds ==
  ASSUME NEW task, IsTask(task), task.kind = "note", NEW limits
  PROVE  SectionsHold(Sections(task.doc), task, limits)
<1>1. IsDocument(task.doc)
  BY DEF IsTask, IsDocument
<1> QED
  BY <1>1, SectionsFacts DEF SectionsHold

\* Splitting the sections gives chunks with their text.
LEMMA SplitHolds ==
  ASSUME NEW task, NEW limits, IsLimits(limits), NEW chunks, SectionsHold(chunks, task, limits)
  PROVE  PiecesHold(Split(chunks, limits.max), task, limits)
<1>1. limits.max \in Nat
  BY DEF IsLimits
<1>2. chunks \in Seq(SectionRecs)
  BY DEF SectionsHold
<1> QED
  BY <1>1, <1>2, SplitFacts DEF SectionsHold, PiecesHold

\* Merging keeps the text.
LEMMA MergeHolds ==
  ASSUME NEW task, NEW limits, IsLimits(limits), NEW chunks, PiecesHold(chunks, task, limits)
  PROVE  PiecesHold(Merge(chunks, limits.min, limits.max), task, limits)
<1>1. limits.min \in Nat /\ limits.max \in Nat
  BY DEF IsLimits
<1>2. chunks \in Seq(ChunkRecs(limits.max))
  BY DEF PiecesHold
<1> QED
  BY <1>1, <1>2, MergeFacts DEF PiecesHold

\* The windows tile it.
LEMMA ResplitHolds ==
  ASSUME NEW task, NEW limits, IsLimits(limits), NEW chunks, PiecesHold(chunks, task, limits)
  PROVE  WindowsHold(Resplit(chunks, limits.size, limits.overlap), task, limits)
<1>1. PICK max, size, overlap : max = limits.max /\ size = limits.size /\ overlap = limits.overlap
  OBVIOUS
<1>2. max \in Nat /\ size \in Nat /\ overlap \in Nat
  BY <1>1 DEF IsLimits
<1>3. chunks \in Seq(ChunkRecs(max))
  BY <1>1 DEF PiecesHold
<1>4. PICK more : more = Resplit(chunks, size, overlap)
  OBVIOUS
<1>5. /\ more \in Seq(ChunkRecs(max))
      /\ overlap < size => more \in Seq(ShortRecs(max, size))
      /\ Tiled(TextsOf(more), ChunksText(chunks), overlap = 0)
  BY <1>2, <1>3, <1>4, ResplitFacts
<1> QED
  BY <1>1, <1>4, <1>5 DEF WindowsHold, PiecesHold

\* Chunks with their contexts have the same texts.
LEMMA EnrichHolds ==
  ASSUME NEW task, IsTask(task), NEW limits, IsLimits(limits), NEW chunks, WindowsHold(chunks, task, limits)
  PROVE  EnrichedHold(Enrich(chunks, limits.window, limits.context), task, limits)
<1>1. PICK max, size, overlap : max = limits.max /\ size = limits.size /\ overlap = limits.overlap
  OBVIOUS
<1>2. /\ max \in Nat /\ size \in Nat /\ overlap \in Nat
      /\ limits.window \in Nat /\ limits.context \in Nat
  BY <1>1 DEF IsLimits
<1>3. PICK source : source = Body(task.doc)
  OBVIOUS
<1>4. source \in Seq(PlainWords) /\ Distinct(source)
  <2>1. IsDocument(task.doc)
    BY DEF IsTask, IsDocument
  <2> QED
    BY <1>3, <2>1, SectionsFacts, BodyFacts
<1>5. /\ task.kind = "note" /\ chunks \in Seq(ChunkRecs(max))
      /\ overlap < size => chunks \in Seq(ShortRecs(max, size))
      /\ Tiled(TextsOf(chunks), source, overlap = 0)
  BY <1>1, <1>3 DEF WindowsHold
<1>6. PICK enriched : enriched = Enrich(chunks, limits.window, limits.context)
  OBVIOUS
<1>7. /\ enriched \in Seq(EnrichedRecs) /\ Len(enriched) = Len(chunks)
      /\ \A i \in 1..Len(chunks) : enriched[i].text = chunks[i].text
      /\ TextsOf(enriched) = TextsOf(chunks)
      /\ overlap = 0 => \A i \in 1..Len(chunks) : Elsewhere(enriched[i])
  BY <1>2, <1>4, <1>5, <1>6, EnrichFacts, ZenonT(60)
<1>8. ASSUME NEW i \in 1..Len(chunks) PROVE Fitting(enriched[i], limits)
  <2>1. InBudget(chunks[i].text, max)
    <3>1. chunks[i] \in ChunkRecs(max)
      BY <1>5
    <3> QED
      BY <3>1 DEF ChunkRecs, Pieces
  <2>2. ASSUME overlap < size PROVE Len(chunks[i].text) <= size
    <3>1. chunks[i] \in ShortRecs(max, size)
      BY <1>5, <2>2
    <3> QED
      BY <3>1 DEF ShortRecs
  <2> QED
    BY <1>1, <1>7, <2>1, <2>2 DEF Fitting
<1>9. Tiled(TextsOf(enriched), source, FALSE)
  BY <1>5, <1>7 DEF Tiled
<1> QED
  BY <1>1, <1>3, <1>5, <1>6, <1>7, <1>8, <1>9 DEF EnrichedHold, SourceOf

\* The windows of a file tile its content.
LEMMA FileHolds ==
  ASSUME NEW task, IsTask(task), task.kind = "file", NEW limits
  PROVE  EnrichedHold(FileChunks(task.doc), task, limits)
<1>1. IsDocument(task.doc)
  BY DEF IsTask, IsDocument
<1> QED
  BY <1>1, FileChunksFacts DEF EnrichedHold, SourceOf
-----------------------------------------------------------------------------
(* The inductive invariant                                                 *)

\* What a job has at its stage.
StageFits(stage, chunks, at, task, limits) ==
  /\ stage = "sections" => SectionsHold(chunks, task, limits)
  /\ stage \in {"split", "merged"} => PiecesHold(chunks, task, limits)
  /\ stage = "windows" => WindowsHold(chunks, task, limits)
  /\ stage \in {"chunks", "atom"} => EnrichedHold(chunks, task, limits) /\ at \in Nat \ {0}

JobFits(j, tasks, limits) ==
  /\ IsJob(j)
  /\ j.stage # "start" =>
       j.task \in DOMAIN tasks /\ StageFits(j.stage, j.chunks, j.at, tasks[j.task], limits)

JobsFit ==
  /\ job = [t \in Threads |-> job[t]]
  /\ \A t \in Threads : JobFits(job[t], setup.tasks[t], setup.limits)

\* The vector of a text, as far as its key tells.
EntryFits(entry) == Key(entry.vector.by, entry.vector.of) = Key(entry.vector.by, entry.text)

\* What was indexed and how tasks ended.
IndexFits ==
  /\ outcome = [t \in Threads |-> outcome[t]]
  /\ \A t \in Threads : outcome[t] \in Seq({"stored", "failed", "answered", "error"})
  /\ \A id \in atoms : \E entry \in grid : entry.id = id
  /\ \A entry \in grid : EntryFits(entry)

CallsAreFit == EmbeddingTypeOK /\ CachesFit /\ CallsFit

IndexingFits == setup \in Setups /\ CallsAreFit /\ JobsFit /\ IndexFits

\* A thread's limits, and its task while it is busy, are what they may be.
LEMMA TaskIs ==
  ASSUME setup \in Setups, NEW t \in Threads
  PROVE  IsLimits(Limits) /\ (Busy(t) => IsTask(Task(t)))
BY SetupsAssumption DEF IsLimits, Limits, Busy, Task

\* At first nothing was indexed.
LEMMA FitsInit == Init => IndexingFits
<1> SUFFICES ASSUME Init PROVE IndexingFits
  OBVIOUS
<1>1. CallsAreFit
  <2>1. EmbeddingInit
    BY DEF Init
  <2> QED
    BY <2>1, TypeInit, FitInit DEF CallsAreFit
<1>2. JobsFit
  <2>1. job = [t \in Threads |-> [task |-> 1, stage |-> "start", chunks |-> <<>>, at |-> 0]]
    BY DEF Init
  <2>2. PICK j : j = [task |-> 1, stage |-> "start", chunks |-> <<>>, at |-> 0]
    OBVIOUS
  <2>3. IsJob(j) /\ j.stage = "start"
    BY <2>2 DEF IsJob
  <2>4. job = [t \in Threads |-> job[t]] /\ \A t \in Threads : job[t] = j
    BY <2>1, <2>2
  <2> QED
    BY <2>3, <2>4 DEF JobsFit, JobFits
<1>3. IndexFits
  <2>1. outcome = [t \in Threads |-> <<>>] /\ grid = {} /\ atoms = {}
    BY DEF Init
  <2>2. <<>> \in Seq({"stored", "failed", "answered", "error"})
    BY EmptySeq
  <2> QED
    BY <2>1, <2>2 DEF IndexFits
<1> QED
  BY <1>1, <1>2, <1>3 DEF Init, IndexingFits

\* A step is one of the embedding, or none of its business.
LEMMA StepEmbeds ==
  ASSUME setup \in Setups, CallsAreFit, JobsFit, NEW t \in Threads, Step(t)
  PROVE  CallsAreFit'
<1>1. ASSUME NEW text \in Texts, Enter(t, text) PROVE EmbeddingNext
  BY <1>1 DEF EmbeddingNext
<1>2. CASE EmbedFile(t)
  <2>1. Busy(t) /\ Enter(t, FileText(Task(t)))
    BY <1>2 DEF EmbedFile, At
  <2>2. FileText(Task(t)) \in Texts
    BY <2>1, TaskIs, FileTextType
  <2> QED
    BY <1>1, <2>1, <2>2, TypeStep, FitStep DEF CallsAreFit
<1>3. CASE EmbedQuery(t)
  <2>1. Busy(t) /\ Enter(t, QueryText(Task(t)))
    BY <1>3 DEF EmbedQuery, At
  <2>2. Content(Task(t).doc) \in Texts /\ <<>> \in Texts
    BY <2>1, TaskIs, FileTextType, EmptySeq DEF Texts
  <2>3. QueryText(Task(t)) \in Texts
    BY <2>2 DEF QueryText
  <2> QED
    BY <1>1, <2>1, <2>3, TypeStep, FitStep DEF CallsAreFit
<1>4. CASE EmbedChunk(t)
  <2>1. job[t].stage = "chunks" /\ job[t].at <= Len(job[t].chunks) /\ Enter(t, Chunk(t).embed)
    BY <1>4 DEF EmbedChunk, More, At
  <2>2. JobFits(job[t], setup.tasks[t], setup.limits)
    BY DEF JobsFit
  <2>3. job[t].chunks \in Seq(EnrichedRecs) /\ job[t].at \in Nat \ {0}
    BY <2>1, <2>2 DEF JobFits, StageFits, EnrichedHold
  <2>4. Chunk(t) \in EnrichedRecs
    <3>1. job[t].at \in DOMAIN job[t].chunks
      BY <2>1, <2>3
    <3> QED
      BY <2>3, <3>1 DEF Chunk
  <2>5. Chunk(t).embed \in Texts
    BY <2>4 DEF EnrichedRecs, Texts
  <2> QED
    BY <1>1, <2>1, <2>5, TypeStep, FitStep DEF CallsAreFit
<1>5. CASE Leave(t) \/ Generate(t)
  <2>1. EmbeddingNext
    BY <1>5 DEF EmbeddingNext
  <2> QED
    BY <2>1, TypeStep, FitStep DEF CallsAreFit
<1>6. CASE UNCHANGED embedding
  BY <1>6, TypeStep, FitStep DEF CallsAreFit
<1> QED
  BY <1>2, <1>3, <1>4, <1>5, <1>6
     DEF Step, StoreFile, FileFails, FindSections, SplitSections, MergeSmall, ResplitLong,
         EnrichAll, WindowFile, SkipChunk, StoreAtom, DropAtom, EndUpload, Seek, QueryFails

\* One job moves, to where it has what it should.
LEMMA JobMoves ==
  ASSUME JobsFit, NEW t \in Threads, NEW j, job' = [job EXCEPT ![t] = j], setup' = setup,
         JobFits(j, setup.tasks[t], setup.limits)
  PROVE  JobsFit'
<1>1. /\ job' = [u \in Threads |-> job'[u]] /\ job'[t] = j
      /\ \A u \in Threads \ {t} : job'[u] = job[u]
  BY DEF JobsFit
<1> QED
  BY <1>1 DEF JobsFit

\* A job that works on.
LEMMA WorkFits ==
  ASSUME JobsFit, NEW t \in Threads, setup' = setup, Busy(t), NEW stage, NEW chunks, NEW at,
         Work(t, stage, chunks, at), StageFits(stage, chunks, at, Task(t), Limits)
  PROVE  JobsFit'
<1>1. job = [u \in Threads |-> job[u]] /\ IsJob(job[t])
  BY DEF JobsFit, JobFits
<1>2. /\ job' = [u \in Threads |-> job'[u]] /\ IsJob(job'[t])
      /\ job'[t].task = job[t].task /\ job'[t].stage = stage
      /\ job'[t].chunks = chunks /\ job'[t].at = at
  BY <1>1, WorkJob
<1>3. \A u \in Threads \ {t} : job'[u] = job[u]
  BY <1>1 DEF Work
<1>4. JobFits(job'[t], setup.tasks[t], setup.limits)
  BY <1>2 DEF JobFits, Busy, Task, Limits
<1> QED
  BY <1>2, <1>3, <1>4 DEF JobsFit

\* A job that ends.
LEMMA EndFits ==
  ASSUME JobsFit, IndexFits, NEW t \in Threads, setup' = setup,
         NEW how \in {"stored", "failed", "answered", "error"}, Ends(t, how)
  PROVE  /\ JobsFit'
         /\ outcome' = [u \in Threads |-> outcome'[u]]
         /\ \A u \in Threads : outcome'[u] \in Seq({"stored", "failed", "answered", "error"})
<1>1. PICK j : j = [task |-> job[t].task + 1, stage |-> "start", chunks |-> <<>>, at |-> 0]
  OBVIOUS
<1>2. IsJob(j) /\ j.stage = "start"
  BY <1>1 DEF IsJob
<1>3. job' = [job EXCEPT ![t] = j]
  BY <1>1 DEF Ends
<1>4. JobFits(j, setup.tasks[t], setup.limits)
  BY <1>2 DEF JobFits
<1>5. JobsFit'
  BY <1>3, <1>4, JobMoves
<1>6. PICK list : list = Append(outcome[t], how)
  OBVIOUS
<1>7. list \in Seq({"stored", "failed", "answered", "error"})
  BY <1>6 DEF IndexFits
<1>8. outcome' = [outcome EXCEPT ![t] = list] /\ outcome = [u \in Threads |-> outcome[u]]
  BY <1>6 DEF Ends, IndexFits
<1>9. /\ outcome' = [u \in Threads |-> outcome'[u]] /\ outcome'[t] = list
      /\ \A u \in Threads \ {t} : outcome'[u] = outcome[u]
  BY <1>8
<1> QED
  BY <1>5, <1>7, <1>9 DEF IndexFits

\* A vector that fits its text is stored.
LEMMA InjectFits ==
  ASSUME IndexFits, NEW id, NEW text, NEW vector, Inject(id, text, vector),
         Key(vector.by, vector.of) = Key(vector.by, text)
  PROVE  /\ \A entry \in grid' : EntryFits(entry)
         /\ \A i \in atoms \cup {id} : \E entry \in grid' : entry.id = i
<1>1. PICK new : new = [id |-> id, text |-> text, vector |-> vector]
  OBVIOUS
<1>2. new.id = id /\ EntryFits(new)
  BY <1>1 DEF EntryFits
<1>3. grid' = {entry \in grid : entry.id # id} \cup {new}
  BY <1>1 DEF Inject
<1>4. ASSUME NEW entry \in grid' PROVE EntryFits(entry)
  BY <1>2, <1>3, <1>4 DEF IndexFits
<1>5. ASSUME NEW i \in atoms \cup {id} PROVE \E entry \in grid' : entry.id = i
  <2>1. CASE i = id
    BY <1>2, <1>3, <2>1
  <2>2. CASE i # id
    <3>1. PICK entry \in grid : entry.id = i
      BY <1>5, <2>2 DEF IndexFits
    <3> QED
      BY <1>3, <2>2, <3>1
  <2> QED
    BY <2>1, <2>2
<1> QED
  BY <1>4, <1>5

\* The vector of a call that is done fits its text.
LEMMA DoneFits ==
  ASSUME CallsAreFit, NEW t \in Threads, call[t].at = "done"
  PROVE  Key(call[t].vector.by, call[t].vector.of) = Key(call[t].vector.by, call[t].text)
BY DEF CallsAreFit, CallsFit, FitsWhenMade, Fits

\* What a job that is under way has.
LEMMA StageIs ==
  ASSUME JobsFit, NEW t \in Threads, job[t].stage # "start"
  PROVE  Busy(t) /\ StageFits(job[t].stage, job[t].chunks, job[t].at, Task(t), Limits)
<1>1. JobFits(job[t], setup.tasks[t], setup.limits)
  BY DEF JobsFit
<1> QED
  BY <1>1 DEF JobFits, Busy, Task, Limits

\* The jobs keep what they should have.
LEMMA JobsStay ==
  ASSUME setup \in Setups, JobsFit, IndexFits, NEW t \in Threads, Step(t)
  PROVE  JobsFit'
<1>1. setup' = setup
  BY SetupStays
<1>2. IsLimits(Limits) /\ (Busy(t) => IsTask(Task(t)))
  BY TaskIs
<1>3. ASSUME NEW stage, NEW chunks, NEW at, Busy(t), Work(t, stage, chunks, at),
             StageFits(stage, chunks, at, Task(t), Limits)
      PROVE  JobsFit'
  BY <1>1, <1>3, WorkFits
<1>4. ASSUME NEW stage \in {"file", "parse", "query"}, Busy(t), Reach(t, stage) PROVE JobsFit'
  <2>1. StageFits(stage, job[t].chunks, job[t].at, Task(t), Limits)
    BY <1>4 DEF StageFits
  <2> QED
    BY <1>3, <1>4, <2>1 DEF Reach
<1>5. ASSUME NEW how \in {"stored", "failed", "answered", "error"}, Ends(t, how) PROVE JobsFit'
  BY <1>1, <1>5, EndFits
<1>6. CASE EmbedFile(t) \/ StoreFile(t) \/ EmbedQuery(t)
  BY <1>4, <1>6 DEF EmbedFile, StoreFile, EmbedQuery, At
<1>7. CASE FileFails(t) \/ EndUpload(t) \/ Seek(t) \/ QueryFails(t)
  <2>1. PICK how \in {"stored", "failed", "answered", "error"} : Ends(t, how)
    BY <1>7 DEF FileFails, EndUpload, Seek, QueryFails
  <2> QED
    BY <1>5, <2>1
<1>8. CASE FindSections(t)
  <2>1. Busy(t) /\ Task(t).kind = "note" /\ Work(t, "sections", Sections(Task(t).doc), 0)
    BY <1>8 DEF FindSections, At
  <2>2. SectionsHold(Sections(Task(t).doc), Task(t), Limits)
    BY <1>2, <2>1, FindHolds
  <2>3. StageFits("sections", Sections(Task(t).doc), 0, Task(t), Limits)
    BY <2>2 DEF StageFits
  <2> QED
    BY <1>3, <2>1, <2>3
<1>9. CASE SplitSections(t)
  <2>1. /\ job[t].stage = "sections"
        /\ Work(t, "split", Split(job[t].chunks, Limits.max), 0)
    BY <1>9 DEF SplitSections, At
  <2>2. Busy(t) /\ SectionsHold(job[t].chunks, Task(t), Limits)
    BY <2>1, StageIs DEF StageFits
  <2>3. PiecesHold(Split(job[t].chunks, Limits.max), Task(t), Limits)
    BY <1>2, <2>2, SplitHolds
  <2>4. StageFits("split", Split(job[t].chunks, Limits.max), 0, Task(t), Limits)
    BY <2>3 DEF StageFits
  <2> QED
    BY <1>3, <2>1, <2>2, <2>4
<1>10. CASE MergeSmall(t)
  <2>1. /\ job[t].stage = "split"
        /\ Work(t, "merged", Merge(job[t].chunks, Limits.min, Limits.max), 0)
    BY <1>10 DEF MergeSmall, At
  <2>2. Busy(t) /\ PiecesHold(job[t].chunks, Task(t), Limits)
    BY <2>1, StageIs DEF StageFits
  <2>3. PiecesHold(Merge(job[t].chunks, Limits.min, Limits.max), Task(t), Limits)
    BY <1>2, <2>2, MergeHolds
  <2>4. StageFits("merged", Merge(job[t].chunks, Limits.min, Limits.max), 0, Task(t), Limits)
    BY <2>3 DEF StageFits
  <2> QED
    BY <1>3, <2>1, <2>2, <2>4
<1>11. CASE ResplitLong(t)
  <2>1. /\ job[t].stage = "merged"
        /\ Work(t, "windows", Resplit(job[t].chunks, Limits.size, Limits.overlap), 0)
    BY <1>11 DEF ResplitLong, At
  <2>2. Busy(t) /\ PiecesHold(job[t].chunks, Task(t), Limits)
    BY <2>1, StageIs DEF StageFits
  <2>3. WindowsHold(Resplit(job[t].chunks, Limits.size, Limits.overlap), Task(t), Limits)
    BY <1>2, <2>2, ResplitHolds
  <2>4. StageFits("windows", Resplit(job[t].chunks, Limits.size, Limits.overlap), 0, Task(t), Limits)
    BY <2>3 DEF StageFits
  <2> QED
    BY <1>3, <2>1, <2>2, <2>4
<1>12. CASE EnrichAll(t)
  <2>1. /\ job[t].stage = "windows"
        /\ Work(t, "chunks", Enrich(job[t].chunks, Limits.window, Limits.context), 1)
    BY <1>12 DEF EnrichAll, At
  <2>2. Busy(t) /\ WindowsHold(job[t].chunks, Task(t), Limits)
    BY <2>1, StageIs DEF StageFits
  <2>3. EnrichedHold(Enrich(job[t].chunks, Limits.window, Limits.context), Task(t), Limits)
    BY <1>2, <2>2, EnrichHolds
  <2>4. StageFits("chunks", Enrich(job[t].chunks, Limits.window, Limits.context), 1, Task(t), Limits)
    BY <2>3 DEF StageFits
  <2> QED
    BY <1>3, <2>1, <2>2, <2>4
<1>13. CASE WindowFile(t)
  <2>1. /\ Busy(t) /\ Task(t).kind = "file"
        /\ Work(t, "chunks", FileChunks(Task(t).doc), 1)
    BY <1>13 DEF WindowFile, At, FileChunks
  <2>2. EnrichedHold(FileChunks(Task(t).doc), Task(t), Limits)
    BY <1>2, <2>1, FileHolds
  <2>3. StageFits("chunks", FileChunks(Task(t).doc), 1, Task(t), Limits)
    BY <2>2 DEF StageFits
  <2> QED
    BY <1>3, <2>1, <2>3
<1>14. CASE SkipChunk(t) \/ StoreAtom(t) \/ DropAtom(t)
  <2>1. /\ job[t].stage \in {"chunks", "atom"}
        /\ Work(t, "chunks", job[t].chunks, job[t].at + 1)
    BY <1>14 DEF SkipChunk, StoreAtom, DropAtom, More, At
  <2>2. /\ Busy(t) /\ EnrichedHold(job[t].chunks, Task(t), Limits)
        /\ job[t].at \in Nat \ {0}
    BY <2>1, StageIs DEF StageFits
  <2>3. job[t].at + 1 \in Nat \ {0}
    BY <2>2
  <2>4. StageFits("chunks", job[t].chunks, job[t].at + 1, Task(t), Limits)
    BY <2>2, <2>3 DEF StageFits
  <2> QED
    BY <1>3, <2>1, <2>2, <2>4
<1>15. CASE EmbedChunk(t)
  <2>1. job[t].stage = "chunks" /\ Work(t, "atom", job[t].chunks, job[t].at)
    BY <1>15 DEF EmbedChunk, More, At, Reach
  <2>2. /\ Busy(t) /\ EnrichedHold(job[t].chunks, Task(t), Limits)
        /\ job[t].at \in Nat \ {0}
    BY <2>1, StageIs DEF StageFits
  <2>3. StageFits("atom", job[t].chunks, job[t].at, Task(t), Limits)
    BY <2>2 DEF StageFits
  <2> QED
    BY <1>3, <2>1, <2>2, <2>3
<1>16. CASE UNCHANGED job
  BY <1>1, <1>16 DEF JobsFit
<1> QED
  BY <1>6, <1>7, <1>8, <1>9, <1>10, <1>11, <1>12, <1>13, <1>14, <1>15, <1>16 DEF Step

\* What was indexed stays what it should be.
LEMMA IndexStays ==
  ASSUME setup \in Setups, CallsAreFit, JobsFit, IndexFits, NEW t \in Threads, Step(t)
  PROVE  IndexFits'
<1>1. setup' = setup
  BY SetupStays
<1>2. CASE StoreFile(t)
  <2>1. /\ Inject(<<Task(t).name, 0>>, call[t].text, call[t].vector) /\ call[t].at = "done"
        /\ atoms' = atoms /\ outcome' = outcome
    BY <1>2 DEF StoreFile
  <2>2. /\ \A entry \in grid' : EntryFits(entry)
        /\ \A i \in atoms : \E entry \in grid' : entry.id = i
    BY <2>1, DoneFits, InjectFits
  <2> QED
    BY <2>1, <2>2 DEF IndexFits
<1>3. CASE StoreAtom(t)
  <2>1. /\ Inject(AtomId(t), call[t].text, call[t].vector) /\ call[t].at = "done"
        /\ atoms' = atoms \cup {AtomId(t)} /\ outcome' = outcome
    BY <1>3 DEF StoreAtom
  <2>2. /\ \A entry \in grid' : EntryFits(entry)
        /\ \A i \in atoms \cup {AtomId(t)} : \E entry \in grid' : entry.id = i
    BY <2>1, DoneFits, InjectFits
  <2> QED
    BY <2>1, <2>2 DEF IndexFits
<1>4. CASE FileFails(t) \/ EndUpload(t) \/ Seek(t) \/ QueryFails(t)
  <2>1. PICK how \in {"stored", "failed", "answered", "error"} : Ends(t, how)
    BY <1>4 DEF FileFails, EndUpload, Seek, QueryFails
  <2>2. grid' = grid /\ atoms' = atoms
    BY <1>4 DEF FileFails, EndUpload, Seek, QueryFails
  <2>3. /\ outcome' = [u \in Threads |-> outcome'[u]]
        /\ \A u \in Threads : outcome'[u] \in Seq({"stored", "failed", "answered", "error"})
    BY <1>1, <2>1, EndFits
  <2> QED
    BY <2>2, <2>3 DEF IndexFits
<1>5. CASE grid' = grid /\ atoms' = atoms /\ outcome' = outcome
  BY <1>5 DEF IndexFits
<1> QED
  BY <1>2, <1>3, <1>4, <1>5
     DEF Step, EmbedFile, FindSections, SplitSections, MergeSmall, ResplitLong, EnrichAll,
         WindowFile, SkipChunk, EmbedChunk, DropAtom, EmbedQuery

\* The invariant is inductive.
LEMMA FitsStep == IndexingFits /\ [Next]_vars => IndexingFits'
<1> SUFFICES ASSUME IndexingFits, [Next]_vars PROVE IndexingFits'
  OBVIOUS
<1>1. setup \in Setups /\ CallsAreFit /\ JobsFit /\ IndexFits
  BY DEF IndexingFits
<1>2. ASSUME NEW t \in Threads, Step(t) PROVE IndexingFits'
  <2>1. setup' = setup
    BY <1>2, SetupStays
  <2>2. CallsAreFit' /\ JobsFit' /\ IndexFits'
    BY <1>1, <1>2, StepEmbeds, JobsStay, IndexStays
  <2> QED
    BY <1>1, <2>1, <2>2 DEF IndexingFits
<1>3. CASE UNCHANGED vars
  <2>1. /\ embedding' = embedding /\ setup' = setup /\ job' = job
        /\ grid' = grid /\ atoms' = atoms /\ outcome' = outcome
    BY <1>3 DEF vars
  <2>2. CallsAreFit'
    BY <1>1, <2>1, TypeStep, FitStep DEF CallsAreFit
  <2>3. JobsFit' /\ IndexFits'
    BY <1>1, <2>1 DEF JobsFit, IndexFits
  <2> QED
    BY <1>1, <2>1, <2>2, <2>3 DEF IndexingFits
<1> QED
  BY <1>2, <1>3 DEF Next

\* It holds in every state of every behaviour.
LEMMA AlwaysFits == Spec => []IndexingFits
<1> QED
  BY FitsInit, FitsStep, PTL DEF Spec

-----------------------------------------------------------------------------
(* What the invariant says of the index                                    *)

\* The texts of chunks tile their document's, which has no word twice.
LEMMA ChunksTile ==
  ASSUME setup \in Setups, JobsFit, NEW t \in Threads, Chunked(t)
  PROVE  /\ \E S : HaveTexts(job[t].chunks, S) /\ Source(t) \in Seq(S)
         /\ Distinct(Source(t))
         /\ Tiled(TextsOf(job[t].chunks), Source(t), FALSE)
<1>1. PICK task, limits, c, max, source :
        /\ task = Task(t) /\ limits = Limits /\ c = job[t].chunks
        /\ max = limits.max /\ source = Source(t)
  OBVIOUS
<1>2. Busy(t) /\ StageFits(job[t].stage, c, job[t].at, task, limits)
  BY <1>1, StageIs DEF Chunked
<1>3. IsDocument(task.doc)
  BY <1>1, <1>2, TaskIs DEF IsTask, IsDocument
<1>4. source = SourceOf(task)
  BY <1>1 DEF Source, SourceOf
<1>5. Distinct(source)
  BY <1>3, <1>4, BodyFacts, ContentFacts DEF SourceOf
<1>6. ASSUME c \in Seq(ChunkRecs(max)) PROVE HaveTexts(c, PlainWords)
  <2>1. Len(c) \in Nat /\ DOMAIN c = 1..Len(c) /\ \A i \in 1..Len(c) : c[i] \in ChunkRecs(max)
    BY <1>6
  <2>2. \A i \in 1..Len(c) : c[i].text \in Pieces(max)
    BY <2>1 DEF ChunkRecs
  <2> QED
    BY <2>1, <2>2 DEF HaveTexts, Pieces
<1>7. CASE job[t].stage \in {"split", "merged"}
  <2>1. task.kind = "note" /\ c \in Seq(ChunkRecs(max)) /\ ChunksText(c) = Body(task.doc)
    BY <1>1, <1>2, <1>7 DEF StageFits, PiecesHold
  <2>2. source = Body(task.doc) /\ source \in Seq(PlainWords)
    BY <1>3, <1>4, <2>1, SectionsFacts DEF SourceOf
  <2>3. Tiled(TextsOf(c), ChunksText(c), FALSE)
    BY <2>1, TilesExact
  <2> QED
    BY <1>1, <1>5, <1>6, <2>1, <2>2, <2>3
<1>8. CASE job[t].stage = "windows"
  <2>1. /\ task.kind = "note" /\ c \in Seq(ChunkRecs(max))
        /\ \E apart : Tiled(TextsOf(c), Body(task.doc), apart)
    BY <1>1, <1>2, <1>8 DEF StageFits, WindowsHold
  <2>2. source = Body(task.doc) /\ source \in Seq(PlainWords)
    BY <1>3, <1>4, <2>1, SectionsFacts DEF SourceOf
  <2>3. Tiled(TextsOf(c), source, FALSE)
    BY <2>1, <2>2 DEF Tiled
  <2> QED
    BY <1>1, <1>5, <1>6, <2>1, <2>2, <2>3
<1>9. CASE job[t].stage \in {"chunks", "atom"}
  <2>1. c \in Seq(EnrichedRecs) /\ Tiled(TextsOf(c), source, FALSE)
    BY <1>2, <1>4, <1>9 DEF StageFits, EnrichedHold
  <2>2. HaveTexts(c, Words)
    <3>1. Len(c) \in Nat /\ DOMAIN c = 1..Len(c) /\ \A i \in 1..Len(c) : c[i] \in EnrichedRecs
      BY <2>1
    <3> QED
      BY <3>1 DEF HaveTexts, EnrichedRecs
  <2>3. source \in Seq(Words)
    <3>1. CASE task.kind = "note"
      <4>1. source = Body(task.doc) /\ source \in Seq(PlainWords)
        BY <1>3, <1>4, <3>1, SectionsFacts DEF SourceOf
      <4>2. PlainWords \subseteq Words
        BY DEF PlainWords
      <4> QED
        BY <4>1, <4>2
    <3>2. CASE task.kind # "note"
      BY <1>3, <1>4, <3>2, ContentFacts DEF SourceOf
    <3> QED
      BY <3>1, <3>2
  <2> QED
    BY <1>1, <1>5, <2>1, <2>2, <2>3
<1> QED
  BY <1>7, <1>8, <1>9 DEF Chunked

\* Split, merged and windowed, the chunks hold the text.
LEMMA WordsDoSurvive == IndexingFits => WordsSurvive
<1> SUFFICES ASSUME IndexingFits, NEW t \in Threads, Chunked(t)
             PROVE  InOrder(PlacesOf(job[t].chunks, Source(t)), Source(t))
  BY DEF WordsSurvive, InOrder, PlacesOf
<1>1. setup \in Setups /\ JobsFit
  BY DEF IndexingFits
<1>2. PICK S : HaveTexts(job[t].chunks, S) /\ Source(t) \in Seq(S)
  BY <1>1, ChunksTile
<1>3. Distinct(Source(t)) /\ Tiled(TextsOf(job[t].chunks), Source(t), FALSE)
  BY <1>1, ChunksTile
<1> QED
  BY <1>2, <1>3, TilesSurvive

\* The context of a chunk is elsewhere, and a vector is of its text.
LEMMA ContextsAndGridFit == IndexingFits => ContextIsElsewhere /\ GridFits
<1> SUFFICES ASSUME IndexingFits PROVE ContextIsElsewhere /\ GridFits
  OBVIOUS
<1>1. ASSUME NEW t \in Threads, job[t].stage \in {"chunks", "atom"}, Limits.overlap = 0,
             NEW i \in DOMAIN job[t].chunks
      PROVE  Elsewhere(job[t].chunks[i])
  <2>1. EnrichedHold(job[t].chunks, Task(t), Limits)
    BY <1>1, StageIs DEF IndexingFits, StageFits
  <2>2. job[t].chunks \in Seq(EnrichedRecs) /\ \A k \in 1..Len(job[t].chunks) : Elsewhere(job[t].chunks[k])
    BY <1>1, <2>1 DEF EnrichedHold
  <2>3. i \in 1..Len(job[t].chunks)
    BY <2>2
  <2> QED
    BY <2>2, <2>3
<1>2. ContextIsElsewhere
  BY <1>1 DEF ContextIsElsewhere, Elsewhere
<1>3. GridFits
  BY DEF IndexingFits, IndexFits, EntryFits, GridFits
<1> QED
  BY <1>2, <1>3

\* Chunks keep the budget.
LEMMA BudgetDoesHold == IndexingFits => BudgetHolds
<1> SUFFICES ASSUME IndexingFits, NEW t \in Threads, Chunked(t), Task(t).kind = "note",
                    NEW i \in DOMAIN job[t].chunks
             PROVE  /\ InBudget(job[t].chunks[i].text, Limits.max)
                    /\ job[t].stage \in {"windows", "chunks", "atom"} /\ Limits.overlap < Limits.size
                         => Len(job[t].chunks[i].text) <= Limits.size
  BY DEF BudgetHolds, InBudget
<1>1. PICK c, limits, max, size : /\ c = job[t].chunks /\ limits = Limits
                                  /\ max = limits.max /\ size = limits.size
  OBVIOUS
<1>2. StageFits(job[t].stage, c, job[t].at, Task(t), limits)
  BY <1>1, StageIs DEF IndexingFits, Chunked
<1>3. ASSUME c \in Seq(ChunkRecs(max)) PROVE InBudget(c[i].text, max)
  <2>1. c[i] \in ChunkRecs(max)
    BY <1>1, <1>3
  <2> QED
    BY <2>1 DEF ChunkRecs, Pieces
<1>4. CASE job[t].stage \in {"split", "merged"}
  <2>1. c \in Seq(ChunkRecs(max))
    BY <1>1, <1>2, <1>4 DEF StageFits, PiecesHold
  <2> QED
    BY <1>1, <1>3, <1>4, <2>1
<1>5. CASE job[t].stage = "windows"
  <2>1. c \in Seq(ChunkRecs(max)) /\ (limits.overlap < size => c \in Seq(ShortRecs(max, size)))
    BY <1>1, <1>2, <1>5 DEF StageFits, WindowsHold
  <2>2. ASSUME limits.overlap < size PROVE Len(c[i].text) <= size
    <3>1. c[i] \in ShortRecs(max, size)
      BY <1>1, <2>1, <2>2
    <3> QED
      BY <3>1 DEF ShortRecs
  <2> QED
    BY <1>1, <1>3, <2>1, <2>2
<1>6. CASE job[t].stage \in {"chunks", "atom"}
  <2>1. /\ c \in Seq(EnrichedRecs)
        /\ \A k \in 1..Len(c) : Fitting(c[k], limits)
    BY <1>2, <1>6 DEF StageFits, EnrichedHold
  <2>2. Fitting(c[i], limits)
    BY <1>1, <2>1
  <2> QED
    BY <1>1, <2>2 DEF Fitting
<1> QED
  BY <1>4, <1>5, <1>6 DEF Chunked

(* The chunks of a document are its text: however it is split, merged and cut into
   windows, they hold its words, all of them and in their order; no chunk's
   context has a word of the chunk unless windows overlap; and a vector in the
   grid is of the text it stands for, as far as the cache's keys tell
   (text_chunker.py, context_extractor.py, knowledge_atom.py).  Which chunks get
   there is another matter: those that are too short do not. *)
THEOREM ChunksAreText == Spec => []ChunksAreTheText
<1>1. IndexingFits => ChunksAreTheText
  <2> SUFFICES ASSUME IndexingFits PROVE ChunksAreTheText
    OBVIOUS
  <2>1. TypeOK
    BY DEF IndexingFits, CallsAreFit, IndexFits, TypeOK
  <2> QED
    BY <2>1, WordsDoSurvive, ContextsAndGridFit DEF ChunksAreTheText
<1> QED
  BY <1>1, AlwaysFits, PTL

(* A chunk of a note is within the budget of words, or one sentence; after the
   windows it is within their size, too (_split_by_sentences, _split_section,
   _merge_small_chunks, resplit_chunks_character_windows). *)
THEOREM BudgetIsKept == Spec => []BudgetHolds
<1> QED
  BY BudgetDoesHold, AlwaysFits, PTL

-----------------------------------------------------------------------------
(* Headings                                                                *)

\* Titles are the headings above what follows block i, each at its level, and as
\* many as the level of the last of them.
Stack(titles, doc, i) ==
  /\ Len(titles) \in Nat /\ DOMAIN titles = 1..Len(titles)
  /\ \A k \in 1..Len(titles) : \E j \in Levels(doc) :
       IsAbove(doc, j, i + 1) /\ doc[j].level = k /\ titles[k] = Title(j)
  /\ \A j \in Levels(doc) : IsAbove(doc, j, i + 1) =>
       doc[j].level <= Len(titles) /\ titles[doc[j].level] = Title(j)
  /\ \A j \in Levels(doc) : j <= i /\ (\A m \in Levels(doc) : ~(j < m /\ m <= i)) =>
       Len(titles) = doc[j].level

\* Headings are blocks with a level.
LEMMA LevelsFacts ==
  ASSUME NEW doc, IsDocument(doc)
  PROVE  \A j \in Levels(doc) : /\ j \in DOMAIN doc /\ j \in Nat \ {0}
                                /\ doc[j].kind = "heading" /\ doc[j].level \in Nat \ {0}
<1> SUFFICES ASSUME NEW j \in Levels(doc)
             PROVE  /\ j \in DOMAIN doc /\ j \in Nat \ {0}
                    /\ doc[j].kind = "heading" /\ doc[j].level \in Nat \ {0}
  OBVIOUS
<1>1. doc \in Seq(Headings \cup Paragraphs)
  BY DEF IsDocument, Documents
<1>2. j \in DOMAIN doc /\ doc[j].kind = "heading"
  BY DEF Levels
<1>3. j \in Nat \ {0} /\ doc[j] \in Headings \cup Paragraphs
  BY <1>1, <1>2
<1>4. doc[j] \in Headings
  BY <1>2, <1>3 DEF Paragraphs
<1> QED
  BY <1>2, <1>3, <1>4 DEF Headings

\* Nothing stands above the first block.
LEMMA StackNone ==
  ASSUME NEW doc, IsDocument(doc)
  PROVE  Stack(<<>>, doc, 0)
<1>1. PICK e : e = <<>>
  OBVIOUS
<1>2. Len(e) = 0 /\ DOMAIN e = 1..Len(e)
  BY <1>1
<1>3. \A j \in Levels(doc) : j \in Nat \ {0}
  BY LevelsFacts
<1>4. \A j \in Levels(doc) : ~IsAbove(doc, j, 0 + 1) /\ ~(j <= 0)
  BY <1>3 DEF IsAbove
<1>5. Stack(e, doc, 0)
  BY <1>2, <1>4 DEF Stack
<1> QED
  BY <1>1, <1>5

\* What is on the stack is what stands above.
LEMMA StackIsAbove ==
  ASSUME NEW doc, IsDocument(doc), NEW i \in Nat, NEW titles, Stack(titles, doc, i)
  PROVE  AreAbove(titles, doc, i + 1)
<1>1. \A j \in Levels(doc) : j \in Nat /\ doc[j].level \in Nat \ {0}
  BY LevelsFacts
<1>2. PICK n : n = Len(titles) /\ n \in Nat /\ DOMAIN titles = 1..n
  BY DEF Stack
<1>3. \A k \in 1..n : \E j \in Levels(doc) : IsAbove(doc, j, i + 1) /\ doc[j].level = k /\ titles[k] = Title(j)
  BY <1>2 DEF Stack
<1>4. ASSUME NEW j \in Levels(doc), IsAbove(doc, j, i + 1)
      PROVE  \E k \in 1..n : titles[k] = Title(j)
  <2>1. doc[j].level <= n /\ titles[doc[j].level] = Title(j)
    BY <1>2, <1>4 DEF Stack
  <2>2. doc[j].level \in 1..n
    BY <1>1, <1>2, <2>1
  <2> QED
    BY <2>1, <2>2
<1>5. ASSUME NEW k \in 1..n, NEW l \in 1..n, k < l
      PROVE  titles[k][1] < titles[l][1]
  <2>1. PICK a \in Levels(doc) : IsAbove(doc, a, i + 1) /\ doc[a].level = k /\ titles[k] = Title(a)
    BY <1>3
  <2>2. PICK b \in Levels(doc) : IsAbove(doc, b, i + 1) /\ doc[b].level = l /\ titles[l] = Title(b)
    BY <1>3
  <2>3. a # b /\ a \in Nat /\ b \in Nat
    BY <1>1, <1>2, <1>5, <2>1, <2>2
  <2>4. ~(b < a)
    BY <1>2, <1>5, <2>1, <2>2 DEF IsAbove
  <2>5. a < b
    BY <2>3, <2>4
  <2>6. titles[k][1] = a /\ titles[l][1] = b
    BY <2>1, <2>2 DEF Title
  <2> QED
    BY <2>5, <2>6
<1> QED
  BY <1>2, <1>3, <1>4, <1>5 DEF AreAbove

\* A paragraph leaves the stack as it is.
LEMMA StackParagraph ==
  ASSUME NEW doc, IsDocument(doc), NEW i \in Nat, i + 1 \notin Levels(doc), NEW titles, Stack(titles, doc, i)
  PROVE  Stack(titles, doc, i + 1)
<1>1. \A j \in Levels(doc) : j \in Nat /\ j # i + 1
  BY LevelsFacts
<1>2. \A j \in Levels(doc) : /\ j < i + 1 <=> j < (i + 1) + 1
                             /\ j <= i <=> j <= i + 1
  BY <1>1
<1>3. \A j \in Levels(doc) : IsAbove(doc, j, i + 1) <=> IsAbove(doc, j, (i + 1) + 1)
  BY <1>2 DEF IsAbove
<1>4. \A j \in Levels(doc) :
        (\A m \in Levels(doc) : ~(j < m /\ m <= i)) <=> (\A m \in Levels(doc) : ~(j < m /\ m <= i + 1))
  BY <1>2
<1> QED
  BY <1>2, <1>3, <1>4 DEF Stack

\* A heading takes its place: those of its level and below are no longer above.
LEMMA StackHeading ==
  ASSUME NEW doc, IsDocument(doc), SkipsNoLevel(doc), NEW i \in Nat, i + 1 \in Levels(doc),
         NEW titles \in Seq(TitleWords), Stack(titles, doc, i)
  PROVE  Stack(Append(Above(titles, doc[i + 1].level), Title(i + 1)), doc, i + 1)
<1>1. \A j \in Levels(doc) : j \in Nat /\ doc[j].level \in Nat \ {0}
  BY LevelsFacts
<1>2. PICK n, level, new : n = Len(titles) /\ level = doc[i + 1].level /\ new = i + 1
  OBVIOUS
<1>3. n \in Nat /\ level \in Nat \ {0} /\ new \in Nat /\ new \in Levels(doc) /\ doc[new].level = level
  BY <1>1, <1>2
<1>4. level <= n + 1
  <2>1. CASE level = 1
    BY <1>3, <2>1
  <2>2. CASE level # 1
    <3>1. PICK j \in Levels(doc) : /\ j < new /\ level <= doc[j].level + 1
                                   /\ \A k \in Levels(doc) : ~(j < k /\ k < new)
      BY <1>3, <2>2 DEF SkipsNoLevel
    <3>2. j <= i /\ \A m \in Levels(doc) : ~(j < m /\ m <= i)
      BY <1>1, <1>2, <3>1
    <3>3. n = doc[j].level
      BY <1>2, <3>2 DEF Stack
    <3> QED
      BY <3>1, <3>3
  <2> QED
    BY <2>1, <2>2
<1>5. PICK above : above = Above(titles, level)
  OBVIOUS
<1>6. /\ above \in Seq(TitleWords) /\ Len(above) = level - 1
      /\ \A k \in 1..(level - 1) : above[k] = titles[k]
  <2>1. CASE level <= n
    <3>1. above = SubSeq(titles, 1, level - 1)
      BY <1>2, <1>5, <2>1 DEF Above
    <3>2. level - 1 \in 0..n
      BY <1>3, <2>1
    <3> QED
      BY <1>2, <1>3, <3>1, <3>2
  <2>2. CASE ~(level <= n)
    <3>1. above = titles /\ n = level - 1
      BY <1>2, <1>3, <1>4, <1>5, <2>2 DEF Above
    <3> QED
      BY <1>2, <3>1
  <2> QED
    BY <2>1, <2>2
<1>7. PICK after : after = Append(above, Title(new))
  OBVIOUS
<1>8. /\ Len(after) = level /\ DOMAIN after = 1..level /\ after[level] = Title(new)
      /\ \A k \in 1..(level - 1) : after[k] = titles[k]
  <2>1. /\ Len(after) = Len(above) + 1 /\ DOMAIN after = 1..Len(after)
        /\ after[Len(above) + 1] = Title(new) /\ \A k \in 1..Len(above) : after[k] = above[k]
    <3>1. PICK title : title = Title(new)
      OBVIOUS
    <3>2. title \in TitleWords
      BY <1>3, <3>1, LevelsFacts DEF IsDocument, TitleWords, IsTitle, Title
    <3> QED
      BY <1>6, <1>7, <3>1, <3>2, AppendProperties
  <2> QED
    BY <1>3, <1>6, <2>1
<1>9. ASSUME NEW j \in Levels(doc), j # new
      PROVE  IsAbove(doc, j, new + 1) <=> IsAbove(doc, j, new) /\ doc[j].level < level
  <2>1. j \in Nat /\ doc[j].level \in Nat
    BY <1>1
  <2>2. (j < new + 1 <=> j < new) /\ \A m \in Levels(doc) : m < new + 1 <=> m < new \/ m = new
    BY <1>1, <1>3, <1>9, <2>1
  <2>3. ASSUME IsAbove(doc, j, new + 1) PROVE IsAbove(doc, j, new) /\ doc[j].level < level
    <3>1. j < new /\ doc[new].level > doc[j].level
      BY <1>3, <2>2, <2>3 DEF IsAbove
    <3>2. IsAbove(doc, j, new)
      BY <2>2, <2>3 DEF IsAbove
    <3> QED
      BY <1>3, <2>1, <3>1, <3>2
  <2>4. ASSUME IsAbove(doc, j, new), doc[j].level < level PROVE IsAbove(doc, j, new + 1)
    <3>1. doc[new].level > doc[j].level
      BY <1>3, <2>1, <2>4
    <3> QED
      BY <2>2, <2>4, <3>1 DEF IsAbove
  <2> QED
    BY <2>3, <2>4
<1>10. IsAbove(doc, new, new + 1)
  BY <1>1, <1>3 DEF IsAbove
<1>11. ASSUME NEW k \in 1..level
       PROVE  \E j \in Levels(doc) : IsAbove(doc, j, new + 1) /\ doc[j].level = k /\ after[k] = Title(j)
  <2>1. CASE k = level
    BY <1>3, <1>8, <1>10, <2>1
  <2>2. CASE k # level
    <3>1. k \in 1..(level - 1) /\ k \in 1..n /\ k < level
      BY <1>3, <1>4, <2>2
    <3>2. PICK j \in Levels(doc) : IsAbove(doc, j, new) /\ doc[j].level = k /\ titles[k] = Title(j)
      BY <1>2, <3>1 DEF Stack
    <3>3. j # new
      BY <1>1, <3>2 DEF IsAbove
    <3> QED
      BY <1>8, <1>9, <3>1, <3>2, <3>3
  <2> QED
    BY <2>1, <2>2
<1>12. ASSUME NEW j \in Levels(doc), IsAbove(doc, j, new + 1)
       PROVE  doc[j].level <= level /\ after[doc[j].level] = Title(j)
  <2>1. CASE j = new
    BY <1>3, <1>8, <2>1
  <2>2. CASE j # new
    <3>1. IsAbove(doc, j, new) /\ doc[j].level < level
      BY <1>9, <1>12, <2>2
    <3>2. titles[doc[j].level] = Title(j)
      BY <1>2, <3>1 DEF Stack
    <3>3. doc[j].level \in 1..(level - 1) /\ doc[j].level <= level
      BY <1>1, <1>3, <3>1
    <3> QED
      BY <1>8, <3>2, <3>3
  <2> QED
    BY <2>1, <2>2
<1>13. ASSUME NEW j \in Levels(doc), j <= new, \A m \in Levels(doc) : ~(j < m /\ m <= new)
       PROVE  level = doc[j].level
  <2>1. j = new
    <3>1. ~(j < new /\ new <= new)
      BY <1>3, <1>13
    <3>2. j \in Nat /\ new \in Nat
      BY <1>3, LevelsFacts DEF IsDocument
    <3>3. j <= new
      BY <1>13
    <3> QED
      BY <3>1, <3>2, <3>3
  <2> QED
    BY <1>3, <2>1
<1>14. Stack(after, doc, new)
  BY <1>3, <1>8, <1>11, <1>12, <1>13 DEF Stack
<1> QED
  BY <1>2, <1>5, <1>7, <1>14

\* A text all of whose words stand under the headings.
Under(x, headings, doc) == \A p \in 1..Len(x) : AreAbove(headings, doc, x[p][1])

\* Two texts under the same headings are so together.
LEMMA UnderJoined ==
  ASSUME NEW S, NEW a \in Seq(S), NEW b \in Seq(S), NEW headings, NEW doc,
         Under(a, headings, doc), Under(b, headings, doc)
  PROVE  Under(a \o b, headings, doc)
<1>1. PICK c : c = a \o b
  OBVIOUS
<1>2. PICK m, n : m = Len(a) /\ n = Len(b)
  OBVIOUS
<1>3. /\ m \in Nat /\ n \in Nat /\ Len(c) = m + n
      /\ \A i \in 1..m : c[i] = a[i]
      /\ \A i \in 1..n : c[m + i] = b[i]
  BY <1>1, <1>2, Joined DEF IsJoin
<1>4. ASSUME NEW p \in 1..Len(c) PROVE AreAbove(headings, doc, c[p][1])
  <2>1. CASE p <= m
    BY <1>2, <1>3, <2>1 DEF Under
  <2>2. CASE ~(p <= m)
    <3>1. p - m \in 1..n /\ m + (p - m) = p
      BY <1>3, <2>2
    <3>2. c[p] = b[p - m]
      BY <1>3, <3>1
    <3> QED
      BY <1>2, <3>1, <3>2 DEF Under
  <2> QED
    BY <2>1, <2>2
<1> QED
  BY <1>1, <1>4 DEF Under

\* The headings that a block finds, sections whose texts stand under their
\* headings, and chunks whose first words do.
TitlesOf(sections) == IF sections = <<>> THEN <<>> ELSE Last(sections).headings
SectionsFiled(sections, doc) ==
  \A s \in 1..Len(sections) : Under(ParasText(sections[s].paras), sections[s].headings, doc)
ChunksFiled(chunks, doc) ==
  \A i \in 1..Len(chunks) : AreAbove(chunks[i].headings, doc, chunks[i].text[1][1])

\* One more section that is filed.
LEMMA FiledAppend ==
  ASSUME NEW S, NEW sections \in Seq(S), NEW section \in S, NEW doc,
         SectionsFiled(sections, doc), Under(ParasText(section.paras), section.headings, doc)
  PROVE  SectionsFiled(Append(sections, section), doc) /\ TitlesOf(Append(sections, section)) = section.headings
<1>1. PICK n, more : n = Len(sections) /\ more = Append(sections, section)
  OBVIOUS
<1>2. /\ n \in Nat /\ Len(more) = n + 1 /\ more[n + 1] = section /\ more # <<>>
      /\ \A k \in 1..n : more[k] = sections[k]
  BY <1>1, AppendProperties
<1>3. ASSUME NEW s \in 1..Len(more) PROVE Under(ParasText(more[s].paras), more[s].headings, doc)
  <2>1. CASE s = n + 1
    BY <1>2, <2>1
  <2>2. CASE s # n + 1
    <3>1. s \in 1..n
      BY <1>2, <2>2
    <3> QED
      BY <1>1, <1>2, <3>1 DEF SectionsFiled
  <2> QED
    BY <2>1, <2>2
<1>4. TitlesOf(more) = section.headings
  BY <1>2 DEF TitlesOf, Last
<1> QED
  BY <1>1, <1>3, <1>4 DEF SectionsFiled

\* A block keeps sections filed.
LEMMA AddBlockFiled ==
  ASSUME NEW doc, IsDocument(doc), SkipsNoLevel(doc), NEW i \in Nat, i + 1 \in DOMAIN doc,
         NEW sections \in Seq(SectionRecs), SectionsFiled(sections, doc), Stack(TitlesOf(sections), doc, i)
  PROVE  /\ SectionsFiled(AddBlock(doc, sections, i + 1), doc)
         /\ Stack(TitlesOf(AddBlock(doc, sections, i + 1)), doc, i + 1)
<1>1. PICK new, titles, more : new = i + 1 /\ titles = TitlesOf(sections) /\ more = AddBlock(doc, sections, new)
  OBVIOUS
<1>2. new \in DOMAIN doc /\ Stack(titles, doc, i) /\ AreAbove(titles, doc, new)
  BY <1>1, StackIsAbove
<1>3. titles \in Seq(TitleWords)
  <2>1. CASE sections = <<>>
    BY <1>1, <2>1, EmptySeq DEF TitlesOf
  <2>2. CASE sections # <<>>
    <3>1. Len(sections) \in 1..Len(sections)
      BY <2>2, EmptySeq
    <3>2. Last(sections) \in SectionRecs
      BY <3>1, ElementOfSeq DEF Last
    <3> QED
      BY <1>1, <2>2, <3>2 DEF SectionRecs, TitlesOf
  <2> QED
    BY <2>1, <2>2
<1>4. doc[new].kind \in {"heading", "paragraph"}
  <2>1. doc \in Seq(Headings \cup Paragraphs)
    BY DEF IsDocument, Documents
  <2>2. doc[new] \in Headings \cup Paragraphs
    BY <1>2, <2>1
  <2> QED
    BY <2>2 DEF Headings, Paragraphs
<1>5. CASE doc[new].kind = "heading"
  <2>1. new \in Levels(doc)
    BY <1>2, <1>5 DEF Levels
  <2>2. PICK above, after, section : /\ above = Above(titles, doc[new].level)
                                     /\ after = Append(above, Title(new))
                                     /\ section = [headings |-> after, paras |-> <<>>]
    OBVIOUS
  <2>3. Stack(after, doc, new)
    BY <1>1, <1>2, <1>3, <2>1, <2>2, StackHeading
  <2>4. more = Append(sections, section)
    BY <1>1, <1>5, <2>2 DEF AddBlock, TitlesOf
  <2>5. section.headings = after /\ section.paras = <<>>
    BY <2>2
  <2>6. Under(ParasText(section.paras), section.headings, doc)
    <3>1. ParasText(<<>>) = <<>>
      BY FlattenFew DEF ParasText
    <3>2. Len(ParasText(section.paras)) = 0
      BY <2>5, <3>1
    <3> QED
      BY <3>2 DEF Under
  <2>7. SectionsFiled(more, doc) /\ TitlesOf(more) = after
    <3>1. PICK S : sections \in Seq(S) /\ section \in S
      <4>1. SectionRecs \subseteq SectionRecs \cup {section}
        OBVIOUS
      <4>2. sections \in Seq(SectionRecs \cup {section})
        BY <4>1, SeqMonotonic
      <4> QED
        BY <4>2
    <3> QED
      BY <2>4, <2>5, <2>6, <3>1, FiledAppend
  <2> QED
    BY <1>1, <2>3, <2>7
<1>6. CASE doc[new].kind # "heading"
  <2>1. new \notin Levels(doc)
    BY <1>6 DEF Levels
  <2>2. Stack(titles, doc, new)
    BY <1>1, <1>2, <2>1, StackParagraph
  <2>3. PICK para, x : para = Sentences(new, doc[new]) /\ x = FlattenSeq(para)
    OBVIOUS
  <2>4. para \in Paras
    BY <1>2, <1>6, <2>3, ParagraphIsOne
  <2>5. x \in Seq(PlainWords) /\ \A w \in 1..Len(x) : x[w][1] = new
    <3>1. x = BlockWords(new, doc[new])
      BY <1>6, <2>3 DEF BlockWords
    <3>2. x \in Seq(PlainWords)
      BY <1>2, <1>6, <3>1, AddBlockFacts, EmptySeq DEF BodyPart
    <3>3. \A w \in 1..Len(x) : x[w][1] = new
      BY <1>2, <3>1, BlockFacts
    <3> QED
      BY <3>2, <3>3
  <2>6. Under(x, titles, doc)
    BY <1>2, <2>5 DEF Under
  <2>7. CASE sections = <<>>
    <3>1. PICK section : section = [headings |-> <<>>, paras |-> <<para>>]
      OBVIOUS
    <3>2. section.headings = titles /\ section.paras = <<para>>
      BY <1>1, <2>7, <3>1 DEF TitlesOf
    <3>3. more = Append(sections, section)
      BY <1>1, <1>4, <1>6, <2>3, <2>7, <3>1 DEF AddBlock
    <3>4. ParasText(<<para>>) = x
      BY <2>3, FlattenFew DEF ParasText
    <3>5. Under(ParasText(section.paras), section.headings, doc)
      BY <2>6, <3>2, <3>4
    <3>6. sections \in Seq({section}) /\ section \in {section}
      BY <2>7, EmptySeq
    <3> QED
      BY <1>1, <2>2, <3>2, <3>3, <3>5, <3>6, FiledAppend
  <2>8. CASE sections # <<>>
    <3>1. PICK a, e : a \in Seq(SectionRecs) /\ e \in SectionRecs /\ sections = Append(a, e)
      BY <2>8, SequenceEmptyOrAppend
    <3>2. PICK n : n = Len(sections)
      OBVIOUS
    <3>3. /\ n = Len(a) + 1 /\ Len(a) \in Nat /\ sections[n] = e /\ Last(sections) = e
          /\ \A k \in 1..Len(a) : sections[k] = a[k]
      BY <3>1, <3>2, AppendProperties DEF Last
    <3>4. PICK f : f = [e EXCEPT !.paras = Append(@, para)]
      OBVIOUS
    <3>5. f \in SectionRecs /\ f.paras = Append(e.paras, para) /\ f.headings = e.headings /\ e.paras \in Seq(Paras)
      <4>1. e.paras \in Seq(Paras) /\ e.headings \in Seq(TitleWords)
        BY <3>1 DEF SectionRecs
      <4>2. PICK paras : paras = Append(e.paras, para)
        OBVIOUS
      <4>3. paras \in Seq(Paras)
        BY <2>4, <4>1, <4>2, AppendProperties
      <4>4. f = [headings |-> e.headings, paras |-> paras]
        BY <3>1, <3>4, <4>2 DEF SectionRecs
      <4> QED
        BY <4>1, <4>2, <4>3, <4>4 DEF SectionRecs
    <3>6. more = [sections EXCEPT ![n] = f]
      <4>1. more = [sections EXCEPT ![n].paras = Append(@, para)]
        BY <1>1, <1>4, <1>6, <2>3, <2>8, <3>2 DEF AddBlock
      <4> QED
        BY <3>3, <3>4, <4>1
    <3>7. more = Append(a, f)
      <4>1. IsMore(sections, a, e)
        BY <3>1 DEF IsMore
      <4>2. IsExcept(Append(a, f), sections, Len(sections), f)
        BY <3>1, <3>5, <4>1, ExceptLast
      <4> QED
        BY <3>2, <3>6, <4>2 DEF IsExcept
    <3>8. titles = e.headings
      BY <1>1, <2>8, <3>3 DEF TitlesOf
    <3>9. Under(ParasText(e.paras), titles, doc) /\ SectionsFiled(a, doc)
      <4>1. n \in 1..Len(sections) /\ \A k \in 1..Len(a) : k \in 1..Len(sections)
        BY <3>2, <3>3
      <4> QED
        BY <3>3, <3>8, <4>1 DEF SectionsFiled
    <3>10. Under(ParasText(f.paras), f.headings, doc)
      <4>1. ParasText(f.paras) = ParasText(e.paras) \o x /\ ParasText(e.paras) \in Seq(PlainWords)
        BY <2>3, <2>4, <3>5, ParasTextAppend, ParasTextType
      <4> QED
        BY <2>5, <2>6, <3>5, <3>8, <3>9, <4>1, UnderJoined
    <3>11. SectionsFiled(more, doc) /\ TitlesOf(more) = titles
      BY <3>1, <3>5, <3>7, <3>8, <3>9, <3>10, FiledAppend
    <3> QED
      BY <1>1, <2>2, <3>11
  <2> QED
    BY <2>7, <2>8
<1> QED
  BY <1>5, <1>6

\* The sections of a note that skips no level are filed under their headings.
LEMMA SectionsAreFiled ==
  ASSUME NEW doc, IsDocument(doc), SkipsNoLevel(doc)
  PROVE  SectionsFiled(Sections(doc), doc)
<1>1. PICK n : n = Len(doc)
  OBVIOUS
<1>2. n \in Nat /\ DOMAIN doc = 1..n
  BY <1>1 DEF IsDocument, Documents
<1>3. PICK f : /\ f[0] = <<>> /\ f[n] = Sections(doc)
               /\ \A i \in 1..n : f[i] = AddBlock(doc, f[i - 1], i)
  BY <1>1, <1>2, SectionsSteps
<1> DEFINE Good(i) == /\ f[i] \in Seq(SectionRecs) /\ SectionsFiled(f[i], doc)
                      /\ Stack(TitlesOf(f[i]), doc, i)
           T == {i \in 0..n : Good(i)}
<1>4. 0 \in T
  <2>1. PICK e : e = <<>>
    OBVIOUS
  <2>2. Len(e) = 0 /\ f[0] = e /\ e \in Seq(SectionRecs)
    BY <1>3, <2>1, EmptySeq
  <2>3. SectionsFiled(e, doc)
    BY <2>2 DEF SectionsFiled
  <2>4. Stack(TitlesOf(e), doc, 0)
    BY <2>1, StackNone DEF TitlesOf
  <2>5. Good(0)
    BY <2>2, <2>3, <2>4
  <2> QED
    BY <1>2, <2>5
<1>5. ASSUME NEW i \in 0..(n - 1), i \in T PROVE i + 1 \in T
  <2>1. i + 1 \in 1..n /\ i + 1 \in 0..n /\ (i + 1) - 1 = i /\ i \in Nat /\ i + 1 \in DOMAIN doc
    BY <1>2
  <2>2. PICK secs : secs = f[i]
    OBVIOUS
  <2>3. secs \in Seq(SectionRecs) /\ SectionsFiled(secs, doc) /\ Stack(TitlesOf(secs), doc, i)
    BY <1>5, <2>2
  <2>4. f[i + 1] = AddBlock(doc, secs, i + 1)
    BY <1>3, <2>1, <2>2
  <2>5. AddBlock(doc, secs, i + 1) \in Seq(SectionRecs)
    BY <2>1, <2>3, AddBlockFacts
  <2>6. /\ SectionsFiled(AddBlock(doc, secs, i + 1), doc)
        /\ Stack(TitlesOf(AddBlock(doc, secs, i + 1)), doc, i + 1)
    BY <2>1, <2>3, AddBlockFiled
  <2>7. Good(i + 1)
    BY <2>4, <2>5, <2>6
  <2> QED
    BY <2>1, <2>7
<1>6. n \in T
  <2>1. 0..n \subseteq T
    <3> HIDE DEF T
    <3> QED
      BY <1>2, <1>4, <1>5, Climb
  <2> QED
    BY <1>2, <2>1
<1> QED
  BY <1>3, <1>6

\* The chunks of a section stand under its headings.
LEMMA SplitPartFiled ==
  ASSUME NEW max \in Nat, NEW section \in SectionRecs, NEW doc,
         Under(ParasText(section.paras), section.headings, doc)
  PROVE  ChunksFiled(SplitPart(section, max), doc)
<1>1. PICK c, x : c = SplitPart(section, max) /\ x = ParasText(section.paras)
  OBVIOUS
<1>2. c \in Seq(ChunkRecs(max)) /\ ChunksText(c) = x
  BY <1>1, SplitPartFacts
<1>3. PICK texts : texts = TextsOf(c)
  OBVIOUS
<1>4. PICK st : Tile(st, texts, x)
  <2>1. Tiled(texts, x, FALSE)
    BY <1>2, <1>3, TilesExact
  <2> QED
    BY <2>1 DEF Tiled
<1>5. Len(texts) = Len(c) /\ \A i \in 1..Len(c) : texts[i] = c[i].text
  BY <1>2, <1>3, TextsOfType
<1>6. ASSUME NEW i \in 1..Len(c) PROVE c[i].headings = section.headings
  <2>1. CASE section.paras = <<>>
    <3>1. Len(c) = 0
      BY <1>1, <2>1 DEF SplitPart
    <3> QED
      BY <1>6, <3>1
  <2>2. CASE section.paras # <<>>
    <3>1. PICK parts : parts = SectionTexts(section.paras, max)
      OBVIOUS
    <3>2. c = [k \in DOMAIN parts |-> [headings |-> section.headings, text |-> parts[k]]]
      BY <1>1, <2>2, <3>1 DEF SplitPart, SectionChunks
    <3>3. i \in DOMAIN parts
      BY <1>2, <3>2
    <3> QED
      BY <3>2, <3>3
  <2> QED
    BY <2>1, <2>2
<1>7. ASSUME NEW i \in 1..Len(c) PROVE AreAbove(c[i].headings, doc, c[i].text[1][1])
  <2>1. Stretch(c[i].text, x, st[i])
    BY <1>4, <1>5 DEF Tile
  <2>2. PICK y, o : y = c[i].text /\ o = st[i]
    OBVIOUS
  <2>3. Len(y) \in Nat \ {0} /\ o \in Nat /\ o + Len(y) <= Len(x) /\ \A w \in 1..Len(y) : y[w] = x[o + w]
    BY <2>1, <2>2 DEF Stretch
  <2>4. Len(x) \in Nat
    BY <1>4 DEF Tile
  <2>5. o + 1 \in 1..Len(x) /\ y[1] = x[o + 1]
    BY <2>3, <2>4
  <2>6. AreAbove(section.headings, doc, x[o + 1][1])
    BY <1>1, <2>5 DEF Under
  <2> QED
    BY <1>6, <2>2, <2>5, <2>6
<1> QED
  BY <1>1, <1>7 DEF ChunksFiled

\* Split sections are filed chunks.
LEMMA SplitIsFiled ==
  ASSUME NEW max \in Nat, NEW sections \in Seq(SectionRecs), NEW doc, SectionsFiled(sections, doc)
  PROVE  ChunksFiled(Split(sections, max), doc)
<1>1. PICK n, parts : n = Len(sections) /\ parts = [i \in 1..n |-> SplitPart(sections[i], max)]
  OBVIOUS
<1>2. n \in Nat /\ DOMAIN sections = 1..n /\ \A i \in 1..n : sections[i] \in SectionRecs
  BY <1>1
<1>3. Split(sections, max) = FlattenSeq(parts)
  BY <1>1, <1>2 DEF Split, SplitPart
<1>4. \A i \in 1..n : parts[i] = SplitPart(sections[i], max) /\ parts[i] \in Seq(ChunkRecs(max))
  BY <1>1, <1>2, SplitPartFacts
<1>5. parts \in Seq(Seq(ChunkRecs(max))) /\ Len(parts) = n
  <2>1. parts = [i \in 1..n |-> parts[i]]
    BY <1>1
  <2> QED
    BY <1>2, <1>4, <2>1, ListOf
<1>6. ASSUME NEW i \in 1..n PROVE ChunksFiled(parts[i], doc)
  <2>1. Under(ParasText(sections[i].paras), sections[i].headings, doc)
    BY <1>1 DEF SectionsFiled
  <2> QED
    BY <1>2, <1>4, <2>1, SplitPartFiled
<1>7. PICK c : c = FlattenSeq(parts)
  OBVIOUS
<1>8. ASSUME NEW k \in 1..Len(c) PROVE AreAbove(c[k].headings, doc, c[k].text[1][1])
  <2>1. PICK e : e = c[k]
    OBVIOUS
  <2>2. IsIn(e, FlattenSeq(parts))
    BY <1>7, <2>1 DEF IsIn
  <2>3. PICK i \in 1..n : IsIn(e, parts[i])
    BY <1>5, <2>2, FlattenFrom
  <2>4. PICK p \in 1..Len(parts[i]) : parts[i][p] = e
    BY <2>3 DEF IsIn
  <2>5. AreAbove(e.headings, doc, e.text[1][1])
    BY <1>6, <2>4 DEF ChunksFiled
  <2> QED
    BY <2>1, <2>5
<1> QED
  BY <1>3, <1>7, <1>8 DEF ChunksFiled

\* A chunk that takes one in keeps its headings and its first word.
LEMMA MergeNextFiled ==
  ASSUME NEW min \in Nat, NEW max \in Nat, NEW merged \in Seq(ChunkRecs(max)), NEW chunk \in ChunkRecs(max),
         NEW doc, ChunksFiled(merged, doc), AreAbove(chunk.headings, doc, chunk.text[1][1])
  PROVE  ChunksFiled(MergeNext(merged, chunk, min, max), doc)
<1>1. PICK n, more : n = Len(merged) /\ more = MergeNext(merged, chunk, min, max)
  OBVIOUS
<1>2. n \in Nat /\ DOMAIN merged = 1..n
  BY <1>1
<1>3. CASE ~Absorbs(merged, chunk, min, max)
  <2>1. more = Append(merged, chunk)
    BY <1>1, <1>3 DEF MergeNext
  <2>2. Len(more) = n + 1 /\ more[n + 1] = chunk /\ \A k \in 1..n : more[k] = merged[k]
    BY <1>1, <2>1, AppendProperties
  <2>3. ASSUME NEW k \in 1..Len(more) PROVE AreAbove(more[k].headings, doc, more[k].text[1][1])
    <3>1. CASE k = n + 1
      BY <2>2, <3>1
    <3>2. CASE k # n + 1
      <4>1. k \in 1..n
        BY <1>2, <2>2, <3>2
      <4> QED
        BY <1>1, <2>2, <4>1 DEF ChunksFiled
    <3> QED
      BY <3>1, <3>2
  <2> QED
    BY <1>1, <2>3 DEF ChunksFiled
<1>4. CASE Absorbs(merged, chunk, min, max)
  <2>1. PICK e, x, y, z : e = merged[n] /\ x = e.text /\ y = chunk.text /\ z = x \o y
    OBVIOUS
  <2>2. n \in 1..n
    BY <1>1, <1>2, <1>4, EmptySeq DEF Absorbs
  <2>3. e \in ChunkRecs(max)
    BY <1>1, <2>1, <2>2, ElementOfSeq
  <2>4. x \in Seq(PlainWords) /\ x # <<>> /\ y \in Seq(PlainWords)
    BY <2>1, <2>3 DEF ChunkRecs, Pieces
  <2>5. z[1] = x[1]
    <3>1. 1 \in 1..Len(x)
      BY <2>4, EmptySeq
    <3>2. PICK l : l = Len(x)
      OBVIOUS
    <3>3. IsJoin(z, x, y)
      BY <2>1, <2>4, Joined
    <3>4. \A i \in 1..l : z[i] = x[i]
      BY <3>2, <3>3 DEF IsJoin
    <3> QED
      BY <3>1, <3>2, <3>4
  <2>6. PICK f : f = [e EXCEPT !.text = z]
    OBVIOUS
  <2>7. f.text = z /\ f.headings = e.headings
    BY <2>3, <2>6 DEF ChunkRecs
  <2>8. more = [merged EXCEPT ![n] = f]
    <3>1. more = [merged EXCEPT ![n].text = @ \o y]
      BY <1>1, <1>4, <2>1 DEF MergeNext
    <3> QED
      BY <1>2, <2>1, <2>2, <2>6, <3>1
  <2>9. DOMAIN more = 1..n /\ more[n] = f /\ \A k \in 1..n : k # n => more[k] = merged[k]
    BY <1>2, <2>2, <2>8
  <2>10. Len(more) = n
    <3>1. more \in Seq(ChunkRecs(max))
      BY <1>1, MergeNextFacts
    <3> QED
      BY <1>2, <2>9, <3>1
  <2>11. ASSUME NEW k \in 1..Len(more) PROVE AreAbove(more[k].headings, doc, more[k].text[1][1])
    <3>1. k \in 1..n
      BY <2>10
    <3>2. AreAbove(merged[k].headings, doc, merged[k].text[1][1])
      BY <1>1, <3>1 DEF ChunksFiled
    <3>3. CASE k = n
      BY <2>1, <2>5, <2>7, <2>9, <3>2, <3>3
    <3>4. CASE k # n
      BY <2>9, <3>1, <3>2, <3>4
    <3> QED
      BY <3>3, <3>4
  <2> QED
    BY <1>1, <2>11 DEF ChunksFiled
<1> QED
  BY <1>3, <1>4

\* Merged chunks are filed as those that they begin with.
LEMMA MergeIsFiled ==
  ASSUME NEW min \in Nat, NEW max \in Nat, NEW chunks \in Seq(ChunkRecs(max)), NEW doc, ChunksFiled(chunks, doc)
  PROVE  ChunksFiled(Merge(chunks, min, max), doc)
<1>1. PICK n : n = Len(chunks)
  OBVIOUS
<1>2. n \in Nat
  BY <1>1
<1>3. PICK f : MergedSteps(f, chunks, min, max, n)
  BY <1>1, <1>2, MergeSteps
<1> DEFINE Good(i) == f[i] \in Seq(ChunkRecs(max)) /\ ChunksFiled(f[i], doc)
           T == {i \in 0..n : Good(i)}
<1>4. 0 \in T
  <2>1. PICK e : e = <<>>
    OBVIOUS
  <2>2. Len(e) = 0 /\ f[0] = e /\ e \in Seq(ChunkRecs(max))
    BY <1>3, <2>1, EmptySeq DEF MergedSteps
  <2>3. ChunksFiled(e, doc)
    BY <2>2 DEF ChunksFiled
  <2>4. Good(0)
    BY <2>2, <2>3
  <2> QED
    BY <1>2, <2>4
<1>5. ASSUME NEW i \in 0..(n - 1), i \in T PROVE i + 1 \in T
  <2>1. i + 1 \in 1..n /\ i + 1 \in 0..n /\ (i + 1) - 1 = i
    BY <1>2
  <2>2. PICK chunk, merged : chunk = chunks[i + 1] /\ merged = f[i]
    OBVIOUS
  <2>3. chunk \in ChunkRecs(max)
    BY <1>1, <2>1, <2>2, ElementOfSeq
  <2>4. AreAbove(chunk.headings, doc, chunk.text[1][1])
    BY <1>1, <2>1, <2>2 DEF ChunksFiled
  <2>5. merged \in Seq(ChunkRecs(max)) /\ ChunksFiled(merged, doc)
    BY <1>5, <2>2
  <2>6. MergeNext(merged, chunk, min, max) \in Seq(ChunkRecs(max))
    BY <2>3, <2>5, MergeNextFacts
  <2>7. ChunksFiled(MergeNext(merged, chunk, min, max), doc)
    BY <2>3, <2>4, <2>5, MergeNextFiled
  <2>8. f[i + 1] = MergeNext(merged, chunk, min, max)
    BY <1>3, <2>1, <2>2 DEF MergedSteps
  <2>9. Good(i + 1)
    BY <2>6, <2>7, <2>8
  <2> QED
    BY <2>1, <2>9
<1>6. n \in T
  <2>1. 0..n \subseteq T
    <3> HIDE DEF T
    <3> QED
      BY <1>2, <1>4, <1>5, Climb
  <2> QED
    BY <1>2, <2>1
<1> QED
  BY <1>3, <1>6 DEF MergedSteps

-----------------------------------------------------------------------------
(* Chunks stay filed                                                       *)

\* What a job at a stage has filed.
StageFiled(stage, chunks, doc) ==
  SkipsNoLevel(doc) => /\ stage = "sections" => SectionsFiled(chunks, doc)
                       /\ stage \in {"split", "merged"} => ChunksFiled(chunks, doc)
JobsFiled == \A t \in Threads : StageFiled(job[t].stage, job[t].chunks, Task(t).doc)

\* At first no job has anything to file.
LEMMA FiledInit == Init => JobsFiled
<1> SUFFICES ASSUME Init, NEW t \in Threads PROVE StageFiled(job[t].stage, job[t].chunks, Task(t).doc)
  BY DEF JobsFiled
<1>1. job[t].stage = "start"
  BY DEF Init
<1> QED
  BY <1>1 DEF StageFiled

\* Every step leaves what is filed so, and files what it splits.
LEMMA FiledStep == IndexingFits /\ JobsFiled /\ [Next]_vars => JobsFiled'
<1> SUFFICES ASSUME IndexingFits, JobsFiled, [Next]_vars PROVE JobsFiled'
  OBVIOUS
<1>0. setup \in Setups /\ JobsFit
  BY DEF IndexingFits
<1>1. ASSUME NEW a \in Threads, Step(a) PROVE JobsFiled'
  <2>1. setup' = setup
    BY <1>1, SetupStays
  <2>2. IsLimits(Limits) /\ (Busy(a) => IsTask(Task(a))) /\ (Busy(a) => IsDocument(Task(a).doc))
    BY <1>0, TaskIs DEF IsTask, IsDocument
  <2>3. job = [t \in Threads |-> job[t]] /\ IsJob(job[a])
    BY <1>0 DEF JobsFit, JobFits
  <2>4. ASSUME NEW stage, NEW chunks, NEW at, Work(a, stage, chunks, at),
               StageFiled(stage, chunks, Task(a).doc)
        PROVE  JobsFiled'
    <3>0. job'[a].task = job[a].task /\ job'[a].stage = stage /\ job'[a].chunks = chunks
      BY <2>3, <2>4, WorkJob
    <3>1. /\ job'[a].task = job[a].task /\ job'[a].stage = stage /\ job'[a].chunks = chunks
          /\ \A t \in Threads \ {a} : job'[t] = job[t]
      BY <2>3, <2>4, <3>0 DEF Work
    <3>2. \A t \in Threads : Task(t)' = Task(t)
      BY <2>1, <3>1 DEF Task
    <3>3. ASSUME NEW t \in Threads PROVE StageFiled(job'[t].stage, job'[t].chunks, Task(t)'.doc)
      <4>1. CASE t = a
        BY <2>4, <3>1, <3>2, <4>1
      <4>2. CASE t # a
        BY <3>1, <3>2, <4>2 DEF JobsFiled
      <4> QED
        BY <4>1, <4>2
    <3> QED
      BY <3>3 DEF JobsFiled
  <2>5. ASSUME NEW stage \in {"file", "parse", "query", "windows", "chunks", "atom"}, NEW chunks, NEW at,
               Work(a, stage, chunks, at)
        PROVE  JobsFiled'
    <3>1. StageFiled(stage, chunks, Task(a).doc)
      BY <2>5 DEF StageFiled
    <3> QED
      BY <2>4, <2>5, <3>1
  <2>6. ASSUME NEW how, Ends(a, how) PROVE JobsFiled'
    <3>1. job'[a].stage = "start" /\ \A t \in Threads \ {a} : job'[t] = job[t]
      BY <2>3, <2>6 DEF Ends
    <3>2. ASSUME NEW t \in Threads PROVE StageFiled(job'[t].stage, job'[t].chunks, Task(t)'.doc)
      <4>1. CASE t = a
        BY <3>1, <4>1 DEF StageFiled
      <4>2. CASE t # a
        <5>1. Task(t)' = Task(t)
          BY <2>1, <3>1, <4>2 DEF Task
        <5> QED
          BY <3>1, <4>2, <5>1 DEF JobsFiled
      <4> QED
        BY <4>1, <4>2
    <3> QED
      BY <3>2 DEF JobsFiled
  <2>7. CASE FindSections(a)
    <3>1. Busy(a) /\ Work(a, "sections", Sections(Task(a).doc), 0)
      BY <2>7 DEF FindSections, At
    <3>2. StageFiled("sections", Sections(Task(a).doc), Task(a).doc)
      BY <2>2, <3>1, SectionsAreFiled DEF StageFiled
    <3> QED
      BY <2>4, <3>1, <3>2
  <2>8. CASE SplitSections(a)
    <3>1. job[a].stage = "sections" /\ Work(a, "split", Split(job[a].chunks, Limits.max), 0)
      BY <2>8 DEF SplitSections, At
    <3>2. job[a].chunks \in Seq(SectionRecs) /\ Limits.max \in Nat
      BY <1>0, <2>2, <3>1, StageIs DEF StageFits, SectionsHold, IsLimits
    <3>3. SkipsNoLevel(Task(a).doc) => SectionsFiled(job[a].chunks, Task(a).doc)
      BY <3>1 DEF JobsFiled, StageFiled
    <3>4. StageFiled("split", Split(job[a].chunks, Limits.max), Task(a).doc)
      BY <3>2, <3>3, SplitIsFiled DEF StageFiled
    <3> QED
      BY <2>4, <3>1, <3>4
  <2>9. CASE MergeSmall(a)
    <3>1. job[a].stage = "split" /\ Work(a, "merged", Merge(job[a].chunks, Limits.min, Limits.max), 0)
      BY <2>9 DEF MergeSmall, At
    <3>2. job[a].chunks \in Seq(ChunkRecs(Limits.max)) /\ Limits.min \in Nat /\ Limits.max \in Nat
      BY <1>0, <2>2, <3>1, StageIs DEF StageFits, PiecesHold, IsLimits
    <3>3. SkipsNoLevel(Task(a).doc) => ChunksFiled(job[a].chunks, Task(a).doc)
      BY <3>1 DEF JobsFiled, StageFiled
    <3>4. StageFiled("merged", Merge(job[a].chunks, Limits.min, Limits.max), Task(a).doc)
      BY <3>2, <3>3, MergeIsFiled DEF StageFiled
    <3> QED
      BY <2>4, <3>1, <3>4
  <2>10. CASE EmbedFile(a) \/ StoreFile(a) \/ EmbedQuery(a) \/ EmbedChunk(a)
    BY <2>5, <2>10 DEF EmbedFile, StoreFile, EmbedQuery, EmbedChunk, Reach
  <2>11. CASE ResplitLong(a) \/ EnrichAll(a) \/ WindowFile(a) \/ SkipChunk(a) \/ StoreAtom(a) \/ DropAtom(a)
    BY <2>5, <2>11 DEF ResplitLong, EnrichAll, WindowFile, SkipChunk, StoreAtom, DropAtom
  <2>12. CASE FileFails(a) \/ EndUpload(a) \/ Seek(a) \/ QueryFails(a)
    BY <2>6, <2>12 DEF FileFails, EndUpload, Seek, QueryFails
  <2>13. CASE UNCHANGED job
    BY <2>1, <2>13 DEF JobsFiled, Task
  <2> QED
    BY <1>1, <2>7, <2>8, <2>9, <2>10, <2>11, <2>12, <2>13 DEF Step
<1>2. CASE UNCHANGED vars
  BY <1>2 DEF vars, JobsFiled, Task
<1> QED
  BY <1>1, <1>2 DEF Next

(* In a note that skips no heading level, a chunk is filed under exactly the
   headings that stand above its first word, in their order, also after small
   chunks were merged into it (_split_into_sections, _merge_small_chunks). *)
THEOREM HeadingsAreRight == Spec => []HeadingsAreAncestors
<1>1. IndexingFits /\ JobsFiled => HeadingsAreAncestors
  <2> SUFFICES ASSUME IndexingFits, JobsFiled, NEW t \in Threads, job[t].stage \in {"split", "merged"},
                      SkipsNoLevel(Task(t).doc), NEW i \in DOMAIN job[t].chunks
               PROVE  AreAbove(job[t].chunks[i].headings, Task(t).doc, job[t].chunks[i].text[1][1])
    BY DEF HeadingsAreAncestors
  <2>1. ChunksFiled(job[t].chunks, Task(t).doc)
    BY DEF JobsFiled, StageFiled
  <2>2. job[t].chunks \in Seq(ChunkRecs(Limits.max))
    BY StageIs DEF IndexingFits, StageFits, PiecesHold
  <2>3. i \in 1..Len(job[t].chunks)
    BY <2>2
  <2> QED
    BY <2>1, <2>3 DEF ChunksFiled
<1> QED
  BY <1>1, FitsInit, FitsStep, FiledInit, FiledStep, PTL DEF Spec
==============================================================================
