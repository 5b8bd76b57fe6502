----------------------------- MODULE ChronosGrid ------------------------------
(***************************************************************************)
(* The semantic index engine/chronos_grid.py with its brute-force vector   *)
(* backend: time shards that hold the essences sorted by glyph, an echo    *)
(* screen (a filter of two hash bits per glyph), a spark buffer (an LRU    *)
(* cache of essences) and the parallel lists of vectors and their glyphs.  *)
(*                                                                         *)
(* The event loop injects and queries; pool threads that serve WebSocket   *)
(* searches query at the same time.  The grid takes no lock, so a step     *)
(* below is what a thread does between two accesses to shared state.       *)
(*                                                                         *)
(* Glyphs are numbers, for the code compares them; the hash is given by    *)
(* what is computed from it.  An essence stands for one injected version   *)
(* of a file: its metadata and the vector that was injected with it.       *)
(* Which vectors score best is left open.                                  *)
(***************************************************************************)
EXTENDS Naturals, FiniteSets, SequencesExt

CONSTANTS
  Glyphs,     \* file paths and atom glyphs, in their order
  Essences,   \* versions of what is injected
  None,       \* "no essence"
  Bits,       \* bits of the echo screen
  Etch,       \* Etch[g]: the bits of glyph g
  Shards,     \* time shards
  ShardOf,    \* ShardOf[g]: the shard of glyph g
  SparkMax,   \* spark_buffer_size
  TopK,       \* results of a vector query
  Threads,    \* threads that query the grid ...
  Loop        \* ... the event loop, which also injects, among them

ASSUME GridAssumption ==
  /\ Glyphs \subseteq Nat
  /\ None \notin Essences
  /\ Etch \in [Glyphs -> SUBSET Bits]
  /\ IsFiniteSet(Shards)
  /\ ShardOf \in [Glyphs -> Shards]
  /\ SparkMax \in Nat \ {0}
  /\ TopK \in Nat \ {0}
  /\ IsFiniteSet(Threads)
  /\ Loop \in Threads

VARIABLES
  shards,     \* _time_shards
  total,      \* total_lore_essences
  echo,       \* _echo_screen: the bits that are set
  spark,      \* _spark_buffer, least recently used first
  vectors,    \* _vector_essences
  glyphs,     \* _essence_glyphs
  inj,        \* inject_essence in the event loop
  seek        \* seek_vector_resonance in each thread

lists == <<vectors, glyphs>>
vars  == <<shards, total, echo, spark, lists, inj, seek>>

Entry == [glyph : Glyphs, essence : Essences]

NoInject == [pc |-> "idle", glyph |-> 0, essence |-> None]
NoSeek   == [pc |-> "idle", ranks |-> {}, glyph |-> 0, left |-> 1, right |-> 0,
             essence |-> None, alone |-> TRUE]

\* History: every query that another thread's change may have disturbed.
Disturbed(others) == [t \in Threads |->
  IF t \in others /\ seek[t].pc # "idle" THEN [seek[t] EXCEPT !.alone = FALSE] ELSE seek[t]]

\* The entries of a list of entries that are for g.
At(entries, g) == {i \in DOMAIN entries : entries[i].glyph = g}
Stored(g) == At(shards[ShardOf[g]], g) # {}
Cached(g) == At(spark, g) # {}

-------------------------------------------------------------------------------
(* inject_essence                                                          *)

LoopFree == inj.pc = "idle" /\ seek[Loop].pc = "idle"

\* _etch_echo_screen.
InjectEtch(g, e) ==
  /\ LoopFree
  /\ echo' = echo \cup Etch[g]
  /\ inj' = [pc |-> "shard", glyph |-> g, essence |-> e]
  /\ UNCHANGED <<shards, total, spark, lists, seek>>

(* Broken variants stand before the definitions they vary; the specification  *)
(* does not use them.                                                         *)
InsertionPointLast(shard, g) ==
  1 + Cardinality({i \in DOMAIN shard : shard[i].glyph # g})

\* The position that keeps a shard sorted, found by bisection.
InsertionPoint(shard, g) == 1 + Cardinality({i \in DOMAIN shard : shard[i].glyph < g})

Count(g) == IF Stored(g) THEN total ELSE total + 1

\* Replace the entry of the glyph in its shard, or insert a new one.
InjectShard ==
  /\ inj.pc = "shard"
  /\ LET entry == [glyph |-> inj.glyph, essence |-> inj.essence]
         shard == shards[ShardOf[inj.glyph]]
     IN  shards' = [shards EXCEPT ![ShardOf[inj.glyph]] =
           IF Stored(inj.glyph)
           THEN [i \in DOMAIN shard |-> IF i \in At(shard, inj.glyph) THEN entry ELSE shard[i]]
           ELSE InsertAt(shard, InsertionPoint(shard, inj.glyph), entry)]
  /\ total' = Count(inj.glyph)
  /\ inj' = [inj EXCEPT !.pc = "vector"]
  /\ seek' = Disturbed(Threads)
  /\ UNCHANGED <<echo, spark, lists>>

HasVector(g) == \E i \in DOMAIN glyphs : glyphs[i] = g

\* _upsert_vector: replace the vector of a known glyph, or append the vector ...
InjectVector ==
  /\ inj.pc = "vector"
  /\ IF HasVector(inj.glyph)
     THEN /\ vectors' = [i \in DOMAIN vectors |->
                           IF glyphs[i] = inj.glyph THEN inj.essence ELSE vectors[i]]
          /\ inj' = NoInject
     ELSE /\ vectors' = Append(vectors, inj.essence)
          /\ inj' = [inj EXCEPT !.pc = "glyph"]
  /\ UNCHANGED <<shards, total, echo, spark, glyphs, seek>>

\* ... and then its glyph.
InjectGlyph ==
  /\ inj.pc = "glyph"
  /\ glyphs' = Append(glyphs, inj.glyph)
  /\ inj' = NoInject
  /\ UNCHANGED <<shards, total, echo, spark, vectors, seek>>

-------------------------------------------------------------------------------
(* seek_vector_resonance, and seek_resonance for each of its results       *)

Found(t, e) == [seek EXCEPT ![t] = [@ EXCEPT !.pc = "found", !.essence = e,
                                             !.left = 1, !.right = 0]]

\* Score the vectors and take the best ranks.
StartQuery(t) ==
  /\ seek[t].pc = "idle"
  /\ t = Loop => inj.pc = "idle"
  /\ vectors # <<>>
  /\ \E top \in SUBSET DOMAIN vectors :
       /\ Cardinality(top) = IF TopK < Len(vectors) THEN TopK ELSE Len(vectors)
       /\ seek' = [seek EXCEPT ![t] = [NoSeek EXCEPT !.pc = "ranked", !.ranks = top,
                                                       !.alone = inj.pc = "idle"]]
  /\ UNCHANGED <<shards, total, echo, spark, lists, inj>>

\* Look up the glyph of the next rank; the list index is out of range when the
\* vector was appended and its glyph is not yet.
NextRank(t) ==
  /\ seek[t].pc \in {"ranked", "found"}
  /\ \E i \in seek[t].ranks :
       seek' = [seek EXCEPT ![t] =
                  IF i \in DOMAIN glyphs
                  THEN [NoSeek EXCEPT !.pc = "spark", !.ranks = seek[t].ranks \ {i},
                                      !.glyph = glyphs[i], !.alone = seek[t].alone]
                  ELSE [NoSeek EXCEPT !.pc = "error", !.alone = seek[t].alone]]
  /\ UNCHANGED <<shards, total, echo, spark, lists, inj>>

\* The query returns, or its exception ends the request.
EndQuery(t) ==
  /\ seek[t].pc \in {"found", "error"}
  /\ seek[t].ranks = {}
  /\ seek' = [seek EXCEPT ![t] = NoSeek]
  /\ UNCHANGED <<shards, total, echo, spark, lists, inj>>

\* L1: is the glyph in the spark buffer?
SeekSpark(t) ==
  /\ seek[t].pc = "spark"
  /\ seek' = [seek EXCEPT ![t].pc = IF Cached(seek[t].glyph) THEN "hit" ELSE "echo"]
  /\ UNCHANGED <<shards, total, echo, spark, lists, inj>>

\* A KeyError in the buffer.
Raised(t) ==
  seek' = [seek EXCEPT ![t] = [NoSeek EXCEPT !.pc = "error", !.alone = seek[t].alone]]

\* move_to_end, of a glyph that was in the buffer a moment ago: a KeyError when
\* another thread has evicted it since.  A glyph cached meanwhile ("touch") has
\* the essence read from its shard.
SeekTouch(t) ==
  /\ seek[t].pc \in {"hit", "touch"}
  /\ IF Cached(seek[t].glyph)
     THEN \E i \in At(spark, seek[t].glyph) :
            /\ spark' = Append(RemoveAt(spark, i), spark[i])
            /\ seek' = IF seek[t].pc = "hit" THEN [seek EXCEPT ![t].pc = "read"]
                                              ELSE Found(t, seek[t].essence)
     ELSE Raised(t) /\ UNCHANGED spark
  /\ UNCHANGED <<shards, total, echo, lists, inj>>

\* A hit returns the cached essence, if it is still there.
SeekRead(t) ==
  /\ seek[t].pc = "read"
  /\ IF Cached(seek[t].glyph)
     THEN \E i \in At(spark, seek[t].glyph) : seek' = Found(t, spark[i].essence)
     ELSE Raised(t)
  /\ UNCHANGED <<shards, total, echo, spark, lists, inj>>

\* L2: the echo screen rejects a glyph whose bits are not both set.
SeekEcho(t) ==
  /\ seek[t].pc = "echo"
  /\ seek' = IF Etch[seek[t].glyph] \subseteq echo
             THEN [seek EXCEPT ![t].pc = "probe", ![t].left = 1,
                               ![t].right = Len(shards[ShardOf[seek[t].glyph]])]
             ELSE Found(t, None)
  /\ UNCHANGED <<shards, total, echo, spark, lists, inj>>

ExhaustedEarly(r) == r.left >= r.right
Exhausted(r) == r.left > r.right

\* L3: one iteration of the bisection.  Its bounds are those of the start; the
\* list may grow meanwhile.
SeekProbe(t) ==
  /\ seek[t].pc = "probe"
  /\ LET mid   == (seek[t].left + seek[t].right) \div 2
         entry == shards[ShardOf[seek[t].glyph]][mid]
     IN  seek' = IF Exhausted(seek[t]) THEN Found(t, None)
                 ELSE IF entry.glyph = seek[t].glyph
                      THEN [seek EXCEPT ![t] = [@ EXCEPT !.pc = "member", !.essence = entry.essence,
                                                         !.left = 1, !.right = 0]]
                 ELSE IF entry.glyph < seek[t].glyph
                      THEN [seek EXCEPT ![t].left = mid + 1]
                 ELSE [seek EXCEPT ![t].right = mid - 1]
  /\ UNCHANGED <<shards, total, echo, spark, lists, inj>>

\* _spark_inject: is the glyph cached meanwhile?
SeekMember(t) ==
  /\ seek[t].pc = "member"
  /\ seek' = [seek EXCEPT ![t].pc = IF Cached(seek[t].glyph) THEN "touch" ELSE "room"]
  /\ UNCHANGED <<shards, total, echo, spark, lists, inj>>

\* Is there room for it?
SeekRoom(t) ==
  /\ seek[t].pc = "room"
  /\ seek' = [seek EXCEPT ![t].pc = IF Len(spark) >= SparkMax THEN "pop" ELSE "cache"]
  /\ UNCHANGED <<shards, total, echo, spark, lists, inj>>

\* popitem, a KeyError when other threads have emptied the buffer since.
SeekPop(t) ==
  /\ seek[t].pc = "pop"
  /\ IF spark = <<>>
     THEN Raised(t) /\ UNCHANGED spark
     ELSE /\ spark' = Tail(spark)
          /\ seek' = [Disturbed(Threads \ {t}) EXCEPT ![t].pc = "cache"]
  /\ UNCHANGED <<shards, total, echo, lists, inj>>

SparkAppended(entry) == Append(spark, entry)
SparkWith(entry) ==
  IF Cached(entry.glyph)
  THEN [i \in DOMAIN spark |-> IF i \in At(spark, entry.glyph) THEN entry ELSE spark[i]]
  ELSE Append(spark, entry)

\* Add it; a glyph that another thread added meanwhile keeps its place.
SeekCache(t) ==
  /\ seek[t].pc = "cache"
  /\ spark' = SparkWith([glyph |-> seek[t].glyph, essence |-> seek[t].essence])
  /\ seek' = Found(t, seek[t].essence)
  /\ UNCHANGED <<shards, total, echo, lists, inj>>

-------------------------------------------------------------------------------

\* clear(), which only tests and library callers use, between queries.
Clear ==
  /\ LoopFree /\ \A t \in Threads : seek[t].pc = "idle"
  /\ shards' = [s \in Shards |-> <<>>]
  /\ total' = 0
  /\ echo' = {}
  /\ spark' = <<>>
  /\ vectors' = <<>> /\ glyphs' = <<>>
  /\ UNCHANGED <<inj, seek>>

Init ==
  /\ shards = [s \in Shards |-> <<>>]
  /\ total = 0
  /\ echo = {}
  /\ spark = <<>>
  /\ vectors = <<>> /\ glyphs = <<>>
  /\ inj = NoInject
  /\ seek = [t \in Threads |-> NoSeek]

Inject ==
  \/ \E g \in Glyphs, e \in Essences : InjectEtch(g, e)
  \/ InjectShard
  \/ InjectVector
  \/ InjectGlyph

Query(t) ==
  \/ StartQuery(t)
  \/ NextRank(t)
  \/ EndQuery(t)
  \/ SeekSpark(t)
  \/ SeekTouch(t)
  \/ SeekRead(t)
  \/ SeekEcho(t)
  \/ SeekProbe(t)
  \/ SeekMember(t)
  \/ SeekRoom(t)
  \/ SeekPop(t)
  \/ SeekCache(t)

Next == Inject \/ (\E t \in Threads : Query(t)) \/ Clear

Spec == Init /\ [][Next]_vars

-------------------------------------------------------------------------------
(* Properties                                                              *)

\* Every variable holds a value of its kind.
TypeOK ==
  /\ shards \in [Shards -> Seq(Entry)]
  /\ total \in Nat
  /\ echo \subseteq Bits
  /\ spark \in Seq(Entry)
  /\ vectors \in Seq(Essences)
  /\ glyphs \in Seq(Glyphs)
  /\ inj \in [pc : {"idle", "shard", "vector", "glyph"}, glyph : Glyphs \cup {0},
              essence : Essences \cup {None}]
  /\ seek \in [Threads ->
                 [pc : {"idle", "ranked", "spark", "hit", "touch", "read", "echo", "probe",
                        "member", "room", "pop", "cache", "found", "error"},
                  ranks : SUBSET Nat, glyph : Glyphs \cup {0}, left : Nat, right : Nat,
                  essence : Essences \cup {None}, alone : BOOLEAN]]

\* What the bisection relies on: a shard holds only glyphs that hash to it, in
\* strictly ascending order (so no glyph twice), and every one passes the echo
\* screen, whatever the other glyphs etched on it.
ShardsSearchable ==
  \A s \in Shards :
    /\ \A i \in DOMAIN shards[s] :
         /\ ShardOf[shards[s][i].glyph] = s
         /\ Etch[shards[s][i].glyph] \subseteq echo
    /\ \A i, j \in DOMAIN shards[s] : i < j => shards[s][i].glyph < shards[s][j].glyph

\* The places of the shards that hold an essence.
Places(grid) == UNION {{s} \X DOMAIN grid[s] : s \in Shards}

\* The grid reports as many essences as its shards hold, however often each of
\* them was injected.
TotalIsExact ==
  total = Cardinality(Places(shards))

\* Between injections each stored glyph has exactly one vector, the one that was
\* injected with the essence its shard holds, and vectors and glyphs are aligned.
VectorsFollowShards ==
  inj.pc = "idle" =>
    /\ Len(vectors) = Len(glyphs)
    /\ \A i, j \in DOMAIN glyphs : glyphs[i] = glyphs[j] => i = j
    /\ \A i \in DOMAIN glyphs :
         [glyph |-> glyphs[i], essence |-> vectors[i]] \in Range(shards[ShardOf[glyphs[i]]])
    /\ Len(glyphs) = total

\* The structures are sound and say the same of every glyph, at every step of an
\* injection and of the queries in other threads.
Consistent == TypeOK /\ ShardsSearchable /\ TotalIsExact /\ VectorsFollowShards

\* The spark buffer caches each glyph once, and only glyphs that are stored.
SparkCachesStored ==
  \A i, j \in DOMAIN spark :
    Stored(spark[i].glyph) /\ (spark[i].glyph = spark[j].glyph => i = j)

\* Each query thread can push the spark buffer past its limit by one at most,
\* however the checks and insertions of the threads interleave; a single thread
\* never does.
SparkBounded == Len(spark) < SparkMax + Cardinality(Threads)

\* The spark buffer is a bounded cache of what is stored.
SparkCoherent == SparkCachesStored /\ SparkBounded

\* A query that no injection and no eviction of another thread disturbs resolves
\* all its results: seek_resonance finds the essence of every glyph that has a
\* vector, through filter collisions and evictions of its own, and nothing raises.
Resolved(t) ==
  /\ seek[t].pc = "found" => seek[t].essence # None
  /\ seek[t].pc # "error"
AloneQueriesResolve == \A t \in Threads : seek[t].alone => Resolved(t)

===============================================================================
