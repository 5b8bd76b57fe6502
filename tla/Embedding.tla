------------------------------ MODULE Embedding ------------------------------
(***************************************************************************)
(* The embedding providers of engine/embedding_generator.py:               *)
(* EmbeddingGenerator ("dsp"), a deterministic projection of a text, and   *)
(* OllamaEmbeddingProvider ("ollama"), which asks a server and falls back  *)
(* to a generator of its own.  Each keeps its vectors in a dict that every *)
(* thread of the service reads and writes without a lock.                  *)
(*                                                                         *)
(* A text is a sequence of words.  A vector is known by who made it, which *)
(* gives its dimension, and the text it was made of.                       *)
(***************************************************************************)
EXTENDS Integers, Sequences, FiniteSets, SequencesExt

CONSTANTS
    Threads,      \* threads that may call generate
    Words,        \* what texts are made of
    CacheSize,    \* CACHE_SIZE
    MaxFailures,  \* failures in a row after which the server is given up
    TextLimit,    \* words of a text that the projection reads, MAX_TEXT_LENGTH
    KeyLimit      \* words of a text that key the provider's cache

ASSUME EmbeddingAssumption ==
    /\ IsFiniteSet(Threads) /\ Threads # {}
    /\ CacheSize \in Nat \ {0}
    /\ MaxFailures \in Nat \ {0}
    /\ TextLimit \in Nat \ {0} /\ KeyLimit \in Nat \ {0}

VARIABLES
    available,  \* the provider is configured and its server was found at startup
    failures,   \* _consecutive_failures
    cache,      \* the dict of each engine, its oldest entry first
    call        \* the call of generate that each thread is in

Engines == {"dsp", "ollama"}

Texts   == Seq(Words)
Vectors == [by : Engines, of : Texts]
Entries == [key : Texts, vector : Vectors]

Stages == {"idle", "lookup", "hit", "post", "failed", "room", "evict", "insert", "done", "raised"}

Calls == [at : Stages, engine : Engines, text : Texts, vector : Vectors, victim : Texts, seen : Nat]

NoVector == [by |-> "dsp", of |-> <<>>]
Idle == [at |-> "idle", engine |-> "dsp", text |-> <<>>, vector |-> NoVector, victim |-> <<>>, seen |-> 0]

embedding == <<available, failures, cache, call>>

-----------------------------------------------------------------------------
Upto(limit, text) == IF Len(text) > limit THEN SubSeq(text, 1, limit) ELSE text

(* What keys a cache: the attuned text, or the beginning of the text. *)
Key(engine, text) == Upto(IF engine = "dsp" THEN TextLimit ELSE KeyLimit, text)

(* The projection sees the attuned text only, the server all of it. *)
Vector(engine, text) ==
    [by |-> engine, of |-> IF engine = "dsp" THEN Upto(TextLimit, text) ELSE text]

KeyOf(t) == Key(call[t].engine, call[t].text)
Places(engine, key) == {i \in DOMAIN cache[engine] : cache[engine][i].key = key}
Cached(t) == Places(call[t].engine, KeyOf(t)) # {}

Becomes(t, next) == call' = [call EXCEPT ![t] = next]
Goes(t, stage) == Becomes(t, [call[t] EXCEPT !.at = stage])

GivenUpLate == failures > MaxFailures
GivenUp == failures >= MaxFailures

(* generate: a server that was not found or is given up is not asked; nor is
   any for an empty text, which has the projection's zero vector at once. *)
Entered(text) ==
    IF text = <<>>
    THEN [Idle EXCEPT !.at = "done"]
    ELSE [Idle EXCEPT !.at = "lookup", !.text = text,
                      !.engine = IF available /\ ~GivenUp THEN "ollama" ELSE "dsp"]

Enter(t, text) ==
    /\ call[t].at = "idle"
    /\ Becomes(t, Entered(text))
    /\ UNCHANGED <<available, failures, cache>>

(* `key in cache`; a miss is computed, or asked for. *)
Lookup(t) ==
    /\ call[t].at = "lookup"
    /\ CASE Cached(t) -> Goes(t, "hit")
         [] ~Cached(t) /\ call[t].engine = "dsp" ->
              Becomes(t, [call[t] EXCEPT !.at = "room", !.vector = Vector("dsp", call[t].text)])
         [] OTHER -> Goes(t, "post")
    /\ UNCHANGED <<available, failures, cache>>

(* `cache[key]`, which another thread may have evicted since. *)
Hit(t) ==
    /\ call[t].at = "hit"
    /\ IF Cached(t)
       THEN \E i \in Places(call[t].engine, KeyOf(t)) :
              Becomes(t, [call[t] EXCEPT !.at = "done", !.vector = cache[call[t].engine][i].vector])
       ELSE Goes(t, "raised")
    /\ UNCHANGED <<available, failures, cache>>

Answered(t) ==
    /\ call[t].at = "post"
    /\ Becomes(t, [call[t] EXCEPT !.at = "room", !.vector = Vector("ollama", call[t].text)])
    /\ failures' = 0
    /\ UNCHANGED <<available, cache>>

(* A timeout, an error or an empty answer: read the counter ... *)
Unanswered(t) ==
    /\ call[t].at = "post"
    /\ Becomes(t, [call[t] EXCEPT !.at = "failed", !.seen = failures])
    /\ UNCHANGED <<available, failures, cache>>

(* ... write it back, and use the fallback's generate. *)
FallBackCaching(t) ==
    /\ call[t].at = "failed"
    /\ failures' = call[t].seen + 1
    /\ Becomes(t, [call[t] EXCEPT !.at = "room", !.vector = Vector("dsp", call[t].text)])
    /\ UNCHANGED <<available, cache>>

FallBack(t) ==
    /\ call[t].at = "failed"
    /\ failures' = call[t].seen + 1
    /\ Becomes(t, [call[t] EXCEPT !.at = "lookup", !.engine = "dsp"])
    /\ UNCHANGED <<available, cache>>

RoomLeftAfter(t) == Len(cache[call[t].engine]) <= CacheSize
RoomLeft(t) == Len(cache[call[t].engine]) < CacheSize

(* A full cache names its oldest key. *)
MakeRoom(t) ==
    /\ call[t].at = "room"
    /\ IF RoomLeft(t)
       THEN Goes(t, "insert")
       ELSE Becomes(t, [call[t] EXCEPT !.at = "evict", !.victim = cache[call[t].engine][1].key])
    /\ UNCHANGED <<available, failures, cache>>

(* pop raises when another thread has popped the same key. *)
Evict(t) ==
    /\ call[t].at = "evict"
    /\ LET places == Places(call[t].engine, call[t].victim)
       IN IF places = {}
          THEN Goes(t, "raised") /\ UNCHANGED cache
          ELSE /\ \E i \in places : cache' = [cache EXCEPT ![call[t].engine] = RemoveAt(@, i)]
               /\ Goes(t, "insert")
    /\ UNCHANGED <<available, failures>>

Refreshed(entries, i, vector) == [entries EXCEPT ![i] = [key |-> entries[i].key, vector |-> vector]]

Insert(t) ==
    /\ call[t].at = "insert"
    /\ IF Cached(t)
       THEN \E i \in Places(call[t].engine, KeyOf(t)) :
              cache' = [cache EXCEPT ![call[t].engine] = Refreshed(@, i, call[t].vector)]
       ELSE cache' = [cache EXCEPT ![call[t].engine] = Append(@, [key |-> KeyOf(t), vector |-> call[t].vector])]
    /\ Goes(t, "done")
    /\ UNCHANGED <<available, failures>>

(* The caller takes the vector, or the exception. *)
Leave(t) ==
    /\ call[t].at \in {"done", "raised"}
    /\ Becomes(t, Idle)
    /\ UNCHANGED <<available, failures, cache>>

-----------------------------------------------------------------------------
EmbeddingInit ==
    /\ available \in BOOLEAN
    /\ failures = 0
    /\ cache = [engine \in Engines |-> <<>>]
    /\ call = [t \in Threads |-> Idle]

Generate(t) ==
    \/ Lookup(t) \/ Hit(t)
    \/ Answered(t) \/ Unanswered(t) \/ FallBack(t)
    \/ MakeRoom(t) \/ Evict(t) \/ Insert(t)

EmbeddingNext ==
    \E t \in Threads :
        \/ \E text \in Texts : Enter(t, text)
        \/ Generate(t)
        \/ Leave(t)

EmbeddingSpec == EmbeddingInit /\ [][EmbeddingNext]_embedding

-----------------------------------------------------------------------------
(* Every variable holds a value of its kind. *)
EmbeddingTypeOK ==
    /\ available \in BOOLEAN
    /\ failures \in Nat
    /\ cache \in [Engines -> Seq(Entries)]
    /\ call \in [Threads -> Calls]

(* Threads that all find room for one more insert one each: a cache outgrows
   its limit by the number of threads but one, and never by more. *)
CacheBounded ==
    \A engine \in Engines : Len(cache[engine]) <= CacheSize + Cardinality(Threads) - 1

(* A vector that is kept, or given to a caller, was made by the engine that
   keeps it, of a text with the same key. *)
Fits(engine, key, vector) == vector.by = engine /\ Key(engine, vector.of) = key

VectorsAreTheirTexts ==
    /\ \A engine \in Engines : \A i \in DOMAIN cache[engine] :
          Fits(engine, cache[engine][i].key, cache[engine][i].vector)
    /\ \A t \in Threads :
          call[t].at = "done" => Fits(call[t].engine, KeyOf(t), call[t].vector)
=============================================================================
