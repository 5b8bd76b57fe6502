---------------------------- MODULE SearchCache ----------------------------
(***************************************************************************)
(* The cache of search answers: SearchResultCache (cache.py), a TTLCache   *)
(* of the cachetools package, and SearchResultCacheRedis (cache_redis.py). *)
(* A cache is a set of entries [key, result, until, age]: the age of an    *)
(* entry is the number of entries used since it was.  The functions below  *)
(* are what the methods do to a cache; SearchService holds it in a         *)
(* variable.                                                               *)
(***************************************************************************)
EXTENDS Integers, FiniteSets

CONSTANTS TTL,       \* cache_ttl_sec, in ticks of the clock
          CacheMax   \* cache_max_size

ASSUME CacheAssumption == TTL \in Nat \ {0} /\ CacheMax \in Nat \ {0}

(* What a search is asked: the query, the store, and the search mode, which
   stands for every keyword argument that the in-memory key takes.  Redis
   hashes the query and the store only. *)
KeyOf(backend, question) ==
    IF backend = "memory" THEN question ELSE [question EXCEPT !.mode = "any"]

Live(cache, now) == {e \in cache : now < e.until}

Holds(cache, key, now) == \E e \in cache : e.key = key /\ now < e.until

Entry(cache, key) == CHOOSE e \in cache : e.key = key

Without(cache, key) == {e \in cache : e.key # key}

(* The entries of a cache after another one was used. *)
Aged(cache) ==
    {[e EXCEPT !.age = 1 + Cardinality({f \in cache : f.age < e.age})] : e \in cache}

(* Variant: a lookup that prolongs the entry. *)
TouchRenewing(cache, key) ==
    Aged(Without(cache, key)) \cup {[Entry(cache, key) EXCEPT !.age = 0, !.until = @ + 1]}

(* A lookup makes the entry the most recently used one; its time to live
   runs on. *)
Touch(cache, key) == Aged(Without(cache, key)) \cup {[Entry(cache, key) EXCEPT !.age = 0]}

LeastRecent(cache) == CHOOSE e \in cache : \A f \in cache : f.age <= e.age

(* TTLCache.__setitem__ drops what expired, then the least recently used
   entry if the new one does not fit; Redis (SETEX) keeps every key until it
   expires, whatever max_items says. *)
Put(backend, cache, key, result, now) ==
    LET rest == Without(Live(cache, now), key)
        kept == IF backend = "memory" /\ Cardinality(rest) >= CacheMax
                THEN rest \ {LeastRecent(rest)} ELSE rest
    IN  Aged(kept) \cup {[key |-> key, result |-> result, until |-> now + TTL, age |-> 0]}
=============================================================================
