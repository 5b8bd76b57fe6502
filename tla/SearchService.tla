--------------------------- MODULE SearchService ---------------------------
(***************************************************************************)
(* How questions are answered over HTTP and WebSocket: /api/search with    *)
(* its cache (api.py, cache.py, cache_redis.py), the multimodal search,    *)
(* /api/batch-search (batch_routes.py) and /ws/search (ws_routes.py), over *)
(* stores that uploads and deletions change meanwhile.                     *)
(*                                                                         *)
(* Every HTTP handler here runs on the event loop without an await between *)
(* its first read and its last write: it is one action.  A batch query and *)
(* the producer of a stream run in the executor's threads.                 *)
(*                                                                         *)
(* A store's contents are a version, drawn from a counter, so the contents *)
(* of a store deleted and made again differ; an answer is the version it   *)
(* was computed from.  How one is computed is the matter of Ranking.       *)
(***************************************************************************)
EXTENDS SearchCache, Sequences

CONSTANTS Stores, Queries, Modes,
          Configs,      \* the deployments and who calls them: [engine, backend, legacy, clients],
                  \* and what is asked over /api/search: asked, a set of Questions
          Batches,      \* the batch requests a client may send
          MaxClock, MaxChanges,   \* bounds of the clock and of changes to stores
          Handshake,    \* the handshake's timeout, in ticks
          MaxChunks     \* the longest stream of the model provider

ASSUME ServiceAssumption ==
    /\ MaxClock \in Nat /\ MaxChanges \in Nat
    /\ IsFiniteSet(Stores) /\ MaxChanges >= Cardinality(Stores)
    /\ Handshake \in Nat /\ MaxChunks \in Nat
    /\ \A c \in Configs : /\ c.engine \in {"local", "cloud"}
                          /\ c.backend \in {"memory", "redis"}
                          /\ c.legacy \in BOOLEAN
                          /\ c.clients \subseteq {"stream", "batch"}
                          /\ c.asked \subseteq [query : Queries, store : Stores, mode : Modes]
    /\ \A r \in Batches :
          /\ r.parallel \in BOOLEAN
          /\ r.queries \in Seq([query : Queries, store : Stores, priority : Int])

VARIABLES conf,      \* the deployment, fixed at start
          content,   \* store -> the version of its contents, 0 when there is no such store
          made,      \* how many versions were made
          gone,      \* version -> when it was replaced, for those that were
          clock,
          cache,
          reply,     \* the answer the last step returned over HTTP, or NoReply
          ws,        \* the WebSocket session
          batch      \* the batch request

vars == <<conf, content, made, gone, clock, cache, reply, ws, batch>>

NoReply == [code |-> 0]

Question(q, s, m) == [query |-> q, store |-> s, mode |-> m]

Questions == [query : Queries, store : Stores, mode : Modes]

(* content and its history after the store changed to a new version, or, if
   new is FALSE, was deleted. *)
Change(s, new) ==
    /\ content' = [content EXCEPT ![s] = IF new THEN made + 1 ELSE 0]
    /\ made' = IF new THEN made + 1 ELSE made
    /\ gone' = IF content[s] = 0 THEN gone ELSE [gone EXCEPT ![content[s]] = clock]

KeepStores == UNCHANGED <<content, made, gone>>

(* The versions left to draw, less one for every store that a search may have
   to create: the bound stops uploads and deletions, never a search. *)
Room == MaxChanges - made - Cardinality({s \in Stores : content[s] = 0})

(* FlamehavenFileSearch.search: the local engine creates the store it is
   asked about; the cloud engine refuses an unknown one, and may fail. *)
Missing(s) == conf.engine = "cloud" /\ content[s] = 0

EnsureStore(s) ==
    IF conf.engine = "local" /\ content[s] = 0
    THEN Change(s, TRUE)
    ELSE KeepStores

Failure(question) == [question |-> question, version |-> 0]

\* What search and search_multimodal return when they succeed.
Found(question, version) == [question |-> question, version |-> version]

(* What a search may return; read after EnsureStore, hence primed. *)
Outcomes(question) ==
    (IF conf.engine = "cloud" THEN {Failure(question)} ELSE {}) \cup
    (IF Missing(question.store) THEN {} ELSE {Found(question, content'[question.store])})

Failed(result) == result.version = 0

Answer(question, code, result) == [code |-> code, question |-> question, result |-> result]

-----------------------------------------------------------------------------
(* The stores: an upload, which creates a store that is missing, a creation, a
   deletion (modelled in full by LocalStore and PgBackend). *)
Upload(s) ==
    /\ content[s] = 0 \/ Room > 0
    /\ Change(s, TRUE)
    /\ reply' = NoReply
    /\ UNCHANGED <<conf, clock, cache, ws, batch>>

CreateStore(s) ==
    /\ content[s] = 0
    /\ Change(s, TRUE)
    /\ reply' = NoReply
    /\ UNCHANGED <<conf, clock, cache, ws, batch>>

DeleteStore(s) ==
    /\ content[s] # 0 /\ Room > 0
    /\ Change(s, FALSE)
    /\ reply' = NoReply
    /\ UNCHANGED <<conf, clock, cache, ws, batch>>

-----------------------------------------------------------------------------
(* /api/search, a hit. *)
SearchHit(question) ==
    LET key == KeyOf(conf.backend, question)
    IN  /\ Holds(cache, key, clock)
        /\ cache' = IF conf.backend = "memory" THEN Touch(cache, key) ELSE cache
        /\ reply' = Answer(question, 200, Entry(cache, key).result)
        /\ KeepStores
        /\ UNCHANGED <<conf, clock, ws, batch>>

(* What a successful answer leaves in the cache and what the client is sent:
   get_stats of the Redis cache has no "current_size", so the handler fails
   after it cached the answer.  Redis may refuse the write. *)
CacheAfter(question, result) ==
    {Put(conf.backend, cache, KeyOf(conf.backend, question), result, clock)} \cup
    (IF conf.backend = "redis" THEN {cache} ELSE {})

(* Errors are answered at once and not cached. *)
Cacheable(result) == ~Failed(result)

CodeOf(result) ==
    IF Failed(result) THEN 404 ELSE IF conf.backend = "redis" THEN 500 ELSE 200

(* A miss; with Redis also a lookup that failed. *)
SearchMiss(question) ==
    /\ Holds(cache, KeyOf(conf.backend, question), clock) => conf.backend = "redis"
    /\ EnsureStore(question.store)
    /\ \E result \in Outcomes(question) :
          /\ IF Cacheable(result) THEN cache' \in CacheAfter(question, result)
                                  ELSE cache' = cache
          /\ reply' = Answer(question, CodeOf(result), result)
    /\ UNCHANGED <<conf, clock, ws, batch>>

(* /api/search/multimodal: never cached. *)
SearchMultimodal(q, s) ==
    LET question == Question(q, s, "multimodal")
    IN  /\ EnsureStore(s)
        /\ \E result \in Outcomes(question) :
              reply' = Answer(question, IF Failed(result) THEN 400 ELSE 200, result)
        /\ UNCHANGED <<conf, clock, cache, ws, batch>>

-----------------------------------------------------------------------------
(* Variant: a queue that hands out the newest frame first. *)
EnqueueFirst(queue, frame) == <<frame>> \o queue

(* /ws/search.  The producer, a thread of the executor, hands frames to the
   loop with run_coroutine_threadsafe, which keeps their order; the handler
   takes them from the queue and sends them. *)
NoSession == [stage |-> "closed", until |-> 0, question |-> <<>>, producer |-> "none",
              made |-> 0, queue |-> <<>>, sent |-> <<>>, online |-> FALSE]

Frame(kind, n) == [kind |-> kind, n |-> n]

Enqueue(queue, frame) == Append(queue, frame)

WsConnect ==
    /\ "stream" \in conf.clients /\ ws.stage = "closed" /\ clock + Handshake <= MaxClock
    /\ ws' = [ws EXCEPT !.stage = "handshake", !.until = clock + Handshake, !.online = TRUE]
    /\ reply' = NoReply
    /\ KeepStores /\ UNCHANGED <<conf, clock, cache, batch>>

(* The handshake ends the session when it is late or when the client left. *)
WsRefuse ==
    /\ ws.stage = "handshake"
    /\ \/ clock >= ws.until /\ ws' = [ws EXCEPT !.stage = "ended", !.sent = <<Frame("auth_error", 0)>>]
       \/ ~ws.online /\ ws' = [ws EXCEPT !.stage = "ended"]
    /\ reply' = NoReply
    /\ KeepStores /\ UNCHANGED <<conf, clock, cache, batch>>

(* The first message: a token that is refused ends the session with an
   "auth_error", anything else wrong with it, or a server that is not ready,
   with an "error". *)
WsHello(question) ==
    /\ ws.stage = "handshake" /\ ws.online
    /\ \/ ws' = [ws EXCEPT !.stage = "streaming", !.producer = "running", !.question = question]
       \/ \E kind \in {"auth_error", "error"} :
             ws' = [ws EXCEPT !.stage = "ended", !.sent = <<Frame(kind, 0)>>]
    /\ reply' = NoReply
    /\ KeepStores /\ UNCHANGED <<conf, clock, cache, batch>>

(* search_stream: the local engine yields the whole answer as one chunk, the
   cloud engine any number of chunks of a store that exists when it starts. *)
Streamable == ws.made > 0 \/ content[ws.question.store] # 0

ProduceChunk ==
    /\ ws.producer = "running"
    /\ IF conf.engine = "local" THEN ws.made = 0
                                ELSE Streamable /\ ws.made < MaxChunks
    /\ EnsureStore(ws.question.store)
    /\ ws' = [ws EXCEPT !.made = @ + 1, !.queue = Enqueue(@, Frame("chunk", ws.made + 1))]

ProduceDone ==
    /\ ws.producer = "running"
    /\ IF conf.engine = "local" THEN ws.made = 1 ELSE Streamable
    /\ ws' = [ws EXCEPT !.producer = "finished", !.queue = Enqueue(@, Frame("done", ws.made))]
    /\ KeepStores

(* Variant: the producer's exception is lost in its thread. *)
ProduceErrorSilently ==
    /\ ws.producer = "running" /\ conf.engine = "cloud"
    /\ ws' = [ws EXCEPT !.producer = "finished"]
    /\ KeepStores

(* The cloud engine raises for an unknown store or when the provider fails. *)
ProduceError ==
    /\ ws.producer = "running" /\ conf.engine = "cloud"
    /\ ws' = [ws EXCEPT !.producer = "finished", !.queue = Enqueue(@, Frame("error", ws.made))]
    /\ KeepStores

Produce ==
    /\ ProduceChunk \/ ProduceDone \/ ProduceError
    /\ reply' = NoReply
    /\ UNCHANGED <<conf, clock, cache, batch>>

(* The handler's loop.  A client that left is noticed when a frame is sent to
   it; the producer is told nothing. *)
WsSend ==
    /\ ws.stage = "streaming" /\ ws.queue # <<>>
    /\ LET frame == Head(ws.queue)
       IN  ws' = [ws EXCEPT !.queue = Tail(@),
                            !.sent = IF ws.online THEN Append(@, frame) ELSE @,
                            !.stage = IF ws.online /\ frame.kind = "chunk" THEN @ ELSE "ended"]
    /\ reply' = NoReply
    /\ KeepStores /\ UNCHANGED <<conf, clock, cache, batch>>

WsLeave ==
    /\ ws.stage \in {"handshake", "streaming"} /\ ws.online
    /\ ws' = [ws EXCEPT !.online = FALSE]
    /\ reply' = NoReply
    /\ KeepStores /\ UNCHANGED <<conf, clock, cache, batch>>

-----------------------------------------------------------------------------
(* /api/batch-search.  A parallel batch is sorted by priority, highest first
   and stably, and run by the pool in any order; a sequential one runs in the
   order given.  On a Python with asyncio.to_thread the search is passed a
   keyword it does not take, and raises; the older call works. *)
NoBatch == [stage |-> "none", asked |-> <<>>, parallel |-> FALSE, results |-> <<>>, begun |-> 0]

(* In a stable sort by priority, highest first, query i comes before query j. *)
Before(queries, i, j) ==
    queries[i].priority > queries[j].priority
    \/ (queries[i].priority = queries[j].priority /\ i < j)

(* How many come before it is the place of a query in the sorted list. *)
Rank(queries, i) == 1 + Cardinality({j \in DOMAIN queries : Before(queries, j, i)})

Sorted(queries) ==
    [k \in 1..Len(queries) |-> queries[CHOOSE i \in DOMAIN queries : Rank(queries, i) = k]]

Pending == [status |-> "pending", result |-> <<>>]

BatchStart(request) ==
    /\ "batch" \in conf.clients /\ batch.stage = "none"
    /\ LET asked == IF request.parallel THEN Sorted(request.queries) ELSE request.queries
       IN  batch' = [stage |-> "running", asked |-> asked, parallel |-> request.parallel,
                     results |-> [i \in DOMAIN asked |-> Pending], begun |-> clock]
    /\ reply' = NoReply
    /\ KeepStores /\ UNCHANGED <<conf, clock, cache, ws>>

(* Variant: a batch that reads the cache of /api/search. *)
BatchOutcomesCached(question) ==
    LET key == KeyOf(conf.backend, question)
    IN  IF Holds(cache, key, clock)
        THEN {[status |-> "success", result |-> Entry(cache, key).result]}
        ELSE {[status |-> "success", result |-> r] : r \in Outcomes(question)}

(* One search of a batch: whatever search returns, an error message too,
   counts as a success, an exception as an error. *)
BatchOutcomes(question) ==
    IF conf.legacy THEN {[status |-> "success", result |-> r] : r \in Outcomes(question)}
                   ELSE {[status |-> "error", result |-> <<>>]}

(* Variant: a sequential batch that starts all its searches at once. *)
AnyTurn(i) == TRUE

(* A sequential batch awaits each search before it starts the next. *)
Turn(i) == batch.parallel \/ \A j \in 1..(i - 1) : batch.results[j] # Pending

BatchSearch(i) ==
    LET question == Question(batch.asked[i].query, batch.asked[i].store, "keyword")
    IN  /\ batch.stage = "running" /\ batch.results[i] = Pending /\ Turn(i)
        /\ IF conf.legacy THEN EnsureStore(question.store) ELSE KeepStores
        /\ \E r \in BatchOutcomes(question) : batch' = [batch EXCEPT !.results[i] = r]
        /\ reply' = NoReply
        /\ UNCHANGED <<conf, clock, cache, ws>>

BatchFinish ==
    /\ batch.stage = "running"
    /\ \A i \in DOMAIN batch.results : batch.results[i] # Pending
    /\ batch' = [batch EXCEPT !.stage = "done"]
    /\ reply' = NoReply
    /\ KeepStores /\ UNCHANGED <<conf, clock, cache, ws>>

-----------------------------------------------------------------------------
(* A new process: the in-memory cache is lost, Redis is not; connections and
   requests in progress are cut. *)
Restart ==
    /\ cache' = IF conf.backend = "memory" THEN {} ELSE cache
    /\ reply' = NoReply /\ ws' = NoSession /\ batch' = NoBatch
    /\ KeepStores
    /\ UNCHANGED <<conf, clock>>

(* Time; the loop fires a due timeout before the clock runs past it. *)
Tick ==
    /\ clock < MaxClock
    /\ ws.stage = "handshake" => clock < ws.until
    /\ clock' = clock + 1
    /\ reply' = NoReply
    /\ KeepStores
    /\ UNCHANGED <<conf, cache, ws, batch>>

Init ==
    /\ conf \in Configs
    /\ content = [s \in Stores |-> 0]
    /\ made = 0
    /\ gone = [v \in 1..MaxChanges |-> 0]
    /\ clock = 0
    /\ cache = {}
    /\ reply = NoReply
    /\ ws = NoSession
    /\ batch = NoBatch

Next ==
    \/ \E s \in Stores : Upload(s) \/ CreateStore(s) \/ DeleteStore(s)
    \/ \E question \in conf.asked :
          \/ SearchHit(question) \/ SearchMiss(question)
          \/ SearchMultimodal(question.query, question.store)
    \/ WsConnect \/ WsRefuse \/ Produce \/ WsSend \/ WsLeave
    \/ \E q \in Queries, s \in Stores : WsHello(Question(q, s, "keyword"))
    \/ \E request \in Batches : BatchStart(request)
    \/ \E i \in DOMAIN batch.results : BatchSearch(i)
    \/ BatchFinish \/ Restart \/ Tick

Fairness ==
    /\ WF_vars(Tick)
    /\ WF_vars(WsRefuse) /\ WF_vars(Produce) /\ WF_vars(WsSend)

Spec == Init /\ [][Next]_vars /\ Fairness

-----------------------------------------------------------------------------
(* The states of the service.  The in-memory cache never outgrows its size,
   and no key, of either backend, is cached twice. *)
TypeOK ==
    /\ conf \in Configs
    /\ content \in [Stores -> 0..MaxChanges] /\ made \in 0..MaxChanges
    /\ gone \in [1..MaxChanges -> 0..MaxClock] /\ clock \in 0..MaxClock
    /\ \A e \in cache : /\ ~Failed(e.result)
                        /\ e.until \in 1..(MaxClock + TTL)
                        /\ \A f \in cache : e.key = f.key => e = f
    /\ conf.backend = "memory" => Cardinality(cache) <= CacheMax
    /\ reply = NoReply \/ reply.code \in {200, 400, 404, 500}
    /\ ws.stage \in {"closed", "handshake", "streaming", "ended"}
    /\ ws.producer \in {"none", "running", "finished"}
    /\ batch.stage \in {"none", "running", "done"}

(* Whatever is uploaded or deleted between two searches, an answer, from the
   cache or not, is at most the time to live out of date: it was computed
   from contents that are the store's now or were until less than TTL ago
   (cache.py: TTLCache; cache_redis.py: setex). *)
StaleNoLongerThanTTL ==
    reply.code \in {200, 500} =>
        LET r == reply.result
        IN  \/ content[r.question.store] = r.version
            \/ clock - gone[r.version] < TTL

(* With the in-memory cache an answer is the answer to the very question that
   was asked, query, store and mode (api.py: cache_key_params). *)
AnswersTheQuestion ==
    reply.code = 200 /\ conf.backend = "memory" => reply.result.question = reply.question

(* An answer is one to the question, and not older than the cache allows. *)
AnswersAreSound == TypeOK /\ StaleNoLongerThanTTL /\ AnswersTheQuestion

(* The frames of a stream reach the client in the order the producer made
   them, none missing, and the stream is over when it was told so: "done"
   comes last and after every chunk (ws_routes.py: _run_stream). *)
FramesInOrder ==
    \A i \in DOMAIN ws.sent :
        CASE ws.sent[i].kind = "chunk" -> ws.sent[i].n = i /\ i <= ws.made
          [] ws.sent[i].kind \in {"done", "error"} ->
                /\ i = Len(ws.sent) /\ i = ws.made + 1
                /\ ws.stage = "ended" /\ ws.producer # "running"
          [] OTHER -> i = 1 /\ Len(ws.sent) = 1 /\ ws.producer = "none"

(* Every session ends, whether the client says nothing, leaves in the middle,
   or the provider fails: no handler waits for ever on its queue. *)
SessionsEnd == ws.stage \in {"handshake", "streaming"} ~> ws.stage \in {"ended", "closed"}

(* The answers of a batch were true while it ran, none comes from an older
   cached search: each was computed from contents that the store had at some
   time since the batch began. *)
BatchIsCurrent ==
    \A i \in DOMAIN batch.results :
        LET r == batch.results[i]
        IN  r.status = "success" /\ ~Failed(r.result) =>
                \/ content[r.result.question.store] = r.result.version
                \/ gone[r.result.version] >= batch.begun

(* A sequential batch never goes back in time: whatever is uploaded, deleted
   and made again between its searches, a later answer is not computed from
   older contents of a store than an earlier one (batch_routes.py:
   _execute_batch_sequential). *)
BatchInOrder ==
    ~batch.parallel =>
        \A i, j \in DOMAIN batch.results :
            LET r == batch.results[i].result
                later == batch.results[j].result
            IN  /\ i < j
                /\ batch.results[i].status = "success" /\ ~Failed(r)
                /\ batch.results[j].status = "success" /\ ~Failed(later)
                /\ r.question.store = later.question.store
                => r.version <= later.version

=============================================================================
