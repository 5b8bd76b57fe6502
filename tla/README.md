# A formal model of SovDef-FileSearch-Lite (flamehaven_filesearch)

TLA+ modules that model the file-search server of this repository, the TLC runs
that check them and the theorems TLAPS proves about them. Paths below are
relative to `src/flamehaven_filesearch` unless they begin with `tools/`.

## 1. The system

`flamehaven_filesearch` is a FastAPI server (and a library) that ingests files
into named stores and answers keyword, semantic and hybrid searches over them.

| Part | Where | State | Operations | Module |
|---|---|---|---|---|
| Local document store | `core.py`, `_ingest.py` | stores, documents, chunk atoms | create, upload with deduplication, delete, restore | `LocalStore` |
| Snapshots | `persistence.py` | one JSON file per store | save (temp file and rename), load, unlink | `LocalStore` |
| BM25 index | `_search_local.py` | one index per store, set of dirty stores | lazy rebuild | `LocalStore` |
| Chronos grid | `engine/chronos_grid.py` | shards, echo screen, spark buffer, vectors | inject, seek, vector query, clear | `ChronosGrid` |
| Chunking | `engine/text_chunker.py`, `context_extractor.py`, `obsidian_lite.py`, `knowledge_atom.py` | none | split, merge, window, enrich | `Chunking` |
| Embedding | `engine/embedding_generator.py` | two caches, failures in a row | generate, fall back, give up | `Embedding` |
| Indexing of an upload | `_ingest.py`, `knowledge_atom.py` | vectors of the grid, atoms | embed the file, its chunks, a query | `Indexing` |
| Query refinement | `engine/intent_refiner.py`, `query_expansion.py` | none | stop words, corrections, synonyms | `QueryRefinement` |
| Ranking | `_search_local.py`, `engine/hybrid_search.py` | none | score, fuse, cluster, answer | `Scoring`, `Ranking` |
| Searches of threads, meta-learner | `_search_local.py`, `engine/quality_gate.py` | active query, recorded confidences, alpha per store | search, record, adapt | `LocalSearch` |
| Result cache | `cache.py`, `cache_redis.py` | TTL/LRU map | get, set | `SearchCache` |
| Search over HTTP, batches, streams | `api.py`, `batch_routes.py`, `ws_routes.py` | cache, a queue per connection | search, batch, handshake, produce, send | `SearchService` |
| Vector store's connections | `vector_store.py` | circuit breaker | call, retry, trip, probe | `CircuitBreaker` |
| PostgreSQL backend | `storage.py`, `vector_store.py` | documents, vectors | upload, delete, search | `PgBackend` |
| API keys | `auth.py`, `oauth.py`, `security.py` | SQLite table | generate, validate, revoke, bootstrap | `ApiKeys` |
| Usage and quotas | `usage_tracker.py`, `usage_middleware.py` | SQLite tables | set a quota, record a request; check and alert (see section 7) | `UsageQuota` |
| Requests | `usage_middleware.py`, `security.py`, `admin_routes.py` | requests under way | dispatch, authenticate, handle, record | `Gateway` |
| Watcher | `tools/watch_ingest.py` | pending set, keys uploaded | scan or observe, debounce, flush, retry | `WatchIngest` |
| Parsing, providers, rendering, configuration | the rest | none that matters | transformations, remote calls | not modelled |

How they run together decides what can go wrong:

- A REST handler is a coroutine that does not await while it uses the searcher,
  so the event loop runs one upload, search or deletion at a time.
- A WebSocket search and each query of a batch run in executor threads, at the same
  time as the event loop, on the same dictionaries, index, grid, embedding caches
  and circuit breaker, none of which takes a lock.
- An upload changes five things in order: the grid, the document list, the atoms
  (and the grid again), the dirty mark, the snapshot. A crash may come between.
- A restart builds the memory from the snapshots; restored entries live in the
  grid under their URIs, uploads of the running process under their paths. Keys and
  usage are in SQLite and survive; the key of the environment is put in at startup.
- The result cache is filled by searches and told nothing of uploads.
- The middleware that counts usage wraps the dependency that authenticates.
- The watcher is a process of its own that talks to the server by REST.

What makes each part correct: no acknowledged document is lost or doubled, chunks
follow their text, a deletion is final; an index that will be used is current;
every stored glyph is found; what is indexed is the text, and a vector is of its
text; sources are the store's own and a note is found by its title; answers are
not older than the TTL; a stream ends, in order; what the database acknowledged
stands and the breaker closes again; a revoked key opens nothing and only its owner
decides about it; every change of the watched tree arrives.

`PROJECT.json` lists the parts with their status, the lines each definition models
(`map`), and, under `hazards`, what is hard to test in this code, each at its line
with the properties that cover it.

## 2. How the modules fit, and the plan

```
DocumentMap <== LocalStore (LocalStoreRefinement)     documents, memory and disk
CircuitBreaker <- PgBackend                           the same, in PostgreSQL
Chunking, Embedding <- Indexing                       what an upload puts into the grid
ChronosGrid                                           how the grid finds it
Lists <- Scoring <- Ranking, QueryRefinement <- LocalSearch    how a search answers
SearchCache <- SearchService                          how an answer reaches a client
ApiKeys, UsageQuota <- Gateway                        who may ask, and how often
WatchIngest                                           what uploads changes
```

`A <- B` means that B extends A and holds its state; `<==` is a refinement. The seams
between the rows are cut where the code passes a value and keeps no state: `Ranking`
takes the raw BM25 scores and the grid's hits as inputs, `SearchService` the version
of a store's contents an answer was computed from, `LocalStore` the chunk numbers
of a text.

Each component has its proofs in a module of its own (`X_proofs`). Done: all of the
above, the refinement, 40 theorems. Left: a glyph map that ChronosGrid refines, the
hnswlib backend, proofs of liveness (section 11).
No module that is proved about uses a RECURSIVE operator.

## 3. The document store

### LocalStore

State and code: `stores` is `self.stores`; `docs` is `_local_store_docs`, which
`MemoryMetadataStore` shares; `atoms` is `_atom_store_docs`; `built`, `index` and
`dirty` are `_bm25_indices` and `_bm25_dirty`, with the corpus an index was fitted
on in place of its statistics; `byPath` and `byUri` say which glyphs the grid holds
and to which store their essences resolve; `snapshot` is the directory of JSON
files; `saved` is a history variable, the last upload of each file whose snapshot
is known to be written.

- `UploadDoc`, `UploadAtoms`, `UploadMark`, `UploadSave` are `upload_file` cut where a
  search thread or a crash can see the difference; `UploadDuplicate` is its early
  return. A multi-file upload is one after the other. `DeleteStore` and `DeleteSnapshot`
  are the two halves of a deletion. `CreateStore` is also what a keyword search does
  that finds a match.
- `SearchStore` is a search in the event loop that needs the index. `WsEnsureStore` to
  `WsDiscardDirty` are the same search in a pool thread, cut at each access to shared
  state.
- `Crash` loses the memory, `Boot` is the constructor with the restore from snapshots
  and the seeding of the default store.
- `Faults` chooses what may fail: a snapshot write ("save"), the reading of a snapshot
  at startup ("load"), its removal ("unlink"), the embedding of a chunk ("atom"). All
  four are caught and only logged by the code.

Abstractions. A file is the path it is uploaded by. `Resolve` says where that leads,
through linked directories: a document, its URI and its atoms have the resolved path
(`_ingest.py:376`), the glyph of the whole file the given one (`:195`). `Lower` maps
paths that differ in case only to one, as the duplicate scan does (`:107-113`), so an
upload of `Note.md` goes on although `note.md` has its text, and adds a second document.
Contents are a few texts that differ in their number of chunks, the empty text among
them. `Aliases` gives the normalized names that the scan compares; two files of one name
are what the REST API produces from two uploads, for it stores each in a fresh
directory. With a failing "atom" any subset of the chunks may be dropped. `raced` is a
history variable: the stores whose index was published, or whose mark was cleared, by a
thread that a change of the store had overtaken.

### DocumentMap and LocalStoreRefinement

`DocumentMap` is what the store promises: sets of documents in memory with a copy on
disk, changed by replacing one document, emptying one store, copying one store, a
stop and a start. `LocalStoreRefinement` maps the lists of `LocalStore` to these sets;
`ImplementsDocumentMap` says every step of the code is one of those or changes no
document. What it rules out: a request that doubles a document or touches another
store, a search thread that writes documents, a restart that finds anything but
what was copied. `Losable` names the stores a start may fail to read.

| Run | Instance | Shows |
|---|---|---|
| `store_pair` | 2 stores, 1 file under 2 paths and the bootstrap document, 2 texts, failing loads and unlinks | `AtomsFollowDocs`, `AtomsReachable`, `FilesReachable`, `ImplementsDocumentMap` |
| `store_saves` | 1 store, 2 files whose paths differ in case, failing saves | `SavedUploadsSurvive`, `DeletedStoresStayDeleted` |
| `store_threads` | 1 store, 2 files of one name, one search thread, failing loads | `TypeOK`, `DocUrisUnique`, `CleanIndexIsCurrent` |

The state is finite without bounds of its own: uploads replace documents, and only
the sets of stores, files, texts and threads are bounded. Two files suffice for an
alias collision, two stores for a shared glyph, two paths for a link, two chunks for a
text that shrinks. The empty text and one with two chunks differ in everything the code
asks of a text. Two runs declare their two files symmetric, which is sound because
they have the same name (and in `store_saves` the same path but for case) and only the
bootstrap file is treated apart.

Some properties need an environment that does not fail, and the runs and theorems
say which: `SavedUploadsSurvive` and `DeletedStoresStayDeleted` fail when a snapshot
cannot be read or removed, `AtomsFollowDocs` when a chunk is dropped. It says that every
chunk of a current text is an atom of that text; that atoms of an older, longer text go
away is not true of the code and not claimed.

`CleanIndexIsCurrent` and `AtomsReachable` name the one case in which the code fails, as
an exception, and hold in every other. A rebuild in a thread reads the documents, an
upload sets the dirty mark, and `_search_local.py:56` discards it: such a store is in
`raced` from then until it is next rebuilt undisturbed or deleted, and every index
outside `raced` is current, with any number of threads. The exception is one of the code:
with `\ raced` taken out of the property, TLC shows an upload that no later search finds,
against "index rebuilt on first hybrid search after any upload" (`CHANGELOG.md:372-373`).
And the glyph of an atom does not name its store, so a file
uploaded into a second store takes the glyphs of its atoms from the first (`TakenOver`);
an atom is out of reach only while its glyph is held that way, which a restart ends.

### CircuitBreaker and PgBackend

`PgBackend` is the same server with documents (`PostgresMetadataStore`) and vectors
(`PostgresVectorStore`) in PostgreSQL. Documents are read and written on connections
of their own, vectors through `_connect`, which makes three attempts around a circuit
breaker. The breaker's fields are shared by the event loop and the pool threads
without a lock: `Probe`, `Connect`, `Succeed`, `Close`, `Blame`, `Trip`, `Open` are
`_connect` cut between a test of a field and the assignment that follows it.
`up` is the database, which comes and goes; `expired` says the recovery timeout has
passed; `burst`, `kept` and `gone` are history variables.

A document stands for its path and its text. An upload of a path that has a row already
is no duplicate (`_ingest.py:109-113` ends the scan with "none"), and `add_doc` inserts a
second row (`storage.py:115-131`); only an equal text of another path that comes before
any row of the same path ends an upload early (`IsDuplicate`).

`AcknowledgedStands` (types included): a document whose upload succeeded is in the
database until its store is deleted, and a deletion that succeeded leaves nothing of
documents or vectors. `BurstBounded`: within a recovery timeout a dead database sees at
most `threads * (FailureThreshold + threads + 1)` failed connections, however the
threads race: a thread that connected before the database died, or probes when the
timeout passes, can start the count of failures again, once per thread. With two threads
TLC also finds the smaller `threads * (FailureThreshold + 1) - 1` kept, but three
threads with thresholds of 1 exceed it. `Recovers`: if the database comes back for good,
the breaker is closed from some time on. Fairness: threads run, time passes, and
searches keep coming - a breaker nobody asks stays as it is, so the last is needed and
is what a served system does.

`pg_outage`: one store, one document uploaded again and again up to `MaxRows = 2` rows,
another of the same text that is there from before or not (`Held`), event loop and one
thread, thresholds and retries of 2 instead of 5, 2 and 3. Two rows are all it takes to
have a path twice; the thresholds exceed 1, so counters have an
intermediate value; two threads make every race between two steps.

## 4. The index

### Chunking, Embedding and Indexing

`Chunking` has the pure algorithms: sections under headings, paragraphs packed to
a token budget, long ones cut at sentences, small chunks merged with their
predecessor, overlapping windows, and the context of a chunk. A word is named by its
place in the document, so a lost, doubled or misplaced word shows. Characters are
counted in words.

`Embedding` has both providers: `EmbeddingGenerator` ("dsp"), a deterministic
projection, and `OllamaEmbeddingProvider` ("ollama"), which asks a server and falls back
to a projection of its own. `call[t]` is where a thread is in `generate`: the test for
an empty text, which goes to the projection whoever is up, the lookup, the read of a
hit, the request, the room check, the removal of the oldest key and the insertion are
separate steps, for the dicts are shared without a lock. A vector is known by who made
it and of which text; the projection reads the first `TextLimit` words, the provider's
cache is keyed by the first `KeyLimit`.

`Indexing` composes them: an upload embeds the file, cuts it, embeds each chunk and
stores an atom; a query is embedded and compared with every vector of the grid. A query
may be blank, when all its words are stop words.

| Run | Instance | Shows |
|---|---|---|
| `indexing` | all notes of up to 3 blocks from 7, 4 of 4, 27 with three headed sections; two threads over a shared provider with and without its server; caches of 1 entry | `ChunksAreTheText`, `BudgetHolds`, `HeadingsAreAncestors`, `VectorsAreTheirTexts`, `CacheBounded`, `AloneAllSucceeds`, `SessionFallback` |
| `embed_mixed` | one thread, a server that may fail | violation of `SearchesAreAnswered`: dimensions mix |

Seven blocks are three levels of heading and paragraphs below, at, above and far above
the budget of 4 tokens, with a sentence longer than it; the windows of 3 words do and
do not overlap. A cache of one entry makes every second insertion evict. Documents
are inputs: each is one initial state.

`ChunksAreTheText` is about the chunks an upload makes, not about what can be found in the
end: `inject_chunks` leaves out a chunk shorter than `min_chunk_chars`
(`engine/knowledge_atom.py:48`) and one whose embedding raises, and a section that has
nothing below its heading makes no chunk at all; the comment of the property says so.
It holds together the stages of a job: however a text is split, merged and cut into
windows, no word of it is lost, none is moved, and the vectors that do get into the
grid are of their texts up to the key of the cache. Two texts with one key
(the first 256 characters) share a vector of the server; that is what the code does, and
the run has such texts: a file and its first chunk.

`BudgetHolds` states the bound the code really keeps: tokens are rounded down before
they are added, so the budget of tokens is kept as a budget of words, up to a third
more tokens. `HeadingsAreAncestors` is about notes that skip no heading level; in one
that does, `heading_stack[: level - 1]` leaves siblings nested in each other, and
the property says nothing of it.

### ChronosGrid

`shards`, `total`, `echo`, `spark`, `vectors` and `glyphs` are the fields of the class.
`inj` is an injection in the event loop, cut into hash bits, shard, vector, glyph;
`seek` is a vector query in each thread, with `seek_resonance` for each result cut at
every access to shared lists, and `_spark_inject` at each of its tests and changes: a
thread may find the buffer full and, when it comes to `popitem`, empty. The hash is
given by its results (`Etch`, `ShardOf`), so collisions are chosen by the instance; an
essence and its vector stand for one injected version; which vectors score best is
nondeterministic. Not modelled: the hnswlib backend, shard boundaries and statistics
(never read back), quantization.

`grid_threads`: event loop and one pool thread, 3 glyphs in one shard, 2 versions, a
buffer of 1. Three glyphs in one shard exercise both directions of the bisection and
an insertion before, between and after; one bit pattern is covered by the others, so
the echo screen errs. The versions are symmetric: the grid only stores and copies
them. `Consistent` relates shards, screen, total, vectors and glyphs at every step of
an injection; `SparkCoherent` bounds the buffer (each thread beyond the first can
overrun it by one) and says it caches stored glyphs once. `alone` is a history field:
it tells the queries that an injection or an eviction of another thread may have
disturbed from those that ran as if alone, which must resolve all their results
(`AloneQueriesResolve`). Disturbed queries may raise: a vector is appended before its
glyph (`engine/chronos_grid.py:248`), and an evicted glyph makes `move_to_end` fail.

## 5. Searches

`QueryRefinement` drops stop words, corrects typing errors and appends synonyms. `Lists`
has what Python makes of a list: what a comprehension with a condition picks, what a
sort yields (the elements, each at the place that the number of those before it gives)
and a sum. `Scoring` has the scores of one document for one query (name, title, prefix,
phrase and lexical scores), on terms instead of characters: two relations, which term
begins another and how long a term is, stand for the characters. A document has the
terms of its names, headings, tags, links and body, all of which the index takes
(`_search_local.py:566-591`); a query shorter than four letters is no title (`Short`).
`Ranking` has the rest of a search: keyword ranking with its adjustments, clustering,
rank fusion, the exact note with its arbitration, the backstop, the confidence and its
verdict, the answers of the three local modes and of a provider. It is in integers:
fused scores in multiples of `1/Unit`, a common multiple of the denominators,
confidences in ten-thousandths, so comparisons are exact up to the code's own rounding.

`LocalSearch` runs searches of threads. A hybrid search takes several steps, because
the query it reranks with is an attribute of the shared searcher
(`_active_query_for_semantic_rerank`), set at `_search_local.py:720` and cleared at `:722`,
without a `finally`. Between the two `_collect_sem_ranked` reads the metadata store, which
raises in an outage of PostgreSQL: `CutShort` ends the search there, and its query
stays. What the learner does after a search is three steps, for other threads come
between: `Record`, `Consider` (is it the round's last search?) and `Adapt`, with the
`alpha` that was read when the round was found complete. A store without documents is
answered without a confidence and teaches nothing (`AnswerNothing`). A store may have two
rows of one URI, as PostgreSQL keeps of a path uploaded twice; what is looked up by URI
is then the first of them.

- `OnlyCutReranksLeaveTheirQuery`: the shared query is empty, or the one of a rerank
  under way, or one that a failure of the database left behind (`abandoned`, a history
  variable); without such failures no search leaves one.
- `SourcesAreTheStoresOwn`: sources are distinct rows of the store asked, at most
  `max_sources`, confidence between 0 and 1, whatever the grid returned. Two rows of one
  file may both be listed.
- `FusionIsSound` (types included): a document ahead of another in both rankings is
  ahead in the fused one; two rankings with nothing in common are flagged.
- `TitledNoteLeads`: a query that is a note's title finds it first, in the semantic
  mode and with a provider, although synonyms were added to what is searched for. It is
  found by the query as it was typed. A title shorter than four letters is not found
  (`_search_local.py:213`, `:251`), and the property leaves it out.
- `AlphaFollowsEvidence`: the semantic ranking gains weight only when the recent
  semantic searches of that store were the surer ones, and loses it only otherwise.

`local_search` has six workloads, one chosen at the start: every mode over 9 queries,
raw scores and grid results (foreign documents, duplicates, none), in a store of three
notes, in one with two rows of a note, in an empty one; a provider; all sequences of 4
small searches in two stores; 24 searches in one store; two threads that learn; two
threads that rerank while the database may fail them at any step. Rounds of 2 instead of
100, windows of 4 instead of 100. Each pair of notes differs in the rule that ranks it,
one has headings, tags, links and an atom, one query is a title of three letters.
Deadlock checking is off: a workload ends.

Two threads can rank with each other's query: `RankSemantic` reads `active`, which
another thread may have set, or left behind. The properties hold nevertheless; that a
search ranks with its own query does not, and is not claimed.

## 6. Answers over HTTP and WebSocket

`SearchCache` has what the two caches do: the in-memory one is a `TTLCache` (external,
by its use here), Redis keeps each key until it expires and ignores the mode in its key.
A cache is a set of entries; how recently one was used is its age, the number of entries
used since. `SearchService` has stores whose contents are versions, the search handlers
(one action each: they do not await), batches, and one WebSocket session with its
producer thread. An upload creates a store that is missing, with either engine;
multimodal searches are taken to be enabled (by default they are refused). A handshake
is refused with an "auth_error" or, for other reasons, an "error" frame. `gone` is a
history variable: when a version was replaced.

- `AnswersAreSound` (types included): an answer, cached or not, is of contents that were
  the store's less than the TTL ago; with the in-memory cache it answers the question
  asked, mode included. With Redis the second part does not hold.
- `FramesInOrder`, `SessionsEnd`: the frames of a stream come in order, "done" last and
  once; every session ends, though the client is silent, leaves, or the provider fails.
- `BatchIsCurrent`, `BatchInOrder`: answers of a batch were true while it ran, and a
  sequential batch goes forward in time: whatever is uploaded, deleted and made again
  between its searches, none is answered from older contents of a store than one
  before it. A parallel batch promises no such thing.

Fairness: time passes (the handshake has a timeout), the producer thread runs, and
the event loop takes what is in the queue. Nothing is assumed of the client.
`service`: 1 store, 2 queries, 2 modes, cache of 2, TTL of 2 of 3 ticks, 3 changes,
streams of up to 2 chunks; seven deployments, so that HTTP, streams and batches are
explored apart, with each engine, cache and kind of batch call. A batch passes
`max_sources` to `search`, which has no such parameter: on Python 3.9 and later each
query of a batch fails (`batch_routes.py:218`); the deployments have both kinds of
call. `CHECK_DEADLOCK FALSE`: with clock and changes used up nothing may be left.

## 7. Keys, quotas and requests

`ApiKeys` has the key table, the bootstrap of `FAS_API_KEY`, tokens and admins;
`UsageQuota` has the requests recorded for each key and its quota. `Gateway` has requests
on their way: the middleware, authentication, the handler (an ordinary one, an admin
route that reports, or one that creates a key, revokes one or sets a quota), and the
record. Requests interleave between these steps.

The middleware looks for the key of a request under the name `auth_context`
(`security.py:54`, `usage_middleware.py:54`), before it calls the route. Nothing in the
repository writes that name: `security.py:225` writes `request_context`, and later. So
`ContextOf` is always nobody, no request is recorded and no limit is ever looked at, which
the run `usage_untracked` shows as a violation of `UsageIsTracked`, "Automatically tracks
all API requests and enforces quotas". The limits, the alerts and the clean-up of
`usage_tracker.py` are therefore not modelled: a property of theirs would be about
states the program is never in.

- `RevokedKeysOpenNothing` (types included): a key revoked before a request arrived does
  not open it. `RevocationIsFinal`: no request and no restart, not even one
  configured with that very key, brings it back.
- `ConfiguredKeyIsStored`: a start with a key in the environment has it in the table
  afterwards, and nothing takes a key out - if no other configured key ends in the
  same eight characters, which the instance assumes: ids are made of them, and
  `INSERT OR IGNORE` drops the second.
- `OwnersDecide`: a key becomes inactive, or gets another quota, only by a request in
  the name of its owner, though keys are created, revoked and restored by restarts
  between the steps of that request.

`gateway`: 2 clients (symmetric), 3 requests, 2 secrets, a token and the admin secret, two
quotas, restarts at any point. Three requests suffice to create, revoke and use a key, two
clients to have one under way while another is served. `usage_untracked` is the same
instance.

## 8. WatchIngest

`file` is the tree, `received` what the server has received of each file last (it keeps
every version), the other variables are those of the two loops. The
scan looks at one file at a time and leaves out one it cannot read, a flush computes the
key of a file and uploads what the file holds later; edits, deletions and, in event mode,
the observer thread interleave with every step, the one between `batch = set(pending)`
and `pending.clear()` included. Contents may recur. A file may be saved in place or by
renaming another onto it. An upload may be accepted, refused, or stored with its answer
lost. `_flush` takes its files in any order instead of sorted. The mtime-keyed hash
cache is left out, which assumes that two versions of a file differ in mtime or size.

Two history variables name the ways in which the code loses a change: `past`, the
contents a file had before the present one, and `dropped`, the files whose last event
was cleared unseen (`tools/watch_ingest.py:202`) or never raised, because the handler has
no method for a move (`:174`). `Escaped` is either. `ChangesNotForgotten` (types included)
says that any other change the server has not got is on its way: the next scan will see
it, or it waits, is in a flush, or failed in one. `ChangesArrive` is the liveness: when
the edits have stopped, every file that has not escaped arrives.

Fairness (`FairSpec`): the loop and the observer thread keep running and time passes
(both threads live as long as the process, and sleeps are bounded); a file that is
tried again and again is at last readable and at last accepted (strong fairness:
otherwise retrying forever is all the code can do); and from some time on no scan finds a
file unreadable, for a file that can be read only now and then looks to the scan like one
that comes and goes, and is uploaded only if it stays longer than the debounce window.
`setup.edits` bounds the changes of the tree, so "the edits have stopped" is part of every
behaviour.

`watch` has four installations: polling and events, each with 2 files that change twice
and with 1 that changes three times (which is what a content needs to recur, or an event
to be lost and another to come). The exceptions are ones of the code, against "Watches a
directory tree and re-uploads changed / new files" (`tools/watch_ingest.py:4`): without
`Escaped` TLC shows, of one polled file and three changes, an edit that is undone while it
is uploaded, or a file that is away when its batch is flushed and then back, which leaves
the server with something else (`:160`); and of one observed file a save by renaming,
which no handler looks at (`:181`). `CHECK_DEADLOCK FALSE`: with the edits used up and nothing pending, the loop
only sleeps.

## 9. What the runs show

| Run | Module | Expectation | States |
|---|---|---|---|
| `store_pair` | `MCLocalStore` | pass | 1.3 million |
| `store_saves` | `MCLocalStore` | pass | 394 866 |
| `store_threads` | `MCLocalStore` | pass | 1.5 million |
| `grid_threads` | `MCChronosGrid` | pass | 2.8 million |
| `indexing` | `MCIndexing` | pass | 29 145 |
| `embed_mixed` | `MCIndexing` | violation | - |
| `local_search` | `MCLocalSearch` | pass | 92 120 |
| `service` | `MCSearchService` | pass | 203 825 |
| `pg_outage` | `MCPgBackend` | pass | 811 152 |
| `gateway` | `MCGateway` | pass | 38 177 |
| `usage_untracked` | `MCGateway` | violation | - |
| `watch` | `MCWatchIngest` | pass | 139 159 |

The two violations are findings:

- `usage_untracked`: usage is never recorded (`security.py:225`).
- `embed_mixed`: one failed call of the embedding server puts a 384-dimensional vector
  among 768-dimensional ones, after which every semantic and hybrid search raises
  (`engine/embedding_generator.py:477`, `engine/chronos_grid.py:371-381`), though
  `CHANGELOG.md:169-170` promises that it "transparently falls back to DSP".

Some definitions (`...Once`, `...Late`, `...Reversed` and the like) are deliberately
broken variants of the definition that follows them. No specification uses them:
each breaks one property when it takes the place of the original, which shows that
the property depends on that piece of code.

## 10. What is proved

TLAPS proves, for every value of the constants that satisfies the named assumptions,
with `[]` over all behaviours:

| Theorem | Module | States | Assumes | By |
|---|---|---|---|---|
| `TypeCorrect` | `LocalStore_proofs` | `TypeOK` | - | inductive by itself |
| `UrisUnique` | " | `DocUrisUnique` | - | `UniqueInv` |
| `SavedUploads` | " | `SavedUploadsSurvive` | snapshots can be read | `SavedInv` |
| `DeletionIsFinal` | " | `DeletedStoresStayDeleted` | snapshots can be read and removed | `DeletedInv` |
| `AtomsFollow` | " | `AtomsFollowDocs` | no chunk is dropped | `FollowInv` |
| `CleanIndex` | " | `CleanIndexIsCurrent` | - | `IndexInv` |
| `Refinement` | " | `ImplementsDocumentMap` | - | `TypeOK`, `UniqueInv`, `UnlinkInv` |
| `EmbeddingTypes` | `Indexing_proofs` | `EmbeddingTypeOK` | - | inductive by itself |
| `CacheIsBounded` | " | `CacheBounded` | - | `WithinBound` |
| `VectorsAreSound` | " | `VectorsAreTheirTexts` | - | `CachesFit`, `CallsFit` |
| `AloneSucceeds` | " | `AloneAllSucceeds` | - | `OnlyOne` |
| `FallbackStays` | " | `SessionFallback` | - | `OnlyOne` |
| `ChunksAreText` | " | `ChunksAreTheText` | - | `IndexingFits` |
| `BudgetIsKept` | " | `BudgetHolds` | - | `IndexingFits` |
| `HeadingsAreRight` | " | `HeadingsAreAncestors` | - | `IndexingFits`, `JobsFiled` |
| `WatchTypes` | `WatchIngest_proofs` | `TypeOK` | - | `TypeOK`, `Orderly` |
| `ChangesRemembered` | " | `ChangesNotForgotten` | - | `WatchInv` |
| `FilesAreReachable` | `LocalStore_proofs` | `FilesReachable` | - | `ReachInv` |
| `AtomsAreReachable` | " | `AtomsReachable` | - | `ReachInv` |
| `GridConsistent` | `ChronosGrid_proofs` | `Consistent` | - | `ShardsInv`, `ListsInv`, `TotalIsExact` |
| `SparkStaysCoherent` | " | `SparkCoherent` | - | `SparkCachesStored`, `RoomInv` |
| `UndisturbedQueriesResolve` | " | `AloneQueriesResolve` | - | `SeekInv` |
| `DeadDatabaseLeftInPeace` | `PgBackend_proofs` | `BurstBounded` | - | `BreakerInv`, `BurstInv` |
| `AcknowledgedStandsAlways` | " | `AcknowledgedStands` | - | `DataInv` |
| `GatewayTypes` | `Gateway_proofs` | `TypesInv` | - | `TypeOK`, `RequestsFit` |
| `RevokedForGood` | " | `RevocationIsFinal` | - | `TableInv` |
| `OnlyOwnersDecide` | " | `OwnersDecide` | - | `TableInv` |
| `ConfiguredKeyStored` | " | `ConfiguredKeyIsStored` | suffixes tell configured keys apart | `TableInv` |
| `RevokedKeysRefused` | " | `RevokedKeysOpenNothing` | no other credential is spelled like a key | `RefusalInv` |
| `AnswersSound` | `SearchService_proofs` | `AnswersAreSound` | - | `VersionsInv`, `CacheInv`, `ReplyInv` |
| `FramesArriveInOrder` | " | `FramesInOrder` | - | `SessionInv` |
| `BatchStaysCurrent` | " | `BatchIsCurrent` | - | `VersionsInv`, `BatchInv` |
| `BatchGoesForward` | " | `BatchInOrder` | - | `VersionsInv`, `BatchInv` |
| `LocalSearchInvariant` | `LocalSearch_proofs` | `LocalSearchOK` | - | inductive by itself |
| `LearnerTypeCorrect` | " | `TypeOK` | - | `LocalSearchOK` |
| `QueriesAreCleared` | " | `OnlyCutReranksLeaveTheirQuery` | - | `LocalSearchOK` |
| `SourcesAreOwn` | " | `SourcesAreTheStoresOwn` | - | `LocalSearchOK` |
| `FusionSound` | " | `FusionIsSound` | - | `LocalSearchOK` |
| `TitledNotesLead` | " | `TitledNoteLeads` | `ClustersAreFiles` | `LocalSearchOK` |
| `LearnerFollowsEvidence` | " | `AlphaFollowsEvidence` | - | `LocalSearchOK` |

`UniqueInv` adds the lists a search thread has read and not yet published. `SavedInv`
says what memory holds while an upload is between its document and its snapshot, and
that a store being deleted has nothing saved. `DeletedInv` adds that a request names a
listed store, except the deletion that removed it. `FollowInv` allows the chunks of
one document to be missing, the one whose atoms are still to be injected. `IndexInv`
allows the index of the store of the running upload to lag until the mark, and follows
each search thread: one that no change has overtaken holds the documents and atoms of
now (`InStep`), so what it publishes and cleans is current; a late one puts the store into
`raced`, whose index is promised nothing. For the
refinement, each action is shown to be a `Put`, `Drop`, `Sync`, `Stop` or `Start`, or to
leave both maps alone; `StoreDoc` replaces exactly one document because URIs are
unique, and the unlink of a snapshot is a `Sync` because the store it belongs to is
empty in memory by then, even if a search thread has listed it again (`UnlinkInv`).
`WithinBound` counts a cache's entries together with the threads that have found room
and not yet inserted: the sum, not the length, is what no step increases past the
bound. `EmbeddingSpec` lets any thread embed any text at any time, which is more than
`Indexing` does with it.

Where one thread is active (`OnlyOne`) nobody evicts what its call found, nobody counts a
failure between its reading the counter and its writing it, and its call never raises
(`CallHolds`). If there is no server, every vector of the cache, of the call and of the
grid is the projection's, so all can be compared, and the chunks behind the thread are
atoms unless too short (`AtomsKept`). If there is one, a request is under way only below
the limit of failures, so at the limit nothing sets the counter back. Both fail with
two threads, which is what `embedding_generator.py` says nothing about and the runs show
by their hypothesis `Alone`.

`IndexingFits` says of each stage of a job what its chunks are. The sections hold the text
below the headings (`SectionsHold`), and so do the chunks of splitting and merging, put
one behind the other (`PiecesHold`); each is a stretch within the budget. The windows
may overlap, so from there on the chunks only tile the text (`Tiled`): each is a stretch
of it, they begin one after the other, and no word is left out; without overlap each
begins behind the one before it (`Apart`), which is why a neighbour's words are not the
chunk's own. That a chunk is in order and in its place follows from `Distinct`: no word
is twice in a document. The lemmas under it are about every text and every limit:

- packing keeps the text and the budget (`PackOK`): tokens are rounded down part by part,
  and a part of n words counts for at least n;
- `FlattenSeq` of lists in a row is that of each in a row (`FlattenConcat`), so a stage
  is proved section by section and chunk by chunk;
- the windows of a text reach its end (`WindowsTile`): as many as `WindowsOf` says are
  enough, none is empty, and each begins a stride behind the one before it;
- what is proved of every list is proved by `ListInduction`, which speaks of a set of lists
  that is closed under one more element, not of a predicate, so it is first-order; where
  the code has a loop, `Chunking` has a recursive function on the length of a prefix.

`JobsFiled` follows the headings. Block by block, those above stand on a stack (`Stack`),
each at its level and as many as the level of the last one: a note that skips no level
never leaves a gap, so cutting the stack before the level of a new heading takes away
exactly the headings it ends. Sections then stand under their headings with every
word, chunks are stretches of sections, and a chunk that takes another one in keeps
its first word.

`SetupsAssumption` says what an instance may upload: documents whose paragraphs and
sentences are not empty (a document without a word has no chunks), words that
are known, limits that are numbers. No order between the limits is assumed.

`WatchInv` says of both modes: a key that was acknowledged for content that was not sent
belongs to content the file has lost since, and has again only if it came back to it
(`KeysHonest`), so the key test of `_flush` never skips a file that is missing and has not
escaped. In polling mode `pending` does not count as remembering a file while a flush
runs, because the flush ends by replacing it (`InHand`); in event mode it counts
throughout, and what `pending.clear()` drops is in `dropped`.

`ReachInv` says that each document with a text, and each atom, has its essence in the
grid, under its path or its URI: in a running process the grid forgets nothing, and
a restart puts the essences of what it restores under their URIs. For a file, any
essence of its path leads to the document; an atom has an essence, but its glyph may
have gone to another store since, which is `TakenOver`. So `AtomsAreReachable` holds for
any number of stores, with that exception.

`ShardsInv` has the shards sorted, with exactly the glyphs that were injected, each
in the shard of its hash and with its bits in the screen; `TotalIsExact` is a sum
over shards. While an injection is under way the pending glyph is in some of the
structures and not yet in others, and `ListsInv` says in which: vectors and glyphs
follow the shards but for that one. A query's bisection is right because what it
looks for is between its bounds as long as no other thread has touched the shard
(`SeekAlone`); whatever it does, it stays in the bounds of the lists (`SeekSound`).
`RoomInv` counts the buffer together with the threads that are past the test of
its size, like `WithinBound`.

`BurstInv` is a potential: the failed connections so far and those still to come, by
where each thread is in `_connect`, stay within the bound. A thread that comes from
before the outage or is about to probe (`StalePcs`) is worth a whole round, any
other thread at most one connection, the breaker what is missing to its threshold.
`DataInv` says what each thread in flight has done so far: a deletion in its second
half has no documents left, an upload's store is not gone.

`IdsTellSecrets` says that a row of the table is found under the id of its own
secret; with it no insertion replaces a row and a revocation hits the key it names.
`RefusalInv` follows the keys that were revoked when a request came (`dead`): they stay
revoked, and a request that has been authenticated was not opened by one.

`VersionsInv` says that no two stores share a version, and that the bound on changes
leaves a version for every store a search may create (`Room`), so the bound stops no
search. An entry of the cache was true of its store TTL before it expires (`EntrySound`,
by `TrueSince`): a lookup, an eviction and ageing leave that alone, a step of a store
can only end it now. `BatchInv` says the same of each result and the time the batch
began, and that no result is of a version newer than its store's (`NotOlder`): versions
only grow, so a search that has waited for its turn finds one at least as new. That a
batch is its request in another order, for lists of any length, is `SortedProperties`:
the ranks of a list of n are the numbers to n, each once. `Streaming` says that what was
sent and what is still queued are together, in order, the chunks produced and, once the
producer stopped, one last frame. The theorems hold for the safety part of the
specification; its fairness plays no part in their proofs.

`LocalSearchOK` has five parts: each search is where the code can have it, with a note, a
backstop and rankings made from its own question (`SearchesOK`); the learner is within its
bounds, searches under way counted as recorded (`LearnerOK`); a thread that is alone
adapts the alpha there is (`AloneOK`); the shared query is that of a rerank under way or
of one that was cut short (`OnlyCutReranksLeaveTheirQuery`); the last answer is right
(`LastOK`). Every step moves a search on, answers it, cuts it short or lets a thread learn
(`StepIs`), so the parts are proved for these kinds of steps instead of twelve actions.
What makes an answer right are lemmas on the operators, for lists of any length:

- a sort and a comprehension permute what they are given and keep its order (the lemmas
  on `InOrder` and `Picked`; a rank is a number of predecessors, so ranks are all
  different and leave no gap);
- `FusionAgrees`: of two documents that are once in each ranking, the one ahead in both
  has in each at least the weight of the other and comes first in what is sorted, so it
  stands ahead after the sort, which is stable, the cut and both clusterings;
- `ConfidenceFacts`: the confidence is between 0 and 10000, and at most a quarter when the
  rankings have nothing in common, which the gate flags;
- `TitledNote`: a note titled with the query scores 820, every other note less, so a
  titled note's cluster is the first and too far ahead to be undecided;
- `RecommendedFacts`: the new alpha stays in range and moves toward the surer ranking.

`SourcesAreOwn` makes no assumption on URIs: rows are told apart, so of a file with two
rows an answer may name both. `FusionSound` leaves out documents that are ranked twice,
under two glyphs or in two rows, for then their places add up. `ClustersAreFiles` says that
the documents of a cluster are the rows of one file: a cluster is keyed by the path in
small letters, and where two files differ in case only, the one that comes first in the
store leads, titled or not. Together with `Short`, which the property itself leaves out,
these are the notes that a query by title does not find.

What a theorem does not say. `AtomsFollow` leaves room for atoms of an older text; the
refinement lets a start find less than was saved when a snapshot cannot be read;
`UndisturbedQueriesResolve`, `AloneSucceeds` and `FallbackStays` are about threads that
nothing disturbs, because the code gives no promise to others; `HeadingsAreRight` is about
notes that skip no level. The `hazards` of `PROJECT.json` name what each leaves uncovered.

## 11. What is only model-checked

Liveness (`Recovers`, `SessionsEnd`, `ChangesArrive`): fairness and ENABLED are out of the
reach of the proof system.

Every other property of a passing run is a theorem. The properties of the runs that expect
a violation are false, so there is nothing to prove.

## 12. What is not modelled

- The Gemini client, LLM providers, file parsing, OCR: remote services and external
  libraries. The searches that use them are modelled with their success and failure.
- Floating-point: BM25 statistics, cosine similarity, the projection of a text,
  quantization. Their results are inputs or nondeterministic.
- `parse_cache` (off: no caller passes `use_cache`), `FileMetadataCache` and the output
  of `GravitasPack`, which nothing reads back.
- Usage limits, alerts, trends and their clean-up: no request is ever recorded
  (section 7).
- Excerpts, snippets, dashboards, metrics, logging, configuration, validation, rate
  limiting (slowapi), encryption of columns, schema and index statements of PostgreSQL.
- Maintenance scripts under `tools/` other than the watcher.
- Queries in other languages than English, and file types and filters in a query.

## 13. Observations on the way

Not all of what the models showed is a contradiction of a document; these are facts a
maintainer may want to know. Each was read off the code while it was modelled.

- Deleting a store leaves its essences in the grid (`core.py:229`), which has no removal;
  they take places among the results of every semantic search. An existing document
  without text makes every later file of its name a duplicate (`_ingest.py:137`). An
  updated essence stays in the spark buffer under its old value
  (`engine/chronos_grid.py:270`). A search of an unknown store creates it.
- A query of stop words only is refined to the empty text, which a provider search
  matches with every document. Merging joins a small chunk to its predecessor where the
  documentation says successor; sections with a heading only vanish; a window is filed
  under the headings of the chunk it was cut from. The projection reads 512 of the 800
  characters of a window. A late success of another thread revokes the giving up of
  the embedding server. `_chunk_text` does not end if the overlap is not less than the size.
- With Redis a successful search answers 500 after it cached its result: the statistics
  of that cache have no `current_size`. `/cache/flush` of the admin routes empties caches
  the server does not use. In local mode a stream turns an error into an empty chunk
  and "done". A batch reports a result whose status is "error" as a success. A
  multi-file upload counts every saved file as successful (`api.py:721`).
- `POST /usage/quota/global` is read as a key named "global" and ends in 403. Keys
  cannot be listed by user when columns are encrypted; `expires_at` is stored and
  ignored; two configured keys with the same last eight characters collide, and the
  second is not stored. Alerts of one day are not deduplicated, because timestamps of two
  formats are compared as text.
- A half-created store in PostgreSQL (listed, but without its row) refuses uploads until
  a restart.
