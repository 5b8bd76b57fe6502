------------------------------ MODULE LocalStore ------------------------------
(***************************************************************************)
(* The in-memory document store of flamehaven_filesearch in its local      *)
(* mode, with snapshot persistence enabled: FlamehavenFileSearch (core.py),*)
(* IngestMixin (_ingest.py), the BM25 part of LocalSearchMixin             *)
(* (_search_local.py) and FlamehavenPersistence (persistence.py), as the   *)
(* server (api.py, ws_routes.py) runs them.                                *)
(*                                                                         *)
(* REST handlers are coroutines that never await while they use the        *)
(* searcher, so the event loop runs one request at a time; `req` is that   *)
(* request.  A WebSocket search runs in a pool thread and interleaves with *)
(* it at any point; `ws` holds the local variables of those threads.  The  *)
(* process may stop between any two steps and start again from its disk.   *)
(*                                                                         *)
(* A document is identified by its resolved path: within a store the       *)
(* stable URI local://<store>/<quote(abs_path)> is a function of it.  The  *)
(* fingerprint of a document is its content (sha1 of the text), and an     *)
(* atom is the pair of its document's path and its chunk number.  The      *)
(* server writes every upload to a new file (api.py), so only directories  *)
(* of a path are links, and a file keeps its name when it is resolved.     *)
(***************************************************************************)
EXTENDS Naturals, Sequences

CONSTANTS
  Stores,       \* store names
  Default,      \* the store the server creates for itself
  Paths,        \* absolute paths, as uploads give them and documents keep them
  Resolve,      \* Resolve[p]: p with its links followed (Path.resolve)
  Lower,        \* Lower[p]: p in lower case
  Bootstrap,    \* stands for the bootstrap document, which has no path
  Aliases,      \* Aliases[p]: normalized names of the file at p
  Contents,     \* extracted texts
  Empty,        \* the empty text
  BootstrapText, \* the text of the bootstrap document
  ChunkIds,     \* chunk numbers
  ChunksOf,     \* ChunksOf[c]: the chunks of c that are long enough to index
  Workers,      \* pool threads that serve WebSocket searches
  Faults,       \* operations the environment may make fail
  Null          \* "no content"

ASSUME ConstantsAssumption ==
  /\ Default \in Stores
  /\ Bootstrap \in Paths
  /\ Resolve \in [Paths -> Paths]
  /\ \A p \in Paths \ {Bootstrap} : Resolve[p] # Bootstrap
  /\ \A p \in Paths : Resolve[Resolve[p]] = Resolve[p]
  /\ Empty \in Contents
  /\ BootstrapText \in Contents \ {Empty}
  /\ Null \notin Contents \cup Stores
  /\ 0 \notin ChunkIds
  /\ ChunksOf \in [Contents -> SUBSET ChunkIds]
  /\ ChunksOf[Empty] = {}
  /\ Faults \subseteq {"save", "load", "unlink", "atom"}

VARIABLES
  up,         \* the server process is running
  req,        \* the request the event loop is executing
  stores,     \* self.stores
  docs,       \* self._local_store_docs, shared with MemoryMetadataStore
  atoms,      \* self._atom_store_docs
  built,      \* the keys of self._bm25_indices
  index,      \* self._bm25_indices: the corpus each index was fitted on
  dirty,      \* self._bm25_dirty
  raced,      \* history: the indices last published or cleaned by a late thread
  byPath,     \* ChronosGrid, glyphs <path> and <path>#<chunk>: the essence's store
  byUri,      \* ChronosGrid, glyphs that are stable URIs (restored entries)
  snapshot,   \* {PERSIST_PATH}/stores/<store>_docs.json
  ws,         \* the WebSocket search each pool thread is executing
  saved       \* history: the last upload of each file known to be on disk

memory == <<stores, docs, atoms>>
bm25   == <<built, index, dirty, raced>>
grid   == <<byPath, byUri>>
vars   == <<up, req, memory, bm25, grid, snapshot, ws, saved>>

-------------------------------------------------------------------------------
(* Data                                                                    *)

Doc      == [path : Paths, content : Contents]
AtomKeys == Paths \X ChunkIds
AtomMap  == [AtomKeys -> Contents \cup {Null}]
NoAtoms  == [k \in AtomKeys |-> Null]

\* A glyph of the grid: chunk 0 is the file itself.
GridKeys == Paths \X (ChunkIds \cup {0})

\* What a BM25 index is fitted on, and what a snapshot file holds.
Corpus      == [docs : Seq(Doc), atoms : AtomMap]
EmptyCorpus == [docs |-> <<>>, atoms |-> NoAtoms]
CorpusOf(s) == [docs |-> docs[s], atoms |-> atoms[s]]

Request == [op : {"idle", "atoms", "mark", "save", "unlink"},
            store : Stores, path : Paths, content : Contents]
Idle == [op |-> "idle", store |-> Default, path |-> Bootstrap, content |-> Empty]

Search == [pc : {"idle", "check", "docs", "atoms", "publish", "discard"},
           store : Stores, seen : Corpus, late : BOOLEAN]
NoSearch == [pc |-> "idle", store |-> Default, seen |-> EmptyCorpus, late |-> FALSE]

HasPath(ds, p) == \E i \in DOMAIN ds : ds[i].path = p

\* metadata.content_fingerprint: empty for an empty text, absent from the
\* bootstrap document; otherwise it determines the content.
Fingerprint(d) == IF d.path = Bootstrap \/ d.content = Empty THEN Null ELSE d.content

\* The alias and fingerprint comparison of _find_duplicate_upload.
SameNote(d, p, c) ==
  /\ Aliases[d.path] \cap Aliases[p] # {}
  /\ Fingerprint(d) \in {c, Null}

\* _find_duplicate_upload: the scan stops at a document whose path differs
\* from the given one in nothing but case, or at the first document taken for
\* the same note.  The documents keep resolved paths, the given one is not
\* resolved, and the bootstrap document has none.
SamePath(d, p) == d.path # Bootstrap /\ Lower[d.path] = Lower[p]
IsDuplicate(ds, p, c) ==
  /\ c # Empty
  /\ \E i \in DOMAIN ds :
       /\ \A j \in 1..i : ~SamePath(ds[j], p)
       /\ SameNote(ds[i], p, c)

(* Broken variants of the next two operators and of some actions below stand  *)
(* before the definitions they vary; the specification does not use them.     *)
StoreDocTwice(ds, d) == Append(ds, d)
StoreDocOnce(ds, d) == IF HasPath(ds, d.path) THEN ds ELSE Append(ds, d)
StoreDocFirst(ds, d) == IF HasPath(ds, d.path) THEN [ds EXCEPT ![1] = d] ELSE Append(ds, d)
StoreDocNoText(ds, d) == Append(ds, [d EXCEPT !.content = Null])

\* _store_local_doc: replace the first document of the same URI, else append.
StoreDoc(ds, d) ==
  IF HasPath(ds, d.path)
  THEN [i \in DOMAIN ds |->
          IF ds[i].path = d.path /\ \A j \in 1..(i - 1) : ds[j].path # d.path
          THEN d ELSE ds[i]]
  ELSE Append(ds, d)

InjectAtomsShifted(am, p, c, chunks) ==
  [k \in AtomKeys |-> IF k[1] = p /\ k[2] + 1 \in chunks THEN c ELSE am[k]]

\* inject_chunks: the atoms of the chunks in `chunks` are written, every other
\* atom stays, those of an earlier and longer version of the file included.
InjectAtoms(am, p, c, chunks) ==
  [k \in AtomKeys |-> IF k[1] = p /\ k[2] \in chunks THEN c ELSE am[k]]

\* The chunks that end up as atoms: an exception inside the loop of
\* inject_chunks is swallowed and drops one atom.
Injectable(c) == IF "atom" \in Faults THEN SUBSET ChunksOf[c] ELSE {ChunksOf[c]}

-------------------------------------------------------------------------------
(* The event loop                                                          *)

Ready == up /\ req = Idle

\* POST /api/stores, and every keyword search that finds a match: it creates
\* its store when absent (_ensure_store) and leaves the index alone.
CreateStore(s) ==
  /\ Ready
  /\ stores' = stores \cup {s}
  /\ UNCHANGED <<up, req, docs, atoms, bm25, grid, snapshot, ws, saved>>

\* upload_file of a text already stored under another name: acknowledged with
\* deduplicated = True, and nothing but the store is created.
UploadDuplicate(s, p, c) ==
  /\ Ready
  /\ p # Bootstrap
  /\ IsDuplicate(docs[s], p, c)
  /\ stores' = stores \cup {s}
  /\ UNCHANGED <<up, req, docs, atoms, bm25, grid, snapshot, ws, saved>>

\* Threads that are rebuilding the index of a store when it changes.
Overtaken(s) ==
  [w \in Workers |->
     [ws[w] EXCEPT !.late = @ \/ (ws[w].store = s /\ ws[w].pc \in {"atoms", "publish", "discard"})]]

\* upload_file up to and including _store_local_doc.  The essence of the file
\* has the path as given for its glyph, the document and its atoms the resolved
\* path.
UploadDoc(s, p, c) ==
  /\ Ready
  /\ p # Bootstrap
  /\ ~IsDuplicate(docs[s], p, c)
  /\ stores' = stores \cup {s}
  /\ byPath' = [byPath EXCEPT ![<<p, 0>>] = s]
  /\ docs' = [docs EXCEPT ![s] = StoreDoc(@, [path |-> Resolve[p], content |-> c])]
  /\ req' = [op |-> "atoms", store |-> s, path |-> Resolve[p], content |-> c]
  /\ ws' = Overtaken(s)
  /\ UNCHANGED <<up, atoms, bm25, byUri, snapshot, saved>>

\* The rest of _local_upload: chunk the text and inject its atoms, ...
UploadAtoms ==
  /\ up /\ req.op = "atoms"
  /\ \E chunks \in Injectable(req.content) :
       /\ atoms' = [atoms EXCEPT ![req.store] =
                      InjectAtoms(@, req.path, req.content, chunks)]
       /\ byPath' = [k \in GridKeys |->
                       IF k[1] = req.path /\ k[2] \in chunks THEN req.store ELSE byPath[k]]
  /\ req' = [req EXCEPT !.op = "mark"]
  /\ ws' = Overtaken(req.store)
  /\ UNCHANGED <<up, stores, docs, bm25, byUri, snapshot, saved>>

UploadMarkNew ==
  /\ up /\ req.op = "mark"
  /\ dirty' = IF req.store \in built THEN dirty ELSE dirty \cup {req.store}
  /\ req' = [req EXCEPT !.op = "save"]
  /\ UNCHANGED <<up, memory, built, index, raced, grid, snapshot, ws, saved>>

\* ... mark the index dirty, ...
UploadMark ==
  /\ up /\ req.op = "mark"
  /\ dirty' = dirty \cup {req.store}
  /\ req' = [req EXCEPT !.op = "save"]
  /\ UNCHANGED <<up, memory, built, index, raced, grid, snapshot, ws, saved>>

\* ... and write the snapshot.  save_store writes a temporary file, which no
\* reader opens, and renames it, so a crash before this step leaves the old
\* file.  A failed save is logged only: the upload still reports success.
UploadSave ==
  /\ up /\ req.op = "save"
  /\ \/ /\ snapshot' = [snapshot EXCEPT ![req.store] = CorpusOf(req.store)]
        /\ saved' = [saved EXCEPT ![req.store][req.path] = req.content]
     \/ /\ "save" \in Faults
        /\ saved' = [saved EXCEPT ![req.store][req.path] = Null]
        /\ UNCHANGED snapshot
  /\ req' = Idle
  /\ UNCHANGED <<up, memory, bm25, grid, ws>>

\* delete_store on the memory; the essences in the grid stay.
DeleteStore(s) ==
  /\ Ready
  /\ s \in stores
  /\ stores' = stores \ {s}
  /\ docs' = [docs EXCEPT ![s] = <<>>]
  /\ atoms' = [atoms EXCEPT ![s] = NoAtoms]
  /\ built' = built \ {s}
  /\ index' = [index EXCEPT ![s] = EmptyCorpus]
  /\ dirty' = dirty \ {s}
  /\ raced' = raced \ {s}
  /\ saved' = [saved EXCEPT ![s] = [p \in Paths |-> Null]]
  /\ req' = [Idle EXCEPT !.op = "unlink", !.store = s]
  /\ ws' = Overtaken(s)
  /\ UNCHANGED <<up, grid, snapshot>>

DeleteSnapshotLater ==
  /\ up /\ req.op = "unlink"
  /\ req' = Idle
  /\ UNCHANGED <<up, memory, bm25, grid, snapshot, ws, saved>>

\* FlamehavenPersistence.delete_store; a failed unlink is logged only.
DeleteSnapshot ==
  /\ up /\ req.op = "unlink"
  /\ \/ snapshot' = [snapshot EXCEPT ![req.store] = EmptyCorpus]
     \/ "unlink" \in Faults /\ UNCHANGED snapshot
  /\ req' = Idle
  /\ UNCHANGED <<up, memory, bm25, grid, ws, saved>>

\* A search that needs the index: hybrid, or keyword without a match.  It
\* creates its store, and rebuilds an index that is absent or dirty.
NeedsRebuild(s) == s \notin built \/ s \in dirty

SearchStore(s) ==
  /\ Ready
  /\ stores' = stores \cup {s}
  /\ docs[s] # <<>>
  /\ IF NeedsRebuild(s)
     THEN /\ built' = built \cup {s}
          /\ index' = [index EXCEPT ![s] = CorpusOf(s)]
          /\ dirty' = dirty \ {s}
          /\ raced' = raced \ {s}
     ELSE UNCHANGED bm25
  /\ UNCHANGED <<up, req, docs, atoms, grid, snapshot, ws, saved>>

-------------------------------------------------------------------------------
(* A WebSocket search, one thread step at a time                           *)

WsAt(w, pc) == up /\ ws[w].pc = pc

\* search_stream -> search -> _ensure_store.
WsEnsureStore(w, s) ==
  /\ WsAt(w, "idle")
  /\ stores' = stores \cup {s}
  /\ ws' = [ws EXCEPT ![w] = [NoSearch EXCEPT !.pc = "check", !.store = s]]
  /\ UNCHANGED <<up, req, docs, atoms, bm25, grid, snapshot, saved>>

\* _local_search returns early on an empty store; _lexical_backstop_docs
\* rebuilds only an index that is absent or dirty.
WsCheckIndex(w) ==
  /\ WsAt(w, "check")
  /\ ws' = [ws EXCEPT ![w] =
              IF docs[ws[w].store] # <<>> /\ NeedsRebuild(ws[w].store)
              THEN [@ EXCEPT !.pc = "docs"] ELSE NoSearch]
  /\ UNCHANGED <<up, req, memory, bm25, grid, snapshot, saved>>

\* _rebuild_bm25: read the documents, then the atoms, ...
WsReadDocs(w) ==
  /\ WsAt(w, "docs")
  /\ ws' = [ws EXCEPT ![w].pc = "atoms", ![w].seen.docs = docs[ws[w].store]]
  /\ UNCHANGED <<up, req, memory, bm25, grid, snapshot, saved>>

WsReadAtoms(w) ==
  /\ WsAt(w, "atoms")
  /\ ws' = [ws EXCEPT ![w].pc = "publish", ![w].seen.atoms = atoms[ws[w].store]]
  /\ UNCHANGED <<up, req, memory, bm25, grid, snapshot, saved>>

\* ... fit and publish the index, ...
WsPublish(w) ==
  /\ WsAt(w, "publish")
  /\ built' = built \cup {ws[w].store}
  /\ index' = [index EXCEPT ![ws[w].store] = ws[w].seen]
  /\ raced' = IF ws[w].late THEN raced \cup {ws[w].store} ELSE raced \ {ws[w].store}
  /\ ws' = [ws EXCEPT ![w].pc = "discard"]
  /\ UNCHANGED <<up, req, memory, dirty, grid, snapshot, saved>>

\* ... and clear the dirty mark, whoever set it and when.
WsDiscardDirty(w) ==
  /\ WsAt(w, "discard")
  /\ dirty' = dirty \ {ws[w].store}
  /\ raced' = IF ws[w].late THEN raced \cup {ws[w].store} ELSE raced
  /\ ws' = [ws EXCEPT ![w] = NoSearch]
  /\ UNCHANGED <<up, req, memory, built, index, grid, snapshot, saved>>

-------------------------------------------------------------------------------
(* The process                                                             *)

Crash ==
  /\ up
  /\ up' = FALSE
  /\ stores' = {}
  /\ docs' = [s \in Stores |-> <<>>]
  /\ atoms' = [s \in Stores |-> NoAtoms]
  /\ built' = {}
  /\ index' = [s \in Stores |-> EmptyCorpus]
  /\ dirty' = {}
  /\ raced' = {}
  /\ byPath' = [k \in GridKeys |-> Null]
  /\ byUri' = {}
  /\ req' = Idle
  /\ ws' = [w \in Workers |-> NoSearch]
  /\ UNCHANGED <<snapshot, saved>>

RestoredAtomGlyphs(s) ==
  {<<s, k[1], k[2]>> : k \in {l \in AtomKeys : snapshot[s].atoms[l] # Null}}
RestoredFileGlyphs(s) ==
  {<<s, snapshot[s].docs[i].path, 0>> : i \in DOMAIN snapshot[s].docs}

\* The glyphs _inject_into_chronos uses for a restored corpus; a document
\* without text gets none.
RestoredGlyphs(s) ==
  LET corpus == snapshot[s]
      texts  == {i \in DOMAIN corpus.docs : corpus.docs[i].content # Empty}
  IN  {<<s, corpus.docs[i].path, 0>> : i \in texts}
      \cup {<<s, k[1], k[2]>> : k \in {l \in AtomKeys : corpus.atoms[l] # Null}}

\* FlamehavenFileSearch.__init__ creates the default store and merges every
\* readable snapshot into the empty memory; _seed_default_store then puts the
\* bootstrap document into a default store that is still empty.
Boot(unreadable) ==
  LET restored == {s \in Stores : snapshot[s] # EmptyCorpus} \ unreadable
  IN  /\ ~up
      /\ up' = TRUE
      /\ stores' = restored \cup {Default}
      /\ docs' = [s \in Stores |->
                    IF s \in restored /\ snapshot[s].docs # <<>> THEN snapshot[s].docs
                    ELSE IF s = Default THEN <<[path |-> Bootstrap, content |-> BootstrapText]>>
                    ELSE <<>>]
      /\ atoms' = [s \in Stores |-> IF s \in restored THEN snapshot[s].atoms ELSE NoAtoms]
      /\ dirty' = restored
      /\ byUri' = UNION {RestoredGlyphs(s) : s \in restored}
      /\ UNCHANGED <<req, built, index, raced, byPath, snapshot, ws, saved>>

Unreadable == IF "load" \in Faults THEN SUBSET Stores ELSE {{}}

-------------------------------------------------------------------------------

Init ==
  /\ up = FALSE
  /\ stores = {}
  /\ docs = [s \in Stores |-> <<>>]
  /\ atoms = [s \in Stores |-> NoAtoms]
  /\ built = {}
  /\ index = [s \in Stores |-> EmptyCorpus]
  /\ dirty = {}
  /\ raced = {}
  /\ byPath = [k \in GridKeys |-> Null]
  /\ byUri = {}
  /\ req = Idle
  /\ ws = [w \in Workers |-> NoSearch]
  /\ snapshot = [s \in Stores |-> EmptyCorpus]
  /\ saved = [s \in Stores |-> [p \in Paths |-> Null]]

Upload(s, p, c) == UploadDuplicate(s, p, c) \/ UploadDoc(s, p, c)

EventLoop ==
  \/ \E s \in Stores : CreateStore(s) \/ SearchStore(s) \/ DeleteStore(s)
  \/ \E s \in Stores, p \in Paths, c \in Contents : Upload(s, p, c)
  \/ UploadAtoms
  \/ UploadMark
  \/ UploadSave
  \/ DeleteSnapshot

WsSearch(w) ==
  \/ \E s \in Stores : WsEnsureStore(w, s)
  \/ WsCheckIndex(w)
  \/ WsReadDocs(w)
  \/ WsReadAtoms(w)
  \/ WsPublish(w)
  \/ WsDiscardDirty(w)

Process ==
  \/ Crash
  \/ \E unreadable \in Unreadable : Boot(unreadable)

Next == EventLoop \/ (\E w \in Workers : WsSearch(w)) \/ Process

Spec == Init /\ [][Next]_vars

-------------------------------------------------------------------------------
(* Properties                                                              *)

\* Every variable holds a value of its kind.
TypeOK ==
  /\ up \in BOOLEAN
  /\ req \in Request
  /\ stores \subseteq Stores
  /\ docs \in [Stores -> Seq(Doc)]
  /\ atoms \in [Stores -> AtomMap]
  /\ built \subseteq Stores
  /\ index \in [Stores -> Corpus]
  /\ dirty \subseteq Stores
  /\ raced \subseteq Stores
  /\ byPath \in [GridKeys -> Stores \cup {Null}]
  /\ byUri \subseteq Stores \X Paths \X (ChunkIds \cup {0})
  /\ snapshot \in [Stores -> Corpus]
  /\ ws \in [Workers -> Search]
  /\ saved \in [Stores -> [Paths -> Contents \cup {Null}]]

\* _get_doc_by_uri returns the first document of a URI, _store_local_doc
\* replaces the first and StoreDoc never adds a second: in memory, in the
\* index and in the snapshot a URI names one document.
UniquePaths(ds) == \A i, j \in DOMAIN ds : ds[i].path = ds[j].path => i = j
DocUrisUnique ==
  /\ \A s \in Stores : UniquePaths(docs[s]) /\ UniquePaths(snapshot[s].docs)
  /\ \A s \in built : UniquePaths(index[s].docs)

\* A file is indexed at chunk granularity: every chunk of its current text is
\* an atom with that text, and no atom is left without its document.  It holds
\* of the memory between uploads and of every snapshot, whatever crashed.
FullyIndexed(corpus) ==
  /\ \A i \in DOMAIN corpus.docs :
       LET d == corpus.docs[i]
       IN  d.path # Bootstrap =>
             \A k \in ChunksOf[d.content] : corpus.atoms[<<d.path, k>>] = d.content
  /\ \A k \in AtomKeys : corpus.atoms[k] # Null => HasPath(corpus.docs, k[1])
AtomsFollowDocs ==
  \A s \in Stores :
    /\ FullyIndexed(snapshot[s])
    /\ Ready => FullyIndexed(CorpusOf(s))

\* An upload that was acknowledged and whose snapshot was written stays in the
\* snapshot, and in the memory of every running server, through any crashes
\* and later requests, until the store is deleted or the file replaced.
Holds(ds, p, c) == \E i \in DOMAIN ds : ds[i] = [path |-> p, content |-> c]
SavedUploadsSurvive ==
  \A s \in Stores, p \in Paths :
    saved[s][p] # Null =>
      /\ Holds(snapshot[s].docs, p, saved[s][p])
      /\ Ready => Holds(docs[s], p, saved[s][p])

\* A store that is not listed has no documents, no atoms and no snapshot that a
\* restart would bring back: nothing is left where no request can reach it, and
\* a deletion that was acknowledged is final.
DeletedStoresStayDeleted ==
  Ready => \A s \in Stores \ stores :
             CorpusOf(s) = EmptyCorpus /\ snapshot[s] = EmptyCorpus

\* An index that the next search will use as it stands was fitted on exactly
\* the documents and atoms the store holds now, whatever the event loop and the
\* search threads did, unless the thread that published it, or cleared its dirty
\* mark, was overtaken: an upload or a deletion changed the store after the thread
\* had begun to read it.
CleanIndexIsCurrent ==
  Ready => \A s \in (built \ dirty) \ raced : index[s] = CorpusOf(s)

\* A semantic search of a store can reach each of its documents that has a
\* text: some essence of the grid resolves to it.  A file essence carries no URI:
\* its path is resolved when it is found, in whichever store is searched.
FileReachable(s, p) ==
  \/ \E q \in Paths : Resolve[q] = p /\ byPath[<<q, 0>>] # Null
  \/ <<s, p, 0>> \in byUri
FilesReachable ==
  Ready => \A s \in Stores : \A i \in DOMAIN docs[s] :
             LET d == docs[s][i]
             IN  d.path # Bootstrap /\ d.content # Empty => FileReachable(s, d.path)

\* The same for atoms, whose essences carry the URI of one store: an atom is out
\* of reach only while its glyph holds the essence that an upload of the same file
\* into another store put there later.
AtomReachable(s, k) == byPath[k] = s \/ <<s, k[1], k[2]>> \in byUri
TakenOver(s, k) == byPath[k] \in Stores \ {s}
AtomsReachable ==
  Ready => \A s \in Stores, k \in AtomKeys :
             atoms[s][k] # Null => AtomReachable(s, k) \/ TakenOver(s, k)

-------------------------------------------------------------------------------
(* Inductive invariants, for LocalStore_proofs                             *)

IdleWhenDown == up \/ req = Idle

\* DocUrisUnique also needs the lists a search thread holds.
UniqueInv ==
  /\ \A s \in Stores :
       UniquePaths(docs[s]) /\ UniquePaths(snapshot[s].docs) /\ UniquePaths(index[s].docs)
  /\ \A w \in Workers : UniquePaths(ws[w].seen.docs)

\* Between _store_local_doc and the end of the upload the memory holds the text
\* being uploaded instead of the saved one; a store being deleted has no saved
\* upload left when its file is unlinked.
Uploading(s, p) == req.op \in {"atoms", "mark", "save"} /\ req.store = s /\ req.path = p
SavedInv ==
  /\ \A s \in Stores, p \in Paths :
       saved[s][p] # Null =>
         /\ Holds(snapshot[s].docs, p, saved[s][p])
         /\ up /\ ~Uploading(s, p) => Holds(docs[s], p, saved[s][p])
  /\ req.op \in {"atoms", "mark", "save"} => Holds(docs[req.store], req.path, req.content)
  /\ req.op = "unlink" => \A p \in Paths : saved[req.store][p] = Null
  /\ IdleWhenDown

\* A request names a listed store, except for the deletion that just removed it.
DeletedInv ==
  /\ up => \A s \in Stores \ stores :
       /\ CorpusOf(s) = EmptyCorpus
       /\ (req.op = "unlink" /\ req.store = s) \/ snapshot[s] = EmptyCorpus
  /\ req.op \in {"atoms", "mark", "save"} => req.store \in stores
  /\ IdleWhenDown

\* While the atoms of an upload are still to be injected, its document is the
\* only one whose chunks may be missing.
IndexedBut(corpus, p) ==
  /\ \A i \in DOMAIN corpus.docs :
       LET d == corpus.docs[i]
       IN  d.path \notin {Bootstrap, p} =>
             \A k \in ChunksOf[d.content] : corpus.atoms[<<d.path, k>>] = d.content
  /\ \A k \in AtomKeys : corpus.atoms[k] # Null => HasPath(corpus.docs, k[1])
FollowInv ==
  /\ IdleWhenDown
  /\ \A s \in Stores : FullyIndexed(snapshot[s])
  /\ \A s \in Stores : ~(req.op = "atoms" /\ req.store = s) => FullyIndexed(CorpusOf(s))
  /\ req.op = "atoms" =>
       /\ req.path # Bootstrap
       /\ IndexedBut(CorpusOf(req.store), req.path)
       /\ Holds(docs[req.store], req.path, req.content)

\* Between _store_local_doc and the dirty mark the index of one store lags.  A
\* thread that no change overtook holds the documents and atoms of now and has
\* published them, unless a late thread published after it.
InStep(w) ==
  LET s == ws[w].store
  IN  /\ ws[w].pc = "atoms" => ws[w].seen.docs = docs[s]
      /\ ws[w].pc = "publish" => ws[w].seen = CorpusOf(s)
      /\ ws[w].pc = "discard" => s \in raced \/ index[s] = CorpusOf(s)
IndexInv ==
  /\ \A s \in (built \ dirty) \ raced :
       \/ index[s] = CorpusOf(s)
       \/ req.op \in {"atoms", "mark"} /\ req.store = s
  /\ \A w \in Workers : ~ws[w].late => InStep(w)
  /\ up \/ (req = Idle /\ built = {} /\ \A w \in Workers : ws[w] = NoSearch)

ReachInv ==
  /\ \A s \in Stores : \A i \in DOMAIN docs[s] :
       LET d == docs[s][i]
       IN  d.path # Bootstrap /\ d.content # Empty => FileReachable(s, d.path)
  /\ \A s \in Stores, k \in AtomKeys :
       atoms[s][k] # Null => byPath[k] # Null \/ <<s, k[1], k[2]>> \in byUri
===============================================================================
