--------------------------- MODULE LocalStore_proofs ---------------------------
(***************************************************************************)
(* Theorems about LocalStore, for every number of stores, files, texts and *)
(* WebSocket searches.                                                     *)
(***************************************************************************)
EXTENDS LocalStoreRefinement, TLAPS

-------------------------------------------------------------------------------
(* Lemmas about the data operators                                         *)

\* Storing a document yields a list of documents.
LEMMA StoreDocType ==
  ASSUME NEW ds \in Seq(Doc), NEW d \in Doc
  PROVE  StoreDoc(ds, d) \in Seq(Doc)
<1>1. CASE HasPath(ds, d.path)
  <2>1. StoreDoc(ds, d) = [i \in 1..Len(ds) |-> StoreDoc(ds, d)[i]]
    BY <1>1 DEF StoreDoc
  <2>2. \A i \in 1..Len(ds) : StoreDoc(ds, d)[i] \in Doc
    BY <1>1 DEF StoreDoc
  <2>3. Len(ds) \in Nat
    OBVIOUS
  <2> QED
    BY <2>1, <2>2, <2>3
<1>2. CASE ~HasPath(ds, d.path)
  BY <1>2 DEF StoreDoc
<1> QED
  BY <1>1, <1>2

\* Storing a document gives its URI to no second document.
LEMMA StoreDocUnique ==
  ASSUME NEW ds \in Seq(Doc), NEW d \in Doc, UniquePaths(ds)
  PROVE  UniquePaths(StoreDoc(ds, d))
<1>1. CASE HasPath(ds, d.path)
  BY <1>1 DEF StoreDoc, UniquePaths
<1>2. CASE ~HasPath(ds, d.path)
  BY <1>2 DEF StoreDoc, UniquePaths, HasPath
<1> QED
  BY <1>1, <1>2

\* The stored document is there, ...
LEMMA StoreDocHolds ==
  ASSUME NEW ds \in Seq(Doc), UniquePaths(ds), NEW p \in Paths, NEW c \in Contents
  PROVE  Holds(StoreDoc(ds, [path |-> p, content |-> c]), p, c)
<1> DEFINE d == [path |-> p, content |-> c]
<1>1. CASE HasPath(ds, p)
  <2>1. PICK i \in DOMAIN ds : ds[i].path = p
    BY <1>1 DEF HasPath
  <2>2. \A j \in 1..(i - 1) : ds[j].path # p
    BY <2>1 DEF UniquePaths
  <2>3. i \in DOMAIN StoreDoc(ds, d) /\ StoreDoc(ds, d)[i] = d
    BY <1>1, <2>1, <2>2 DEF StoreDoc
  <2> QED
    BY <2>3 DEF Holds
<1>2. CASE ~HasPath(ds, p)
  <2>1. StoreDoc(ds, d) = Append(ds, d)
    BY <1>2 DEF StoreDoc
  <2>2. Len(ds) + 1 \in DOMAIN Append(ds, d) /\ Append(ds, d)[Len(ds) + 1] = d
    OBVIOUS
  <2> QED
    BY <2>1, <2>2 DEF Holds
<1> QED
  BY <1>1, <1>2

\* ... and the documents of other files stay.
LEMMA StoreDocKeeps ==
  ASSUME NEW ds \in Seq(Doc), NEW d \in Doc, NEW p \in Paths, p # d.path,
         NEW c \in Contents, Holds(ds, p, c)
  PROVE  Holds(StoreDoc(ds, d), p, c)
<1>1. PICK i \in DOMAIN ds : ds[i] = [path |-> p, content |-> c]
  BY DEF Holds
<1>2. i \in DOMAIN StoreDoc(ds, d) /\ StoreDoc(ds, d)[i] = ds[i]
  BY <1>1 DEF StoreDoc
<1> QED
  BY <1>1, <1>2 DEF Holds

\* Injecting atoms yields an atom map.
LEMMA InjectAtomsType ==
  ASSUME NEW am \in AtomMap, NEW p \in Paths, NEW c \in Contents, NEW chunks
  PROVE  InjectAtoms(am, p, c, chunks) \in AtomMap
BY DEF InjectAtoms, AtomMap

\* A path resolves to a path, and no upload is taken for the bootstrap document.
LEMMA Resolved ==
  ASSUME NEW p \in Paths
  PROVE  \E r \in Paths : r = Resolve[p] /\ (p # Bootstrap => r # Bootstrap)
BY ConstantsAssumption

\* A change of a store marks threads late and disturbs them in nothing else.
LEMMA OvertakenType ==
  ASSUME ws \in [Workers -> Search], NEW s
  PROVE  /\ Overtaken(s) \in [Workers -> Search]
         /\ \A w \in Workers : /\ Overtaken(s)[w].pc = ws[w].pc
                                /\ Overtaken(s)[w].store = ws[w].store
                                /\ Overtaken(s)[w].seen = ws[w].seen
                                /\ Overtaken(s)[w].late =
                                     (ws[w].late \/ (/\ ws[w].store = s
                                                     /\ ws[w].pc \in {"atoms", "publish", "discard"}))
BY DEF Overtaken, Search

\* The constant values have their types.
LEMMA ConstantTypes ==
  /\ NoAtoms \in AtomMap
  /\ EmptyCorpus \in Corpus
  /\ Idle \in Request
  /\ NoSearch \in Search
<1>1. NoAtoms \in AtomMap
  BY DEF NoAtoms, AtomMap
<1>2. EmptyCorpus \in Corpus
  BY <1>1 DEF EmptyCorpus, Corpus
<1> QED
  BY <1>1, <1>2, ConstantsAssumption DEF Idle, Request, NoSearch, Search

-------------------------------------------------------------------------------
(* Type correctness                                                        *)

\* The values of an empty process have their types.
LEMMA BlankTypes ==
  /\ [s \in Stores |-> <<>>] \in [Stores -> Seq(Doc)]
  /\ [s \in Stores |-> NoAtoms] \in [Stores -> AtomMap]
  /\ [s \in Stores |-> EmptyCorpus] \in [Stores -> Corpus]
  /\ [k \in GridKeys |-> Null] \in [GridKeys -> Stores \cup {Null}]
  /\ [w \in Workers |-> NoSearch] \in [Workers -> Search]
  /\ [s \in Stores |-> [p \in Paths |-> Null]]
        \in [Stores -> [Paths -> Contents \cup {Null}]]
BY ConstantTypes

\* The type invariant holds at the first start, ...
LEMMA InitType == Init => TypeOK
<1> SUFFICES ASSUME Init
             PROVE  TypeOK
  OBVIOUS
<1>1. up \in BOOLEAN /\ stores = {} /\ built = {} /\ dirty = {} /\ raced = {} /\ byUri = {}
  BY DEF Init
<1>2. docs \in [Stores -> Seq(Doc)] /\ atoms \in [Stores -> AtomMap]
  BY BlankTypes DEF Init
<1>3. index \in [Stores -> Corpus] /\ snapshot \in [Stores -> Corpus]
  BY BlankTypes DEF Init
<1>4. byPath \in [GridKeys -> Stores \cup {Null}]
  BY BlankTypes DEF Init
<1>5. req \in Request /\ ws \in [Workers -> Search]
  BY BlankTypes, ConstantTypes DEF Init
<1>6. saved \in [Stores -> [Paths -> Contents \cup {Null}]]
  BY BlankTypes DEF Init
<1> QED
  BY <1>1, <1>2, <1>3, <1>4, <1>5, <1>6 DEF TypeOK

\* ... every step of a request keeps it, ...
LEMMA EventLoopType == TypeOK /\ EventLoop => TypeOK'
<1> SUFFICES ASSUME TypeOK, EventLoop
             PROVE  TypeOK'
  OBVIOUS
<1> USE ConstantTypes, ConstantsAssumption
<1>1. ASSUME NEW s \in Stores, CreateStore(s)
      PROVE  TypeOK'
  BY <1>1 DEF TypeOK, CreateStore, bm25, grid
<1>2. ASSUME NEW s \in Stores, SearchStore(s)
      PROVE  TypeOK'
  <2>1. CorpusOf(s) \in Corpus
    BY DEF TypeOK, CorpusOf, Corpus
  <2>2. built' \subseteq Stores /\ dirty' \subseteq Stores /\ raced' \subseteq Stores
    BY <1>2 DEF TypeOK, SearchStore, bm25
  <2>3. index' \in [Stores -> Corpus]
    BY <1>2, <2>1 DEF TypeOK, SearchStore, bm25
  <2> QED
    BY <1>2, <2>2, <2>3 DEF TypeOK, SearchStore, grid
<1>3. ASSUME NEW s \in Stores, DeleteStore(s)
      PROVE  TypeOK'
  <2>1. [Idle EXCEPT !.op = "unlink", !.store = s] \in Request
    BY DEF Idle, Request
  <2>2. ws' \in [Workers -> Search]
    BY <1>3, OvertakenType DEF TypeOK, DeleteStore
  <2> QED
    BY <1>3, <2>1, <2>2 DEF TypeOK, DeleteStore, grid
<1>4. ASSUME NEW s \in Stores, NEW p \in Paths, NEW c \in Contents, UploadDuplicate(s, p, c)
      PROVE  TypeOK'
  BY <1>4 DEF TypeOK, UploadDuplicate, bm25, grid
<1>5. ASSUME NEW s \in Stores, NEW p \in Paths, NEW c \in Contents, UploadDoc(s, p, c)
      PROVE  TypeOK'
  <2>0. PICK r \in Paths : r = Resolve[p]
    BY Resolved
  <2>1. [path |-> r, content |-> c] \in Doc
    BY DEF Doc
  <2>2. StoreDoc(docs[s], [path |-> r, content |-> c]) \in Seq(Doc)
    BY <2>1, StoreDocType DEF TypeOK
  <2>3. req' \in Request
    BY <1>5, <2>0 DEF UploadDoc, Request
  <2>4. <<p, 0>> \in GridKeys
    BY DEF GridKeys
  <2>5. ws' \in [Workers -> Search]
    BY <1>5, OvertakenType DEF TypeOK, UploadDoc
  <2> QED
    BY <1>5, <2>0, <2>2, <2>3, <2>4, <2>5 DEF TypeOK, UploadDoc, bm25
<1>6. CASE UploadAtoms
  <2>1. PICK chunks \in Injectable(req.content) :
          /\ atoms' = [atoms EXCEPT ![req.store] =
                         InjectAtoms(@, req.path, req.content, chunks)]
          /\ byPath' = [k \in GridKeys |->
                          IF k[1] = req.path /\ k[2] \in chunks
                          THEN req.store ELSE byPath[k]]
    BY <1>6 DEF UploadAtoms
  <2>2. req.store \in Stores /\ req.path \in Paths /\ req.content \in Contents
    BY DEF TypeOK, Request
  <2>3. atoms' \in [Stores -> AtomMap]
    BY <2>1, <2>2, InjectAtomsType DEF TypeOK
  <2>4. byPath' \in [GridKeys -> Stores \cup {Null}]
    BY <2>1, <2>2 DEF TypeOK
  <2>5. req' \in Request
    BY <1>6 DEF UploadAtoms, TypeOK, Request
  <2>6. ws' \in [Workers -> Search]
    BY <1>6, OvertakenType DEF TypeOK, UploadAtoms
  <2> QED
    BY <1>6, <2>3, <2>4, <2>5, <2>6 DEF TypeOK, UploadAtoms, bm25
<1>7. CASE UploadMark
  BY <1>7 DEF TypeOK, UploadMark, memory, grid, Request
<1>8. CASE UploadSave
  <2>1. req.store \in Stores /\ req.path \in Paths /\ req.content \in Contents
    BY DEF TypeOK, Request
  <2>2. CorpusOf(req.store) \in Corpus
    BY <2>1 DEF TypeOK, CorpusOf, Corpus
  <2>3. snapshot' \in [Stores -> Corpus]
    BY <1>8, <2>2 DEF TypeOK, UploadSave
  <2>4. saved' \in [Stores -> [Paths -> Contents \cup {Null}]]
    <3>1. PICK v \in Contents \cup {Null} :
            saved' = [saved EXCEPT ![req.store][req.path] = v]
      BY <1>8, <2>1 DEF UploadSave
    <3> QED
      BY <2>1, <3>1 DEF TypeOK
  <2> QED
    BY <1>8, <2>3, <2>4 DEF TypeOK, UploadSave, memory, bm25, grid
<1>9. CASE DeleteSnapshot
  <2>1. snapshot' \in [Stores -> Corpus]
    BY <1>9 DEF TypeOK, DeleteSnapshot
  <2> QED
    BY <1>9, <2>1 DEF TypeOK, DeleteSnapshot, memory, bm25, grid
<1> QED
  BY <1>1, <1>2, <1>3, <1>4, <1>5, <1>6, <1>7, <1>8, <1>9 DEF EventLoop, Upload

\* ... every step of a search thread, ...
LEMMA WsSearchType ==
  ASSUME TypeOK, NEW w \in Workers, WsSearch(w)
  PROVE  TypeOK'
<1> USE ConstantTypes, ConstantsAssumption
<1> ws[w] \in Search
  BY DEF TypeOK
<1>1. ASSUME NEW s \in Stores, WsEnsureStore(w, s)
      PROVE  TypeOK'
  <2>1. [NoSearch EXCEPT !.pc = "check", !.store = s] \in Search
    BY DEF NoSearch, Search
  <2> QED
    BY <1>1, <2>1 DEF TypeOK, WsEnsureStore, bm25, grid
<1>2. CASE WsCheckIndex(w)
  <2>1. [ws[w] EXCEPT !.pc = "docs"] \in Search
    BY DEF Search
  <2> QED
    BY <1>2, <2>1 DEF TypeOK, WsCheckIndex, memory, bm25, grid
<1>3. CASE WsReadDocs(w)
  <2>1. ws' \in [Workers -> Search]
    BY <1>3 DEF TypeOK, WsReadDocs, Search, Corpus
  <2> QED
    BY <1>3, <2>1 DEF TypeOK, WsReadDocs, memory, bm25, grid
<1>4. CASE WsReadAtoms(w)
  <2>1. ws' \in [Workers -> Search]
    BY <1>4 DEF TypeOK, WsReadAtoms, Search, Corpus
  <2> QED
    BY <1>4, <2>1 DEF TypeOK, WsReadAtoms, memory, bm25, grid
<1>5. CASE WsPublish(w)
  <2>1. ws' \in [Workers -> Search]
    BY <1>5 DEF TypeOK, WsPublish, Search
  <2>2. ws[w].store \in Stores /\ ws[w].seen \in Corpus
    BY DEF Search
  <2> QED
    BY <1>5, <2>1, <2>2 DEF TypeOK, WsPublish, memory, grid
<1>6. CASE WsDiscardDirty(w)
  <2>1. raced' \subseteq Stores /\ dirty' \subseteq Stores
    BY <1>6 DEF TypeOK, WsDiscardDirty, Search
  <2>2. ws' \in [Workers -> Search]
    BY <1>6 DEF TypeOK, WsDiscardDirty
  <2> QED
    BY <1>6, <2>1, <2>2 DEF TypeOK, WsDiscardDirty, memory, grid
<1> QED
  BY <1>1, <1>2, <1>3, <1>4, <1>5, <1>6 DEF WsSearch

\* ... and a crash or a start.
LEMMA ProcessType == TypeOK /\ Process => TypeOK'
<1> SUFFICES ASSUME TypeOK, Process
             PROVE  TypeOK'
  OBVIOUS
<1> USE ConstantTypes, ConstantsAssumption
<1>1. CASE Crash
  <2>1. up' \in BOOLEAN /\ stores' = {} /\ built' = {} /\ dirty' = {} /\ byUri' = {}
        /\ raced' = {}
    BY <1>1 DEF Crash
  <2>2. docs' \in [Stores -> Seq(Doc)] /\ atoms' \in [Stores -> AtomMap]
    BY <1>1, BlankTypes DEF Crash
  <2>3. index' \in [Stores -> Corpus] /\ byPath' \in [GridKeys -> Stores \cup {Null}]
    BY <1>1, BlankTypes DEF Crash
  <2>4. req' \in Request /\ ws' \in [Workers -> Search]
    BY <1>1, BlankTypes DEF Crash
  <2>5. snapshot' = snapshot /\ saved' = saved
    BY <1>1 DEF Crash
  <2> QED
    BY <2>1, <2>2, <2>3, <2>4, <2>5 DEF TypeOK
<1>2. ASSUME NEW unreadable \in Unreadable, Boot(unreadable)
      PROVE  TypeOK'
  <2> DEFINE restored == {s \in Stores : snapshot[s] # EmptyCorpus} \ unreadable
  <2>1. \A s \in Stores : snapshot[s].docs \in Seq(Doc) /\ snapshot[s].atoms \in AtomMap
    BY DEF TypeOK, Corpus
  <2>2. <<[path |-> Bootstrap, content |-> BootstrapText]>> \in Seq(Doc)
    BY DEF Doc
  <2>3. docs' \in [Stores -> Seq(Doc)]
    BY <1>2, <2>1, <2>2 DEF Boot
  <2>4. atoms' \in [Stores -> AtomMap]
    BY <1>2, <2>1 DEF Boot
  <2>5. \A s \in Stores : RestoredGlyphs(s) \subseteq Stores \X Paths \X (ChunkIds \cup {0})
    <3> SUFFICES ASSUME NEW s \in Stores
                 PROVE  RestoredGlyphs(s) \subseteq Stores \X Paths \X (ChunkIds \cup {0})
      OBVIOUS
    <3> DEFINE ds == snapshot[s].docs
    <3>1. ASSUME NEW i \in DOMAIN ds
          PROVE  ds[i].path \in Paths
      <4>1. ds \in Seq(Doc)
        BY <2>1
      <4>2. ds[i] \in Doc
        BY <4>1
      <4> QED
        BY <4>2 DEF Doc
    <3>2. \A k \in AtomKeys : k[1] \in Paths /\ k[2] \in ChunkIds
      BY DEF AtomKeys
    <3> QED
      BY <3>1, <3>2 DEF RestoredGlyphs
  <2>6. byUri' = UNION {RestoredGlyphs(s) : s \in restored}
    BY <1>2 DEF Boot
  <2>7. byUri' \subseteq Stores \X Paths \X (ChunkIds \cup {0})
    BY <2>5, <2>6
  <2>8. stores' \subseteq Stores /\ dirty' \subseteq Stores /\ up' \in BOOLEAN
    BY <1>2 DEF Boot
  <2> QED
    BY <1>2, <2>3, <2>4, <2>7, <2>8 DEF TypeOK, Boot
<1> QED
  BY <1>1, <1>2 DEF Process

\* Every variable keeps its type in every behaviour.
THEOREM TypeCorrect == Spec => []TypeOK
<1>1. TypeOK /\ [Next]_vars => TypeOK'
  <2> SUFFICES ASSUME TypeOK, [Next]_vars
               PROVE  TypeOK'
    OBVIOUS
  <2>1. CASE UNCHANGED vars
    BY <2>1 DEF TypeOK, vars, memory, bm25, grid
  <2> QED
    BY <2>1, EventLoopType, WsSearchType, ProcessType DEF Next
<1> QED
  BY InitType, <1>1, PTL DEF Spec

-------------------------------------------------------------------------------
(* A URI names one document                                                *)

\* The empty list names no document twice.
LEMMA EmptyUnique == UniquePaths(<<>>) /\ UniquePaths(EmptyCorpus.docs)
BY DEF UniquePaths, EmptyCorpus

\* No list of documents names one twice at the first start.
LEMMA InitUnique == Init => UniqueInv
BY EmptyUnique DEF Init, UniqueInv, NoSearch

\* No step makes a list of documents, in memory, on disk, in an index or held by a
\* search thread, name a document twice.
LEMMA StepUnique == TypeOK /\ UniqueInv /\ [Next]_vars => UniqueInv'
<1> SUFFICES ASSUME TypeOK, UniqueInv, [Next]_vars
             PROVE  UniqueInv'
  OBVIOUS
<1> USE EmptyUnique
<1>1. ASSUME NEW s \in Stores, CreateStore(s)
      PROVE  UniqueInv'
  BY <1>1 DEF UniqueInv, CreateStore, bm25
<1>2. ASSUME NEW s \in Stores, SearchStore(s)
      PROVE  UniqueInv'
  <2>1. CorpusOf(s).docs = docs[s]
    BY DEF CorpusOf
  <2>2. index' = index \/ index' = [index EXCEPT ![s] = CorpusOf(s)]
    BY <1>2 DEF SearchStore, bm25
  <2>3. \A t \in Stores : UniquePaths(index'[t].docs)
    BY <2>1, <2>2 DEF UniqueInv, TypeOK
  <2> QED
    BY <1>2, <2>3 DEF UniqueInv, SearchStore
<1>3. ASSUME NEW s \in Stores, DeleteStore(s)
      PROVE  UniqueInv'
  <2>1. \A w \in Workers : ws'[w].seen = ws[w].seen
    BY <1>3, OvertakenType DEF DeleteStore, TypeOK
  <2> QED
    BY <1>3, <2>1 DEF UniqueInv, DeleteStore, TypeOK
<1>4. ASSUME NEW s \in Stores, NEW p \in Paths, NEW c \in Contents, UploadDuplicate(s, p, c)
      PROVE  UniqueInv'
  BY <1>4 DEF UniqueInv, UploadDuplicate, bm25
<1>5. ASSUME NEW s \in Stores, NEW p \in Paths, NEW c \in Contents, UploadDoc(s, p, c)
      PROVE  UniqueInv'
  <2>0. PICK r \in Paths : r = Resolve[p]
    BY Resolved
  <2>1. [path |-> r, content |-> c] \in Doc /\ docs[s] \in Seq(Doc)
    BY DEF Doc, TypeOK
  <2>2. UniquePaths(StoreDoc(docs[s], [path |-> r, content |-> c]))
    BY <2>1, StoreDocUnique DEF UniqueInv
  <2>3. \A w \in Workers : ws'[w].seen = ws[w].seen
    BY <1>5, OvertakenType DEF UploadDoc, TypeOK
  <2> QED
    BY <1>5, <2>0, <2>2, <2>3 DEF UniqueInv, UploadDoc, bm25, TypeOK
<1>6. CASE UploadAtoms
  <2>1. \A w \in Workers : ws'[w].seen = ws[w].seen
    BY <1>6, OvertakenType DEF UploadAtoms, TypeOK
  <2> QED
    BY <1>6, <2>1 DEF UniqueInv, UploadAtoms, bm25
<1>7. CASE UploadMark
  BY <1>7 DEF UniqueInv, UploadMark, memory
<1>8. CASE UploadSave
  <2>1. req.store \in Stores /\ CorpusOf(req.store).docs = docs[req.store]
    BY DEF TypeOK, Request, CorpusOf
  <2> QED
    BY <1>8, <2>1 DEF UniqueInv, UploadSave, memory, bm25, TypeOK
<1>9. CASE DeleteSnapshot
  <2>1. \A s \in Stores : UniquePaths(snapshot'[s].docs)
    BY <1>9 DEF UniqueInv, DeleteSnapshot, TypeOK
  <2> QED
    BY <1>9, <2>1 DEF UniqueInv, DeleteSnapshot, memory, bm25
<1>10. ASSUME NEW w \in Workers, WsSearch(w)
       PROVE  UniqueInv'
  <2> ws[w] \in Search
    BY DEF TypeOK
  <2>1. ASSUME NEW s \in Stores, WsEnsureStore(w, s)
        PROVE  UniqueInv'
    BY <2>1 DEF UniqueInv, WsEnsureStore, bm25, TypeOK, NoSearch
  <2>2. CASE WsCheckIndex(w)
    BY <2>2 DEF UniqueInv, WsCheckIndex, memory, bm25, TypeOK, NoSearch, Search
  <2>3. CASE WsReadDocs(w)
    BY <2>3 DEF UniqueInv, WsReadDocs, memory, bm25, TypeOK, Search, Corpus
  <2>4. CASE WsReadAtoms(w)
    BY <2>4 DEF UniqueInv, WsReadAtoms, memory, bm25, TypeOK, Search, Corpus
  <2>5. CASE WsPublish(w)
    BY <2>5 DEF UniqueInv, WsPublish, memory, TypeOK, Search
  <2>6. CASE WsDiscardDirty(w)
    BY <2>6 DEF UniqueInv, WsDiscardDirty, memory, TypeOK, NoSearch
  <2> QED
    BY <1>10, <2>1, <2>2, <2>3, <2>4, <2>5, <2>6 DEF WsSearch
<1>11. CASE Crash
  <2>1. /\ docs' = [s \in Stores |-> <<>>]
        /\ index' = [s \in Stores |-> EmptyCorpus]
        /\ ws' = [w \in Workers |-> NoSearch]
        /\ snapshot' = snapshot
    BY <1>11 DEF Crash
  <2>2. UniquePaths(NoSearch.seen.docs)
    BY DEF NoSearch
  <2> QED
    BY <2>1, <2>2 DEF UniqueInv
<1>12. ASSUME NEW unreadable \in Unreadable, Boot(unreadable)
       PROVE  UniqueInv'
  <2>1. UniquePaths(<<[path |-> Bootstrap, content |-> BootstrapText]>>)
    BY DEF UniquePaths
  <2> QED
    BY <1>12, <2>1 DEF UniqueInv, Boot
<1>13. CASE UNCHANGED vars
  BY <1>13 DEF UniqueInv, vars, memory, bm25
<1> QED
  BY <1>1, <1>2, <1>3, <1>4, <1>5, <1>6, <1>7, <1>8, <1>9, <1>10, <1>11, <1>12, <1>13
  DEF Next, EventLoop, Upload, Process

\* In memory, in the index and on disk, a URI names one document, whatever
\* fails and whichever searches run.
THEOREM UrisUnique == Spec => []DocUrisUnique
<1>1. TypeOK /\ UniqueInv => DocUrisUnique
  BY DEF TypeOK, UniqueInv, DocUrisUnique
<1> QED
  BY <1>1, InitUnique, StepUnique, TypeCorrect, PTL DEF Spec

-------------------------------------------------------------------------------
(* Saved uploads survive                                                   *)

\* No step loses a saved upload when snapshots can be read.
LEMMA StepSaved ==
  ASSUME "load" \notin Faults, TypeOK, UniqueInv, SavedInv, [Next]_vars
  PROVE  SavedInv'
<1> req \in Request
  BY DEF TypeOK
<1> USE ConstantsAssumption
<1>1. ASSUME UNCHANGED <<up, req, docs, snapshot, saved>>
      PROVE  SavedInv'
  BY <1>1 DEF SavedInv, Uploading, IdleWhenDown
<1>2. ASSUME NEW s \in Stores,
             \/ CreateStore(s)
             \/ SearchStore(s)
             \/ \E p \in Paths, c \in Contents : UploadDuplicate(s, p, c)
      PROVE  SavedInv'
  BY <1>1, <1>2 DEF CreateStore, SearchStore, UploadDuplicate
<1>3. ASSUME NEW s \in Stores, DeleteStore(s)
      PROVE  SavedInv'
  <2>1. /\ req'.op = "unlink"
        /\ req'.store = s
        /\ up' = up /\ up
        /\ snapshot' = snapshot
    BY <1>3 DEF DeleteStore, Ready, Idle
  <2>2. \A p \in Paths : saved'[s][p] = Null
    BY <1>3 DEF DeleteStore, TypeOK
  <2>3. ASSUME NEW t \in Stores, t # s
        PROVE  saved'[t] = saved[t] /\ docs'[t] = docs[t]
    BY <1>3, <2>3 DEF DeleteStore, TypeOK
  <2>4. \A t \in Stores, p \in Paths : ~Uploading(t, p)
    BY <1>3 DEF DeleteStore, Ready, Idle, Uploading
  <2> QED
    BY <2>1, <2>2, <2>3, <2>4 DEF SavedInv, IdleWhenDown
<1>4. ASSUME NEW s \in Stores, NEW p \in Paths, NEW c \in Contents, UploadDoc(s, p, c)
      PROVE  SavedInv'
  <2>0. PICK r \in Paths : r = Resolve[p]
    BY Resolved
  <2> DEFINE d == [path |-> r, content |-> c]
  <2>1. /\ req' = [op |-> "atoms", store |-> s, path |-> r, content |-> c]
        /\ up' = up /\ up
        /\ snapshot' = snapshot
        /\ saved' = saved
        /\ docs' = [docs EXCEPT ![s] = StoreDoc(docs[s], d)]
        /\ req.op = "idle"
    BY <1>4, <2>0 DEF UploadDoc, Ready, Idle
  <2>2. docs[s] \in Seq(Doc) /\ UniquePaths(docs[s]) /\ d \in Doc
    BY DEF TypeOK, UniqueInv, Doc
  <2>3. Holds(docs'[s], r, c)
    BY <2>1, <2>2, StoreDocHolds DEF TypeOK
  <2>4. ASSUME NEW t \in Stores, NEW q \in Paths, saved'[t][q] # Null, ~(t = s /\ q = r)
        PROVE  Holds(docs'[t], q, saved'[t][q])
    <3>1. Holds(docs[t], q, saved[t][q]) /\ saved[t][q] \in Contents
      BY <2>1, <2>4 DEF SavedInv, Uploading, TypeOK
    <3>2. CASE t = s
      BY <2>1, <2>2, <2>4, <3>1, <3>2, StoreDocKeeps DEF TypeOK
    <3>3. CASE t # s
      BY <2>1, <3>1, <3>3 DEF TypeOK
    <3> QED
      BY <3>2, <3>3
  <2>5. \A t \in Stores, q \in Paths : Uploading(t, q)' <=> (t = s /\ q = r)
    BY <2>1 DEF Uploading
  <2> QED
    BY <2>1, <2>3, <2>4, <2>5 DEF SavedInv, IdleWhenDown
<1>5. CASE UploadAtoms \/ UploadMark
  <2>1. /\ UNCHANGED <<up, docs, snapshot, saved>>
        /\ up
        /\ req.op \in {"atoms", "mark"} /\ req'.op \in {"mark", "save"}
        /\ req'.store = req.store /\ req'.path = req.path /\ req'.content = req.content
    BY <1>5 DEF UploadAtoms, UploadMark, memory, Request
  <2>2. \A t \in Stores, q \in Paths : Uploading(t, q)' <=> Uploading(t, q)
    BY <2>1 DEF Uploading
  <2> QED
    BY <2>1, <2>2 DEF SavedInv, IdleWhenDown
<1>6. CASE UploadSave
  <2> DEFINE s == req.store
             p == req.path
  <2>1. /\ s \in Stores /\ p \in Paths /\ req.content \in Contents
        /\ up /\ up' = up /\ docs' = docs /\ req' = Idle
        /\ req.op = "save"
    BY <1>6 DEF UploadSave, memory, Request
  <2>2. Holds(docs[s], p, req.content)
    BY <2>1 DEF SavedInv, IdleWhenDown
  <2>3. \A t \in Stores, q \in Paths : ~Uploading(t, q)'
    BY <2>1 DEF Uploading, Idle
  <2>4. ASSUME NEW t \in Stores, NEW q \in Paths, ~(t = s /\ q = p), saved[t][q] # Null
        PROVE  Holds(docs[t], q, saved[t][q]) /\ Holds(snapshot[t].docs, q, saved[t][q])
    BY <2>1, <2>4 DEF SavedInv, Uploading, IdleWhenDown
  <2>5. CASE /\ snapshot' = [snapshot EXCEPT ![s] = CorpusOf(s)]
             /\ saved' = [saved EXCEPT ![s][p] = req.content]
    <3>1. CorpusOf(s).docs = docs[s]
      BY DEF CorpusOf
    <3>2. ASSUME NEW t \in Stores, NEW q \in Paths, saved'[t][q] # Null
          PROVE  Holds(docs'[t], q, saved'[t][q]) /\ Holds(snapshot'[t].docs, q, saved'[t][q])
      <4>1. CASE t = s /\ q = p
        <5>1. saved'[t][q] = req.content
          BY <2>1, <2>5, <4>1 DEF TypeOK
        <5> QED
          BY <2>1, <2>2, <2>5, <3>1, <4>1, <5>1 DEF TypeOK
      <4>2. CASE ~(t = s /\ q = p)
        <5>1. saved'[t][q] = saved[t][q]
          BY <2>1, <2>5, <4>2 DEF TypeOK
        <5>2. snapshot'[t].docs = IF t = s THEN docs[t] ELSE snapshot[t].docs
          BY <2>1, <2>5, <3>1 DEF TypeOK
        <5> QED
          BY <2>1, <2>4, <3>2, <4>2, <5>1, <5>2
      <4> QED
        BY <4>1, <4>2
    <3> QED
      BY <2>1, <3>2 DEF SavedInv, Idle, IdleWhenDown
  <2>6. CASE /\ saved' = [saved EXCEPT ![s][p] = Null]
             /\ snapshot' = snapshot
    <3>1. ASSUME NEW t \in Stores, NEW q \in Paths, saved'[t][q] # Null
          PROVE  Holds(docs'[t], q, saved'[t][q]) /\ Holds(snapshot'[t].docs, q, saved'[t][q])
      <4>1. ~(t = s /\ q = p) /\ saved'[t][q] = saved[t][q]
        BY <2>1, <2>6, <3>1 DEF TypeOK
      <4> QED
        BY <2>1, <2>4, <2>6, <3>1, <4>1
    <3> QED
      BY <2>1, <3>1 DEF SavedInv, Idle, IdleWhenDown
  <2> QED
    BY <1>6, <2>5, <2>6 DEF UploadSave
<1>7. CASE DeleteSnapshot
  <2>1. /\ up /\ up' = up /\ docs' = docs /\ saved' = saved /\ req' = Idle
        /\ req.op = "unlink"
        /\ req.store \in Stores
    BY <1>7 DEF DeleteSnapshot, memory, Request
  <2>2. \A t \in Stores, q \in Paths : ~Uploading(t, q) /\ ~Uploading(t, q)'
    BY <2>1 DEF Uploading, Idle
  <2>3. \A t \in Stores : t # req.store => snapshot'[t] = snapshot[t]
    BY <1>7 DEF DeleteSnapshot, TypeOK
  <2>4. \A q \in Paths : saved[req.store][q] = Null
    BY <2>1 DEF SavedInv, IdleWhenDown
  <2> QED
    BY <2>1, <2>2, <2>3, <2>4 DEF SavedInv, Idle, IdleWhenDown
<1>8. ASSUME NEW w \in Workers, WsSearch(w)
      PROVE  SavedInv'
  BY <1>1, <1>8 DEF WsSearch, WsEnsureStore, WsCheckIndex, WsReadDocs, WsReadAtoms,
                    WsPublish, WsDiscardDirty, memory
<1>9. CASE Crash
  BY <1>9 DEF SavedInv, Crash, Idle, IdleWhenDown
<1>10. ASSUME NEW unreadable \in Unreadable, Boot(unreadable)
       PROVE  SavedInv'
  <2>1. /\ unreadable = {}
        /\ req' = req /\ req = Idle
        /\ up'
        /\ snapshot' = snapshot /\ saved' = saved
    BY <1>10 DEF Boot, Unreadable, SavedInv, IdleWhenDown
  <2>2. ASSUME NEW t \in Stores, NEW q \in Paths, saved[t][q] # Null
        PROVE  docs'[t] = snapshot[t].docs /\ Holds(snapshot[t].docs, q, saved[t][q])
    <3>1. Holds(snapshot[t].docs, q, saved[t][q])
      BY <2>2 DEF SavedInv, IdleWhenDown
    <3>2. snapshot[t].docs # <<>>
      BY <3>1 DEF Holds
    <3>3. snapshot[t] # EmptyCorpus
      BY <3>2 DEF EmptyCorpus
    <3> QED
      BY <1>10, <2>1, <3>1, <3>2, <3>3 DEF Boot
  <2> QED
    BY <2>1, <2>2 DEF SavedInv, Idle, IdleWhenDown
<1>11. CASE UNCHANGED vars
  BY <1>1, <1>11 DEF vars, memory
<1> QED
  BY <1>2, <1>3, <1>4, <1>5, <1>6, <1>7, <1>8, <1>9, <1>10, <1>11
  DEF Next, EventLoop, Upload, Process

\* When every snapshot file can be read at startup, an upload that reached the
\* disk is there, and served, until its store is deleted or the file replaced.
THEOREM SavedUploads ==
  ASSUME "load" \notin Faults
  PROVE  Spec => []SavedUploadsSurvive
<1>1. Init => SavedInv
  BY ConstantsAssumption DEF Init, SavedInv, Idle, IdleWhenDown
<1>2. TypeOK /\ UniqueInv /\ SavedInv /\ [Next]_vars => SavedInv'
  BY StepSaved
<1>3. SavedInv => SavedUploadsSurvive
  BY DEF SavedInv, SavedUploadsSurvive, Ready, Idle, Uploading
<1> QED
  BY <1>1, <1>2, <1>3, InitUnique, StepUnique, TypeCorrect, PTL DEF Spec

-------------------------------------------------------------------------------
(* Deleted stores stay deleted                                             *)

\* No step leaves, or brings back, anything of a store that is not listed.
LEMMA StepDeleted ==
  ASSUME "load" \notin Faults, "unlink" \notin Faults, TypeOK, DeletedInv, [Next]_vars
  PROVE  DeletedInv'
<1> req \in Request
  BY DEF TypeOK
<1> USE ConstantsAssumption DEF IdleWhenDown, CorpusOf
<1>1. ASSUME UNCHANGED <<up, req, docs, atoms, snapshot>>, stores \subseteq stores'
      PROVE  DeletedInv'
  BY <1>1 DEF DeletedInv
<1>2. ASSUME NEW s \in Stores,
             \/ CreateStore(s)
             \/ SearchStore(s)
             \/ \E p \in Paths, c \in Contents : UploadDuplicate(s, p, c)
      PROVE  DeletedInv'
  BY <1>1, <1>2 DEF CreateStore, SearchStore, UploadDuplicate
<1>3. ASSUME NEW s \in Stores, DeleteStore(s)
      PROVE  DeletedInv'
  <2>1. /\ up /\ up' = up
        /\ req.op = "idle"
        /\ req'.op = "unlink" /\ req'.store = s
        /\ stores' = stores \ {s}
        /\ snapshot' = snapshot
    BY <1>3 DEF DeleteStore, Ready, Idle
  <2>2. \A t \in Stores : t # s => docs'[t] = docs[t] /\ atoms'[t] = atoms[t]
    BY <1>3 DEF DeleteStore, TypeOK
  <2>3. docs'[s] = <<>> /\ atoms'[s] = NoAtoms
    BY <1>3 DEF DeleteStore, TypeOK
  <2>4. ASSUME NEW t \in Stores, t \notin stores'
        PROVE  /\ CorpusOf(t)' = EmptyCorpus
               /\ (req'.op = "unlink" /\ req'.store = t) \/ snapshot'[t] = EmptyCorpus
    <3>1. CASE t = s
      BY <2>1, <2>3, <3>1 DEF EmptyCorpus
    <3>2. CASE t # s
      <4>1. t \in Stores \ stores /\ up /\ ~(req.op = "unlink")
        BY <2>1, <2>4, <3>2
      <4>2. CorpusOf(t) = EmptyCorpus /\ snapshot[t] = EmptyCorpus
        BY <4>1 DEF DeletedInv
      <4>3. CorpusOf(t)' = CorpusOf(t)
        BY <2>2, <3>2
      <4> QED
        BY <2>1, <4>2, <4>3
    <3> QED
      BY <3>1, <3>2
  <2> QED
    BY <2>1, <2>4 DEF DeletedInv
<1>4. ASSUME NEW s \in Stores, NEW p \in Paths, NEW c \in Contents, UploadDoc(s, p, c)
      PROVE  DeletedInv'
  <2>1. /\ up /\ up' = up
        /\ req.op = "idle"
        /\ req'.op = "atoms" /\ req'.store = s
        /\ stores' = stores \cup {s}
        /\ UNCHANGED <<atoms, snapshot>>
    BY <1>4 DEF UploadDoc, Ready, Idle
  <2>2. \A t \in Stores : t # s => docs'[t] = docs[t]
    BY <1>4 DEF UploadDoc, TypeOK
  <2> QED
    BY <2>1, <2>2 DEF DeletedInv
<1>5. CASE UploadAtoms
  <2>1. /\ UNCHANGED <<up, stores, docs, snapshot>>
        /\ up /\ req.op = "atoms"
        /\ req'.op = "mark" /\ req'.store = req.store
    BY <1>5 DEF UploadAtoms, Request
  <2>2. \A t \in Stores : t # req.store => atoms'[t] = atoms[t]
    BY <1>5 DEF UploadAtoms, TypeOK
  <2> QED
    BY <2>1, <2>2 DEF DeletedInv
<1>6. CASE UploadMark
  <2>1. /\ UNCHANGED <<up, stores, docs, atoms, snapshot>>
        /\ up /\ req.op = "mark"
        /\ req'.op = "save" /\ req'.store = req.store
    BY <1>6 DEF UploadMark, memory, Request
  <2> QED
    BY <2>1 DEF DeletedInv
<1>7. CASE UploadSave
  <2>1. /\ UNCHANGED <<up, stores, docs, atoms>>
        /\ up /\ req.op = "save"
        /\ req' = Idle
    BY <1>7 DEF UploadSave, memory
  <2>2. \A t \in Stores : t # req.store => snapshot'[t] = snapshot[t]
    BY <1>7 DEF UploadSave, TypeOK
  <2> QED
    BY <2>1, <2>2 DEF DeletedInv, Idle
<1>8. CASE DeleteSnapshot
  <2>1. /\ UNCHANGED <<up, stores, docs, atoms>>
        /\ up /\ req.op = "unlink"
        /\ req' = Idle
        /\ snapshot' = [snapshot EXCEPT ![req.store] = EmptyCorpus]
    BY <1>8 DEF DeleteSnapshot, memory
  <2> QED
    BY <2>1 DEF DeletedInv, Idle, TypeOK
<1>9. ASSUME NEW w \in Workers, WsSearch(w)
      PROVE  DeletedInv'
  BY <1>1, <1>9 DEF WsSearch, WsEnsureStore, WsCheckIndex, WsReadDocs, WsReadAtoms,
                    WsPublish, WsDiscardDirty, memory
<1>10. CASE Crash
  BY <1>10 DEF DeletedInv, Crash, Idle
<1>11. ASSUME NEW unreadable \in Unreadable, Boot(unreadable)
       PROVE  DeletedInv'
  <2>1. /\ unreadable = {}
        /\ req' = req /\ req = Idle
        /\ snapshot' = snapshot
    BY <1>11 DEF Boot, Unreadable, DeletedInv
  <2>2. ASSUME NEW t \in Stores, t \notin stores'
        PROVE  snapshot[t] = EmptyCorpus /\ docs'[t] = <<>> /\ atoms'[t] = NoAtoms
    BY <1>11, <2>1, <2>2 DEF Boot
  <2> QED
    BY <2>1, <2>2 DEF DeletedInv, Idle, EmptyCorpus
<1>12. CASE UNCHANGED vars
  BY <1>1, <1>12 DEF vars, memory
<1> QED
  BY <1>2, <1>3, <1>4, <1>5, <1>6, <1>7, <1>8, <1>9, <1>10, <1>11, <1>12
  DEF Next, EventLoop, Upload, Process

\* When snapshot files can be read and removed, an acknowledged deletion leaves
\* nothing of the store in memory or on disk, so no restart brings it back.
THEOREM DeletionIsFinal ==
  ASSUME "load" \notin Faults, "unlink" \notin Faults
  PROVE  Spec => []DeletedStoresStayDeleted
<1>1. Init => DeletedInv
  BY ConstantsAssumption DEF Init, DeletedInv, Idle, IdleWhenDown
<1>2. TypeOK /\ DeletedInv /\ [Next]_vars => DeletedInv'
  BY StepDeleted
<1>3. DeletedInv => DeletedStoresStayDeleted
  <2> SUFFICES ASSUME DeletedInv, Ready, NEW s \in Stores \ stores
               PROVE  CorpusOf(s) = EmptyCorpus /\ snapshot[s] = EmptyCorpus
    BY DEF DeletedStoresStayDeleted
  <2>1. up /\ req.op # "unlink"
    BY DEF Ready, Idle
  <2> QED
    BY <2>1 DEF DeletedInv
<1> QED
  BY <1>1, <1>2, <1>3, TypeCorrect, PTL DEF Spec

-------------------------------------------------------------------------------
(* Atoms follow their documents                                            *)

\* A document just stored, the atoms of its file still to come: the rest of the
\* store stays fully indexed.
LEMMA StoreDocIndexed ==
  ASSUME NEW ds \in Seq(Doc), NEW am \in AtomMap, NEW p \in Paths, NEW c \in Contents,
         FullyIndexed([docs |-> ds, atoms |-> am])
  PROVE  IndexedBut([docs |-> StoreDoc(ds, [path |-> p, content |-> c]), atoms |-> am], p)
<1> DEFINE d == [path |-> p, content |-> c]
           new == StoreDoc(ds, d)
<1>1. ASSUME NEW i \in DOMAIN new, new[i].path # p
      PROVE  i \in DOMAIN ds /\ new[i] = ds[i]
  <2>1. CASE HasPath(ds, p)
    BY <1>1, <2>1 DEF StoreDoc
  <2>2. CASE ~HasPath(ds, p)
    <3>1. new = Append(ds, d)
      BY <2>2 DEF StoreDoc
    <3> QED
      BY <1>1, <3>1
  <2> QED
    BY <2>1, <2>2
<1>2. ASSUME NEW q, HasPath(ds, q)
      PROVE  HasPath(new, q)
  <2>1. PICK i \in DOMAIN ds : ds[i].path = q
    BY <1>2 DEF HasPath
  <2>2. i \in DOMAIN new /\ new[i].path = q
    BY <2>1 DEF StoreDoc
  <2> QED
    BY <2>2 DEF HasPath
<1>3. ASSUME NEW i \in DOMAIN new, new[i].path \notin {Bootstrap, p},
             NEW k \in ChunksOf[new[i].content]
      PROVE  am[<<new[i].path, k>>] = new[i].content
  BY <1>1, <1>3 DEF FullyIndexed
<1>4. ASSUME NEW k \in AtomKeys, am[k] # Null
      PROVE  HasPath(new, k[1])
  BY <1>2, <1>4 DEF FullyIndexed
<1> QED
  BY <1>3, <1>4 DEF IndexedBut

\* Injecting every chunk of the stored text completes the index of the store.
LEMMA InjectAtomsIndexed ==
  ASSUME NEW ds \in Seq(Doc), NEW am \in AtomMap, NEW p \in Paths, NEW c \in Contents,
         UniquePaths(ds), Holds(ds, p, c), p # Bootstrap,
         IndexedBut([docs |-> ds, atoms |-> am], p)
  PROVE  FullyIndexed([docs |-> ds, atoms |-> InjectAtoms(am, p, c, ChunksOf[c])])
<1> DEFINE new == InjectAtoms(am, p, c, ChunksOf[c])
<1>0. \A t \in Contents : ChunksOf[t] \subseteq ChunkIds
  BY ConstantsAssumption
<1>1. PICK h \in DOMAIN ds : ds[h] = [path |-> p, content |-> c]
  BY DEF Holds
<1>2. ASSUME NEW i \in DOMAIN ds, ds[i].path # Bootstrap, NEW k \in ChunksOf[ds[i].content]
      PROVE  new[<<ds[i].path, k>>] = ds[i].content
  <2>1. ds[i] \in Doc
    OBVIOUS
  <2>2. <<ds[i].path, k>> \in AtomKeys
    BY <1>0, <1>2, <2>1 DEF AtomKeys, Doc
  <2>3. CASE ds[i].path = p
    <3>1. i = h
      BY <1>1, <2>3 DEF UniquePaths
    <3> QED
      BY <1>1, <1>2, <2>2, <3>1 DEF InjectAtoms
  <2>4. CASE ds[i].path # p
    <3>1. am[<<ds[i].path, k>>] = ds[i].content
      BY <1>2, <2>4 DEF IndexedBut
    <3> QED
      BY <2>2, <2>4, <3>1 DEF InjectAtoms
  <2> QED
    BY <2>3, <2>4
<1>3. ASSUME NEW k \in AtomKeys, new[k] # Null
      PROVE  HasPath(ds, k[1])
  <2>1. CASE k[1] = p
    BY <1>1, <2>1 DEF HasPath
  <2>2. CASE k[1] # p
    BY <1>3, <2>2 DEF InjectAtoms, IndexedBut
  <2> QED
    BY <2>1, <2>2
<1> QED
  BY <1>2, <1>3 DEF FullyIndexed

\* An empty store is fully indexed.
LEMMA EmptyIndexed == FullyIndexed(EmptyCorpus)
BY DEF FullyIndexed, EmptyCorpus, NoAtoms

\* Every step keeps the stores and the snapshots fully indexed, but for the one
\* document an upload has stored and not yet chunked.
LEMMA StepFollow ==
  ASSUME "atom" \notin Faults, TypeOK, UniqueInv, FollowInv, [Next]_vars
  PROVE  FollowInv'
<1> req \in Request
  BY DEF TypeOK
<1> \A s \in Stores : /\ docs[s] \in Seq(Doc) /\ UniquePaths(docs[s])
                    /\ atoms[s] \in AtomMap
  BY DEF TypeOK, UniqueInv
<1> USE ConstantsAssumption DEF IdleWhenDown
<1>1. ASSUME UNCHANGED <<up, req, docs, atoms, snapshot>>
      PROVE  FollowInv'
  BY <1>1 DEF FollowInv, CorpusOf
<1>2. ASSUME NEW s \in Stores,
             \/ CreateStore(s)
             \/ SearchStore(s)
             \/ \E p \in Paths, c \in Contents : UploadDuplicate(s, p, c)
      PROVE  FollowInv'
  BY <1>1, <1>2 DEF CreateStore, SearchStore, UploadDuplicate
<1>3. ASSUME NEW s \in Stores, DeleteStore(s)
      PROVE  FollowInv'
  <2>1. /\ up /\ up' = up
        /\ req.op = "idle" /\ req'.op = "unlink"
        /\ snapshot' = snapshot
    BY <1>3 DEF DeleteStore, Ready, Idle
  <2>2. \A t \in Stores : CorpusOf(t)' = IF t = s THEN EmptyCorpus ELSE CorpusOf(t)
    BY <1>3 DEF DeleteStore, TypeOK, EmptyCorpus, CorpusOf
  <2> QED
    BY <2>1, <2>2, EmptyIndexed DEF FollowInv
<1>4. ASSUME NEW s \in Stores, NEW p \in Paths, NEW c \in Contents, UploadDoc(s, p, c)
      PROVE  FollowInv'
  <2>0. PICK r \in Paths : r = Resolve[p] /\ (p # Bootstrap => r # Bootstrap)
    BY Resolved
  <2> DEFINE d == [path |-> r, content |-> c]
  <2>1. /\ up /\ up' = up /\ r # Bootstrap
        /\ req.op = "idle"
        /\ req' = [op |-> "atoms", store |-> s, path |-> r, content |-> c]
        /\ docs' = [docs EXCEPT ![s] = StoreDoc(docs[s], d)]
        /\ UNCHANGED <<atoms, snapshot>>
    BY <1>4, <2>0 DEF UploadDoc, Ready, Idle
  <2>2. FullyIndexed(CorpusOf(s))
    BY <2>1 DEF FollowInv
  <2>3. docs'[s] = StoreDoc(docs[s], d)
    BY <2>1 DEF TypeOK
  <2>4. IndexedBut(CorpusOf(s)', r) /\ Holds(docs'[s], r, c)
    BY <2>1, <2>2, <2>3, StoreDocIndexed, StoreDocHolds DEF CorpusOf
  <2>5. \A t \in Stores : t # s => CorpusOf(t)' = CorpusOf(t)
    BY <2>1 DEF TypeOK, CorpusOf
  <2> QED
    BY <2>1, <2>4, <2>5 DEF FollowInv
<1>5. CASE UploadAtoms
  <2>0. PICK s \in Stores : s = req.store
    BY DEF Request
  <2>1. /\ up /\ up' = up /\ UNCHANGED <<docs, snapshot>>
        /\ req.op = "atoms" /\ req'.op = "mark"
        /\ req.path \in Paths /\ req.content \in Contents /\ req'.store = s
    BY <1>5, <2>0 DEF UploadAtoms, Request
  <2>2. atoms' = [atoms EXCEPT ![s] =
                    InjectAtoms(atoms[s], req.path, req.content, ChunksOf[req.content])]
    BY <1>5, <2>0 DEF UploadAtoms, Injectable
  <2>3. atoms'[s] = InjectAtoms(atoms[s], req.path, req.content, ChunksOf[req.content])
    BY <2>1, <2>2 DEF TypeOK
  <2>4. FullyIndexed(CorpusOf(s)')
    <3>1. /\ IndexedBut([docs |-> docs[s], atoms |-> atoms[s]], req.path)
          /\ Holds(docs[s], req.path, req.content)
          /\ req.path # Bootstrap
      BY <2>0, <2>1 DEF FollowInv, CorpusOf
    <3>2. FullyIndexed([docs |-> docs[s], atoms |-> atoms'[s]])
      BY <2>1, <2>3, <3>1, InjectAtomsIndexed
    <3> QED
      BY <2>1, <3>2 DEF CorpusOf
  <2>5. \A t \in Stores : t # s => CorpusOf(t)' = CorpusOf(t)
    BY <2>1, <2>2 DEF TypeOK, CorpusOf
  <2> QED
    BY <2>0, <2>1, <2>4, <2>5 DEF FollowInv
<1>6. CASE UploadMark
  BY <1>6 DEF FollowInv, UploadMark, memory, Request, CorpusOf
<1>7. CASE UploadSave
  <2>1. /\ UNCHANGED <<up, docs, atoms>>
        /\ req.op = "save" /\ req' = Idle
        /\ req.store \in Stores
    BY <1>7 DEF UploadSave, memory, Request
  <2>2. snapshot' = snapshot \/ snapshot' = [snapshot EXCEPT ![req.store] = CorpusOf(req.store)]
    BY <1>7 DEF UploadSave
  <2>3. ASSUME NEW t \in Stores
        PROVE  FullyIndexed(snapshot'[t])
    <3>1. FullyIndexed(snapshot[t]) /\ FullyIndexed(CorpusOf(req.store))
      BY <2>1 DEF FollowInv
    <3>2. snapshot'[t] = snapshot[t] \/ snapshot'[t] = CorpusOf(req.store)
      BY <2>2 DEF TypeOK
    <3> QED
      BY <3>1, <3>2
  <2> QED
    BY <2>1, <2>3 DEF FollowInv, Idle, CorpusOf
<1>8. CASE DeleteSnapshot
  <2>1. UNCHANGED <<up, docs, atoms>> /\ req.op = "unlink" /\ req' = Idle
    BY <1>8 DEF DeleteSnapshot, memory
  <2>2. \A t \in Stores : snapshot'[t] \in {snapshot[t], EmptyCorpus}
    BY <1>8 DEF DeleteSnapshot, TypeOK
  <2> QED
    BY <2>1, <2>2, EmptyIndexed DEF FollowInv, Idle, CorpusOf
<1>9. ASSUME NEW w \in Workers, WsSearch(w)
      PROVE  FollowInv'
  BY <1>1, <1>9 DEF WsSearch, WsEnsureStore, WsCheckIndex, WsReadDocs, WsReadAtoms,
                    WsPublish, WsDiscardDirty, memory
<1>10. CASE Crash
  <2>1. req' = Idle /\ snapshot' = snapshot
    BY <1>10 DEF Crash
  <2>2. \A s \in Stores : CorpusOf(s)' = EmptyCorpus
    BY <1>10 DEF Crash, EmptyCorpus, CorpusOf
  <2> QED
    BY <2>1, <2>2, EmptyIndexed DEF FollowInv, Idle
<1>11. ASSUME NEW unreadable \in Unreadable, Boot(unreadable)
       PROVE  FollowInv'
  <2>1. req = Idle /\ req' = req /\ snapshot' = snapshot
    BY <1>11 DEF Boot, FollowInv
  <2>2. ASSUME NEW s \in Stores
        PROVE  FullyIndexed(CorpusOf(s)')
    <3> DEFINE boot == <<[path |-> Bootstrap, content |-> BootstrapText]>>
    <3>1. FullyIndexed(snapshot[s]) /\ snapshot[s] \in Corpus
      BY DEF FollowInv, TypeOK
    <3>2. \/ docs'[s] = snapshot[s].docs /\ atoms'[s] = snapshot[s].atoms
          \/ docs'[s] \in {<<>>, boot} /\ atoms'[s] = NoAtoms
          \/ docs'[s] \in {<<>>, boot} /\ atoms'[s] = snapshot[s].atoms
                                     /\ snapshot[s].docs = <<>>
      BY <1>11 DEF Boot
    <3> USE DEF CorpusOf
    <3>3. CASE docs'[s] = snapshot[s].docs /\ atoms'[s] = snapshot[s].atoms
      BY <3>1, <3>3 DEF FullyIndexed
    <3>4. CASE docs'[s] \in {<<>>, boot} /\ atoms'[s] = NoAtoms
      BY <3>4 DEF FullyIndexed, NoAtoms
    <3>5. CASE /\ docs'[s] \in {<<>>, boot} /\ atoms'[s] = snapshot[s].atoms
               /\ snapshot[s].docs = <<>>
      <4>1. \A k \in AtomKeys : snapshot[s].atoms[k] = Null
        BY <3>1, <3>5 DEF FullyIndexed, HasPath
      <4> QED
        BY <3>5, <4>1 DEF FullyIndexed
    <3> QED
      BY <3>2, <3>3, <3>4, <3>5
  <2> QED
    BY <2>1, <2>2 DEF FollowInv, Idle
<1>12. CASE UNCHANGED vars
  BY <1>1, <1>12 DEF vars, memory
<1> QED
  BY <1>2, <1>3, <1>4, <1>5, <1>6, <1>7, <1>8, <1>9, <1>10, <1>11, <1>12
  DEF Next, EventLoop, Upload, Process

\* When every atom can be embedded, each chunk of a stored text is indexed with
\* the current text, in the memory between uploads and in every snapshot.
THEOREM AtomsFollow ==
  ASSUME "atom" \notin Faults
  PROVE  Spec => []AtomsFollowDocs
<1>1. Init => FollowInv
  <2>1. ASSUME Init, NEW s \in Stores
        PROVE  CorpusOf(s) = EmptyCorpus /\ snapshot[s] = EmptyCorpus
    BY <2>1 DEF Init, CorpusOf, EmptyCorpus
  <2>2. ASSUME Init
        PROVE  IdleWhenDown /\ req.op # "atoms"
    BY <2>2 DEF Init, Idle, IdleWhenDown
  <2> QED
    BY <2>1, <2>2, EmptyIndexed DEF FollowInv
<1>2. TypeOK /\ UniqueInv /\ FollowInv /\ [Next]_vars => FollowInv'
  BY StepFollow
<1>3. FollowInv => AtomsFollowDocs
  <2>1. Ready => req.op # "atoms"
    BY DEF Ready, Idle
  <2> QED
    BY <2>1 DEF FollowInv, AtomsFollowDocs
<1> QED
  BY <1>1, <1>2, <1>3, InitUnique, StepUnique, TypeCorrect, PTL DEF Spec

-------------------------------------------------------------------------------
(* The index is current                                                    *)

\* Every step keeps each index without a dirty mark current, but for the store an
\* upload is about to mark and for the work of threads that a change overtook.
LEMMA StepIndex ==
  ASSUME TypeOK, IndexInv, [Next]_vars
  PROVE  IndexInv'
<1> /\ req \in Request /\ ws \in [Workers -> Search]
    /\ docs \in [Stores -> Seq(Doc)] /\ atoms \in [Stores -> AtomMap]
    /\ index \in [Stores -> Corpus]
    /\ \A w \in Workers : ws[w] \in Search /\ ws[w].store \in Stores /\ ws[w].late \in BOOLEAN
  BY DEF TypeOK, Search
<1>1. ASSUME UNCHANGED <<up, req, docs, atoms, built, index, dirty, raced, ws>>
      PROVE  IndexInv'
  BY <1>1 DEF IndexInv, InStep, CorpusOf
<1>2. ASSUME NEW s \in Stores,
             \/ CreateStore(s)
             \/ \E p \in Paths, c \in Contents : UploadDuplicate(s, p, c)
      PROVE  IndexInv'
  BY <1>1, <1>2 DEF CreateStore, UploadDuplicate, bm25
<1>3. ASSUME NEW s \in Stores, SearchStore(s)
      PROVE  IndexInv'
  <2>1. UNCHANGED <<up, req, docs, atoms, ws>> /\ up
    BY <1>3 DEF SearchStore, Ready
  <2>2. CASE NeedsRebuild(s)
    <3>1. /\ built' = built \cup {s} /\ dirty' = dirty \ {s} /\ raced' = raced \ {s}
          /\ index' = [index EXCEPT ![s] = CorpusOf(s)]
      BY <1>3, <2>2 DEF SearchStore
    <3>2. \A t \in Stores : CorpusOf(t)' = CorpusOf(t)
      BY <2>1 DEF CorpusOf
    <3>3. index'[s] = CorpusOf(s)' /\ \A t \in Stores : t # s => index'[t] = index[t]
      BY <3>1, <3>2
    <3>4. \A w \in Workers : InStep(w) => InStep(w)'
      BY <2>1, <3>1, <3>2, <3>3 DEF InStep
    <3>5. \A t \in (built' \ dirty') \ raced' :
            \/ index'[t] = CorpusOf(t)'
            \/ req'.op \in {"atoms", "mark"} /\ req'.store = t
      BY <2>1, <3>1, <3>2, <3>3 DEF IndexInv, TypeOK
    <3> QED
      BY <2>1, <3>4, <3>5 DEF IndexInv
  <2>3. CASE ~NeedsRebuild(s)
    BY <1>1, <1>3, <2>1, <2>3 DEF SearchStore, bm25
  <2> QED
    BY <2>2, <2>3
\* A change of one store: its threads are late, the others see nothing.
<1>4. ASSUME NEW s \in Stores, up, up', ws' = Overtaken(s),
             \A t \in Stores : t # s => /\ docs'[t] = docs[t] /\ atoms'[t] = atoms[t]
                                        /\ index'[t] = index[t],
             raced' \subseteq raced, raced \ raced' \subseteq {s}
      PROVE  \A w \in Workers : ~ws'[w].late => InStep(w)'
  <2> SUFFICES ASSUME NEW w \in Workers, ~ws'[w].late
               PROVE  InStep(w)'
    OBVIOUS
  <2>1. /\ ws'[w].pc = ws[w].pc /\ ws'[w].store = ws[w].store /\ ws'[w].seen = ws[w].seen
        /\ ~ws[w].late
        /\ ~(ws[w].store = s /\ ws[w].pc \in {"atoms", "publish", "discard"})
    BY <1>4, OvertakenType
  <2>2. InStep(w)
    BY <2>1 DEF IndexInv
  <2>3. CASE ws[w].store = s
    BY <2>1, <2>3 DEF InStep
  <2>4. CASE ws[w].store # s
    <3>1. CorpusOf(ws[w].store)' = CorpusOf(ws[w].store)
      BY <1>4, <2>1, <2>4 DEF CorpusOf
    <3> QED
      BY <1>4, <2>1, <2>2, <2>4, <3>1 DEF InStep
  <2> QED
    BY <2>3, <2>4
<1>5. ASSUME NEW s \in Stores, DeleteStore(s)
      PROVE  IndexInv'
  <2>1. /\ up /\ up' = up /\ ws' = Overtaken(s)
        /\ req.op = "idle"
        /\ built' = built \ {s} /\ dirty' = dirty \ {s} /\ raced' = raced \ {s}
    BY <1>5 DEF DeleteStore, Ready, Idle
  <2>2. \A t \in Stores : t # s => /\ docs'[t] = docs[t] /\ atoms'[t] = atoms[t]
                                  /\ index'[t] = index[t]
    BY <1>5 DEF DeleteStore
  <2>3. \A w \in Workers : ~ws'[w].late => InStep(w)'
    BY <1>4, <2>1, <2>2
  <2>4. \A t \in Stores : t # s => CorpusOf(t)' = CorpusOf(t)
    BY <2>2 DEF CorpusOf
  <2>5. \A t \in (built' \ dirty') \ raced' : index'[t] = CorpusOf(t)'
    BY <2>1, <2>2, <2>4 DEF IndexInv, TypeOK
  <2> QED
    BY <2>1, <2>3, <2>5 DEF IndexInv
<1>6. ASSUME NEW s \in Stores, NEW p \in Paths, NEW c \in Contents, UploadDoc(s, p, c)
      PROVE  IndexInv'
  <2>1. /\ up /\ up' = up /\ ws' = Overtaken(s)
        /\ req.op = "idle" /\ req'.op = "atoms" /\ req'.store = s
        /\ UNCHANGED <<atoms, built, index, dirty, raced>>
    BY <1>6 DEF UploadDoc, Ready, Idle, bm25
  <2>2. \A t \in Stores : t # s => /\ docs'[t] = docs[t] /\ atoms'[t] = atoms[t]
                                  /\ index'[t] = index[t]
    BY <1>6, <2>1 DEF UploadDoc
  <2>3. \A w \in Workers : ~ws'[w].late => InStep(w)'
    BY <1>4, <2>1, <2>2
  <2>4. \A t \in Stores : t # s => CorpusOf(t)' = CorpusOf(t)
    BY <2>2 DEF CorpusOf
  <2>5. \A t \in (built' \ dirty') \ raced' :
          \/ index'[t] = CorpusOf(t)'
          \/ req'.op \in {"atoms", "mark"} /\ req'.store = t
    BY <2>1, <2>2, <2>4 DEF IndexInv, TypeOK
  <2> QED
    BY <2>1, <2>3, <2>5 DEF IndexInv
<1>7. CASE UploadAtoms
  <2>0. PICK s \in Stores : s = req.store
    BY DEF Request
  <2>1. /\ UNCHANGED <<docs, built, index, dirty, raced>> /\ up /\ up' = up
        /\ ws' = Overtaken(s)
        /\ req.op = "atoms" /\ req'.op = "mark" /\ req'.store = s
    BY <1>7, <2>0 DEF UploadAtoms, bm25, Request
  <2>2. \A t \in Stores : t # s => /\ docs'[t] = docs[t] /\ atoms'[t] = atoms[t]
                                  /\ index'[t] = index[t]
    BY <1>7, <2>0, <2>1 DEF UploadAtoms
  <2>3. \A w \in Workers : ~ws'[w].late => InStep(w)'
    BY <1>4, <2>1, <2>2
  <2>4. \A t \in Stores : t # s => CorpusOf(t)' = CorpusOf(t)
    BY <2>2 DEF CorpusOf
  <2>5. \A t \in (built' \ dirty') \ raced' :
          \/ index'[t] = CorpusOf(t)'
          \/ req'.op \in {"atoms", "mark"} /\ req'.store = t
    BY <2>0, <2>1, <2>2, <2>4 DEF IndexInv, TypeOK
  <2> QED
    BY <2>1, <2>3, <2>5 DEF IndexInv
<1>8. CASE UploadMark
  <2>1. /\ UNCHANGED <<docs, atoms, built, index, raced, ws>> /\ up /\ up' = up
        /\ dirty' = dirty \cup {req.store}
    BY <1>8 DEF UploadMark, memory
  <2> QED
    BY <2>1 DEF IndexInv, InStep, CorpusOf
<1>9. CASE UploadSave \/ DeleteSnapshot
  <2>1. /\ UNCHANGED <<docs, atoms, built, index, dirty, raced, ws>> /\ up /\ up' = up
        /\ req.op \in {"save", "unlink"}
    BY <1>9 DEF UploadSave, DeleteSnapshot, memory, bm25
  <2> QED
    BY <2>1 DEF IndexInv, InStep, CorpusOf
<1>10. ASSUME NEW w \in Workers, WsSearch(w)
       PROVE  IndexInv'
  <2> DEFINE s == ws[w].store
  <2>0. /\ up /\ up' = up /\ UNCHANGED <<req, docs, atoms>> /\ s \in Stores
        /\ \A v \in Workers : v # w => ws'[v] = ws[v]
        /\ \A t \in Stores : CorpusOf(t)' = CorpusOf(t)
    BY <1>10 DEF WsSearch, WsAt, WsEnsureStore, WsCheckIndex, WsReadDocs, WsReadAtoms,
                 WsPublish, WsDiscardDirty, memory, CorpusOf
  <2>1. ASSUME UNCHANGED <<built, index, dirty, raced>>, ~ws'[w].late => InStep(w)'
        PROVE  IndexInv'
    <3>1. \A v \in Workers : ~ws'[v].late => InStep(v)'
      <4> SUFFICES ASSUME NEW v \in Workers, v # w, ~ws'[v].late
                   PROVE  InStep(v)'
        BY <2>1
      <4>1. InStep(v) /\ ws'[v] = ws[v]
        BY <2>0 DEF IndexInv
      <4> QED
        BY <2>0, <2>1, <4>1 DEF InStep
    <3>2. \A t \in (built' \ dirty') \ raced' :
            \/ index'[t] = CorpusOf(t)'
            \/ req'.op \in {"atoms", "mark"} /\ req'.store = t
      BY <2>0, <2>1 DEF IndexInv, TypeOK
    <3> QED
      BY <2>0, <3>1, <3>2 DEF IndexInv
  <2>2. ASSUME NEW t \in Stores, WsEnsureStore(w, t)
        PROVE  IndexInv'
    <3>1. ws'[w].pc = "check"
      BY <2>2 DEF WsEnsureStore, NoSearch
    <3> QED
      BY <2>1, <2>2, <3>1 DEF WsEnsureStore, bm25, InStep
  <2>3. CASE WsCheckIndex(w)
    <3>1. ws'[w].pc \in {"docs", "idle"}
      BY <2>3 DEF WsCheckIndex, NoSearch, Search
    <3> QED
      BY <2>1, <2>3, <3>1 DEF WsCheckIndex, bm25, InStep
  <2>4. CASE WsReadDocs(w)
    <3>1. ws'[w].pc = "atoms" /\ ws'[w].seen.docs = docs[s] /\ ws'[w].store = s
      BY <2>4 DEF WsReadDocs, Search, Corpus
    <3> QED
      BY <2>0, <2>1, <2>4, <3>1 DEF WsReadDocs, bm25, InStep
  <2>5. CASE WsReadAtoms(w)
    <3>1. /\ ws'[w].pc = "publish" /\ ws'[w].store = s /\ ws'[w].late = ws[w].late
          /\ ws'[w].seen = [ws[w].seen EXCEPT !.atoms = atoms[s]]
          /\ ws[w].pc = "atoms" /\ ws[w].seen \in Corpus
      BY <2>5 DEF WsReadAtoms, WsAt, Search
    <3>2. ~ws[w].late => ws'[w].seen = CorpusOf(s)
      BY <3>1 DEF IndexInv, InStep, CorpusOf, Corpus
    <3> QED
      BY <2>0, <2>1, <2>5, <3>1, <3>2 DEF WsReadAtoms, bm25, InStep
  <2>6. CASE WsPublish(w)
    <3>1. /\ built' = built \cup {s} /\ dirty' = dirty
          /\ index' = [index EXCEPT ![s] = ws[w].seen]
          /\ raced' = IF ws[w].late THEN raced \cup {s} ELSE raced \ {s}
          /\ ws'[w].pc = "discard" /\ ws'[w].store = s /\ ws'[w].late = ws[w].late
          /\ ws[w].pc = "publish"
      BY <2>6 DEF WsPublish, WsAt, Search
    <3>2. \A t \in Stores : t # s => index'[t] = index[t]
      BY <3>1
    <3>3. s \in raced' \/ (index'[s] = CorpusOf(s)' /\ raced' = raced \ {s})
      <4>1. CASE ws[w].late
        BY <3>1, <4>1
      <4>2. CASE ~ws[w].late
        BY <2>0, <3>1, <4>2 DEF IndexInv, InStep
      <4> QED
        BY <4>1, <4>2
    <3>4. \A v \in Workers : ~ws'[v].late => InStep(v)'
      <4> SUFFICES ASSUME NEW v \in Workers, ~ws'[v].late
                   PROVE  InStep(v)'
        OBVIOUS
      <4>1. CASE v = w
        BY <2>0, <3>1, <3>3, <4>1 DEF InStep
      <4>2. CASE v # w
        <5>1. InStep(v) /\ ws'[v] = ws[v]
          BY <2>0, <4>2 DEF IndexInv
        <5>2. CASE ws[v].store = s
          BY <2>0, <3>1, <3>3, <5>1, <5>2 DEF InStep
        <5>3. CASE ws[v].store # s
          BY <2>0, <3>1, <3>2, <5>1, <5>3 DEF InStep
        <5> QED
          BY <5>2, <5>3
      <4> QED
        BY <4>1, <4>2
    <3>5. \A t \in (built' \ dirty') \ raced' :
            \/ index'[t] = CorpusOf(t)'
            \/ req'.op \in {"atoms", "mark"} /\ req'.store = t
      BY <2>0, <3>1, <3>2, <3>3 DEF IndexInv, TypeOK
    <3> QED
      BY <2>0, <3>4, <3>5 DEF IndexInv
  <2>7. CASE WsDiscardDirty(w)
    <3>1. /\ UNCHANGED <<built, index>> /\ dirty' = dirty \ {s}
          /\ raced' = IF ws[w].late THEN raced \cup {s} ELSE raced
          /\ ws'[w] = NoSearch /\ ws[w].pc = "discard"
      BY <2>7 DEF WsDiscardDirty, WsAt
    <3>2. s \in raced' \/ index[s] = CorpusOf(s)
      BY <3>1 DEF IndexInv, InStep
    <3>3. \A v \in Workers : ~ws'[v].late => InStep(v)'
      <4> SUFFICES ASSUME NEW v \in Workers, ~ws'[v].late
                   PROVE  InStep(v)'
        OBVIOUS
      <4>1. CASE v = w
        BY <3>1, <4>1 DEF InStep, NoSearch
      <4>2. CASE v # w
        <5>1. InStep(v) /\ ws'[v] = ws[v]
          BY <2>0, <4>2 DEF IndexInv
        <5> QED
          BY <2>0, <3>1, <5>1 DEF InStep
      <4> QED
        BY <4>1, <4>2
    <3>4. \A t \in (built' \ dirty') \ raced' :
            \/ index'[t] = CorpusOf(t)'
            \/ req'.op \in {"atoms", "mark"} /\ req'.store = t
      BY <2>0, <3>1, <3>2 DEF IndexInv, TypeOK
    <3> QED
      BY <2>0, <3>3, <3>4 DEF IndexInv
  <2> QED
    BY <1>10, <2>2, <2>3, <2>4, <2>5, <2>6, <2>7 DEF WsSearch
<1>11. CASE Crash
  <2>1. built' = {} /\ req' = Idle /\ \A w \in Workers : ws'[w] = NoSearch
    BY <1>11 DEF Crash
  <2>2. \A w \in Workers : InStep(w)'
    BY <2>1 DEF InStep, NoSearch
  <2> QED
    BY <2>1, <2>2 DEF IndexInv
<1>12. ASSUME NEW unreadable \in Unreadable, Boot(unreadable)
       PROVE  IndexInv'
  <2>1. built' = {} /\ up' /\ \A w \in Workers : ws'[w] = NoSearch
    BY <1>12 DEF Boot, IndexInv
  <2> QED
    BY <2>1 DEF IndexInv, InStep, NoSearch
<1>13. CASE UNCHANGED vars
  BY <1>1, <1>13 DEF vars, memory, bm25
<1> QED
  BY <1>2, <1>3, <1>5, <1>6, <1>7, <1>8, <1>9, <1>10, <1>11, <1>12, <1>13
  DEF Next, EventLoop, Upload, Process

\* With any number of threads searching: an index no search would rebuild is
\* current, unless a thread that a change of the store overtook published it or
\* cleared its mark.
THEOREM CleanIndex == Spec => []CleanIndexIsCurrent
<1>1. Init => IndexInv
  BY DEF Init, IndexInv, InStep, NoSearch
<1>2. TypeOK /\ IndexInv /\ [Next]_vars => IndexInv'
  BY StepIndex
<1>3. IndexInv => CleanIndexIsCurrent
  <2>1. Ready => req.op = "idle"
    BY DEF Ready, Idle
  <2> QED
    BY <2>1 DEF IndexInv, CleanIndexIsCurrent
<1> QED
  BY <1>1, <1>2, <1>3, TypeCorrect, PTL DEF Spec

-------------------------------------------------------------------------------
(* What a semantic search can reach                                        *)

\* A document of the list after an upload is the uploaded one, or was there.
LEMMA StoreDocFrom ==
  ASSUME NEW ds \in Seq(Doc), NEW d \in Doc, NEW i \in DOMAIN StoreDoc(ds, d)
  PROVE  StoreDoc(ds, d)[i] = d \/ \E k \in DOMAIN ds : StoreDoc(ds, d)[i] = ds[k]
<1>1. CASE HasPath(ds, d.path)
  BY <1>1 DEF StoreDoc
<1>2. CASE ~HasPath(ds, d.path)
  BY <1>2 DEF StoreDoc
<1> QED
  BY <1>1, <1>2

\* While a process lives the grid forgets nothing, and each document and atom has
\* its essence in the grid before, or when, it is in the store.
LEMMA StepReach ==
  ASSUME TypeOK, ReachInv, [Next]_vars
  PROVE  ReachInv'
<1> req \in Request
  BY DEF TypeOK
<1>1. ASSUME UNCHANGED <<docs, atoms, grid>>
      PROVE  ReachInv'
  BY <1>1 DEF ReachInv, FileReachable, grid
<1>2. ASSUME NEW s \in Stores, CreateStore(s) \/ SearchStore(s)
      PROVE  ReachInv'
  <2>1. UNCHANGED <<docs, atoms, grid>>
    BY <1>2 DEF CreateStore, SearchStore
  <2> QED
    BY <1>1, <2>1
<1>2a. ASSUME NEW s \in Stores, NEW p \in Paths, NEW c \in Contents, UploadDuplicate(s, p, c)
       PROVE  ReachInv'
  <2>1. UNCHANGED <<docs, atoms, grid>>
    BY <1>2a DEF UploadDuplicate
  <2> QED
    BY <1>1, <2>1
<1>3. ASSUME NEW s \in Stores, DeleteStore(s)
      PROVE  ReachInv'
  <2>1. /\ docs' = [docs EXCEPT ![s] = <<>>] /\ atoms' = [atoms EXCEPT ![s] = NoAtoms]
        /\ UNCHANGED <<byPath, byUri>>
    BY <1>3 DEF DeleteStore, grid
  <2>2. \A t \in Stores : docs'[t] = docs[t] \/ docs'[t] = <<>>
    BY <2>1 DEF TypeOK
  <2>3. \A t \in Stores : atoms'[t] = atoms[t] \/ atoms'[t] = NoAtoms
    BY <2>1 DEF TypeOK
  <2>4. ASSUME NEW t \in Stores, NEW i \in DOMAIN docs'[t],
               docs'[t][i].path # Bootstrap, docs'[t][i].content # Empty
        PROVE  FileReachable(t, docs[t][i].path)'
    <3>1. docs'[t] = docs[t]
      BY <2>2, <2>4
    <3>2. PICK q : q = docs[t][i].path
      OBVIOUS
    <3>3. FileReachable(t, q)
      BY <2>4, <3>1, <3>2 DEF ReachInv
    <3>4. FileReachable(t, q)'
      BY <2>1, <3>3 DEF FileReachable
    <3> QED
      BY <3>1, <3>2, <3>4 DEF FileReachable
  <2>5. ASSUME NEW t \in Stores, NEW k \in AtomKeys, atoms'[t][k] # Null
        PROVE  byPath'[k] # Null \/ <<t, k[1], k[2]>> \in byUri'
    <3>1. atoms'[t] = atoms[t]
      BY <2>3, <2>5 DEF NoAtoms
    <3> QED
      BY <2>1, <2>5, <3>1 DEF ReachInv
  <2> QED
    BY <2>4, <2>5 DEF ReachInv
<1>4. ASSUME NEW s \in Stores, NEW p \in Paths, NEW c \in Contents, UploadDoc(s, p, c)
      PROVE  ReachInv'
  <2>0. PICK r \in Paths : r = Resolve[p]
    BY Resolved
  <2> DEFINE d == [path |-> r, content |-> c]
  <2>1. /\ byPath' = [byPath EXCEPT ![<<p, 0>>] = s]
        /\ docs' = [docs EXCEPT ![s] = StoreDoc(docs[s], d)]
        /\ UNCHANGED <<atoms, byUri>>
    BY <1>4, <2>0 DEF UploadDoc
  <2>2. s # Null /\ <<p, 0>> \in GridKeys /\ byPath \in [GridKeys -> Stores \cup {Null}]
    BY ConstantsAssumption DEF GridKeys, TypeOK
  <2>3. byPath'[<<p, 0>>] # Null /\ \A k \in GridKeys : byPath[k] # Null => byPath'[k] # Null
    BY <2>1, <2>2
  <2>4. \A q \in Paths : <<q, 0>> \in GridKeys
    BY DEF GridKeys
  <2>5. ASSUME NEW t \in Stores, NEW i \in DOMAIN docs'[t],
               docs'[t][i].path # Bootstrap, docs'[t][i].content # Empty
        PROVE  FileReachable(t, docs[t][i].path)'
    <3>1. docs'[t][i] = d \/ \E k \in DOMAIN docs[t] : docs'[t][i] = docs[t][k]
      <4>1. docs[s] \in Seq(Doc) /\ d \in Doc
        BY DEF TypeOK, Doc
      <4>2. CASE t = s
        <5>1. docs'[t] = StoreDoc(docs[s], d)
          BY <2>1, <4>2 DEF TypeOK
        <5> HIDE DEF d
        <5> QED
          BY <4>1, <4>2, <5>1, StoreDocFrom
      <4>3. CASE t # s
        <5>1. docs'[t] = docs[t]
          BY <2>1, <4>3
        <5> QED
          BY <5>1
      <4> QED
        BY <4>2, <4>3
    <3>2. CASE docs'[t][i] = d
      BY <3>2, <2>0, <2>3 DEF FileReachable
    <3>3. CASE \E k \in DOMAIN docs[t] : docs'[t][i] = docs[t][k]
      <4>1. PICK k \in DOMAIN docs[t] : docs'[t][i] = docs[t][k]
        BY <3>3
      <4>2. docs[t][k] \in Doc
        BY DEF TypeOK
      <4>3. FileReachable(t, docs[t][k].path) /\ docs[t][k].path \in Paths
        BY <2>5, <4>1, <4>2 DEF ReachInv, Doc
      <4> QED
        BY <2>1, <2>3, <2>4, <4>1, <4>3 DEF FileReachable
    <3> QED
      BY <3>1, <3>2, <3>3
  <2>6. ASSUME NEW t \in Stores, NEW k \in AtomKeys, atoms'[t][k] # Null
        PROVE  byPath'[k] # Null \/ <<t, k[1], k[2]>> \in byUri'
    <3>1. k \in GridKeys
      BY DEF AtomKeys, GridKeys
    <3> QED
      BY <3>1, <2>1, <2>3, <2>6 DEF ReachInv
  <2> QED
    BY <2>5, <2>6 DEF ReachInv
<1>5. CASE UploadAtoms
  <2> DEFINE s == req.store
             p == req.path
             c == req.content
  <2>0. s \in Stores /\ s # Null /\ p \in Paths /\ c \in Contents
    BY ConstantsAssumption DEF Request
  <2>1. PICK chunks :
          /\ atoms' = [atoms EXCEPT ![s] = InjectAtoms(atoms[s], p, c, chunks)]
          /\ byPath' = [k \in GridKeys |-> IF k[1] = p /\ k[2] \in chunks THEN s ELSE byPath[k]]
    BY <1>5 DEF UploadAtoms
  <2>2. UNCHANGED <<docs, byUri>>
    BY <1>5 DEF UploadAtoms
  <2>3. \A k \in GridKeys : byPath[k] # Null => byPath'[k] # Null
    BY <2>0, <2>1
  <2>4. ASSUME NEW t \in Stores, NEW i \in DOMAIN docs'[t],
               docs'[t][i].path # Bootstrap, docs'[t][i].content # Empty
        PROVE  FileReachable(t, docs[t][i].path)'
    <3>1. docs[t][i] \in Doc
      BY <2>2 DEF TypeOK
    <3>2. PICK q \in Paths : q = docs[t][i].path
      BY <3>1 DEF Doc
    <3>3. FileReachable(t, q)
      BY <2>2, <2>4, <3>2 DEF ReachInv
    <3>4. \A l \in Paths : <<l, 0>> \in GridKeys
      BY DEF GridKeys
    <3>5. FileReachable(t, q)'
      BY <2>2, <2>3, <3>3, <3>4 DEF FileReachable
    <3> QED
      BY <2>2, <3>2, <3>5 DEF FileReachable
  <2>5. ASSUME NEW t \in Stores, NEW k \in AtomKeys, atoms'[t][k] # Null
        PROVE  byPath'[k] # Null \/ <<t, k[1], k[2]>> \in byUri'
    <3>1. k \in GridKeys
      BY DEF AtomKeys, GridKeys
    <3>2. CASE t = s /\ k[1] = p /\ k[2] \in chunks
      BY <2>0, <2>1, <3>1, <3>2
    <3>3. CASE ~(t = s /\ k[1] = p /\ k[2] \in chunks)
      <4>1. atoms'[t][k] = atoms[t][k]
        BY <2>1, <3>3 DEF InjectAtoms, TypeOK
      <4> QED
        BY <2>2, <2>3, <2>5, <3>1, <4>1 DEF ReachInv
    <3> QED
      BY <3>2, <3>3
  <2> QED
    BY <2>4, <2>5 DEF ReachInv
<1>6. CASE UploadMark \/ UploadSave \/ DeleteSnapshot
  BY <1>1, <1>6 DEF UploadMark, UploadSave, DeleteSnapshot, memory
<1>7. ASSUME NEW w \in Workers, WsSearch(w)
      PROVE  ReachInv'
  BY <1>1, <1>7 DEF WsSearch, WsEnsureStore, WsCheckIndex, WsReadDocs, WsReadAtoms, WsPublish,
                    WsDiscardDirty, memory
<1>8. CASE Crash
  BY <1>8 DEF Crash, ReachInv, NoAtoms
<1>9. ASSUME NEW unreadable \in Unreadable, Boot(unreadable)
      PROVE  ReachInv'
  <2> DEFINE restored == {s \in Stores : snapshot[s] # EmptyCorpus} \ unreadable
  <2>1. /\ docs' = [s \in Stores |->
             IF s \in restored /\ snapshot[s].docs # <<>> THEN snapshot[s].docs
             ELSE IF s = Default THEN <<[path |-> Bootstrap, content |-> BootstrapText]>>
             ELSE <<>>]
        /\ atoms' = [s \in Stores |-> IF s \in restored THEN snapshot[s].atoms ELSE NoAtoms]
        /\ byUri' = UNION {RestoredGlyphs(s) : s \in restored}
    BY <1>9 DEF Boot
  <2> HIDE DEF restored
  <2>2. ASSUME NEW t \in Stores, NEW i \in DOMAIN docs'[t],
               docs'[t][i].path # Bootstrap, docs'[t][i].content # Empty
        PROVE  <<t, docs'[t][i].path, 0>> \in byUri'
    <3>1. t \in restored /\ docs'[t] = snapshot[t].docs
      BY <2>1, <2>2
    <3>2. <<t, docs'[t][i].path, 0>> \in RestoredGlyphs(t)
      BY <2>2, <3>1 DEF RestoredGlyphs
    <3> QED
      BY <2>1, <3>1, <3>2
  <2>3. ASSUME NEW t \in Stores, NEW k \in AtomKeys, atoms'[t][k] # Null
        PROVE  <<t, k[1], k[2]>> \in byUri'
    <3>1. t \in restored /\ atoms'[t] = snapshot[t].atoms
      BY <2>1, <2>3 DEF NoAtoms
    <3>2. <<t, k[1], k[2]>> \in RestoredGlyphs(t)
      BY <2>3, <3>1 DEF RestoredGlyphs
    <3> QED
      BY <2>1, <3>1, <3>2
  <2> QED
    BY <2>2, <2>3 DEF ReachInv, FileReachable
<1>10. CASE UNCHANGED vars
  BY <1>1, <1>10 DEF vars, memory
<1> QED
  BY <1>2, <1>2a, <1>3, <1>4, <1>5, <1>6, <1>7, <1>8, <1>9, <1>10
  DEF Next, EventLoop, Upload, Process

\* An empty process has nothing to reach.
LEMMA ReachAlways == Spec => []ReachInv
<1>1. Init => ReachInv
  BY DEF Init, ReachInv, NoAtoms
<1>2. TypeOK /\ ReachInv /\ [Next]_vars => ReachInv'
  BY StepReach
<1> QED
  BY <1>1, <1>2, TypeCorrect, PTL DEF Spec

\* Whatever is uploaded where, deleted, and restored after a crash, every document
\* with a text has an essence in the grid that resolves to it (_local_upload,
\* _inject_into_chronos): a semantic search can reach it.
THEOREM FilesAreReachable == Spec => []FilesReachable
<1>1. ReachInv => FilesReachable
  BY DEF ReachInv, FilesReachable
<1> QED
  BY <1>1, ReachAlways, PTL

\* The same of every atom, whose glyph is lost to no one but an upload of the same
\* file into another store.
THEOREM AtomsAreReachable == Spec => []AtomsReachable
<1>1. TypeOK /\ ReachInv => AtomsReachable
  <2>1. \A k \in AtomKeys : k \in GridKeys
    BY DEF AtomKeys, GridKeys
  <2>2. TypeOK => \A k \in AtomKeys : byPath[k] # Null => byPath[k] \in Stores
    BY <2>1 DEF TypeOK
  <2> QED
    BY <2>2 DEF ReachInv, AtomsReachable, AtomReachable, TakenOver
<1> QED
  BY <1>1, ReachAlways, TypeCorrect, PTL

-------------------------------------------------------------------------------
(* LocalStore implements DocumentMap                                       *)

\* Seen as a set, a list gets a document stored in the place of those with its
\* path, if no two of the list share a path.
LEMMA StoreDocSet ==
  ASSUME NEW ds \in Seq(Doc), UniquePaths(ds), NEW d \in Doc
  PROVE  DocsIn(StoreDoc(ds, d)) = {e \in DocsIn(ds) : e.path # d.path} \cup {d}
<1>1. CASE HasPath(ds, d.path)
  <2>1. PICK k \in DOMAIN ds : ds[k].path = d.path
    BY <1>1 DEF HasPath
  <2>2. \A i \in DOMAIN ds : i # k => ds[i].path # d.path
    BY <2>1 DEF UniquePaths
  <2>3. /\ DOMAIN StoreDoc(ds, d) = DOMAIN ds
        /\ StoreDoc(ds, d)[k] = d
        /\ \A i \in DOMAIN ds : i # k => StoreDoc(ds, d)[i] = ds[i]
    BY <1>1, <2>1, <2>2 DEF StoreDoc
  <2> QED
    BY <2>1, <2>2, <2>3 DEF DocsIn
<1>2. CASE ~HasPath(ds, d.path)
  <2>1. /\ DOMAIN StoreDoc(ds, d) = DOMAIN ds \cup {Len(ds) + 1}
        /\ StoreDoc(ds, d)[Len(ds) + 1] = d
        /\ \A i \in DOMAIN ds : StoreDoc(ds, d)[i] = ds[i]
    BY <1>2 DEF StoreDoc
  <2>2. \A i \in DOMAIN ds : ds[i].path # d.path
    BY <1>2 DEF HasPath
  <2> QED
    BY <2>1, <2>2 DEF DocsIn
<1> QED
  BY <1>1, <1>2

\* The empty list, and no other, stands for the empty set.
LEMMA EmptyDocsIn ==
  /\ DocsIn(<<>>) = {}
  /\ DocsIn(EmptyCorpus.docs) = {}
  /\ \A ds \in Seq(Doc) : DocsIn(ds) = {} => ds = <<>>
<1>1. ASSUME NEW ds \in Seq(Doc), ds # <<>>
      PROVE  DocsIn(ds) # {}
  <2>1. 1 \in DOMAIN ds
    BY <1>1
  <2> QED
    BY <2>1 DEF DocsIn
<1>2. DocsIn(<<>>) = {}
  BY DEF DocsIn
<1> QED
  BY <1>1, <1>2 DEF EmptyCorpus

\* A store whose snapshot is about to be unlinked has no document, although a
\* search thread may have listed it again.
LEMMA StepUnlink ==
  ASSUME TypeOK, UnlinkInv, [Next]_vars
  PROVE  UnlinkInv'
<1> req \in Request
  BY DEF TypeOK
<1> USE DEF IdleWhenDown
<1>1. ASSUME UNCHANGED <<up, req, docs>>
      PROVE  UnlinkInv'
  BY <1>1 DEF UnlinkInv
<1>2. ASSUME req'.op # "unlink", up' \/ req' = Idle
      PROVE  UnlinkInv'
  BY <1>2 DEF UnlinkInv
<1>3. ASSUME NEW s \in Stores, DeleteStore(s)
      PROVE  UnlinkInv'
  BY <1>3 DEF DeleteStore, Ready, UnlinkInv, TypeOK, Idle
<1>4. ASSUME NEW s \in Stores, NEW p \in Paths, NEW c \in Contents, Upload(s, p, c)
      PROVE  UnlinkInv'
  <2>1. CASE UploadDuplicate(s, p, c)
    BY <1>1, <2>1 DEF UploadDuplicate
  <2>2. CASE UploadDoc(s, p, c)
    BY <1>2, <2>2 DEF UploadDoc, Ready
  <2> QED
    BY <1>4, <2>1, <2>2 DEF Upload
<1>5. CASE \E s \in Stores : CreateStore(s) \/ SearchStore(s)
  BY <1>1, <1>5 DEF CreateStore, SearchStore
<1>6. CASE UploadAtoms \/ UploadMark \/ UploadSave \/ DeleteSnapshot
  BY <1>2, <1>6 DEF UploadAtoms, UploadMark, UploadSave, DeleteSnapshot, Idle, Request
<1>7. ASSUME NEW w \in Workers, WsSearch(w)
      PROVE  UnlinkInv'
  BY <1>1, <1>7 DEF WsSearch, WsEnsureStore, WsCheckIndex, WsReadDocs, WsReadAtoms,
                    WsPublish, WsDiscardDirty, memory
<1>8. CASE Process
  <2>1. CASE Crash
    BY <1>2, <2>1 DEF Crash, Idle
  <2>2. ASSUME NEW unreadable \in Unreadable, Boot(unreadable)
        PROVE  UnlinkInv'
    BY <2>2, <1>2 DEF Boot, UnlinkInv, Idle
  <2> QED
    BY <1>8, <2>1, <2>2 DEF Process
<1>9. CASE UNCHANGED vars
  BY <1>1, <1>9 DEF vars, memory
<1> QED
  BY <1>3, <1>4, <1>5, <1>6, <1>7, <1>8, <1>9 DEF Next, EventLoop

\* The first state is that of an empty map.
LEMMA InitRefines == Init => Map!Init
BY EmptyDocsIn DEF Init, Map!Init, LiveDocs, KeptDocs

\* An upload puts one document.
LEMMA UploadRefines ==
  ASSUME TypeOK, UniqueInv,
         NEW s \in Stores, NEW p \in Paths, NEW c \in Contents, UploadDoc(s, p, c)
  PROVE  Map!Next
<1>0. PICK r \in Paths : r = Resolve[p] /\ (p # Bootstrap => r # Bootstrap)
  BY Resolved
<1> DEFINE d == [path |-> r, content |-> c]
<1>1. d \in Doc /\ docs[s] \in Seq(Doc) /\ UniquePaths(docs[s])
  BY DEF Doc, TypeOK, UniqueInv
<1>2. DocsIn(StoreDoc(docs[s], d)) = {e \in DocsIn(docs[s]) : e.path # r} \cup {d}
  BY <1>1, StoreDocSet
<1>3. /\ up /\ UNCHANGED up /\ UNCHANGED snapshot /\ r # Bootstrap
      /\ docs' = [docs EXCEPT ![s] = StoreDoc(docs[s], d)]
  BY <1>0 DEF UploadDoc, Ready
<1>4. DOMAIN docs = Stores
  BY DEF TypeOK
<1>5. LiveDocs' = [LiveDocs EXCEPT ![s] = Map!Others(s, r) \cup {Map!Document(r, c)}]
  BY <1>2, <1>3, <1>4 DEF LiveDocs, Map!Others, Map!Document
<1>6. UNCHANGED KeptDocs
  BY <1>3 DEF KeptDocs
<1>7. Map!Put(s, r, c)
  BY <1>3, <1>5, <1>6 DEF Map!Put
<1> QED
  BY <1>3, <1>7 DEF Map!Next

\* A deletion drops the documents of one store.
LEMMA DeleteRefines ==
  ASSUME TypeOK, NEW s \in Stores, DeleteStore(s)
  PROVE  Map!Next
<1>1. LiveDocs' = [LiveDocs EXCEPT ![s] = {}]
  BY EmptyDocsIn DEF DeleteStore, LiveDocs, TypeOK
<1>2. up /\ UNCHANGED up /\ UNCHANGED KeptDocs
  BY DEF DeleteStore, Ready, KeptDocs
<1>3. Map!Drop(s)
  BY <1>1, <1>2 DEF Map!Drop
<1> QED
  BY <1>3 DEF Map!Next

\* A snapshot that is written, or unlinked, is that of the store as it stands.
LEMMA SnapshotRefines ==
  ASSUME TypeOK, UnlinkInv, UploadSave \/ DeleteSnapshot
  PROVE  Map!Next \/ UNCHANGED Map!vars
<1> DEFINE s == req.store
<1>1. s \in Stores
  BY DEF TypeOK, Request
<1>2. up /\ UNCHANGED up /\ UNCHANGED LiveDocs
  BY DEF UploadSave, DeleteSnapshot, LiveDocs, memory
<1>3. CASE UNCHANGED snapshot
  BY <1>2, <1>3 DEF Map!vars, KeptDocs
<1>4. CASE snapshot' = [snapshot EXCEPT ![s] = CorpusOf(s)]
  <2>1. KeptDocs' = [KeptDocs EXCEPT ![s] = LiveDocs[s]]
    BY <1>1, <1>4 DEF KeptDocs, LiveDocs, CorpusOf, TypeOK
  <2>2. Map!Sync(s)
    BY <1>2, <2>1 DEF Map!Sync
  <2> QED
    BY <1>1, <2>2 DEF Map!Next
<1>5. CASE DeleteSnapshot /\ snapshot' = [snapshot EXCEPT ![s] = EmptyCorpus]
  <2>1. docs[s] = <<>>
    BY <1>5 DEF DeleteSnapshot, UnlinkInv
  <2>2. KeptDocs' = [KeptDocs EXCEPT ![s] = LiveDocs[s]]
    BY <1>1, <1>5, <2>1, EmptyDocsIn DEF KeptDocs, LiveDocs, TypeOK
  <2>3. Map!Sync(s)
    BY <1>2, <2>2 DEF Map!Sync
  <2> QED
    BY <1>1, <2>3 DEF Map!Next
<1> QED
  BY <1>3, <1>4, <1>5 DEF UploadSave, DeleteSnapshot

\* A stop loses every document in memory, and a start finds the readable copies.
LEMMA ProcessRefines ==
  ASSUME TypeOK, Process
  PROVE  Map!Next
<1>1. CASE Crash
  <2>1. LiveDocs' = [s \in Stores |-> {}]
    BY <1>1, EmptyDocsIn DEF Crash, LiveDocs
  <2>2. up /\ up' = FALSE /\ UNCHANGED KeptDocs
    BY <1>1 DEF Crash, KeptDocs
  <2>3. Map!Stop
    BY <2>1, <2>2 DEF Map!Stop
  <2> QED
    BY <2>3 DEF Map!Next
<1>2. ASSUME NEW unreadable \in Unreadable, Boot(unreadable)
      PROVE  Map!Next
  <2> DEFINE restored == {s \in Stores : snapshot[s] # EmptyCorpus} \ unreadable
             bootDoc  == [path |-> Bootstrap, content |-> BootstrapText]
  <2>1. /\ ~up /\ up' = TRUE /\ UNCHANGED KeptDocs
        /\ docs' = [s \in Stores |->
                      IF s \in restored /\ snapshot[s].docs # <<>> THEN snapshot[s].docs
                      ELSE IF s = Default THEN <<bootDoc>> ELSE <<>>]
    BY <1>2 DEF Boot, KeptDocs
  <2>2. unreadable \in SUBSET Losable
    BY DEF Unreadable, Losable
  <2>3. DocsIn(<<bootDoc>>) = {bootDoc}
    BY DEF DocsIn
  <2>4. ASSUME NEW s \in Stores
        PROVE  LET found == IF s \in unreadable THEN {} ELSE KeptDocs[s]
                   seeded == IF s = Default THEN {Map!Document(Bootstrap, BootstrapText)} ELSE {}
               IN  LiveDocs'[s] = IF found = {} THEN seeded ELSE found
    <3>1. LiveDocs'[s] = DocsIn(docs'[s]) /\ KeptDocs[s] = DocsIn(snapshot[s].docs)
      BY DEF LiveDocs, KeptDocs
    <3>2. snapshot[s].docs \in Seq(Doc)
      BY DEF TypeOK, Corpus
    <3>3. s \notin unreadable /\ snapshot[s].docs # <<>> => s \in restored
      BY DEF EmptyCorpus
    <3> QED
      BY <2>1, <2>3, <3>1, <3>2, <3>3, EmptyDocsIn DEF Map!Document
  <2>5. Map!Start(unreadable)
    BY <2>1, <2>4 DEF Map!Start, LiveDocs
  <2> QED
    BY <2>2, <2>5 DEF Map!Next
<1> QED
  BY <1>1, <1>2 DEF Process

\* Every step is a step of the map, or leaves it alone.
LEMMA StepRefines ==
  ASSUME TypeOK, UniqueInv, UnlinkInv, [Next]_vars
  PROVE  [Map!Next]_(Map!vars)
<1>1. ASSUME UNCHANGED <<up, docs, snapshot>>
      PROVE  UNCHANGED Map!vars
  BY <1>1 DEF Map!vars, LiveDocs, KeptDocs
<1>2. CASE \E s \in Stores : CreateStore(s) \/ SearchStore(s)
  BY <1>1, <1>2 DEF CreateStore, SearchStore
<1>3. ASSUME NEW s \in Stores, DeleteStore(s)
      PROVE  Map!Next
  BY <1>3, DeleteRefines
<1>4. ASSUME NEW s \in Stores, NEW p \in Paths, NEW c \in Contents, Upload(s, p, c)
      PROVE  [Map!Next]_(Map!vars)
  <2>1. CASE UploadDuplicate(s, p, c)
    BY <1>1, <2>1 DEF UploadDuplicate
  <2>2. CASE UploadDoc(s, p, c)
    BY <2>2, UploadRefines
  <2> QED
    BY <1>4, <2>1, <2>2 DEF Upload
<1>5. CASE UploadAtoms \/ UploadMark
  BY <1>1, <1>5 DEF UploadAtoms, UploadMark, memory
<1>6. CASE UploadSave \/ DeleteSnapshot
  BY <1>6, SnapshotRefines
<1>7. ASSUME NEW w \in Workers, WsSearch(w)
      PROVE  UNCHANGED Map!vars
  BY <1>1, <1>7 DEF WsSearch, WsEnsureStore, WsCheckIndex, WsReadDocs, WsReadAtoms,
                    WsPublish, WsDiscardDirty, memory
<1>8. CASE Process
  BY <1>8, ProcessRefines
<1>9. CASE UNCHANGED vars
  BY <1>1, <1>9 DEF vars, memory
<1> QED
  BY <1>2, <1>3, <1>4, <1>5, <1>6, <1>7, <1>8, <1>9 DEF Next, EventLoop

\* The store keeps the promise of DocumentMap: uploads replace one document,
\* deletions empty one store, and a restart finds what was copied to disk.
THEOREM Refinement == Spec => ImplementsDocumentMap
<1>1. Init => UnlinkInv
  BY DEF Init, UnlinkInv, Idle, IdleWhenDown
<1>2. TypeOK /\ UnlinkInv /\ [Next]_vars => UnlinkInv'
  BY StepUnlink
<1>3. TypeOK /\ UniqueInv /\ UnlinkInv /\ [Next]_vars => [Map!Next]_(Map!vars)
  BY StepRefines
<1> QED
  BY <1>1, <1>2, <1>3, InitRefines, InitUnique, StepUnique, TypeCorrect, PTL
     DEF Spec, ImplementsDocumentMap, Map!Spec

===============================================================================
