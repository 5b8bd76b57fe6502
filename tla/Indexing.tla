------------------------------- MODULE Indexing -------------------------------
(***************************************************************************)
(* What an upload indexes: the vector of the file (_ingest.py), its chunks *)
(* (Chunking) and a vector for each chunk, which becomes an atom           *)
(* (knowledge_atom.py) - and a semantic search over those vectors, by      *)
(* threads that share one embedding provider (Embedding) and one grid.     *)
(*                                                                         *)
(* What else an upload does, and when it is a duplicate, is in LocalStore; *)
(* how the grid finds an essence is in ChronosGrid.                        *)
(***************************************************************************)
EXTENDS Chunking, Embedding

CONSTANTS
    Setups,       \* the instances a behaviour may start as
    FileLimit,    \* words of a file that its vector is made of
    FileSize,     \* _chunk_text's max_chars ...
    FileOverlap,  \* ... and overlap
    MinChunk      \* min_chunk_chars

ASSUME IndexingAssumption ==
    /\ FileLimit \in Nat \ {0}
    /\ FileSize \in Nat \ {0} /\ FileOverlap \in 0..(FileSize - 1)
    /\ MinChunk \in Nat

(* A setup is [tasks, server, limits]: what each thread does in turn, whether
   the provider's server is up at the start, and the obsidian_* configuration
   [max, min, size, overlap, window, context].  A task is [kind, name, doc]: an
   upload of a "note" or another "file", or a semantic "query"; a "blank" query
   has no word left when the intent refiner has dropped its stop words. *)
IsTask(task) ==
    /\ task.kind \in {"note", "file", "query", "blank"}
    /\ task.doc \in Documents
    /\ \A i \in DOMAIN task.doc :
          IF task.doc[i].kind = "heading" THEN Title(i) \in Words
                                          ELSE Sentences(i, task.doc[i]) \in Seq(Texts)

ASSUME SetupsAssumption ==
    \A s \in Setups :
        /\ s.server \in BOOLEAN
        /\ s.limits \in [{"max", "min", "size", "overlap", "window", "context"} -> Nat]
        /\ \A t \in Threads : \A i \in DOMAIN s.tasks[t] : IsTask(s.tasks[t][i])

VARIABLES
    setup,
    job,      \* of each thread: its task, how far it is, and the chunks
    grid,     \* the vectors of the grid, [id, text, vector]
    atoms,    \* ids of the atoms stored
    outcome   \* how each thread's tasks ended

vars == <<embedding, setup, job, grid, atoms, outcome>>

Limits == setup.limits
Task(t) == setup.tasks[t][job[t].task]
Busy(t) == job[t].task \in DOMAIN setup.tasks[t]
IsUpload(t) == Task(t).kind \in {"note", "file"}

At(t, stage) == Busy(t) /\ job[t].stage = stage

Chunk(t) == job[t].chunks[job[t].at]
AtomId(t) == <<Task(t).name, job[t].at>>

Work(t, stage, chunks, at) == job' = [job EXCEPT ![t] = [@ EXCEPT !.stage = stage, !.chunks = chunks, !.at = at]]
Reach(t, stage) == Work(t, stage, job[t].chunks, job[t].at)

Ends(t, how) ==
    /\ outcome' = [outcome EXCEPT ![t] = Append(@, how)]
    /\ job' = [job EXCEPT ![t] = [task |-> @.task + 1, stage |-> "start", chunks |-> <<>>, at |-> 0]]

\* inject_essence keeps one vector for a glyph.
Inject(id, text, vector) ==
    grid' = {entry \in grid : entry.id # id} \cup {[id |-> id, text |-> text, vector |-> vector]}

-----------------------------------------------------------------------------
(* build_obsidian_embedding_text puts a note's headings before its body. *)
FileText(task) ==
    Cut(FileLimit, IF task.kind = "note" THEN Titles(task.doc) \o Content(task.doc) ELSE Content(task.doc))

EmbedFile(t) ==
    /\ At(t, "start") /\ IsUpload(t)
    /\ Enter(t, FileText(Task(t)))
    /\ Reach(t, "file")
    /\ UNCHANGED <<setup, grid, atoms, outcome>>

StoreFile(t) ==
    /\ At(t, "file") /\ call[t].at = "done"
    /\ Inject(<<Task(t).name, 0>>, call[t].text, call[t].vector)
    /\ Leave(t)
    /\ Reach(t, "parse")
    /\ UNCHANGED <<setup, atoms, outcome>>

\* The exception leaves upload_file before anything is stored.
FileFails(t) ==
    /\ At(t, "file") /\ call[t].at = "raised"
    /\ Leave(t)
    /\ Ends(t, "failed")
    /\ UNCHANGED <<setup, grid, atoms>>

-----------------------------------------------------------------------------
(* build_obsidian_chunks, one stage at a time. *)
FindSections(t) ==
    /\ At(t, "parse") /\ Task(t).kind = "note"
    /\ Work(t, "sections", Sections(Task(t).doc), 0)
    /\ UNCHANGED <<embedding, setup, grid, atoms, outcome>>

SplitSections(t) ==
    /\ At(t, "sections")
    /\ Work(t, "split", Split(job[t].chunks, Limits.max), 0)
    /\ UNCHANGED <<embedding, setup, grid, atoms, outcome>>

MergeSmall(t) ==
    /\ At(t, "split")
    /\ Work(t, "merged", Merge(job[t].chunks, Limits.min, Limits.max), 0)
    /\ UNCHANGED <<embedding, setup, grid, atoms, outcome>>

ResplitLong(t) ==
    /\ At(t, "merged")
    /\ Work(t, "windows", Resplit(job[t].chunks, Limits.size, Limits.overlap), 0)
    /\ UNCHANGED <<embedding, setup, grid, atoms, outcome>>

EnrichAll(t) ==
    /\ At(t, "windows")
    /\ Work(t, "chunks", Enrich(job[t].chunks, Limits.window, Limits.context), 1)
    /\ UNCHANGED <<embedding, setup, grid, atoms, outcome>>

(* chunk_and_inject: windows over the text as it is. *)
WindowFile(t) ==
    /\ At(t, "parse") /\ Task(t).kind = "file"
    /\ LET whole == [headings |-> <<>>, text |-> Content(Task(t).doc)]
       IN Work(t, "chunks", Enrich(Windows(whole, FileSize, FileOverlap), 0, 0), 1)
    /\ UNCHANGED <<embedding, setup, grid, atoms, outcome>>

-----------------------------------------------------------------------------
(* inject_chunks: chunks that are too short are left out, their index is not *)
(* used again; a chunk whose embedding raises is left out, too.              *)
TooShortInclusive(chunk) == Len(chunk.embed) <= MinChunk
TooShort(chunk) == Len(chunk.embed) < MinChunk

More(t) == At(t, "chunks") /\ job[t].at <= Len(job[t].chunks)

SkipChunk(t) ==
    /\ More(t) /\ TooShort(Chunk(t))
    /\ Work(t, "chunks", job[t].chunks, job[t].at + 1)
    /\ UNCHANGED <<embedding, setup, grid, atoms, outcome>>

EmbedChunk(t) ==
    /\ More(t) /\ ~TooShort(Chunk(t))
    /\ Enter(t, Chunk(t).embed)
    /\ Reach(t, "atom")
    /\ UNCHANGED <<setup, grid, atoms, outcome>>

StoreAtom(t) ==
    /\ At(t, "atom") /\ call[t].at = "done"
    /\ Inject(AtomId(t), call[t].text, call[t].vector)
    /\ atoms' = atoms \cup {AtomId(t)}
    /\ Leave(t)
    /\ Work(t, "chunks", job[t].chunks, job[t].at + 1)
    /\ UNCHANGED <<setup, outcome>>

DropAtom(t) ==
    /\ At(t, "atom") /\ call[t].at = "raised"
    /\ Leave(t)
    /\ Work(t, "chunks", job[t].chunks, job[t].at + 1)
    /\ UNCHANGED <<setup, grid, atoms, outcome>>

EndUpload(t) ==
    /\ At(t, "chunks") /\ job[t].at > Len(job[t].chunks)
    /\ Ends(t, "stored")
    /\ UNCHANGED <<embedding, setup, grid, atoms>>

-----------------------------------------------------------------------------
(* search with mode "semantic" or "hybrid". *)
QueryText(task) == IF task.kind = "blank" THEN <<>> ELSE Content(task.doc)

EmbedQuery(t) ==
    /\ At(t, "start") /\ Task(t).kind \in {"query", "blank"}
    /\ Enter(t, QueryText(Task(t)))
    /\ Reach(t, "query")
    /\ UNCHANGED <<setup, grid, atoms, outcome>>

\* _brute_vector_resonance stacks all vectors and multiplies them with the
\* query's: numpy raises unless all have one dimension.
Comparable(vector) == \A entry \in grid : entry.vector.by = vector.by

Seek(t) ==
    /\ At(t, "query") /\ call[t].at = "done"
    /\ Ends(t, IF Comparable(call[t].vector) THEN "answered" ELSE "error")
    /\ Leave(t)
    /\ UNCHANGED <<setup, grid, atoms>>

QueryFails(t) ==
    /\ At(t, "query") /\ call[t].at = "raised"
    /\ Ends(t, "error")
    /\ Leave(t)
    /\ UNCHANGED <<setup, grid, atoms>>

-----------------------------------------------------------------------------
Init ==
    /\ EmbeddingInit
    /\ setup \in Setups
    /\ available = setup.server
    /\ job = [t \in Threads |-> [task |-> 1, stage |-> "start", chunks |-> <<>>, at |-> 0]]
    /\ grid = {}
    /\ atoms = {}
    /\ outcome = [t \in Threads |-> <<>>]

Step(t) ==
    \/ EmbedFile(t) \/ StoreFile(t) \/ FileFails(t)
    \/ FindSections(t) \/ SplitSections(t) \/ MergeSmall(t) \/ ResplitLong(t) \/ EnrichAll(t)
    \/ WindowFile(t)
    \/ SkipChunk(t) \/ EmbedChunk(t) \/ StoreAtom(t) \/ DropAtom(t) \/ EndUpload(t)
    \/ EmbedQuery(t) \/ Seek(t) \/ QueryFails(t)
    \/ Generate(t) /\ UNCHANGED <<setup, job, grid, atoms, outcome>>

Next == \E t \in Threads : Step(t)

Spec == Init /\ [][Next]_vars

-----------------------------------------------------------------------------
(* Properties                                                              *)

Active == {t \in Threads : setup.tasks[t] # <<>>}
Alone == Cardinality(Active) = 1

(* Every variable holds a value of its kind. *)
TypeOK ==
    /\ EmbeddingTypeOK
    /\ setup \in Setups
    /\ \A t \in Threads : outcome[t] \in Seq({"stored", "failed", "answered", "error"})
    /\ \A id \in atoms : \E entry \in grid : entry.id = id

Chunked(t) == job[t].stage \in {"split", "merged", "windows", "chunks", "atom"}
Source(t) == IF Task(t).kind = "note" THEN Body(Task(t).doc) ELSE Content(Task(t).doc)
PlaceOf(source, word) == CHOOSE i \in DOMAIN source : source[i] = word

(* However a document is split, merged and cut into windows, each chunk is a
   stretch of its text, in the order of the text, and together they hold all
   of it.  The text of a note is what stands below its headings: a section
   that has nothing below them makes no chunk. *)
WordsSurvive ==
    \A t \in Threads : Chunked(t) =>
        LET chunks == job[t].chunks
            places == [i \in DOMAIN chunks |->
                         [w \in DOMAIN chunks[i].text |-> PlaceOf(Source(t), chunks[i].text[w])]]
        IN /\ \A i \in DOMAIN places : \A w \in DOMAIN places[i] : places[i][w] = places[i][1] + w - 1
           /\ \A i \in DOMAIN places : i > 1 => places[i - 1][1] < places[i][1]
           /\ UNION {{places[i][w] : w \in DOMAIN places[i]} : i \in DOMAIN places} = DOMAIN Source(t)

(* The tokens of the parts are rounded down before they are added, so the
   budget of tokens is kept only as a budget of words; a sentence that is
   longer than it stays whole, until the windows cut it. *)
OneSentence(text) == \A w \in DOMAIN text : SubSeq(text[w], 1, 2) = SubSeq(text[1], 1, 2)

BudgetHolds ==
    \A t \in Threads : Chunked(t) /\ Task(t).kind = "note" =>
        \A i \in DOMAIN job[t].chunks :
            LET text == job[t].chunks[i].text
            IN /\ Len(text) <= Limits.max \/ OneSentence(text)
               /\ job[t].stage \in {"windows", "chunks", "atom"} /\ Limits.overlap < Limits.size
                    => Len(text) <= Limits.size

(* In a note that skips no heading level, a chunk is filed under the headings
   that stand above its first word, in their order. *)
Levels(doc) == {i \in DOMAIN doc : doc[i].kind = "heading"}
SkipsNoLevel(doc) ==
    \A i \in Levels(doc) :
        doc[i].level = 1 \/ \E j \in Levels(doc) :
            /\ j < i /\ doc[i].level <= doc[j].level + 1
            /\ \A k \in Levels(doc) : ~(j < k /\ k < i)

IsAbove(doc, j, i) ==
    /\ j < i
    /\ \A k \in Levels(doc) : j < k /\ k < i => doc[k].level > doc[j].level

AreAbove(headings, doc, i) ==
    /\ \A k \in DOMAIN headings : \E j \in Levels(doc) : IsAbove(doc, j, i) /\ headings[k] = Title(j)
    /\ \A j \in Levels(doc) : IsAbove(doc, j, i) => \E k \in DOMAIN headings : headings[k] = Title(j)
    /\ \A k \in DOMAIN headings, l \in DOMAIN headings : k < l => headings[k][1] < headings[l][1]

HeadingsAreAncestors ==
    \A t \in Threads : job[t].stage \in {"split", "merged"} /\ SkipsNoLevel(Task(t).doc) =>
        \A i \in DOMAIN job[t].chunks :
            LET chunk == job[t].chunks[i]
            IN AreAbove(chunk.headings, Task(t).doc, chunk.text[1][1])

(* What surrounds a chunk is not the chunk: unless windows overlap, none of
   its words is in its context. *)
ContextIsElsewhere ==
    \A t \in Threads : job[t].stage \in {"chunks", "atom"} /\ Limits.overlap = 0 =>
        \A i \in DOMAIN job[t].chunks :
            LET chunk == job[t].chunks[i]
            IN \A v \in DOMAIN chunk.context, w \in DOMAIN chunk.text : chunk.context[v] # chunk.text[w]

(* A vector in the grid was made of the text it stands for, as far as the cache
   tells texts apart. *)
GridFits ==
    \A entry \in grid :
        Key(entry.vector.by, entry.vector.of) = Key(entry.vector.by, entry.text)

(* The chunks an upload makes hold the text of the document, all of it and in
   its order, what is said to surround a chunk is not in it, and a vector that
   gets into the grid was made of its chunk, or of a text the cache cannot tell
   from it.  Not every chunk gets there: inject_chunks leaves out one that is
   shorter than min_chunk_chars (SkipChunk), or whose embedding raises
   (DropAtom), so an index may well lack words of a document. *)
ChunksAreTheText == TypeOK /\ WordsSurvive /\ ContextIsElsewhere /\ GridFits

(* One thread that needs no server fails at nothing: every chunk that is long
   enough is an atom, and every search finds vectors it can compare. *)
AloneAllSucceeds ==
    Alone /\ ~setup.server =>
        /\ \A t \in Active : \A i \in DOMAIN outcome[t] : outcome[t][i] \in {"stored", "answered"}
        /\ \A t \in Active : job[t].stage \in {"chunks", "atom"} =>
             \A i \in 1..(job[t].at - 1) :
                ~(Len(job[t].chunks[i].embed) < MinChunk) => <<Task(t).name, i>> \in atoms

(* "After 3 consecutive failures, session-level fallback activates" - and stays,
   unless a call of another thread was on its way. *)
SessionFallback == [][Alone /\ failures >= MaxFailures => failures' >= MaxFailures]_failures

(* "transparently falls back to DSP": a search is answered, whatever the
   server does.  It is not: the vectors of the fallback have another dimension. *)
SearchesAreAnswered == \A t \in Threads : Alone => \A i \in DOMAIN outcome[t] : outcome[t][i] # "error"
=============================================================================
