------------------------------- MODULE PgBackend ------------------------------
(***************************************************************************)
(* The server with its documents (PostgresMetadataStore) and its vectors   *)
(* (PostgresVectorStore) in PostgreSQL.  The database comes and goes; the  *)
(* server crashes and restarts.  Documents are read and written on         *)
(* connections of their own; vectors through CircuitBreaker.               *)
(*                                                                         *)
(* Uploads and deletions run in the event loop, searches in pool threads   *)
(* (those of the event loop take the same steps).  A document stands for   *)
(* its path and its text; a file uploaded again adds a row.                *)
(***************************************************************************)
EXTENDS CircuitBreaker, Sequences

CONSTANTS
  Loop,       \* the thread of the event loop
  Stores,
  Docs,
  PathOf,     \* the path of each document
  Alike,      \* <<d, e>>: of different paths, but with the same name and text
  Offered,    \* the documents that are uploaded
  Held,       \* what a store may hold, as rows, when the first server starts
  MaxRows     \* bound of the model: rows of a store when an upload begins

ASSUME BackendAssumption ==
  /\ Loop \in Threads
  /\ Offered \subseteq Docs /\ Held \subseteq Seq(Docs) /\ MaxRows \in Nat

Paths == {PathOf[d] : d \in Docs}

VARIABLES
  listed,     \* self.stores: the stores the server knows
  pgStores,   \* flamehaven_stores
  docs,       \* flamehaven_docs of each store, in the order of their ids
  rows,       \* the paths that have a vector, in each store
  op,         \* what each thread is doing
  kept,       \* history: <<store, doc>> of uploads that succeeded, until a deletion
  gone        \* history: stores whose deletion succeeded, until an upload

vars == <<up, breakerVars, listed, pgStores, docs, rows, op, kept, gone>>
tables == <<pgStores, docs, rows>>
ledger == <<kept, gone>>

Idle == [kind |-> "idle", pc |-> "idle", store |-> "", doc |-> ""]

\* The documents that have a row.
InTable(s) == {docs[s][i] : i \in DOMAIN docs[s]}

At(t, pc) == op[t].pc = pc
Go(t, pc) == op' = [op EXCEPT ![t].pc = pc]
End(t)    == op' = [op EXCEPT ![t] = Idle]

-------------------------------------------------------------------------------
(* Requests                                                                *)

After(kind) == IF kind = "upload" THEN "check" ELSE "vectors"

\* An upload, or a search, which first creates the store unless it is listed: the
\* list, then the table.
Begin(t, kind, s, d) ==
  /\ At(t, "idle") /\ kind \in {"upload", "search"}
  /\ kind = "upload" => Len(docs[s]) < MaxRows
  /\ listed' = listed \cup {s}
  /\ op' = [op EXCEPT ![t] = [kind |-> kind, store |-> s, doc |-> d,
                              pc |-> IF s \in listed THEN After(kind) ELSE "ensure"]]
  /\ gone' = IF kind = "upload" THEN gone \ {s} ELSE gone
  /\ UNCHANGED <<up, breakerVars, tables, kept>>

\* A request that cannot reach the database ends with an error.
EnsureStore(t) ==
  /\ At(t, "ensure")
  /\ IF up THEN pgStores' = pgStores \cup {op[t].store} /\ Go(t, After(op[t].kind))
           ELSE UNCHANGED pgStores /\ End(t)
  /\ UNCHANGED <<up, breakerVars, listed, docs, rows, ledger>>

\* The rows are scanned for one of the same path, with which the upload goes on,
\* or for the same text under another path, which makes it a duplicate.
Decides(d, e) == PathOf[e] = PathOf[d] \/ <<d, e>> \in Alike

IsDuplicate(s, d, e) ==
  \E i \in DOMAIN docs[s] :
    /\ docs[s][i] = e /\ PathOf[e] # PathOf[d] /\ Decides(d, e)
    /\ \A j \in 1..(i - 1) : ~Decides(d, docs[s][j])

\* An upload looks for a duplicate first; the answer to one names the document
\* that is there.
CheckDuplicate(t) ==
  LET s == op[t].store
      d == op[t].doc
      found == {e \in InTable(s) : IsDuplicate(s, d, e)}
  IN  /\ At(t, "check")
      /\ IF up /\ found = {} THEN Go(t, "vectors") ELSE End(t)
      /\ kept' = IF up THEN kept \cup {<<s, e>> : e \in found} ELSE kept
      /\ UNCHANGED <<up, breakerVars, listed, tables, gone>>

\* A deletion of a listed store takes it off the list first.
BeginDelete(t, s) ==
  /\ At(t, "idle") /\ s \in listed
  /\ listed' = listed \ {s}
  /\ op' = [op EXCEPT ![t] = [kind |-> "delete", store |-> s, doc |-> "", pc |-> "cascade"]]
  /\ kept' = {k \in kept : k[1] # s}
  /\ UNCHANGED <<up, breakerVars, tables, gone>>

-------------------------------------------------------------------------------
(* The vector table                                                        *)

ConnectVectors(t) ==
  /\ At(t, "vectors") /\ AtConn(t, "out")
  /\ Call(t)
  /\ UNCHANGED <<up, state, failures, successes, expired, burst, listed, tables, op, ledger>>

StepConnect(t) ==
  /\ ConnStep(t)
  /\ UNCHANGED <<up, listed, tables, op, ledger>>

\* A connection, if it outlives the statement.
Works(t) == AtConn(t, "connected") /\ up
Fails(t) == AtConn(t, "raised") \/ (AtConn(t, "connected") /\ ~up)

\* add_vector: a failure is logged.
AddVector(t) ==
  /\ At(t, "vectors") /\ op[t].kind = "upload"
  /\ \/ Works(t) /\ rows' = [rows EXCEPT ![op[t].store] = @ \cup {PathOf[op[t].doc]}]
     \/ Fails(t) /\ UNCHANGED rows
  /\ Leave(t)
  /\ Go(t, "docs")
  /\ UNCHANGED <<up, state, failures, successes, expired, burst, listed, pgStores, docs, ledger>>

\* delete_store of the vectors, the last thing of a deletion: a failure is an error.
DeleteVectors(t) ==
  /\ At(t, "vectors") /\ op[t].kind = "delete"
  /\ \/ /\ Works(t)
        /\ rows' = [rows EXCEPT ![op[t].store] = {}]
        /\ gone' = gone \cup {op[t].store}
     \/ Fails(t) /\ UNCHANGED <<rows, gone>>
  /\ Leave(t)
  /\ End(t)
  /\ UNCHANGED <<up, state, failures, successes, expired, burst, listed, pgStores, docs, kept>>

\* query: the rows of the store, or else the grid; then the documents are read.
QueryVectors(t) ==
  /\ At(t, "vectors") /\ op[t].kind = "search"
  /\ Works(t) \/ Fails(t)
  /\ Leave(t)
  /\ End(t)
  /\ UNCHANGED <<up, state, failures, successes, expired, burst, listed, tables, ledger>>

-------------------------------------------------------------------------------
(* The document table                                                      *)

\* A broken variant: documents go on being accepted without a database.
AddDocAnyway(t) ==
  /\ At(t, "docs")
  /\ IF up /\ op[t].store \in pgStores
     THEN docs' = [docs EXCEPT ![op[t].store] = Append(@, op[t].doc)] ELSE UNCHANGED docs
  /\ kept' = kept \cup {<<op[t].store, op[t].doc>>}
  /\ End(t)
  /\ UNCHANGED <<up, breakerVars, listed, pgStores, rows, gone>>

\* add_doc: the foreign key asks for the store's row.
AddDoc(t) ==
  /\ At(t, "docs")
  /\ IF up /\ op[t].store \in pgStores
     THEN /\ docs' = [docs EXCEPT ![op[t].store] = Append(@, op[t].doc)]
          /\ kept' = kept \cup {<<op[t].store, op[t].doc>>}
     ELSE UNCHANGED <<docs, kept>>
  /\ End(t)
  /\ UNCHANGED <<up, breakerVars, listed, pgStores, rows, gone>>

\* delete_store of the documents: they go with the store's row.
DeleteDocs(t) ==
  /\ At(t, "cascade")
  /\ IF up THEN /\ pgStores' = pgStores \ {op[t].store}
                /\ docs' = [docs EXCEPT ![op[t].store] = <<>>]
                /\ Go(t, "vectors")
           ELSE UNCHANGED <<pgStores, docs>> /\ End(t)
  /\ UNCHANGED <<up, breakerVars, listed, rows, ledger>>

-------------------------------------------------------------------------------
(* The world                                                               *)

Tick == BreakerTick /\ UNCHANGED <<up, listed, tables, op, ledger>>

DatabaseChanges ==
  /\ up' = ~up
  /\ UNCHANGED <<breakerVars, listed, tables, op, ledger>>

\* The server needs the database to start; it lists the stores it finds there.
Restart ==
  /\ up
  /\ FreshBreaker
  /\ listed' = pgStores
  /\ op' = [t \in Threads |-> Idle]
  /\ UNCHANGED <<up, tables, ledger>>

Init ==
  /\ BreakerInit
  /\ docs \in [Stores -> Held]
  /\ pgStores = {s \in Stores : docs[s] # <<>>} /\ listed = pgStores
  /\ rows = [s \in Stores |-> {PathOf[d] : d \in InTable(s)}]
  /\ op = [t \in Threads |-> Idle]
  /\ kept = {k \in Stores \X Docs : k[2] \in InTable(k[1])} /\ gone = {}

Progress(t) ==
  \/ EnsureStore(t) \/ CheckDuplicate(t)
  \/ ConnectVectors(t) \/ StepConnect(t)
  \/ AddVector(t) \/ DeleteVectors(t) \/ QueryVectors(t)
  \/ AddDoc(t) \/ DeleteDocs(t)

Searchers == Threads \ {Loop}
Search(t) == \E s \in Stores : Begin(t, "search", s, "")

Next ==
  \/ \E t \in Threads : Progress(t)
  \/ \E t \in Searchers : Search(t)
  \/ \E s \in Stores, d \in Offered : Begin(Loop, "upload", s, d)
  \/ \E s \in Stores : BeginDelete(Loop, s)
  \/ Tick \/ DatabaseChanges \/ Restart

\* Threads run and time passes; searches keep coming.
Fairness ==
  /\ WF_vars(Tick)
  /\ \A t \in Threads : WF_vars(Progress(t))
  /\ \A t \in Searchers : WF_vars(Search(t))

Spec == Init /\ [][Next]_vars /\ Fairness

-------------------------------------------------------------------------------
(* Properties                                                              *)

\* Every variable holds a value of its kind.
TypeOK ==
  /\ BreakerTypeOK
  /\ listed \subseteq Stores /\ pgStores \subseteq Stores
  /\ docs \in [Stores -> Seq(Docs)] /\ rows \in [Stores -> SUBSET Paths]
  /\ op \in [Threads -> [kind : {"idle", "upload", "delete", "search"},
                         pc : {"idle", "ensure", "check", "vectors", "docs", "cascade"},
                         store : Stores \cup {""}, doc : Docs \cup {""}]]
  /\ kept \subseteq Stores \X Docs /\ gone \subseteq Stores

\* A document whose upload succeeded, and one a duplicate was told to be, is in
\* the database until someone deletes its store, whatever the vectors' breaker,
\* outages and restarts do.
UploadsStand == \A k \in kept : k[2] \in InTable(k[1])

\* When the deletion of a store succeeded, the database has nothing of the
\* store, until someone uploads into it.
DeletionsStand == \A s \in gone : docs[s] = <<>> /\ rows[s] = {}

\* What was acknowledged stands.
AcknowledgedStands == TypeOK /\ UploadsStand /\ DeletionsStand

\* Threads that race each other's breaker steps still leave a dead database in
\* peace: however many calls and retries there are within a recovery timeout, a
\* stale step can let the threads start over only once per thread.
BurstBounded == burst <= BurstBound

\* The breaker does not stay open: if the database comes back for good, the
\* breaker is closed from some time on.
Recovers == <>[]up => <>[](state = "closed")

===============================================================================
