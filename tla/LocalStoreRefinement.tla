------------------------- MODULE LocalStoreRefinement -------------------------
(***************************************************************************)
(* LocalStore implements DocumentMap: a list of documents stands for the   *)
(* set of them, in memory and in a snapshot.                               *)
(***************************************************************************)
EXTENDS LocalStore

DocsIn(ds) == {ds[i] : i \in DOMAIN ds}

LiveDocs == [s \in Stores |-> DocsIn(docs[s])]
KeptDocs == [s \in Stores |-> DocsIn(snapshot[s].docs)]
Losable  == IF "load" \in Faults THEN Stores ELSE {}

Map == INSTANCE DocumentMap WITH live <- LiveDocs, kept <- KeptDocs

\* Whatever is uploaded, deleted, searched, saved or lost in a crash, in the
\* event loop or in a thread: each step replaces the document of one file,
\* empties one store, copies one store to disk, or changes no document at all,
\* and a restart finds exactly what was copied.  No request doubles a document
\* or touches another file or store.
ImplementsDocumentMap == Map!Spec

\* For the proof: a store whose snapshot is about to be unlinked is empty, even
\* when a search thread has listed it again, and a stopped process has no request.
UnlinkInv ==
  /\ req.op = "unlink" => docs[req.store] = <<>>
  /\ IdleWhenDown

===============================================================================
