----------------------------- MODULE DocumentMap ------------------------------
(***************************************************************************)
(* What the document store of flamehaven_filesearch promises: each store   *)
(* is a set of documents, one for a file, kept in memory, with a copy on   *)
(* disk that is brought up to date one store at a time.  The process loses *)
(* the memory when it stops, and finds the copies again when it starts.    *)
(***************************************************************************)
CONSTANTS
  Stores, Default, Paths, Bootstrap, Contents, BootstrapText,
  Losable   \* stores whose copy may be unreadable at a start

VARIABLES
  up,     \* the process is running
  live,   \* live[s]: the documents of store s
  kept    \* their copy on disk

vars == <<up, live, kept>>

Document(p, c) == [path |-> p, content |-> c]
Others(s, p) == {d \in live[s] : d.path # p}

\* An upload replaces the document of one file in one store.
Put(s, p, c) ==
  /\ up
  /\ live' = [live EXCEPT ![s] = Others(s, p) \cup {Document(p, c)}]
  /\ UNCHANGED <<up, kept>>

\* A deletion empties one store.
Drop(s) ==
  /\ up
  /\ live' = [live EXCEPT ![s] = {}]
  /\ UNCHANGED <<up, kept>>

\* The copy of a store is replaced by the store as a whole.
Sync(s) ==
  /\ up
  /\ kept' = [kept EXCEPT ![s] = live[s]]
  /\ UNCHANGED <<up, live>>

Stop ==
  /\ up
  /\ up' = FALSE
  /\ live' = [s \in Stores |-> {}]
  /\ UNCHANGED kept

\* Every store whose copy can be read is what the copy says; an empty default
\* store gets the bootstrap document.
Start(lost) ==
  LET Found(s)  == IF s \in lost THEN {} ELSE kept[s]
      Seeded(s) == IF s = Default THEN {Document(Bootstrap, BootstrapText)} ELSE {}
  IN  /\ ~up
      /\ up' = TRUE
      /\ live' = [s \in Stores |-> IF Found(s) = {} THEN Seeded(s) ELSE Found(s)]
      /\ UNCHANGED kept

Init ==
  /\ up = FALSE
  /\ live = [s \in Stores |-> {}]
  /\ kept = [s \in Stores |-> {}]

Next ==
  \/ \E s \in Stores : Drop(s) \/ Sync(s)
  \/ \E s \in Stores, p \in Paths \ {Bootstrap}, c \in Contents : Put(s, p, c)
  \/ Stop
  \/ \E lost \in SUBSET Losable : Start(lost)

Spec == Init /\ [][Next]_vars

===============================================================================
