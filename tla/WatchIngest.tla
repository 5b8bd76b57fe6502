----------------------------- MODULE WatchIngest ------------------------------
(***************************************************************************)
(* tools/watch_ingest.py: a process that watches a directory tree and      *)
(* uploads the files that change to the server.  It polls the tree         *)
(* (run_polling) or, when the watchdog library is installed, receives      *)
(* events in an observer thread (run_watchdog).  Both loops coalesce       *)
(* changes for a debounce window and flush them with _flush, which uploads *)
(* a file whose content key differs from the last one acknowledged.        *)
(*                                                                         *)
(* Files change at any point of either loop.  The tree was ingested before *)
(* the watcher started.  A content is what _content_key tells apart, the   *)
(* size and the sha1 of the first megabyte; the mtime-keyed cache of that  *)
(* hash is left out, for two versions of a file differ in mtime or size.   *)
(***************************************************************************)
EXTENDS Naturals, FiniteSets

CONSTANTS
  AllFiles,   \* paths with a watched extension
  Absent,     \* "no such file", "nothing uploaded yet"
  Setups,     \* the installations considered, each with its bound on the edits
  MaxEdits    \* bound on the changes of the tree

ASSUME WatchAssumption ==
  /\ Setups \subseteq [watchdog : BOOLEAN, files : SUBSET AllFiles, renames : BOOLEAN,
               edits : 0..MaxEdits]
  /\ MaxEdits \in Nat
  /\ Absent \notin Nat \cup AllFiles

VARIABLES
  setup,      \* the installation this process runs in
  file,       \* the tree: the content of each file
  edits,      \* number of changes so far
  received,   \* the content of each file that the server received last
  pc,         \* the main loop: "sleep", "scan", "clear", "flush" or "post"
  todo,       \* files the scan has still to visit
  known,      \* run_polling's state: the content each file had in the last scan
  pending,    \* changed files waiting for the debounce window
  quiet,      \* the debounce window has passed since the last change
  events,     \* files with an event the observer thread has not handled yet
  batch,      \* files _flush has still to handle
  failed,     \* files whose upload failed in this flush
  current,    \* the file being uploaded and the key computed for it
  uploaded,   \* _UPLOADED: the key of each file acknowledged last
  past,       \* history: the contents each file had before the present one
  dropped     \* history: files whose last change raised no event, or lost it

tree  == <<setup, file, edits, events, past>>
flush == <<batch, failed, current, uploaded>>
vars  == <<tree, dropped, received, pc, todo, known, pending, quiet, flush>>

Watchdog == setup.watchdog   \* the watchdog library is installed
Files    == setup.files      \* the files of the tree
Renames  == setup.renames    \* editors save by renaming a temporary file

Contents == 0..MaxEdits
Nothing == [path |-> Absent, key |-> Absent]

-------------------------------------------------------------------------------
(* The tree                                                                *)

\* A save leaves the content (a touch), undoes changes, or makes a new one.
Saved(p) == {edits + 1} \cup past[p] \cup ({file[p]} \ {Absent})

\* The tree, once the file holds this.
Edit(p, content) ==
  /\ edits < setup.edits
  /\ file' = [file EXCEPT ![p] = content]
  /\ past' = [past EXCEPT ![p] = @ \cup ({file[p]} \ {content, Absent})]
  /\ edits' = edits + 1

\* A save in place raises a created or modified event; a temporary file renamed
\* onto the path raises a moved event, for which the handler has no method.
Save(p) ==
  /\ \E c \in Saved(p) : Edit(p, c)
  /\ \/ events' = (IF Watchdog THEN events \cup {p} ELSE events) /\ UNCHANGED dropped
     \/ Renames /\ Watchdog /\ dropped' = dropped \cup {p} /\ UNCHANGED events
  /\ UNCHANGED <<setup, received, pc, todo, known, pending, quiet, flush>>

Delete(p) ==
  /\ file[p] # Absent
  /\ Edit(p, Absent)
  /\ events' = IF Watchdog THEN events \cup {p} ELSE events
  /\ UNCHANGED <<setup, dropped, received, pc, todo, known, pending, quiet, flush>>

\* The debounce window passes.
Elapse ==
  /\ ~quiet
  /\ quiet' = TRUE
  /\ UNCHANGED <<tree, dropped, received, pc, todo, known, pending, flush>>

-------------------------------------------------------------------------------
(* run_polling                                                             *)

StartScan ==
  /\ ~Watchdog
  /\ pc = "sleep"
  /\ pc' = "scan"
  /\ todo' = Files
  /\ UNCHANGED <<tree, dropped, received, known, pending, quiet, flush>>

(* Broken variants stand before the definitions they vary; the specification  *)
(* does not use them.                                                         *)
ChangedKnown(p, key) == known[p] # Absent /\ key # known[p]
Changed(p, key) == key # known[p]

\* One file of the scan, and its comparison with the state of the last one; a file
\* that disappeared is a change, too.
Scan(p, key) ==
  /\ pc = "scan"
  /\ p \in todo
  /\ todo' = todo \ {p}
  /\ known' = [known EXCEPT ![p] = key]
  /\ IF Changed(p, key)
     THEN pending' = pending \cup {p} /\ quiet' = FALSE
     ELSE UNCHANGED <<pending, quiet>>
  /\ UNCHANGED <<tree, dropped, received, pc, flush>>

ScanFile(p) == Scan(p, file[p])

\* _scan leaves out a file it cannot read just now.
ScanUnreadable(p) == file[p] # Absent /\ Scan(p, Absent)

EndScan ==
  /\ pc = "scan"
  /\ todo = {}
  /\ IF pending # {} /\ quiet
     THEN pc' = "flush" /\ batch' = pending
     ELSE pc' = "sleep" /\ UNCHANGED batch
  /\ UNCHANGED <<tree, dropped, received, todo, known, pending, quiet, failed, current, uploaded>>

-------------------------------------------------------------------------------
(* run_watchdog                                                            *)

\* H._maybe, in the observer thread.
Observe(p) ==
  /\ Watchdog /\ p \in events
  /\ events' = events \ {p}
  /\ pending' = pending \cup {p}
  /\ quiet' = FALSE
  /\ dropped' = dropped \ {p}
  /\ UNCHANGED <<setup, file, edits, past, received, pc, todo, known, flush>>

\* batch = set(pending) ...
TakeBatch ==
  /\ Watchdog
  /\ pc = "sleep"
  /\ pending # {} /\ quiet
  /\ batch' = pending
  /\ pc' = "clear"
  /\ UNCHANGED <<tree, dropped, received, todo, known, pending, quiet, failed, current, uploaded>>

\* ... pending.clear(), which also drops what came in between.
ClearPending ==
  /\ pc = "clear"
  /\ pending' = {}
  /\ dropped' = dropped \cup (pending \ batch)
  /\ pc' = "flush"
  /\ UNCHANGED <<tree, received, todo, known, quiet, flush>>

-------------------------------------------------------------------------------
(* _flush                                                                  *)

\* The file no longer exists: its index entry stays, its key is forgotten.
FlushDeleted(p) ==
  /\ pc = "flush"
  /\ p \in batch
  /\ file[p] = Absent
  /\ batch' = batch \ {p}
  /\ uploaded' = [uploaded EXCEPT ![p] = Absent]
  /\ UNCHANGED <<tree, dropped, received, pc, todo, known, pending, quiet, failed, current>>

\* Its key is the acknowledged one, or must be uploaded.
FlushFile(p) ==
  /\ pc = "flush"
  /\ p \in batch
  /\ file[p] # Absent
  /\ batch' = batch \ {p}
  /\ IF uploaded[p] = file[p]
     THEN UNCHANGED <<pc, current>>
     ELSE pc' = "post" /\ current' = [path |-> p, key |-> file[p]]
  /\ UNCHANGED <<tree, dropped, received, todo, known, pending, quiet, failed, uploaded>>

\* It cannot be read now.
FlushUnreadable(p) ==
  /\ pc = "flush"
  /\ p \in batch
  /\ batch' = batch \ {p}
  /\ failed' = failed \cup {p}
  /\ UNCHANGED <<tree, dropped, received, pc, todo, known, pending, quiet, current, uploaded>>

EndPost == pc' = "flush" /\ current' = Nothing

\* _upload sends what the file holds by now, and the server answers 200.
PostAccepted(p) ==
  /\ pc = "post"
  /\ current.path = p
  /\ file[p] # Absent
  /\ received' = [received EXCEPT ![p] = file[p]]
  /\ uploaded' = [uploaded EXCEPT ![p] = current.key]
  /\ EndPost
  /\ UNCHANGED <<tree, dropped, todo, known, pending, quiet, batch, failed>>

Failed(upload) == failed \cup {upload.path}

\* Rate limit, error, timeout before or after the server stored the file, or a
\* file that is gone: retried with the next flush.
PostFailed ==
  /\ pc = "post"
  /\ \/ UNCHANGED received
     \/ /\ file[current.path] # Absent
        /\ received' = [received EXCEPT ![current.path] = file[current.path]]
  /\ failed' = Failed(current)
  /\ EndPost
  /\ UNCHANGED <<tree, dropped, todo, known, pending, quiet, batch, uploaded>>

StillPendingNone == IF Watchdog THEN pending ELSE {}
StillPending == IF Watchdog THEN pending \cup failed ELSE failed

EndFlush ==
  /\ pc = "flush"
  /\ batch = {}
  /\ pending' = StillPending
  /\ failed' = {}
  /\ pc' = "sleep"
  /\ UNCHANGED <<tree, dropped, received, todo, known, quiet, batch, current, uploaded>>

-------------------------------------------------------------------------------

Init ==
  /\ setup \in Setups
  /\ file \in [Files -> {0, Absent}]
  /\ edits = 0
  /\ received = file
  /\ past = [p \in Files |-> {}]
  /\ dropped = {}
  /\ pc = "sleep"
  /\ todo = {}
  /\ known \in [Files -> Contents \cup {Absent}] /\ \A p \in Files : known[p] \in {file[p], Absent}
  /\ pending = {}
  /\ quiet = TRUE
  /\ events = {}
  /\ batch = {}
  /\ failed = {}
  /\ current = Nothing
  /\ uploaded = [p \in Files |-> Absent]

Loop ==
  \/ StartScan
  \/ \E p \in Files : ScanFile(p) \/ ScanUnreadable(p)
  \/ EndScan
  \/ TakeBatch
  \/ ClearPending
  \/ \E p \in Files : FlushDeleted(p)
  \/ \E p \in Files : FlushFile(p) \/ FlushUnreadable(p)
  \/ \E p \in Files : PostAccepted(p)
  \/ PostFailed
  \/ EndFlush

Next ==
  \/ Loop
  \/ Elapse
  \/ \E p \in Files : Observe(p)
  \/ \E p \in Files : Save(p) \/ Delete(p)

Spec == Init /\ [][Next]_vars

\* The loop and the observer thread keep running and time passes; a file that
\* is tried again and again is at last accepted, and from some time on no scan
\* finds a file unreadable.
Fairness ==
  /\ WF_vars(Loop)
  /\ WF_vars(Elapse)
  /\ <>[][\A p \in Files : ~ScanUnreadable(p)]_vars
  /\ \A p \in AllFiles :
       WF_vars(Observe(p)) /\ SF_vars(FlushFile(p)) /\ SF_vars(PostAccepted(p))

FairSpec == Spec /\ Fairness

-------------------------------------------------------------------------------
(* Properties                                                              *)

\* Every variable holds a value of its kind.
TypeOK ==
  /\ setup \in Setups
  /\ file \in [Files -> Contents \cup {Absent}]
  /\ past \in [Files -> SUBSET Contents]
  /\ edits \in 0..MaxEdits
  /\ received \in [Files -> Contents \cup {Absent}]
  /\ pc \in {"sleep", "scan", "clear", "flush", "post"}
  /\ todo \subseteq Files
  /\ known \in [Files -> Contents \cup {Absent}]
  /\ pending \subseteq Files
  /\ quiet \in BOOLEAN
  /\ events \subseteq Files /\ dropped \subseteq Files
  /\ batch \subseteq Files
  /\ failed \subseteq Files
  /\ current \in [path : Files, key : Contents] \cup {Nothing}
  /\ uploaded \in [Files -> Contents \cup {Absent}]

\* The file on the server is not the file of the tree.
Missing(p) == file[p] # Absent /\ file[p] # received[p]

\* Two ways in which a change escapes the watcher: the file is back at a content
\* it had before, or its last event never came to the loop.
Escaped(p) == file[p] \in past[p] \/ p \in dropped

\* Any other change the server has not got is not forgotten: the next scan will
\* see it or its event is on the way, or the file waits for a flush, is in one, or
\* failed in it (and every variable holds a value of its kind).
Noticed(p) == IF Watchdog THEN p \in events ELSE known[p] # file[p]
ChangesNotForgotten ==
  /\ TypeOK
  /\ \A p \in Files :
       Missing(p) => \/ Escaped(p) \/ Noticed(p)
                     \/ p \in pending \cup batch \cup failed \cup {current.path}

\* When the edits have stopped, the server gets every file as it was left, except
\* for changes that escaped.
ChangesArrive == <>[](\A p \in Files : Missing(p) => Escaped(p))

-------------------------------------------------------------------------------
(* The inductive invariant, for WatchIngest_proofs                         *)

\* What the watcher knows of a file is a content that it has or had.
Seen(p) == past[p] \cup {file[p], Absent}
Known == \A p \in Files : {known[p], uploaded[p]} \subseteq Seen(p)

\* Where the main loop is, a file is being uploaded or not, and nothing is left
\* over from the last flush.
Orderly ==
  /\ pc = "clear" => Watchdog
  /\ pc # "post" <=> current = Nothing
  /\ pc \in {"sleep", "scan"} => batch = {} /\ failed = {}
  /\ current # Nothing => current.key \in Seen(current.path)

\* The key of a file may be acknowledged although other content was sent; then
\* the file has changed since, and has that content only if it came back to it.
KeysHonest ==
  \A p \in Files : uploaded[p] = file[p] /\ file[p] \notin past[p] => ~Missing(p)

\* In polling mode the pending set no longer counts once a flush is under way: the
\* flush ends by replacing it.
InHand == (IF Watchdog \/ pc \in {"sleep", "scan"} THEN pending ELSE {})
          \cup batch \cup failed \cup {current.path}

WatchInv ==
  /\ Known /\ Orderly /\ KeysHonest
  /\ \A p \in Files : Missing(p) => Escaped(p) \/ Noticed(p) \/ p \in InHand

===============================================================================
