-------------------------- MODULE WatchIngest_proofs --------------------------
(***************************************************************************)
(* Theorems about WatchIngest, for every tree and any number of changes.   *)
(***************************************************************************)
EXTENDS WatchIngest, TLAPS

-------------------------------------------------------------------------------
(* Types                                                                   *)

\* What is in a file, and what is known of it, is a content or nothing.
LEMMA AbsentIsNoContent == Absent \notin Contents /\ Contents \subseteq Nat
BY WatchAssumption DEF WatchAssumption, Contents

\* The files of an installation are files, none of them "absent".
LEMMA FilesAreFiles ==
  ASSUME setup \in Setups
  PROVE  Files \subseteq AllFiles /\ Absent \notin Files /\ Watchdog \in BOOLEAN
BY WatchAssumption DEF WatchAssumption, Files, Watchdog

LEMMA TypesInit == Init => TypeOK /\ Orderly
<1> SUFFICES ASSUME Init PROVE TypeOK /\ Orderly
  OBVIOUS
<1>1. 0 \in Contents /\ 0 \in 0..MaxEdits
  BY WatchAssumption DEF WatchAssumption, Contents
<1>2. file \in [Files -> Contents \cup {Absent}]
  BY <1>1 DEF Init
<1>3. TypeOK
  BY <1>1, <1>2 DEF Init, TypeOK
<1>4. Orderly
  BY DEF Init, Orderly
<1> QED
  BY <1>3, <1>4

\* An edit leaves a content, and puts the one it replaces among the past ones.
LEMMA EditTypes ==
  ASSUME TypeOK, NEW p \in Files, NEW c \in Saved(p) \cup {Absent}, Edit(p, c)
  PROVE  /\ file' \in [Files -> Contents \cup {Absent}]
         /\ past' \in [Files -> SUBSET Contents]
         /\ edits' \in 0..MaxEdits
         /\ \A q \in Files : Seen(q) \subseteq past'[q] \cup {file'[q], Absent}
<1>1. edits + 1 \in Contents /\ edits + 1 \in 0..MaxEdits
  BY WatchAssumption DEF TypeOK, Edit, WatchAssumption, Contents
<1>2. c \in Contents \cup {Absent}
  BY <1>1 DEF Saved, TypeOK
<1>3. file' \in [Files -> Contents \cup {Absent}]
  BY <1>2 DEF Edit, TypeOK
<1>4. past' \in [Files -> SUBSET Contents]
  BY DEF Edit, TypeOK
<1>5. \A q \in Files : Seen(q) \subseteq past'[q] \cup {file'[q], Absent}
  BY DEF Edit, TypeOK, Seen
<1> QED
  BY <1>1, <1>3, <1>4, <1>5 DEF Edit

LEMMA TypesStep == TypeOK /\ Orderly /\ [Next]_vars => TypeOK' /\ Orderly'
<1> SUFFICES ASSUME TypeOK, Orderly, [Next]_vars PROVE TypeOK' /\ Orderly'
  OBVIOUS
<1> USE DEF TypeOK, Orderly, Seen, Files, Watchdog, Nothing, tree, flush
<1>0. Absent \notin Files /\ Absent \notin Contents /\ Contents \subseteq Nat
  BY AbsentIsNoContent, FilesAreFiles
<1>1. CASE StartScan
  BY <1>1 DEF StartScan
<1>2. ASSUME NEW p \in Files, ScanFile(p) \/ ScanUnreadable(p) PROVE TypeOK' /\ Orderly'
  <2> PICK key \in {file[p], Absent} : Scan(p, key)
    BY <1>2 DEF ScanFile, ScanUnreadable
  <2>1. key \in Contents \cup {Absent}
    OBVIOUS
  <2>2. known' \in [Files -> Contents \cup {Absent}]
    BY <2>1 DEF Scan
  <2>3. TypeOK'
    BY <2>2 DEF Scan
  <2>4. Orderly'
    BY DEF Scan
  <2> QED
    BY <2>3, <2>4
<1>3. CASE EndScan
  BY <1>3 DEF EndScan
<1>4. CASE TakeBatch
  BY <1>4 DEF TakeBatch
<1>5. CASE ClearPending
  BY <1>5 DEF ClearPending
<1>6. ASSUME NEW p \in Files, FlushDeleted(p) PROVE TypeOK' /\ Orderly'
  BY <1>6 DEF FlushDeleted
<1>7. ASSUME NEW p \in Files, FlushFile(p) PROVE TypeOK' /\ Orderly'
  BY <1>7, <1>0 DEF FlushFile
<1>8. ASSUME NEW p \in Files, FlushUnreadable(p) PROVE TypeOK' /\ Orderly'
  BY <1>8 DEF FlushUnreadable
<1>9. ASSUME NEW p \in Files, PostAccepted(p) PROVE TypeOK' /\ Orderly'
  BY <1>9, <1>0 DEF PostAccepted, EndPost
<1>10. CASE PostFailed
  BY <1>10, <1>0 DEF PostFailed, EndPost, Failed
<1>11. CASE EndFlush
  BY <1>11 DEF EndFlush, StillPending
<1>12. CASE Elapse
  BY <1>12 DEF Elapse
<1>13. ASSUME NEW p \in Files, Observe(p) PROVE TypeOK' /\ Orderly'
  BY <1>13 DEF Observe
<1>14. ASSUME NEW p \in Files, Save(p) PROVE TypeOK' /\ Orderly'
  BY <1>14, EditTypes DEF Save
<1>15. ASSUME NEW p \in Files, Delete(p) PROVE TypeOK' /\ Orderly'
  BY <1>15, EditTypes DEF Delete
<1>16. CASE UNCHANGED vars
  BY <1>16 DEF vars
<1> QED
  BY <1>1, <1>2, <1>3, <1>4, <1>5, <1>6, <1>7, <1>8, <1>9, <1>10, <1>11,
     <1>12, <1>13, <1>14, <1>15, <1>16 DEF Next, Loop

\* Every variable holds a value of its kind, and nothing is left over from the
\* last flush, however files change.
THEOREM WatchTypes == Spec => []TypeOK
<1>1. Spec => [](TypeOK /\ Orderly)
  <2>1. Init => TypeOK /\ Orderly
    BY TypesInit
  <2>2. (TypeOK /\ Orderly) /\ [Next]_vars => (TypeOK /\ Orderly)'
    BY TypesStep
  <2> QED
    BY <2>1, <2>2, PTL DEF Spec
<1> QED
  BY <1>1, PTL

-------------------------------------------------------------------------------
(* No change is forgotten                                                  *)

\* What the watcher still has to do something about.
Remembered(p) == Missing(p) => Escaped(p) \/ Noticed(p) \/ p \in InHand

LEMMA WatchInit == Init => WatchInv
<1> SUFFICES ASSUME Init PROVE WatchInv
  OBVIOUS
<1>1. Orderly
  BY TypesInit
<1>2. Known
  BY DEF Init, Known, Seen
<1>3. \A p \in Files : ~Missing(p)
  BY DEF Init, Missing
<1> QED
  BY <1>1, <1>2, <1>3 DEF WatchInv, KeysHonest

\* The loop learns contents from the tree, and a content that leaves the tree is a
\* past one.
LEMMA KnownStep ==
  ASSUME TypeOK, Orderly, Known, [Next]_vars
  PROVE  Known'
<1> USE DEF Known, Orderly, Seen, Files, TypeOK, Nothing, tree, flush
<1>2. CASE StartScan \/ EndScan \/ TakeBatch \/ ClearPending \/ EndFlush \/ Elapse \/ UNCHANGED vars
  BY <1>2 DEF StartScan, EndScan, TakeBatch, ClearPending, EndFlush, Elapse, vars
<1>3. ASSUME NEW p \in Files, ScanFile(p) \/ ScanUnreadable(p) PROVE Known'
  BY <1>3 DEF ScanFile, ScanUnreadable, Scan
<1>4. ASSUME NEW p \in Files, FlushDeleted(p) \/ FlushUnreadable(p) \/ Observe(p) PROVE Known'
  BY <1>4 DEF FlushDeleted, FlushUnreadable, Observe
<1>5. ASSUME NEW p \in Files, FlushFile(p) PROVE Known'
  BY <1>5 DEF FlushFile
<1>6. ASSUME NEW p \in Files, PostAccepted(p) PROVE Known'
  BY <1>6 DEF PostAccepted
<1>7. CASE PostFailed
  BY <1>7 DEF PostFailed
<1>8. ASSUME NEW p \in Files, Save(p) PROVE Known'
  BY <1>8, EditTypes DEF Save
<1>9. ASSUME NEW p \in Files, Delete(p) PROVE Known'
  BY <1>9, EditTypes DEF Delete
<1> QED
  BY <1>2, <1>3, <1>4, <1>5, <1>6, <1>7, <1>8, <1>9 DEF Next, Loop

\* A key is acknowledged for content that was sent, or for content that the file
\* has lost.
LEMMA KeysStep ==
  ASSUME TypeOK, Orderly, Known, KeysHonest, [Next]_vars
  PROVE  KeysHonest'
<1> USE DEF KeysHonest, Missing, Files, TypeOK, tree, flush
<1>1. CASE StartScan \/ EndScan \/ TakeBatch \/ ClearPending \/ EndFlush \/ Elapse \/ UNCHANGED vars
  BY <1>1 DEF StartScan, EndScan, TakeBatch, ClearPending, EndFlush, Elapse, vars
<1>2. ASSUME NEW p \in Files,
             ScanFile(p) \/ ScanUnreadable(p) \/ FlushFile(p) \/ FlushUnreadable(p) \/ Observe(p)
      PROVE KeysHonest'
  BY <1>2 DEF ScanFile, ScanUnreadable, Scan, FlushFile, FlushUnreadable, Observe
<1>3. ASSUME NEW p \in Files, FlushDeleted(p) PROVE KeysHonest'
  BY <1>3 DEF FlushDeleted
<1>4. ASSUME NEW p \in Files, PostAccepted(p) PROVE KeysHonest'
  BY <1>4 DEF PostAccepted
<1>5. CASE PostFailed
  BY <1>5 DEF PostFailed
<1>6. ASSUME NEW p \in Files, NEW c \in Saved(p) \cup {Absent}, Edit(p, c), UNCHANGED <<received, uploaded, setup>>
      PROVE KeysHonest'
  BY <1>6 DEF Edit, Known, Seen
<1>7. ASSUME NEW p \in Files, Save(p) PROVE KeysHonest'
  BY <1>6, <1>7 DEF Save
<1>8. ASSUME NEW p \in Files, Delete(p) PROVE KeysHonest'
  BY <1>6, <1>8 DEF Delete
<1> QED
  BY <1>1, <1>2, <1>3, <1>4, <1>5, <1>7, <1>8 DEF Next, Loop

\* No step of the watcher and no change of the tree drops a file it has to do
\* something about.
LEMMA RememberedStep ==
  ASSUME TypeOK, Orderly, Known, KeysHonest, [Next]_vars, \A p \in Files : Remembered(p)
  PROVE  \A p \in Files : Remembered(p)'
<1> USE DEF Files, Watchdog, Remembered, Escaped, Noticed, Missing, InHand, TypeOK, Orderly,
            tree, flush
<1>0. Absent \notin Files
  BY FilesAreFiles
<1>1. CASE StartScan
  BY <1>1 DEF StartScan
<1>2. ASSUME NEW p \in Files, ScanFile(p) \/ ScanUnreadable(p)
      PROVE  \A q \in Files : Remembered(q)'
  BY <1>2 DEF ScanFile, ScanUnreadable, Scan, Changed
<1>3. CASE EndScan
  BY <1>3 DEF EndScan
<1>4. CASE TakeBatch
  BY <1>4 DEF TakeBatch
<1>5. CASE ClearPending
  BY <1>5 DEF ClearPending
<1>6. ASSUME NEW p \in Files, FlushDeleted(p) PROVE \A q \in Files : Remembered(q)'
  BY <1>6 DEF FlushDeleted
<1>7. ASSUME NEW p \in Files, FlushFile(p) PROVE \A q \in Files : Remembered(q)'
  <2>1. CASE uploaded[p] = file[p]
    BY <1>7, <2>1 DEF FlushFile, KeysHonest
  <2>2. CASE uploaded[p] # file[p]
    BY <1>7, <2>2, <1>0 DEF FlushFile, Nothing
  <2> QED
    BY <2>1, <2>2
<1>8. ASSUME NEW p \in Files, FlushUnreadable(p) PROVE \A q \in Files : Remembered(q)'
  BY <1>8 DEF FlushUnreadable
<1>9. ASSUME NEW p \in Files, PostAccepted(p) PROVE \A q \in Files : Remembered(q)'
  BY <1>9 DEF PostAccepted, EndPost
<1>10. CASE PostFailed
  BY <1>10 DEF PostFailed, EndPost, Failed
<1>11. CASE EndFlush
  BY <1>11, <1>0 DEF EndFlush, StillPending, Nothing
<1>12. CASE Elapse
  BY <1>12 DEF Elapse
<1>13. ASSUME NEW p \in Files, Observe(p) PROVE \A q \in Files : Remembered(q)'
  BY <1>13 DEF Observe
<1>14. ASSUME NEW p \in Files, Save(p) PROVE \A q \in Files : Remembered(q)'
  <2> PICK c \in Saved(p) : Edit(p, c)
    BY <1>14 DEF Save
  <2>1. Remembered(p)'
    BY <1>14 DEF Save, Edit, Known, Seen
  <2>2. ASSUME NEW q \in Files, q # p PROVE Remembered(q)'
    BY <1>14, <2>2 DEF Save, Edit
  <2> QED
    BY <2>1, <2>2
<1>15. ASSUME NEW p \in Files, Delete(p) PROVE \A q \in Files : Remembered(q)'
  BY <1>15 DEF Delete, Edit
<1>16. CASE UNCHANGED vars
  BY <1>16 DEF vars
<1> QED
  BY <1>1, <1>2, <1>3, <1>4, <1>5, <1>6, <1>7, <1>8, <1>9, <1>10, <1>11,
     <1>12, <1>13, <1>14, <1>15, <1>16 DEF Next, Loop

\* In either mode, whatever fails and however files change under it, the watcher
\* forgets no change except one that brings a file back to a content it had
\* before, or one whose event never came to the loop.
THEOREM ChangesRemembered == Spec => []ChangesNotForgotten
<1>1. Init => TypeOK /\ WatchInv
  BY TypesInit, WatchInit
<1>2. TypeOK /\ WatchInv /\ [Next]_vars => (TypeOK /\ WatchInv)'
  <2> SUFFICES ASSUME TypeOK, WatchInv, [Next]_vars PROVE TypeOK' /\ WatchInv'
    OBVIOUS
  <2>1. Known /\ Orderly /\ KeysHonest /\ \A p \in Files : Remembered(p)
    BY DEF WatchInv, Remembered
  <2>2. TypeOK' /\ Orderly'
    BY <2>1, TypesStep
  <2>3. Known'
    BY <2>1, KnownStep
  <2>4. KeysHonest'
    BY <2>1, KeysStep
  <2>5. \A p \in Files : Remembered(p)'
    BY <2>1, RememberedStep
  <2>6. Files' = Files
    BY DEF Files, Next, Loop, StartScan, ScanFile, ScanUnreadable, Scan, EndScan, TakeBatch,
       ClearPending, FlushDeleted, FlushFile, FlushUnreadable, PostAccepted, PostFailed,
       EndFlush, Elapse, Observe, Save, Delete, vars, tree
  <2> QED
    BY <2>2, <2>3, <2>4, <2>5, <2>6 DEF WatchInv, Remembered
<1>3. TypeOK /\ WatchInv => ChangesNotForgotten
  BY DEF WatchInv, InHand, ChangesNotForgotten
<1> QED
  BY <1>1, <1>2, <1>3, PTL DEF Spec
===============================================================================
