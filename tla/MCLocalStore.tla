----------------------------- MODULE MCLocalStore -----------------------------
(* Instances of LocalStore for TLC.                                        *)
EXTENDS LocalStoreRefinement, TLC

CONSTANTS
  main, other,          \* stores
  boot, a, b, link,     \* paths
  empty, short, long    \* texts

OneStore == {main}
TwoStores == {main, other}
OneFile == {boot, a, link}
TwoFiles == {boot, a, b}
Texts == {empty, short, long}
FullTexts == {empty, long}

\* One file that two paths lead to, the second through a linked directory.
LinkedName == boot :> {"bootstrap"} @@ a :> {"a"} @@ link :> {"a"}
LinkResolved == [p \in Paths |-> IF p = link THEN a ELSE p]

\* No links, and paths that differ in more than case, ...
AsGiven == [p \in Paths |-> p]

\* ... or in nothing else.
OneLower == [p \in Paths |-> IF p = boot THEN boot ELSE link]

\* The two files have the same name in different directories, as two uploads of
\* one file through the REST API do.
SameName == boot :> {"bootstrap"} @@ a :> {"note"} @@ b :> {"note"}

\* A short text has one chunk, a long one two.
TwoChunks == 1..2
MCChunksOf ==
  [c \in Contents |-> CASE c = empty -> {} [] c = short -> {1} [] c = long -> {1, 2}]

\* Where a and b have the same name, nothing tells one from the other.
FilesAlike == Permutations({a, b})
===============================================================================
