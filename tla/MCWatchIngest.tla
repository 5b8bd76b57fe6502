---------------------------- MODULE MCWatchIngest -----------------------------
(* Instances of WatchIngest for TLC.                                       *)
EXTENDS WatchIngest

CONSTANTS a, b, absent

Setup(watchdog, files, bound) ==
  [watchdog |-> watchdog, files |-> files, renames |-> watchdog, edits |-> bound]

\* Polled, or observed and saved in place or by renaming: two files that change
\* twice, one that changes three times.
PolledOrObserved == {Setup(w, {a, b}, 2) : w \in BOOLEAN} \cup {Setup(w, {a}, 3) : w \in BOOLEAN}
===============================================================================
