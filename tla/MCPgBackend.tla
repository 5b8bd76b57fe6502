----------------------------- MODULE MCPgBackend ------------------------------
(* Instances of PgBackend for TLC.                                         *)
EXTENDS PgBackend

CONSTANTS loop, worker

\* Two files of one name and text; one may be in the database from before.
TwoPaths == [d |-> "p", e |-> "q"]
Copies == {<<"d", "e">>, <<"e", "d">>}
FromBefore == {<<>>, <<"e">>}
===============================================================================
