---------------------------- MODULE MCChronosGrid -----------------------------
(* Instances of ChronosGrid for TLC.                                       *)
EXTENDS ChronosGrid, TLC

CONSTANTS loop, pool, v1, v2

\* All glyphs share a shard; each bit of glyph 3 is also one of another glyph, so
\* the echo screen can let it pass by mistake.
Three == {1, 2, 3}
OneShard == {1}
SharedShard == [g \in Glyphs |-> 1]
FourBits == 1..4
OverlappingBits == [g \in Glyphs |-> CASE g = 1 -> {1, 2} [] g = 2 -> {3, 4} [] g = 3 -> {2, 3}]

\* Essences are only stored and copied.
EssencesAlike == Permutations(Essences)
===============================================================================
