---------------------------- MODULE MCShardStore -----------------------------
(* A model of two layers, of which one pull fetches one or the other, and one  *)
(* of three, of which two pulls fetch the same layer.                          *)
EXTENDS ShardStore

MCRanges == {<<0, 1>>, <<1, 2>>}
MCOneRange == {<<1, 2>>}

\* The header arrives in two parts, the others in one.
MCSize == [c \in -2 .. 2 |-> IF c = -2 THEN 2 ELSE 1]
MCSize3 == [c \in -2 .. 3 |-> IF c = -2 THEN 2 ELSE 1]
==============================================================================
