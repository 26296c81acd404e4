---------------------------- MODULE MCShardFormat ----------------------------
(* Models of two layers; the index has the output first, as in Qwen's files, and  *)
(* every order of the data is tried.  Two odd files: one has a tensor no bundle is  *)
(* named for, the other has tied weights, so that its head is a norm only.          *)
EXTENDS ShardFormat

Units(name, n) == [i \in 1 .. n |-> name]
Tensors(e, b, h) ==
  <<[name |-> Name("output", -1, "weight"), data |-> Units("output", h)],
    [name |-> Name("token_embd", -1, "weight"), data |-> Units("embd", e)],
    [name |-> Name("blk", 0, "q"), data |-> Units("0q", b)],
    [name |-> Name("blk", 1, "q"), data |-> Units("1q", 1)]>>
Tied ==
  <<[name |-> Name("token_embd", -1, "weight"), data |-> Units("embd", 2)],
    [name |-> Name("blk", 0, "q"), data |-> Units("0q", 1)],
    [name |-> Name("blk", 1, "q"), data |-> Units("1q", 2)],
    [name |-> Name("output_norm", -1, "weight"), data |-> Units("norm", 1)]>>
Odd == [name |-> Name("rope_freqs", -1, "weight"), data |-> Units("rope", 1)]

MCFiles ==
  {[tensors |-> t, layers |-> 2, order |-> o, alignment |-> a, counted |-> c,
    tail |-> l] :
     t \in {Tensors(1, 2, 3), Tensors(2, 1, 1)},
     o \in {p \in [1 .. 4 -> 1 .. 4] : Cardinality(ToSet(p)) = 4},
     a \in {1, 2, 3}, c \in BOOLEAN, l \in BOOLEAN}
  \cup
  {[tensors |-> <<Odd>> \o Tensors(1, 2, 3), layers |-> 2, order |-> <<4, 1, 5, 2, 3>>,
    alignment |-> a, counted |-> FALSE, tail |-> FALSE] : a \in {1, 2, 3}}
  \cup
  {[tensors |-> Tied, layers |-> 2, order |-> <<3, 1, 4, 2>>,
    alignment |-> a, counted |-> TRUE, tail |-> FALSE] : a \in {1, 2, 3}}

MCRanges == {<<0, 1>>, <<1, 2>>, <<0, 2>>}
==============================================================================
