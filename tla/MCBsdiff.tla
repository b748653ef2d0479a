------------------------------- MODULE MCBsdiff -------------------------------
(* Files for TLC. *)
EXTENDS Bsdiff

Upto(S, m, n) == UNION {[1..k -> S] : k \in m..n}

\* Old files with repeats, and new ones of up to two blocks.
Olds == {<<0>>, <<1, 0>>, <<0, 1, 1>>, <<0, 0, 1, 0, 1, 1>>, <<1, 0, 0, 1, 0, 0, 1>>}

Contents ==
  [old : Olds, new : Upto({0, 1}, 2, 6), partitions : {0, 2}, fails : {FALSE}]

\* Files of three and four blocks, so that the ring of two or three workers goes
\* round, and writes that fail.
Rings ==
  [old : {<<0, 0, 1, 0, 1, 1>>},
   new : {<<0, 1, 0, 1, 1, 0, 0, 1, 1, 1>>, <<1, 1, 2, 1, 0, 0, 1, 0, 1, 1, 2, 0, 1>>},
   partitions : {1, 2, 3}, fails : BOOLEAN]

ContentsAndRings == Contents \cup Rings

EndOfBlock == [eoc |-> TRUE]
Nothing == [none |-> TRUE]
=============================================================================
