----------------------------- MODULE MCValidator -----------------------------
(* Targets for TLC: every way each of two files may differ, one directory or  *)
(* link, and failures of the pool, the reader and the signature.              *)
EXTENDS Validator

\* Five bytes (two blocks and a short one) and one block.
Contents == << <<0, 0, 0, 0, 0>>, <<0, 0>> >>

NoFile == [kind |-> "missing"]

Data(d, fails) == [kind |-> "file", data |-> d, fails |-> fails]

\* Right, missing, empty, cut at and inside a block, too long by a byte, by a
\* block, changed in one block or more, unreadable from some byte on.
FirstFile ==
  {NoFile}
    \cup {Data(d, FALSE) : d \in { << >>, <<0, 0>>, <<0, 0, 0>>, <<0, 0, 0, 0>>, <<0, 0, 0, 0, 0>>,
            <<0, 0, 0, 0, 0, 0>>, <<0, 0, 0, 0, 0, 0, 0>>, <<0, 0, 0, 0, 0, 0, 0, 0>>,
            <<1, 0, 0, 0, 0>>, <<0, 1, 1, 0, 0>>, <<1, 0, 0, 0, 1>>, <<1, 0, 1, 0, 1>>}}
    \cup {Data(d, TRUE) : d \in { << >>, <<1, 0, 0>>, <<0, 0, 0, 0>>}}

SecondFile == {NoFile, Data(<<0, 0>>, FALSE), Data(<<0, 1>>, FALSE), Data(<<0, 0>>, TRUE)}

Target(entry, f1, f2) ==
  [entries |-> <<entry>>, files |-> <<f1, f2>>, opens |-> TRUE, closes |-> TRUE, hashes |-> TRUE]

Good == Target("ok", Data(Contents[1], FALSE), Data(Contents[2], FALSE))

AllTargets ==
  {Target(e, f, g) : e \in {"ok", "wounded"}, f \in FirstFile, g \in SecondFile}
    \cup {Target("error", Data(Contents[1], FALSE), NoFile),
          [Good EXCEPT !.opens = FALSE], [Good EXCEPT !.hashes = FALSE]}

\* The pool's Close reports an error.
CloseFails == {[Good EXCEPT !.closes = FALSE]}
=============================================================================
