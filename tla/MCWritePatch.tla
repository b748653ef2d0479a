----------------------------- MODULE MCWritePatch -----------------------------
(* Builds for TLC. *)
EXTENDS Rediff, Genie

Upto(S, n) == UNION {[1..k -> S] : k \in 0..n}

\* One new file, read at once, of up to five bytes of three values or eight of two.
\* With Modulus 2 blocks with a byte 0 and a byte 2 have the same weak hash.
News == Upto({0, 1, 2}, 5) \cup UNION {[1..k -> {0, 1}] : k \in 6..8}

Olds == {<< <<0, 1, 1>>, <<1, 0>> >>, << <<0, 0, 1, 0, 1, 1>>, <<0, 1, 0, 0, 1>> >>,
         << <<2, 0, 1, 2, 0>>, << >> >>, << <<1, 0, 1, 0, 0>>, <<1, 0, 1, 0, 0>> >>}

Contents ==
  [old : Olds, new : {<<d>> : d \in News}, like : {<<0>>, <<2>>}, copy : {8}, fails : {0},
   writes : {TRUE}, cancels : {FALSE}]

\* A file of one byte more than MaxDataOp, whose blocks the old build does not have.
FreshFile ==
  [old : {<< <<0, 1, 1>>, <<1, 0>> >>}, new : {<< <<2, 2, 2, 2, 2>> >>}, like : {<<0>>}, copy : {8}, fails : {0},
   writes : {TRUE}, cancels : {FALSE}]

\* Two files, read in pieces, with everything that may fail.
Failures ==
  [old : {<< <<0, 1, 1>>, <<1, 0>> >>}, new : {<< <<0, 1, 1, 1>>, <<1, 0>> >>, << << >>, <<1, 0, 0, 1>> >>},
   like : {<<0, 2>>}, copy : {1, 3}, fails : {0, 1, 2}, writes : BOOLEAN, cancels : BOOLEAN]

\* A file that cannot be read has a byte to fail at.
ContentsOrFailures ==
  Contents \cup {c \in Failures : c.fails # 0 => c.new[c.fails] # << >>}
=============================================================================
