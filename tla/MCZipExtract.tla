----------------------------- MODULE MCZipExtract -----------------------------
(* An archive for TLC: a directory with a file, a link and a file. *)
EXTENDS ZipExtract

X == File(<<"x">>)
Y == File(<<"y">>)

Archive ==
  <<[path |-> <<"a">>, node |-> Dir], [path |-> <<"a", "l">>, node |-> X],
    [path |-> <<"f">>, node |-> Y], [path |-> <<"s">>, node |-> Link("a")]>>

\* Whatever may be at each of the archive's paths.
AnyDisk ==
  {t \in [Paths -> {None, Dir, X, Link("a"), Link("f")}] :
     /\ t[<<"a">>] \in {None, Dir, X, Link("f")}
     /\ t[<<"f">>] \in {None, Dir, X, Link("a")}
     /\ t[<<"s">>] \in {None, Dir, Link("f")}
     /\ t[<<"f", "l">>] = None /\ t[<<"s", "l">>] = None
     /\ t[<<"a", "l">>] \in {None, X}
     /\ ~(t[<<"a">>].kind = "link" /\ t[<<"f">>].kind = "link")
     /\ WellFormed(t)}
=============================================================================
