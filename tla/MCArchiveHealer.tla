--------------------------- MODULE MCArchiveHealer ---------------------------
(* A container of a directory with a file, a file and a link, and what may be  *)
(* found in their place.                                                       *)
EXTENDS ArchiveHealer

X == File(<<"x">>)

Wants == [p \in Paths |->
  CASE p = <<"a">>      -> Dir
    [] p = <<"a", "l">> -> File(<<"x", "y">>)
    [] p = <<"f">>      -> X
    [] p = <<"s">>      -> Link("a")
    [] OTHER            -> None]

WantedDirs == << <<"a">> >>
WantedLinks == << <<"s">> >>
WantedFiles == << <<"a", "l">>, <<"f">> >>

\* Where the directory should be there may be a link, but the file is not found
\* through it.
AnyDisk ==
  {t \in [Paths -> {None, Dir, Link("a"), Link("f"), X}
                     \cup {File(d) : d \in {<<"y">>, <<"x", "y">>, <<"y", "x">>, <<"y", "y">>,
                                            <<"x", "y", "x">>}}] :
     /\ WellFormed(t)
     /\ Direct(t)
     /\ t[<<"a">>] \in {None, Dir, X, Link("f")}
     /\ t[<<"f">>] \in {None, X, File(<<"y">>), File(<<"x", "y">>), Dir}
     /\ t[<<"f", "l">>] = None
     /\ t[<<"s">>] \in {None, Dir, X, Link("a"), Link("f")}
     /\ t[<<"s", "l">>] \in {None, X}
     /\ t[<<"a", "l">>] # Dir}

AnyArchive == {[opens |-> TRUE, has |-> {1, 2}], [opens |-> TRUE, has |-> {2}],
               [opens |-> FALSE, has |-> {1, 2}]}

AnyLocks == {{}, {1}, {1, 2}}

\* The directory is a link to another one, which holds the file.
ThroughLink ==
  {[p \in Paths |->
     CASE p = <<"a">> -> Link("f") [] p = <<"f">> -> Dir [] p = <<"f", "l">> -> File(<<"x", "y">>)
       [] OTHER -> None]}

\* The same without the file f in the container.
LinkedWants == [Wants EXCEPT ![<<"f">>] = None]
OnlyFile == << <<"a", "l">> >>

GoodArchive == {[opens |-> TRUE, has |-> {1, 2}]}
NoLocks == {{}}
=============================================================================
