---------------------------- MODULE MCOverlayBowl ----------------------------
(* Instances of OverlayBowl for TLC. *)
EXTENDS OverlayBowl

Absent(t, ps) == \A p \in ps : t[p] = None

Deep == {p \in Paths : Len(p) = 2}

\* Renames, swaps, duplications, edits and deletions of three plain files.
FlatTrees ==
  {t \in [Paths -> {None, File(<<"x">>), File(<<"y">>), File(<<"x", "y">>)}] : Absent(t, Deep)}

\* The names are alike to the bowl, so one order of the old nodes stands for them
\* all.
Rank(node) ==
  CASE node = None -> 0
    [] node.kind = "file" -> IF node.data = <<"x">> THEN 1 ELSE IF node.data = <<"y">> THEN 2 ELSE 3
    [] node.kind = "dir" -> 4
    [] OTHER -> 5

Ordered(T) ==
  {t \in T : /\ Rank(t[<<"a">>]) <= Rank(t[<<"b">>])
            /\ Rank(t[<<"b">>]) <= Rank(t[<<"c">>])}

FlatUpgrades == {[old |-> o, disk |-> o, new |-> n] : o \in Ordered(FlatTrees), n \in FlatTrees}

\* Every entry changes in every way: links, directories and files of two trees
\* with the top-level names a and b (and only files inside a directory).
FileNodes == {None, File(<<"x">>), File(<<"y">>)}

Third == {p \in Paths : p[1] = "c"}

Nodes(p) ==
  IF Len(p) = 2 THEN FileNodes ELSE FileNodes \cup {Dir} \cup {Link(n) : n \in {"a", "b"} \ {p[1]}}

MixedTrees ==
  {t \in [Paths -> UNION {Nodes(p) : p \in Paths \ Third}] :
     /\ Absent(t, Third)
     /\ \A p \in Paths \ Third : t[p] \in Nodes(p)
     /\ WellFormed(t)}

MixedUpgrades ==
  {[old |-> o, disk |-> o, new |-> n] :
     o \in {t \in MixedTrees : Rank(t[<<"a">>]) <= Rank(t[<<"b">>])}, n \in MixedTrees}

\* The output folder is not the old build: entries were added, lost or changed
\* kind, and links lie where the new build has a directory or a link.
With(T, d) == {t \in T : \A p \in Kind(t, "file") : t[p] = File(d)}

AlteredUpgrades ==
  {u \in [old : With(MixedTrees, <<"x">>), disk : With(MixedTrees, <<"x">>), new : MixedTrees] :
     \A p \in Kind(u.disk, "link") : u.new[p].kind \in {"dir", "link"}}

AllUpgrades == FlatUpgrades \cup MixedUpgrades \cup AlteredUpgrades

-----------------------------------------------------------------------------
(* Single upgrades *)

X == File(<<"x">>)
Y == File(<<"y">>)

\* The tree with node na at "a", nb at "b" and nl at "b/l".
TreeOf(na, nb, nl) ==
  [p \in Paths |-> CASE p = <<"a">> -> na [] p = <<"b">> -> nb
                      [] p = <<"b", "l">> -> nl [] OTHER -> None]

Single(o, n) == {[old |-> o, disk |-> o, new |-> n]}

\* The file a is renamed to b and a link to b takes its place.
FileBecomesLink == Single(TreeOf(X, None, None), TreeOf(Link("b"), X, None))

=============================================================================
