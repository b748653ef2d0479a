------------------------------ MODULE FileTree ------------------------------
(***************************************************************************)
(* The part of the operating system's file interface that a bowl relies    *)
(* on, as operators on trees.  A tree maps every path to a node: nothing,  *)
(* a directory, a symbolic link or a regular file with its contents.       *)
(*                                                                         *)
(* Bounds: a path has one component (<<n>>) or two (<<n, l>>); directories *)
(* and links sit at the top level; a link names a top-level entry and a    *)
(* chain of links is followed over at most two hops (longer chains count   *)
(* as unresolvable).                                                       *)
(***************************************************************************)
EXTENDS Naturals, Sequences

CONSTANTS
  Top,    \* names of top-level entries
  Leaf,   \* names of entries inside a top-level directory
  Chunk   \* the chunks file contents are made of

Paths == {<<n>> : n \in Top} \cup (Top \X Leaf)

Contents == Seq(Chunk)

None    == [kind |-> "none"]
Dir     == [kind |-> "dir"]
Link(n) == [kind |-> "link", to |-> n]
File(d) == [kind |-> "file", data |-> d]

Node ==
  {None, Dir} \cup [kind : {"link"}, to : Top] \cup [kind : {"file"}, data : Contents]

Tree == [Paths -> Node]

Kind(t, k) == {p \in Paths : t[p].kind = k}

Inside(p) == {q \in Paths : Len(p) = 1 /\ Len(q) = 2 /\ q[1] = p[1]}

\* Every entry of a directory walk lies in a real directory.
WellFormed(t) == \A p \in Paths : Len(p) = 2 /\ t[p] # None => t[<<p[1]>>] = Dir

-----------------------------------------------------------------------------
(* Path resolution *)

Hop(t, n) == IF t[<<n>>].kind = "link" THEN t[<<n>>].to ELSE n

Resolve(t, n) == Hop(t, Hop(t, n))

\* What open(2) reaches: every link on the way is followed.
Follow(t, p) == [p EXCEPT ![1] = Resolve(t, @)]

\* What lstat, unlink and rename reach: the last component is not followed.
Entry(t, p) == IF Len(p) = 2 THEN Follow(t, p) ELSE p

-----------------------------------------------------------------------------
(* Operations: a predicate that says whether the call succeeds, and the    *)
(* tree it leaves.                                                         *)

CanRead(t, p) == t[Follow(t, p)].kind = "file"

Read(t, p) == t[Follow(t, p)].data

DirExists(t, p) == Len(p) = 1 \/ t[<<p[1]>>] = Dir

CanWrite(t, p) ==
  /\ DirExists(t, Follow(t, p))
  /\ t[Follow(t, p)].kind \in {"none", "file"}

\* Open for writing with O_CREATE and O_TRUNC, then write d.
Write(t, p, d) == [t EXCEPT ![Follow(t, p)] = File(d)]

\* Unlink or rmdir; only a directory with entries resists.
CanRemove(t, p) == t[Entry(t, p)] = Dir => \A q \in Inside(p) : t[q] = None

Remove(t, p) == [t EXCEPT ![Entry(t, p)] = None]

RemoveAll(t, p) == [q \in Paths |-> IF q = p \/ q \in Inside(p) THEN None ELSE t[q]]

\* MkdirAll of the directory p lies in: makes it when nothing is there.
MkdirFor(t, p) ==
  IF Len(p) = 2 /\ t[<<p[1]>>] = None THEN [t EXCEPT ![<<p[1]>>] = Dir] ELSE t

\* Rename over a destination that does not exist.  A directory takes the
\* entries it holds along (they drop out of the model when it becomes a
\* second-level one).
CanRename(t, p, q) ==
  /\ t[Entry(t, p)] # None
  /\ DirExists(t, Entry(t, q))
  /\ Entry(t, q) \notin Inside(Entry(t, p))

Rename(t, p, q) ==
  LET src == Entry(t, p)
      dst == Entry(t, q)
      carried(r) == Len(dst) = 1 /\ t[src] = Dir /\ r \in Inside(dst)
  IN [r \in Paths |->
        CASE r = dst                 -> t[src]
          [] r # dst /\ carried(r)   -> t[<<src[1], r[2]>>]
          [] r # dst /\ ~carried(r) /\ (r = src \/ (t[src] = Dir /\ r \in Inside(src))) -> None
          [] OTHER                   -> t[r]]
=============================================================================
