---------------------------- MODULE MCPatchSession ----------------------------
(* Patches for TLC: a renamed file, an rsync series and a bsdiff series. *)
EXTENDS PatchSession

StreamBoundary == {MsgLen * i : i \in 0 .. Len(Stream)}

OldFiles == << <<0, 1, 1>>, <<1, 0>> >>

\* SyncOps and bsdiff controls.
Blocks(f, first, n)  == [type |-> "range", file |-> f, first |-> first, span |-> n]
Literal(d)           == [type |-> "data", data |-> d]
Control(add, c, s)   == [type |-> "ctrl", add |-> add, copy |-> c, seek |-> s]

Rsync(base, ops)          == [kind |-> "rsync", base |-> base, target |-> 0, ops |-> ops]
Bsdiff(base, target, ops) == [kind |-> "bsdiff", base |-> base, target |-> target, ops |-> ops]

\* The old file 2 under a new name, with the empty operation some patches have.
Renamed(base) == Rsync(base, <<Blocks(2, 0, 2), Literal(<< >>)>>)

\* Blocks moved, kept, changed and added.
Edited(base) == Rsync(base, <<Blocks(1, 1, 2), Literal(<<0, 1>>), Blocks(1, 0, 1)>>)

\* Old units taken over, changed, skipped and added.
Delta(base) == Bsdiff(base, 1, <<Control(<<0, 1>>, <<1>>, -1), Control(<<0>>, <<0, 1>>, 0)>>)

\* Every file is overlaid or renamed, but for the last, which is skipped.
SavedPatch == <<Edited(1), Renamed(0), Delta(2), Bsdiff(0, 2, <<Control(<<0>>, <<1>>, 0)>>)>>
=============================================================================
