---------------------------- MODULE ArchiveHealer ----------------------------
(***************************************************************************)
(* Healing a target folder from an archive while it is being validated     *)
(* (pwr/archive_healer.go, fed by pwr/validator.go).  Validate looks at    *)
(* directories, links and files in turn and sends wounds; Do repairs       *)
(* directories and links itself and queues files for a second goroutine,   *)
(* which copies them whole from the archive.                               *)
(*                                                                         *)
(* A block is one chunk.  What a file holds is read in one step, as the    *)
(* wounds of a file after its first change nothing; its wounds are sent    *)
(* one by one.  Validation itself is in module Validator.                  *)
(***************************************************************************)
EXTENDS FileTree, Functions

Seqs == INSTANCE SequencesExt

CONSTANTS
  Wanted,       \* the tree of the signature's container
  Dirs, Symlinks, Files,  \* its entries, each kind a sequence of paths
  Disks,        \* the trees the target may hold
  Archives,     \* [opens, has]: whether the archive opens, the files it can give
  Locks,        \* sets of files that may be locked at first
  Cancellable,  \* whether the context may be cancelled
  Capacity      \* of the channel of wounds

\* The container lists every entry of its tree once; of two components, only files.
ASSUME EntriesAssumption ==
  /\ Wanted \in Tree
  /\ WellFormed(Wanted)
  /\ \A p \in Paths : Len(p) = 2 => Wanted[p].kind \in {"none", "file"}
  /\ Dirs \in Seq(Kind(Wanted, "dir")) /\ Range(Dirs) = Kind(Wanted, "dir")
  /\ Symlinks \in Seq(Kind(Wanted, "link")) /\ Range(Symlinks) = Kind(Wanted, "link")
  /\ Files \in Seq(Kind(Wanted, "file")) /\ Range(Files) = Kind(Wanted, "file")
  /\ \A i, j \in DOMAIN Files : Files[i] = Files[j] => i = j

ASSUME TargetAssumption ==
  /\ \A t \in Disks : t \in Tree /\ WellFormed(t)
  /\ Locks \subseteq SUBSET DOMAIN Files

VARIABLES
  tree,      \* the target
  archive,   \* what the archive is like
  locked,    \* files whose lock the user has not closed
  ctx,       \* "live", "cancelled" by the caller, or "done" as Do has returned
  scanned,   \* entries Validate has looked at
  unsent,    \* wounds of the last one, still to be sent
  wounds,    \* the channel of wounds
  do,        \* where Do is: "receive", "process", "drain" (waiting for the
             \* goroutine), "returned"
  wound,     \* the wound it processes
  result,    \* what it returned
  queued,    \* files it has queued, or "files" in the code
  queue,     \* the channel of file indices
  healer,    \* the healing goroutine: [at, file, copied]
  errs,      \* its channel of one error
  healthy, healing, healed  \* progress, in chunks

validation == <<scanned, unsent, wounds>>
doing == <<do, wound, result, queued>>
totals == <<healthy, healing, healed>>
vars == <<tree, archive, locked, ctx, validation, doing, queue, healer, errs, totals>>

Entries == Dirs \o Symlinks \o Files
FileIndex(p) == CHOOSE i \in DOMAIN Files : Files[i] = p
Data(i) == Wanted[Files[i]].data
Size(i) == Len(Data(i))

EntryWound(kind, p) == [kind |-> kind, path |-> p]
FileWound(i)        == [kind |-> "file", index |-> i]
ClosedFile(i, end)  == [kind |-> "closed", index |-> i, end |-> end]

NoWound == [kind |-> "none"]

Idle == [at |-> "idle", file |-> 0, copied |-> 0]

Init ==
  /\ tree \in Disks
  /\ archive \in Archives
  /\ locked \in Locks
  /\ ctx = "live"
  /\ scanned = 0
  /\ unsent = << >>
  /\ wounds = << >>
  /\ do = "receive"
  /\ wound = NoWound
  /\ result = "none"
  /\ queued = {}
  /\ queue = << >>
  /\ healer = Idle
  /\ errs = << >>
  /\ healthy = 0
  /\ healing = 0
  /\ healed = 0

-----------------------------------------------------------------------------
(* Validate *)

\* The wounds of a file that was found: one for each block, and one for a
\* difference in size that goes to the channel on a way of its own.
BlockWounds(i, d) ==
  [k \in DOMAIN d |->
     IF k <= Size(i) /\ d[k] = Data(i)[k] THEN ClosedFile(i, k) ELSE FileWound(i)]

WoundsOf(i, d) ==
  IF Len(d) = Size(i)
  THEN {BlockWounds(i, d)}
  ELSE {Seqs!InsertAt(BlockWounds(i, d), k, FileWound(i)) : k \in 1..(Len(d) + 1)}

\* What Validate may send for entry p, finding what it finds now.
Inspect(p) ==
  CASE Wanted[p] = Dir ->
         {IF tree[p] = Dir THEN << >> ELSE <<EntryWound("dir", p)>>}
    [] Wanted[p].kind = "link" ->
         {IF tree[p] = Wanted[p] THEN << >> ELSE <<EntryWound("link", p)>>}
    [] Wanted[p].kind = "file" ->
         IF tree[Entry(tree, p)].kind = "file"
         THEN WoundsOf(FileIndex(p), Read(tree, p))
         ELSE {<<FileWound(FileIndex(p))>>}

Scan ==
  /\ unsent = << >>
  /\ scanned < Len(Entries)
  /\ scanned' = scanned + 1
  /\ unsent' \in Inspect(Entries[scanned + 1])
  /\ UNCHANGED <<tree, archive, locked, ctx, wounds, doing, queue, healer, errs, totals>>

SendWound ==
  /\ unsent # << >>
  /\ Len(wounds) < Capacity
  /\ wounds' = Append(wounds, Head(unsent))
  /\ unsent' = Tail(unsent)
  /\ UNCHANGED <<tree, archive, locked, ctx, scanned, doing, queue, healer, errs, totals>>

WoundsClosed == scanned = Len(Entries) /\ unsent = << >>

\* Once the consumer has returned, its wounds are thrown away.
ThrowAway ==
  /\ do = "returned"
  /\ wounds # << >>
  /\ wounds' = Tail(wounds)
  /\ UNCHANGED <<tree, archive, locked, ctx, scanned, unsent, doing, queue, healer, errs, totals>>
-----------------------------------------------------------------------------
(* Do *)

\* Returning ends the healing goroutine's context as well.
Return(r) ==
  /\ do' = "returned"
  /\ result' = r
  /\ ctx' = IF ctx = "live" THEN "done" ELSE ctx

\* The context is looked at only when a wound arrives.
Receive ==
  /\ do = "receive"
  /\ wounds # << >>
  /\ wounds' = Tail(wounds)
  /\ IF ctx = "live"
       THEN do' = "process" /\ wound' = Head(wounds) /\ UNCHANGED <<result, ctx>>
       ELSE Return("cancelled") /\ UNCHANGED wound
  /\ UNCHANGED <<tree, archive, locked, scanned, unsent, queued, queue, healer, errs, totals>>

Processing(kind) == do = "process" /\ wound.kind = kind

NextWound == do' = "receive" /\ wound' = NoWound

\* Remove what is in the way of a directory, then make it.
HealDir ==
  /\ Processing("dir")
  /\ NextWound
  /\ tree' = [tree EXCEPT ![wound.path] = Dir]
  /\ UNCHANGED <<archive, locked, ctx, validation, result, queued, queue, healer, errs, totals>>

\* Mutant: Remove for every kind of node, so that a full directory resists.
HealSymlinkShallow ==
  /\ Processing("link")
  /\ NextWound
  /\ IF CanRemove(tree, wound.path)
       THEN tree' = [tree EXCEPT ![wound.path] = Wanted[wound.path]]
       ELSE UNCHANGED tree
  /\ UNCHANGED <<archive, locked, ctx, validation, result, queued, queue, healer, errs, totals>>

\* Remove what is in the way of a link, with all it holds, then make it.
HealSymlink ==
  /\ Processing("link")
  /\ NextWound
  /\ tree' = [RemoveAll(tree, wound.path) EXCEPT ![wound.path] = Wanted[wound.path]]
  /\ UNCHANGED <<archive, locked, ctx, validation, result, queued, queue, healer, errs, totals>>

\* Mutant: a file is queued again at every wound.
QueueAgain ==
  /\ Processing("file")
  /\ queued' = queued \cup {wound.index}
  /\ healing' = healing + Size(wound.index)
  /\ queue' = Append(queue, wound.index)
  /\ NextWound
  /\ UNCHANGED <<tree, archive, locked, ctx, validation, result, healer, errs, healthy, healed>>

\* A select: the file is queued (there is room for all) or, when the healing
\* goroutine has ended, its error is taken instead.  If it ended without one,
\* Do goes on.
QueueFile ==
  /\ Processing("file")
  /\ wound.index \notin queued
  /\ queued' = queued \cup {wound.index}
  /\ healing' = healing + Size(wound.index)
  /\ \/ queue' = Append(queue, wound.index) /\ NextWound /\ UNCHANGED <<errs, ctx, result>>
     \/ /\ errs # << >>
        /\ errs' = << >>
        /\ IF Head(errs) = "nil"
             THEN NextWound /\ UNCHANGED <<ctx, result>>
             ELSE Return(Head(errs)) /\ UNCHANGED wound
        /\ UNCHANGED queue
  /\ UNCHANGED <<tree, archive, locked, validation, healer, healthy, healed>>

\* Mutant: only a block that is the whole file counts.
CountHealthyOnce(w) == IF w.index \notin queued /\ w.end = 1 THEN 1 ELSE 0

\* A file whose last block is healthy, and which is not being healed, is.
CountHealthy(w) ==
  IF w.index \notin queued /\ w.end = Size(w.index) THEN Size(w.index) ELSE 0

SkipWound ==
  /\ \/ Processing("file") /\ wound.index \in queued /\ UNCHANGED healthy
     \/ Processing("closed") /\ healthy' = healthy + CountHealthy(wound)
  /\ NextWound
  /\ UNCHANGED <<tree, archive, locked, ctx, validation, result, queued, queue, healer, errs,
                 healing, healed>>

QueuedAll ==
  /\ do = "receive"
  /\ WoundsClosed
  /\ wounds = << >>
  /\ do' = "drain"
  /\ UNCHANGED <<tree, archive, locked, ctx, validation, wound, result, queued, queue, healer, errs, totals>>

DoReturns ==
  /\ do = "drain"
  /\ errs # << >>
  /\ Return(Head(errs))
  /\ errs' = << >>
  /\ UNCHANGED <<tree, archive, locked, validation, wound, queued, queue, healer, totals>>
-----------------------------------------------------------------------------
(* The healing goroutine *)

Gone(e) ==
  /\ healer' = [healer EXCEPT !.at = "gone"]
  /\ errs' = <<e>>

\* Do closes the queue before it waits, and not when it returns early.
QueueClosed == do = "drain"

TakeFile ==
  /\ healer.at = "idle"
  /\ queue # << >>
  /\ queue' = Tail(queue)
  /\ IF archive.opens
       THEN healer' = [at |-> "locked", file |-> Head(queue), copied |-> 0] /\ UNCHANGED errs
       ELSE Gone("failed")
  /\ UNCHANGED <<tree, archive, locked, ctx, validation, doing, totals>>

\* Mutant: the goroutine ends without a word.
LeaveSilently ==
  /\ healer.at = "idle"
  /\ (QueueClosed /\ queue = << >>) \/ ctx # "live"
  /\ healer' = [healer EXCEPT !.at = "gone"]
  /\ UNCHANGED <<tree, archive, locked, ctx, validation, doing, queue, errs, totals>>

\* No more files, or nobody wants them.
NoMoreFiles ==
  /\ healer.at = "idle"
  /\ (QueueClosed /\ queue = << >>) \/ ctx # "live"
  /\ Gone("nil")
  /\ UNCHANGED <<tree, archive, locked, ctx, validation, doing, queue, totals>>

\* A reader from the archive, and a writer, which makes the file's directory
\* and empties the file.
OpenReaderAndWriter(p) ==
  LET t == MkdirFor(tree, p)
  IN CASE healer.file \notin archive.has -> Gone("failed") /\ UNCHANGED tree
       [] healer.file \in archive.has /\ ~CanWrite(t, p) -> Gone("failed") /\ tree' = t
       [] OTHER -> /\ tree' = Write(t, p, << >>)
                   /\ healer' = [healer EXCEPT !.at = "copy"]
                   /\ UNCHANGED errs

\* Mutant: the lock is not waited for.
OpenLockedFile ==
  /\ healer.at = "locked"
  /\ OpenReaderAndWriter(Files[healer.file])
  /\ UNCHANGED <<archive, locked, ctx, validation, doing, queue, totals>>

\* Once the user has closed the file's lock.
OpenFile ==
  /\ healer.at = "locked"
  /\ healer.file \notin locked
  /\ OpenReaderAndWriter(Files[healer.file])
  /\ UNCHANGED <<archive, locked, ctx, validation, doing, queue, totals>>

\* Waiting for the lock, or (every so often) copying, the goroutine sees that
\* it was cancelled.
HealCancelled ==
  /\ ctx # "live"
  /\ healer.at = "locked" \/ (healer.at = "copy" /\ healer.copied > 0)
  /\ Gone("cancelled")
  /\ UNCHANGED <<tree, archive, locked, ctx, validation, doing, queue, totals>>

CopyChunk ==
  /\ healer.at = "copy"
  /\ healer.copied < Size(healer.file)
  /\ healer' = [healer EXCEPT !.copied = @ + 1]
  /\ tree' = Write(tree, Files[healer.file], SubSeq(Data(healer.file), 1, healer.copied + 1))
  /\ healed' = healed + 1
  /\ UNCHANGED <<archive, locked, ctx, validation, doing, queue, errs, healthy, healing>>

Copied ==
  /\ healer.at = "copy"
  /\ healer.copied = Size(healer.file)
  /\ healer' = Idle
  /\ UNCHANGED <<tree, archive, locked, ctx, validation, doing, queue, errs, totals>>
-----------------------------------------------------------------------------
(* Its user *)

Unlock ==
  /\ \E i \in locked : locked' = locked \ {i}
  /\ UNCHANGED <<tree, archive, ctx, validation, doing, queue, healer, errs, totals>>

Cancel ==
  /\ Cancellable
  /\ ctx = "live"
  /\ do # "returned"
  /\ ctx' = "cancelled"
  /\ UNCHANGED <<tree, archive, locked, validation, doing, queue, healer, errs, totals>>

Finished == do = "returned" /\ healer.at = "gone" /\ WoundsClosed /\ wounds = << >>

Done == Finished /\ UNCHANGED vars

ValidateNext == Scan \/ SendWound \/ ThrowAway
DoNext == Receive \/ HealDir \/ HealSymlink \/ QueueFile \/ SkipWound \/ QueuedAll \/ DoReturns
HealNext == TakeFile \/ NoMoreFiles \/ OpenFile \/ HealCancelled \/ CopyChunk \/ Copied

Next == ValidateNext \/ DoNext \/ HealNext \/ Unlock \/ Cancel \/ Done

Spec == Init /\ [][Next]_vars

\* Every goroutine runs on, and the user opens every lock.
FairSpec ==
  /\ Spec
  /\ WF_vars(ValidateNext)
  /\ WF_vars(DoNext)
  /\ WF_vars(HealNext)
  /\ WF_vars(Unlock)
-----------------------------------------------------------------------------
(* Properties *)

\* No file of the container is reached through a link: none is one, nor is found in
\* what a link leads to that stands where its directory should.
Direct(t) ==
  \A p \in Kind(Wanted, "file") :
    /\ t[p].kind # "link"
    /\ Len(p) = 2 /\ t[<<p[1]>>].kind = "link" => t[Follow(t, p)].kind # "file"

\* archive_healer.go: when Do returns without an error and nobody cancelled it,
\* every directory, link and file is what the signature says, and nothing is
\* being written any more.
Succeeded == do = "returned" /\ result = "nil" /\ ctx # "cancelled"

Healed ==
  Succeeded => /\ \A p \in Paths : Wanted[p] # None => tree[p] = Wanted[p]
               /\ healer.at = "gone"

\* Healing a file, directory or link never damages one that is right already:
\* a file is rewritten at most once, however many wounds it has, and also when
\* healing fails or is cancelled.
StaysRight ==
  [][\A p \in Paths : Wanted[p] # None /\ tree[p] = Wanted[p] => tree'[p] = Wanted[p]]_tree

\* healer.go: a file is not touched before its user has closed its lock, whatever
\* is being healed next to it.
LockedUntouched == [][\A i \in locked : tree'[Files[i]] = tree[Files[i]]]_tree

\* The chunks of some of the files.
SizesOf(S) ==
  LET before[i \in 1 .. Len(Files) + 1] ==
        IF i = 1 THEN 0 ELSE before[i - 1] + (IF i - 1 \in S THEN Size(i - 1) ELSE 0)
  IN before[Len(Files) + 1]

\* The progress of a healing that succeeds: all that was to be healed was, and
\* what is not was counted as healthy.
Accounted ==
  Succeeded => healed = healing /\ healthy + healed >= SizesOf(DOMAIN Files)

\* Do returns, unless its caller cancels it, whatever fails.
Returns == <>(do = "returned") \/ <>(ctx = "cancelled")
=============================================================================
