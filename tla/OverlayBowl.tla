----------------------------- MODULE OverlayBowl -----------------------------
(***************************************************************************)
(* The in-place bowl of pwr/bowl/bowl_overlay.go.  While patching it only  *)
(* records what to do: files whose contents already exist somewhere in the *)
(* old build (transpositions), files staged whole (moves) and files staged *)
(* as a difference with the old file of the same path (overlays).  Commit  *)
(* then turns the old build into the new one, in place.                    *)
(*                                                                         *)
(* The patching phase is kept at the granularity of one file; a crash      *)
(* drops the bowl and resumes it from the last checkpoint.                 *)
(***************************************************************************)
EXTENDS FileTree, FiniteSets

CONSTANTS
  Upgrades,     \* set of [old, disk, new]: the trees of the old and the new
                \* build, and what the output folder really holds
  MaxCrashes    \* bound on the number of crashes while patching

\* What walking a build gives: directories and links lie at the top level.
Build(t) ==
  /\ t \in Tree
  /\ WellFormed(t)
  /\ \A p \in Paths : Len(p) = 2 => t[p].kind \in {"none", "file"}

ASSUME UpgradesAssumption == \A u \in Upgrades : Build(u.old) /\ Build(u.disk) /\ Build(u.new)

NoPath == << >>

\* old and new are the containers a patch is made from.  plan says, for every
\* file of the new build, the old file with the same contents the patch names
\* in a full-file operation, or NoPath when it carries other operations.
\* found is what the output folder held before.
VARIABLES old, new, plan, found

VARIABLES
  out,            \* the output folder, where the old build lies in place
  stage,          \* the staging folder
  safe,           \* the ".butler-rename-N" files, by the path they stand for
  transpositions, \* new path -> old path of the recorded transposition
  overlayFiles,   \* new paths with an overlay in the staging folder
  moveFiles,      \* new paths staged whole
  todo,           \* new files the patcher has not processed yet
  checkpoint,     \* last saved [transpositions, overlayFiles, moveFiles, todo]
  crashes,        \* crashes so far
  phase,          \* step of Commit
  pending,        \* what is left to do in this step
  group           \* old path whose transpositions are being applied

patch == <<old, new, plan, found>>
lists == <<transpositions, overlayFiles, moveFiles>>
vars  == <<patch, out, stage, safe, lists, todo, checkpoint, crashes, phase, pending, group>>

-----------------------------------------------------------------------------
(* Patching *)

\* A chunk the overlay writer found unchanged is skipped, any other is fresh.
Skip == "skip"

ASSUME ChunkAssumption == Skip \notin Chunk

OverlayOf(base, d) ==
  [i \in DOMAIN d |-> IF i \in DOMAIN base /\ base[i] = d[i] THEN Skip ELSE d[i]]

\* Applying an overlay to a file also truncates it
\* where the overlay ends; a skip past the end leaves a hole.
Hole == "hole"

PatchOverlay(ops, base) ==
  [i \in DOMAIN ops |->
     IF ops[i] # Skip THEN ops[i] ELSE IF i \in DOMAIN base THEN base[i] ELSE Hole]

\* The full-file operations a patch may use for new file p: they never name an
\* empty file, which has no block.
SameContents(o, n, p) == {q \in Kind(o, "file") : o[q] = n[p] /\ n[p].data # << >>}

Plans(o, n) ==
  {f \in [Kind(n, "file") -> Kind(o, "file") \cup {NoPath}] :
     \A p \in DOMAIN f : f[p] \in SameContents(o, n, p) \cup {NoPath}}

Empty == [p \in Paths |-> None]

Init ==
  /\ \E u \in Upgrades : old = u.old /\ new = u.new /\ found = u.disk
  /\ plan \in Plans(old, new)
  /\ out = found
  /\ stage = Empty
  /\ safe = Empty
  /\ transpositions = [p \in Paths |-> NoPath]
  /\ overlayFiles = {}
  /\ moveFiles = {}
  /\ todo = Kind(new, "file")
  /\ checkpoint = [transpositions |-> transpositions, overlayFiles |-> {},
                   moveFiles |-> {}, todo |-> todo]
  /\ crashes = 0
  /\ phase = "patch"
  /\ pending = {}
  /\ group = NoPath

\* Transpose: a transposition replaces the one recorded for the same new file.
Transpose(p) ==
  /\ phase = "patch"
  /\ p \in todo
  /\ plan[p] # NoPath
  /\ transpositions' = [transpositions EXCEPT ![p] = plan[p]]
  /\ todo' = todo \ {p}
  /\ UNCHANGED <<patch, out, stage, safe, overlayFiles, moveFiles, checkpoint, crashes,
                 phase, pending, group>>

\* GetWriter, then writing and finalizing the entry: an overlay when the old
\* build has a file of that path, the whole file otherwise.
WriteEntry(p) ==
  /\ phase = "patch"
  /\ p \in todo
  /\ plan[p] = NoPath
  /\ \/ /\ old[p].kind = "file"
        /\ CanRead(out, p)
        /\ stage' = [stage EXCEPT ![p] = File(OverlayOf(Read(out, p), new[p].data))]
        /\ overlayFiles' = overlayFiles \cup {p}
        /\ todo' = todo \ {p}
        /\ UNCHANGED <<moveFiles, phase>>
     \/ /\ old[p].kind = "file"
        /\ ~CanRead(out, p)
        /\ overlayFiles' = overlayFiles \cup {p}
        /\ phase' = "failed"
        /\ UNCHANGED <<stage, moveFiles, todo>>
     \/ /\ old[p].kind # "file"
        /\ stage' = [stage EXCEPT ![p] = new[p]]
        /\ moveFiles' = moveFiles \cup {p}
        /\ todo' = todo \ {p}
        /\ UNCHANGED <<overlayFiles, phase>>
  /\ UNCHANGED <<patch, out, safe, transpositions, checkpoint, crashes, pending, group>>

Save ==
  /\ phase = "patch"
  /\ crashes < MaxCrashes
  /\ checkpoint' = [transpositions |-> transpositions, overlayFiles |-> overlayFiles,
                    moveFiles |-> moveFiles, todo |-> todo]
  /\ UNCHANGED <<patch, out, stage, safe, lists, todo, crashes, phase, pending, group>>

\* Mutant: the bowl's checkpoint lacks the moves.
ResumeWithoutMoves ==
  /\ phase = "patch"
  /\ crashes < MaxCrashes
  /\ crashes' = crashes + 1
  /\ transpositions' = checkpoint.transpositions
  /\ overlayFiles' = checkpoint.overlayFiles
  /\ moveFiles' = {}
  /\ todo' = checkpoint.todo
  /\ UNCHANGED <<patch, out, stage, safe, checkpoint, phase, pending, group>>

\* The process dies while patching; a new bowl resumes from the checkpoint.
CrashResume ==
  /\ phase = "patch"
  /\ crashes < MaxCrashes
  /\ crashes' = crashes + 1
  /\ transpositions' = checkpoint.transpositions
  /\ overlayFiles' = checkpoint.overlayFiles
  /\ moveFiles' = checkpoint.moveFiles
  /\ todo' = checkpoint.todo
  /\ UNCHANGED <<patch, out, stage, safe, checkpoint, phase, pending, group>>

-----------------------------------------------------------------------------
(* Commit *)

Transposed == {p \in Paths : transpositions[p] # NoPath}

Grouped(q) == {p \in Transposed : transpositions[p] = q}

\* A copy or move to the path of another group's old file would destroy it:
\* it goes to a safe path and is renamed in a cleanup pass.
Redirected(p) ==
  /\ transpositions[p] \notin {NoPath, p}
  /\ Grouped(p) # {}

\* Mutant: an entry that changed its kind counts as gone.
KindGhosts == {p \in Paths : old[p] # None /\ new[p].kind # old[p].kind}

Ghosts == {p \in Paths : old[p] # None /\ new[p] = None}

NextPhaseOf ==
  [patch |-> "dirs", dirs |-> "symlinks", symlinks |-> "transpositions",
   transpositions |-> "cleanup", cleanup |-> "moves", moves |-> "overlays",
   overlays |-> "ghosts", ghosts |-> "done"]

WorkOf(ph) ==
  CASE ph = "dirs"           -> Kind(new, "dir")
    [] ph = "symlinks"       -> Kind(new, "link")
    [] ph = "transpositions" -> {p \in Transposed : transpositions[p] # p}
    [] ph = "cleanup"        -> {p \in Transposed : Redirected(p)}
    [] ph = "moves"          -> moveFiles
    [] ph = "overlays"       -> overlayFiles
    [] ph = "ghosts"         -> Ghosts
    [] ph = "done"           -> {}

\* Commit starts once every file is processed, and does one thing after the
\* other.
NextPhase ==
  /\ phase \in DOMAIN NextPhaseOf
  /\ todo = {}
  /\ pending = {}
  /\ phase' = NextPhaseOf[phase]
  /\ pending' = WorkOf(NextPhaseOf[phase])
  /\ UNCHANGED <<patch, out, stage, safe, lists, todo, checkpoint, crashes, group>>

Step(ph, p) == phase = ph /\ p \in pending

Did(p) == pending' = pending \ {p} /\ UNCHANGED phase

Fail == phase' = "failed" /\ UNCHANGED pending

committing == <<patch, lists, todo, checkpoint, crashes>>

\* Mutant: only what is missing is made.
EnsureMissingDir(p) ==
  /\ Step("dirs", p)
  /\ out' = IF out[p] = None THEN [out EXCEPT ![p] = Dir] ELSE out
  /\ Did(p)
  /\ UNCHANGED <<committing, stage, safe, group>>

\* ensureDirsAndSymlinks, first half: what is not a directory is cleared out.
EnsureDir(p) ==
  /\ Step("dirs", p)
  /\ out' = IF out[p] = Dir THEN out ELSE [RemoveAll(out, p) EXCEPT ![p] = Dir]
  /\ Did(p)
  /\ UNCHANGED <<committing, stage, safe, group>>

\* Mutant: what is in the way of a link stays.
EnsureMissingLink(p) ==
  /\ Step("symlinks", p)
  /\ out' = IF out[p] = None THEN [out EXCEPT ![p] = new[p]] ELSE out
  /\ Did(p)
  /\ UNCHANGED <<committing, stage, safe, group>>

\* ... second half: what is not this very link is replaced by it.
EnsureSymlink(p) ==
  /\ Step("symlinks", p)
  /\ out' = IF out[p] = new[p] THEN out ELSE [RemoveAll(out, p) EXCEPT ![p] = new[p]]
  /\ Did(p)
  /\ UNCHANGED <<committing, stage, safe, group>>

\* The last transposition of a group is a rename, unless the old file stays
\* where it is or has an overlay to come; every other one is a copy.
LastOfGroup(p) == pending \cap Grouped(transpositions[p]) = {p}

\* Mutant: a file with an overlay to come is renamed away.
KeepsNoop(q) == q \in Grouped(q)

KeepsOld(q) == q \in Grouped(q) \/ q \in overlayFiles

Renames(p) == LastOfGroup(p) /\ ~KeepsOld(transpositions[p])

\* Only the copies of a group that is not over make the directory.
MakesDir(p) == ~LastOfGroup(p) \/ transpositions[p] \in Grouped(transpositions[p])

\* copy: the destination is truncated before anything is read from the source.
Copy(p, q) ==
  LET t == IF MakesDir(p) THEN MkdirFor(out, p) ELSE out
      d == IF Follow(t, p) = Follow(t, q) THEN << >> ELSE Read(t, q)
  IN \/ /\ CanRead(t, q)
        /\ Redirected(p)
        /\ DirExists(t, Follow(t, p))
        /\ safe' = [safe EXCEPT ![p] = File(Read(t, q))]
        /\ out' = t
        /\ Did(p)
     \/ /\ CanRead(t, q)
        /\ ~Redirected(p)
        /\ CanWrite(t, p)
        /\ out' = Write(t, p, d)
        /\ Did(p)
        /\ UNCHANGED safe
     \/ /\ ~CanRead(t, q) \/ IF Redirected(p) THEN ~DirExists(t, Follow(t, p)) ELSE ~CanWrite(t, p)
        /\ out' = t
        /\ Fail
        /\ UNCHANGED safe

\* move: the destination is removed, its directory made, the source renamed.
Cleared(p) == MkdirFor(Remove(out, p), p)

Move(p, q) ==
  LET t == IF Redirected(p) THEN MkdirFor(out, p) ELSE Cleared(p)
  IN \/ /\ Redirected(p)
        /\ CanRename(t, q, p)
        /\ safe' = [safe EXCEPT ![p] = t[Entry(t, q)]]
        /\ out' = RemoveAll(t, Entry(t, q))
        /\ Did(p)
     \/ /\ ~Redirected(p)
        /\ CanRemove(out, p)
        /\ CanRename(t, q, p)
        /\ out' = Rename(t, q, p)
        /\ Did(p)
        /\ UNCHANGED safe
     \/ /\ ~(Redirected(p) \/ CanRemove(out, p)) \/ ~CanRename(t, q, p)
        /\ out' = IF Redirected(p) \/ CanRemove(out, p) THEN t ELSE out
        /\ Fail
        /\ UNCHANGED safe

\* applyTranspositions takes the groups in no particular order, one at a time.
ApplyTransposition(p) ==
  LET q == transpositions[p]
  IN /\ Step("transpositions", p)
     /\ group \in {NoPath, q}
     /\ IF Renames(p) THEN Move(p, q) ELSE Copy(p, q)
     /\ group' = IF LastOfGroup(p) THEN NoPath ELSE q
     /\ UNCHANGED <<committing, stage>>

\* The rename of a file that lies outside the output folder's own names.
MoveInto(p, node) ==
  \/ /\ node # None
     /\ CanRemove(out, p)
     /\ DirExists(Cleared(p), Entry(Cleared(p), p))
     /\ out' = [Cleared(p) EXCEPT ![Entry(Cleared(p), p)] = node]
     /\ Did(p)
  \/ /\ \/ node = None
        \/ ~CanRemove(out, p)
        \/ ~DirExists(Cleared(p), Entry(Cleared(p), p))
     /\ out' = IF CanRemove(out, p) THEN Cleared(p) ELSE out
     /\ Fail

CleanupRename(p) ==
  /\ Step("cleanup", p)
  /\ MoveInto(p, safe[p])
  /\ safe' = [safe EXCEPT ![p] = IF phase' = "failed" THEN @ ELSE None]
  /\ UNCHANGED <<committing, stage, group>>

ApplyMove(p) ==
  /\ Step("moves", p)
  /\ MoveInto(p, stage[p])
  /\ stage' = [stage EXCEPT ![p] = IF phase' = "failed" THEN @ ELSE None]
  /\ UNCHANGED <<committing, safe, group>>

\* applyOverlays opens the file for writing, without creating it.
ApplyOverlay(p) ==
  /\ Step("overlays", p)
  /\ \/ /\ CanRead(out, p)
        /\ out' = Write(out, p, PatchOverlay(stage[p].data, Read(out, p)))
        /\ Did(p)
     \/ /\ ~CanRead(out, p)
        /\ Fail
        /\ UNCHANGED out
  /\ UNCHANGED <<committing, stage, safe, group>>

\* deleteGhosts: longest paths first, so a directory comes after what it holds;
\* a directory that cannot be removed is left behind.
DeleteGhost(p) ==
  /\ Step("ghosts", p)
  /\ Inside(p) \cap pending = {}
  /\ \/ /\ CanRemove(out, p)
        /\ out' = Remove(out, p)
        /\ Did(p)
     \/ /\ ~CanRemove(out, p)
        /\ old[p] = Dir
        /\ Did(p)
        /\ UNCHANGED out
     \/ /\ ~CanRemove(out, p)
        /\ old[p] # Dir
        /\ Fail
        /\ UNCHANGED out
  /\ UNCHANGED <<committing, stage, safe, group>>

Terminated == phase \in {"done", "failed"} /\ UNCHANGED vars

-----------------------------------------------------------------------------

Next ==
  \/ \E p \in Paths :
       \/ Transpose(p)
       \/ WriteEntry(p)
       \/ EnsureDir(p)
       \/ EnsureSymlink(p)
       \/ ApplyTransposition(p)
       \/ CleanupRename(p)
       \/ ApplyMove(p)
       \/ ApplyOverlay(p)
       \/ DeleteGhost(p)
  \/ Save
  \/ CrashResume
  \/ NextPhase
  \/ Terminated

Spec == Init /\ [][Next]_vars

-----------------------------------------------------------------------------
(* Properties *)

\* A committed output folder holds the new build: every entry of it, and no
\* entry of the old one that the new one dropped.
IsNewBuild ==
  /\ \A p \in Paths : new[p] # None => out[p] = new[p]
  /\ \A p \in Ghosts : out[p] = None \/ (old[p] = Dir /\ \E q \in Inside(p) : out[q] # None)

\* What Commit takes for granted about an upgrade: no old file it needs gives way to a directory or link, no full-file
\* operation lands on an old link, no link leads from a directory's old entries
\* to new ones, be it over a link the new build drops, and no file replaces a
\* directory.
SourcesSurvive ==
  \A p \in DOMAIN plan : plan[p] # NoPath =>
    /\ new[plan[p]].kind \in {"none", "file"}
    /\ new[<<plan[p][1]>>].kind \in IF Len(plan[p]) = 2 THEN {"none", "dir"} ELSE {"none", "file"}

NoCopyOntoLink == \A p \in DOMAIN plan : old[p].kind = "link" => plan[p] = NoPath

WithGhosts == [p \in Paths |-> IF new[p] = None THEN old[p] ELSE new[p]]

NoLinkOverDir ==
  \A p \in Kind(new, "link") : \A q \in Inside(p) :
    old[q] # None => \A t \in {new, WithGhosts} : new[Follow(t, q)] = None

NoFileOverDir == \A p \in Kind(new, "file") : old[p] # Dir

Applicable == SourcesSurvive /\ NoCopyOntoLink /\ NoLinkOverDir /\ NoFileOverDir

Committable == found = old /\ Applicable

CommitIsFaithful == Committable /\ phase = "done" => IsNewBuild

CommitSucceeds == Committable => phase # "failed"

\* The same for any upgrade.
InPlaceCommit == phase = "done" => IsNewBuild

\* Once processed, and through any crash and resume, a new file is recorded in
\* exactly the list its patch entry calls for.
RecordedOnce ==
  phase # "failed" =>
    \A p \in Kind(new, "file") \ todo :
      /\ transpositions[p] = plan[p]
      /\ p \in overlayFiles <=> plan[p] = NoPath /\ old[p].kind = "file"
      /\ p \in moveFiles <=> plan[p] = NoPath /\ old[p].kind # "file"

\* Whether a step of Commit that concerns p is still to come.
Order == <<"patch", "dirs", "symlinks", "transpositions", "cleanup", "moves", "overlays", "ghosts", "done">>

Before(ph) == \E i, j \in DOMAIN Order : i < j /\ Order[i] = phase /\ Order[j] = ph

Ahead(ph, p) == Before(ph) \/ (phase = ph /\ p \in pending)

\* At every moment of Commit, a new file is in place or can still be made from
\* what is on disk.
Recoverable(p) ==
  IF p \in Transposed /\ transpositions[p] # p /\ Ahead("transpositions", p)
    THEN out[transpositions[p]] = new[p]
  ELSE IF Redirected(p) /\ Ahead("cleanup", p)
    THEN safe[p] = new[p]
  ELSE IF p \in moveFiles /\ Ahead("moves", p)
    THEN stage[p] = new[p]
  ELSE IF p \in overlayFiles /\ Ahead("overlays", p)
    THEN out[p] = old[p] /\ PatchOverlay(stage[p].data, old[p].data) = new[p].data
  ELSE out[p] = new[p]

NothingLost ==
  Committable /\ phase # "failed" => \A p \in Kind(new, "file") \ todo : Recoverable(p)

\* The links of the output folder lie where the new build has a directory or a
\* link, which Commit puts in their place.
LinksYield == \A p \in Kind(found, "link") : new[p].kind \in {"dir", "link"}

\* Whatever else lies in the output folder: the files the patch writes itself are
\* right when Commit reports success.
WrittenFilesInPlace ==
  Applicable /\ (found = old \/ LinksYield) /\ phase = "done" =>
    \A p \in overlayFiles \cup moveFiles : out[p] = new[p]
=============================================================================
