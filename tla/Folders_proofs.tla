---------------------------- MODULE Folders_proofs ----------------------------
(***************************************************************************)
(* Proofs about the two programs that make a folder what it should be:     *)
(* the commit of OverlayBowl and the extraction of ZipExtract.             *)
(*                                                                         *)
(* OverlayBowl, for any set of upgrades and any number of crashes.  While  *)
(* patching, the lists say what the patch does (Records).  During Commit,  *)
(* every path holds its old entry until the step that is due to change it, *)
(* and its new one from then on; an old entry taken away before its turn   *)
(* is one nothing needs any more (Settled).  An output folder that is not  *)
(* the old build is told apart only as far as the files the patch writes   *)
(* itself need it (DiskInv).                                               *)
(*                                                                         *)
(* ZipExtract, for any archive, folder, number of workers and of crashes:  *)
(* what the resume file names, and everything before it, is complete or    *)
(* has a worker at it (EntriesInv).                                        *)
(***************************************************************************)
EXTENDS OverlayBowl, ZipExtract, FiniteSetTheorems, TLAPS

Files == Kind(new, "file")

\* What the lists of a bowl (or of its checkpoint) say when the files of td are
\* still to be processed: a processed file is in the list of its kind, no other
\* path is in any.
Records(t, o, m, td) ==
  /\ td \subseteq Files
  /\ o \subseteq Files
  /\ m \subseteq Files
  /\ \A p \in Paths \ Files : t[p] = NoPath
  /\ \A p \in Files \ td :
       /\ t[p] = plan[p]
       /\ p \in o <=> plan[p] = NoPath /\ old[p].kind = "file"
       /\ p \in m <=> plan[p] = NoPath /\ old[p].kind # "file"
  /\ \A p \in td : t[p] = NoPath /\ p \notin o /\ p \notin m

\* The part of the type invariant the lists need.
ListTypes ==
  /\ DOMAIN transpositions = Paths
  /\ DOMAIN checkpoint.transpositions = Paths
  /\ phase \in {"patch", "failed"} \cup {NextPhaseOf[q] : q \in DOMAIN NextPhaseOf}

\* Both the bowl and what it would resume from are consistent with the patch.
RecordInv ==
  /\ ListTypes
  /\ phase # "failed" =>
       /\ Records(transpositions, overlayFiles, moveFiles, todo)
       /\ Records(checkpoint.transpositions, checkpoint.overlayFiles,
                  checkpoint.moveFiles, checkpoint.todo)

-----------------------------------------------------------------------------

LEMMA FilesArePaths == Files \subseteq Paths
  BY DEF Files, Kind

LEMMA RecordInit == Init => RecordInv
<1> SUFFICES ASSUME Init PROVE RecordInv
  OBVIOUS
<1>1. ListTypes
  BY DEF Init, ListTypes
<1>2. Records(transpositions, overlayFiles, moveFiles, todo)
  BY FilesArePaths DEF Init, Records, Files
<1>3. QED
  BY <1>1, <1>2 DEF Init, RecordInv

\* Steps of Commit leave the patch, the lists and the checkpoint alone.
LEMMA RecordFrame ==
  ASSUME RecordInv, UNCHANGED committing, phase # "failed",
         phase' \in {"patch", "failed"} \cup {NextPhaseOf[q] : q \in DOMAIN NextPhaseOf}
  PROVE  RecordInv'
<1>1. ListTypes'
  BY DEF RecordInv, ListTypes, committing, lists
<1>2. UNCHANGED <<old, new, plan, transpositions, overlayFiles, moveFiles, todo, checkpoint>>
  BY DEF committing, patch, lists
<1>3. Records(transpositions, overlayFiles, moveFiles, todo)'
  <2>1. Records(transpositions, overlayFiles, moveFiles, todo)
    BY DEF RecordInv
  <2>2. QED
    BY <1>2, <2>1 DEF Records, Files, Kind
<1>4. Records(checkpoint.transpositions, checkpoint.overlayFiles, checkpoint.moveFiles, checkpoint.todo)'
  <2>1. Records(checkpoint.transpositions, checkpoint.overlayFiles, checkpoint.moveFiles, checkpoint.todo)
    BY DEF RecordInv
  <2>2. QED
    BY <1>2, <2>1 DEF Records, Files, Kind
<1>5. QED
  BY <1>1, <1>3, <1>4 DEF RecordInv

\* Recording p: it leaves td and enters the list its entry calls for.
LEMMA RecordOne ==
  ASSUME NEW t, NEW o, NEW m, NEW td, NEW p \in td, DOMAIN t = Paths,
         Records(t, o, m, td)
  PROVE  /\ plan[p] # NoPath => Records([t EXCEPT ![p] = plan[p]], o, m, td \ {p})
         /\ plan[p] = NoPath /\ old[p].kind = "file" => Records(t, o \cup {p}, m, td \ {p})
         /\ plan[p] = NoPath /\ old[p].kind # "file" => Records(t, o, m \cup {p}, td \ {p})
  BY FilesArePaths DEF Records

-----------------------------------------------------------------------------

\* Recording a file takes the bowl from lists that agree with the patch to others
\* that do; the checkpoint stays.
LEMMA RecordsNext ==
  ASSUME RecordInv, phase # "failed", UNCHANGED <<patch, checkpoint>>, ListTypes',
         Records(transpositions', overlayFiles', moveFiles', todo')
  PROVE  RecordInv'
<1>1. Records(transpositions, overlayFiles, moveFiles, todo)'
  BY DEF Records, Files, Kind, patch
<1>2. Records(checkpoint.transpositions, checkpoint.overlayFiles,
              checkpoint.moveFiles, checkpoint.todo)'
  BY DEF RecordInv, Records, Files, Kind, patch
<1>3. QED
  BY <1>1, <1>2 DEF RecordInv

LEMMA TransposeRecords ==
  ASSUME RecordInv, NEW p, Transpose(p)
  PROVE  RecordInv'
<1>1. /\ Records(transpositions, overlayFiles, moveFiles, todo)
      /\ ListTypes
  BY DEF RecordInv, Transpose
<1>2. Records([transpositions EXCEPT ![p] = plan[p]], overlayFiles, moveFiles, todo \ {p})
  BY <1>1, RecordOne DEF ListTypes, Transpose
<1>3. Records(transpositions', overlayFiles', moveFiles', todo')
  BY <1>2 DEF Transpose
<1>4. ListTypes'
  BY <1>1 DEF ListTypes, Transpose
<1>5. QED
  BY <1>3, <1>4, RecordsNext DEF Transpose

LEMMA WriteEntryRecords ==
  ASSUME RecordInv, NEW p, WriteEntry(p)
  PROVE  RecordInv'
<1>1. /\ Records(transpositions, overlayFiles, moveFiles, todo)
      /\ ListTypes
  BY DEF RecordInv, WriteEntry
<1>2. ListTypes'
  BY <1>1 DEF ListTypes, WriteEntry
<1>3. CASE phase' = "failed"
  BY <1>2, <1>3 DEF RecordInv
<1>4. CASE phase' # "failed"
  <2>1. UNCHANGED transpositions /\ p \in todo /\ plan[p] = NoPath
    BY DEF WriteEntry
  <2>2. \/ /\ old[p].kind = "file"
           /\ overlayFiles' = overlayFiles \cup {p} /\ todo' = todo \ {p} /\ UNCHANGED moveFiles
        \/ /\ old[p].kind # "file"
           /\ moveFiles' = moveFiles \cup {p} /\ todo' = todo \ {p} /\ UNCHANGED overlayFiles
    BY <1>4 DEF WriteEntry
  <2>3. /\ old[p].kind = "file" => Records(transpositions, overlayFiles \cup {p}, moveFiles, todo \ {p})
        /\ old[p].kind # "file" => Records(transpositions, overlayFiles, moveFiles \cup {p}, todo \ {p})
    BY <1>1, <2>1, RecordOne DEF ListTypes
  <2>4. Records(transpositions', overlayFiles', moveFiles', todo')
    BY <2>1, <2>2, <2>3
  <2>5. QED
    BY <1>2, <2>4, RecordsNext DEF WriteEntry
<1>5. QED
  BY <1>3, <1>4

\* Saving copies the lists to the checkpoint, resuming copies them back.
LEMMA SaveRecords ==
  ASSUME RecordInv, Save
  PROVE  RecordInv'
<1>1. ListTypes'
  BY DEF RecordInv, ListTypes, Save, lists
<1>2. QED
  BY <1>1 DEF RecordInv, Records, Files, Kind, Save, patch, lists

LEMMA CrashResumeRecords ==
  ASSUME RecordInv, CrashResume
  PROVE  RecordInv'
<1>1. ListTypes'
  BY DEF RecordInv, ListTypes, CrashResume
<1>2. QED
  BY <1>1 DEF RecordInv, Records, Files, Kind, CrashResume, patch

\* A step of Commit goes on, goes wrong, or ends its phase.
LEMMA CommitRecords ==
  ASSUME RecordInv, NEW p,
         \/ EnsureDir(p) \/ EnsureSymlink(p) \/ ApplyTransposition(p) \/ CleanupRename(p)
         \/ ApplyMove(p) \/ ApplyOverlay(p) \/ DeleteGhost(p)
  PROVE  RecordInv'
<1> DEFINE Phases == {"patch", "failed"} \cup {NextPhaseOf[q] : q \in DOMAIN NextPhaseOf}
<1>1. phase \in Phases
  BY DEF RecordInv, ListTypes
<1>2. UNCHANGED committing
  BY DEF EnsureDir, EnsureSymlink, ApplyTransposition, CleanupRename, ApplyMove, ApplyOverlay,
         DeleteGhost
<1>3. phase # "failed"
  BY DEF EnsureDir, EnsureSymlink, ApplyTransposition, CleanupRename, ApplyMove, ApplyOverlay,
         DeleteGhost, Step
<1>4. phase' \in {phase, "failed"}
  BY DEF EnsureDir, EnsureSymlink, ApplyTransposition, CleanupRename, ApplyMove, ApplyOverlay,
         DeleteGhost, MoveInto, Move, Copy, Did, Fail
<1>5. phase' \in Phases
  BY <1>1, <1>4
<1>6. QED
  BY <1>2, <1>3, <1>5, RecordFrame

LEMMA NextPhaseRecords ==
  ASSUME RecordInv, NextPhase
  PROVE  RecordInv'
<1>1. phase' \in {"patch", "failed"} \cup {NextPhaseOf[q] : q \in DOMAIN NextPhaseOf}
  BY DEF NextPhase
<1>2. UNCHANGED committing /\ phase # "failed"
  BY DEF NextPhase, committing, NextPhaseOf
<1>3. QED
  BY <1>1, <1>2, RecordFrame

LEMMA RecordStep == RecordInv /\ [Next]_vars => RecordInv'
<1> SUFFICES ASSUME RecordInv, [Next]_vars PROVE RecordInv'
  OBVIOUS
<1>1. ASSUME NEW p \in Paths, Transpose(p) PROVE RecordInv'
  BY <1>1, TransposeRecords
<1>2. ASSUME NEW p \in Paths, WriteEntry(p) PROVE RecordInv'
  BY <1>2, WriteEntryRecords
<1>3. ASSUME NEW p \in Paths,
             \/ EnsureDir(p) \/ EnsureSymlink(p) \/ ApplyTransposition(p) \/ CleanupRename(p)
             \/ ApplyMove(p) \/ ApplyOverlay(p) \/ DeleteGhost(p)
      PROVE RecordInv'
  BY <1>3, CommitRecords
<1>4. CASE Save
  BY <1>4, SaveRecords
<1>5. CASE CrashResume
  BY <1>5, CrashResumeRecords
<1>6. CASE NextPhase
  BY <1>6, NextPhaseRecords
<1>7. CASE Terminated \/ UNCHANGED vars
  BY <1>7 DEF Terminated, vars, patch, lists, RecordInv, ListTypes, Records, Files, Kind
<1>8. QED
  BY <1>1, <1>2, <1>3, <1>4, <1>5, <1>6, <1>7 DEF Next

\* Once processed, and through any number of crashes, a new file is recorded in
\* exactly the list its patch entry calls for (GetWriter, Transpose, Save and
\* Resume of the overlay bowl).
THEOREM RecordedOnceHolds == Spec => []RecordedOnce
<1>1. RecordInv => RecordedOnce
  BY DEF RecordInv, RecordedOnce, Records, Files
<1>2. QED
  BY <1>1, RecordInit, RecordStep, PTL DEF Spec
-----------------------------------------------------------------------------
(* Commit: what is on disk when                                             *)

\* The new files that are made from old file q by a full-file operation.
Users(q) == {r \in Files : plan[r] = q}

\* The step of Commit that puts new[p] in place, or takes old[p] away.
Due(p) ==
  CASE new[p].kind = "none" -> "ghosts"
    [] new[p].kind = "dir"  -> "dirs"
    [] new[p].kind = "link" -> "symlinks"
    [] new[p].kind = "file" ->
         IF plan[p] = p THEN "patch"
         ELSE IF plan[p] # NoPath THEN IF Users(p) = {} THEN "transpositions" ELSE "cleanup"
         ELSE IF old[p].kind = "file" THEN "overlays" ELSE "moves"

\* Old entries that Commit takes away before it puts something in their place: a file
\* that went to the last of its users, what was in a directory that became a link,
\* and what is found through such a link.
Spent(q) ==
  /\ Users(q) # {} /\ q \notin Users(q)
  /\ ~(q \in Files /\ plan[q] = NoPath)
  /\ \A r \in Users(q) : ~Ahead("transpositions", r)

Buried(q) == Len(q) = 2 /\ new[<<q[1]>>].kind = "link"

Swept(q) == phase = "ghosts" /\ Len(q) = 2 /\ new[q] = None

Gone(q) == Spent(q) \/ Buried(q) \/ Swept(q)

\* Every path holds its old entry, if that is not gone, until its turn comes, and its
\* new one from then on.
SettledAt(p) ==
  IF Ahead(Due(p), p) THEN out[p] = old[p] \/ (out[p] = None /\ Gone(p)) ELSE out[p] = new[p]

\* Nothing is left below what became a link.
LinkedAt(p) == Buried(p) /\ ~Ahead("symlinks", <<p[1]>>) => out[p] = None

Settled == DOMAIN out = Paths /\ \A p \in Paths : SettledAt(p) /\ LinkedAt(p)

\* What was set aside waits for its turn.
SafeInv ==
  /\ DOMAIN safe = Paths
  /\ \A p \in Files : Due(p) = "cleanup" /\ ~Ahead("transpositions", p) /\ Ahead("cleanup", p) => safe[p] = new[p]

\* What was staged for the files of o and m is there.
StagedFor(o, m) ==
  /\ \A p \in o : Ahead("overlays", p) => stage[p] = File(OverlayOf(old[p].data, new[p].data))
  /\ \A p \in m : Ahead("moves", p) => stage[p] = new[p]

StageInv ==
  /\ DOMAIN stage = Paths
  /\ StagedFor(overlayFiles, moveFiles)
  /\ phase = "patch" => StagedFor(checkpoint.overlayFiles, checkpoint.moveFiles)

\* A directory is taken away after what was in it.
GhostOrder ==
  phase = "ghosts" => \A q \in pending : Len(q) = 2 /\ <<q[1]>> \in Ghosts => <<q[1]>> \in pending

Phases == DOMAIN NextPhaseOf \cup {"done"}

\* A phase of Commit has only its own work to do.
OrderInv ==
  /\ phase \in Phases
  /\ phase = "patch" => pending = {}
  /\ phase # "patch" => todo = {} /\ pending \subseteq WorkOf(phase)

PhaseInv == OrderInv /\ (phase = "patch" => out = old)

CommitInv == PhaseInv /\ Settled /\ SafeInv /\ StageInv /\ GhostOrder

\* What the patch is made from.
FixedInv == Build(old) /\ Build(new) /\ plan \in Plans(old, new)

BowlInv == RecordInv /\ FixedInv /\ (Committable => CommitInv)

-----------------------------------------------------------------------------
(* Paths and builds                                                         *)

LEMMA NodeFacts ==
  ASSUME NEW n \in Node
  PROVE  /\ n.kind \in {"none", "dir", "link", "file"}
         /\ n.kind = "none" <=> n = None
         /\ n.kind = "dir" <=> n = Dir
         /\ n.kind = "link" => n = Link(n.to) /\ n.to \in Top
         /\ n.kind = "file" => n = File(n.data) /\ n.data \in Contents
  BY DEF Node, None, Dir, Link, File

LEMMA PathFacts ==
  ASSUME NEW p \in Paths
  PROVE  /\ p # NoPath
         /\ Len(p) \in {1, 2}
         /\ p[1] \in Top
         /\ Len(p) = 1 => p = <<p[1]>>
         /\ Len(p) = 2 => p[2] \in Leaf /\ p = <<p[1], p[2]>> /\ <<p[1]>> \in Paths /\ <<p[1]>> # p
<1>1. CASE p \in {<<n>> : n \in Top}
  BY <1>1, SMTT(60) DEF NoPath
<1>2. CASE p \in Top \X Leaf
  <2>1. PICK n \in Top, l \in Leaf : p = <<n, l>>
    BY <1>2
  <2>2. QED
    BY <2>1 DEF Paths, NoPath
<1>3. QED
  BY <1>1, <1>2 DEF Paths

LEMMA InsideIs ==
  ASSUME NEW p \in Paths, NEW q \in Inside(p)
  PROVE  q \in Paths /\ Len(p) = 1 /\ Len(q) = 2 /\ p = <<q[1]>> /\ q # p
<1>1. q \in Paths /\ Len(p) = 1 /\ Len(q) = 2 /\ q[1] = p[1]
  BY DEF Inside
<1>2. p = <<p[1]>>
  BY <1>1, PathFacts
<1>3. QED
  BY <1>1, <1>2

\* A path along which there is no link leads to itself.
LEMMA NoLinkFollowed ==
  ASSUME NEW t, NEW p \in Paths, t[p].kind # "link", Len(p) = 2 => t[<<p[1]>>].kind # "link"
  PROVE  Follow(t, p) = p /\ Entry(t, p) = p
<1>1. t[<<p[1]>>].kind # "link"
  BY PathFacts
<1>2. Resolve(t, p[1]) = p[1]
  BY <1>1 DEF Resolve, Hop
<1>3. Follow(t, p) = p
  BY <1>2, PathFacts DEF Follow
<1>4. QED
  BY <1>3 DEF Entry

LEMMA BuildFacts ==
  ASSUME NEW t, Build(t), NEW p \in Paths
  PROVE  /\ t[p] \in Node
         /\ Len(p) = 2 => t[p].kind \in {"none", "file"}
         /\ Len(p) = 2 /\ t[p] # None => t[<<p[1]>>] = Dir
  BY DEF Build, Tree, WellFormed

LEMMA FileFacts ==
  ASSUME FixedInv, NEW p \in Files
  PROVE  /\ p \in Paths /\ new[p].kind = "file" /\ new[p] = File(new[p].data) /\ new[p].data \in Contents /\ new[p] # None
         /\ Len(p) = 2 => new[<<p[1]>>] = Dir /\ <<p[1]>> \in Paths
<1>1. p \in Paths /\ new[p].kind = "file"
  BY DEF Files, Kind
<1>2. new[p] = File(new[p].data) /\ new[p].data \in Contents /\ new[p] # None
  BY <1>1, NodeFacts, BuildFacts DEF FixedInv
<1>3. QED
  BY <1>1, <1>2, PathFacts, BuildFacts DEF FixedInv

LEMMA PlanFacts ==
  ASSUME FixedInv, NEW p \in Files, plan[p] # NoPath
  PROVE  /\ DOMAIN plan = Files
         /\ plan[p] \in Paths /\ old[plan[p]] = new[p] /\ old[plan[p]].kind = "file"
         /\ Len(plan[p]) = 2 => old[<<plan[p][1]>>] = Dir /\ <<plan[p][1]>> \in Paths
         /\ p \in Users(plan[p])
<1>1. DOMAIN plan = Files /\ plan[p] \in SameContents(old, new, p)
  BY DEF FixedInv, Plans, Files
<1>2. plan[p] \in Paths /\ old[plan[p]] = new[p] /\ old[plan[p]].kind = "file"
  BY <1>1 DEF SameContents, Kind
<1>3. old[plan[p]] # None
  BY <1>2 DEF None
<1>4. QED
  BY <1>1, <1>2, <1>3, PathFacts, BuildFacts DEF FixedInv, Users

LEMMA DueFacts ==
  ASSUME FixedInv, NEW p \in Paths
  PROVE  /\ Due(p) \in Phases \ {"done"}
         /\ new[p] = None <=> Due(p) = "ghosts"
         /\ new[p] = Dir <=> Due(p) = "dirs"
         /\ new[p].kind = "link" <=> Due(p) = "symlinks"
         /\ p \in Files <=> Due(p) \in {"patch", "transpositions", "cleanup", "moves", "overlays"}
         /\ p \in Files => /\ plan[p] = p <=> Due(p) = "patch"
                           /\ plan[p] \notin {p, NoPath} /\ Users(p) = {} <=> Due(p) = "transpositions"
                           /\ plan[p] \notin {p, NoPath} /\ Users(p) # {} <=> Due(p) = "cleanup"
                           /\ plan[p] = NoPath /\ old[p].kind = "file" <=> Due(p) = "overlays"
                           /\ plan[p] = NoPath /\ old[p].kind # "file" <=> Due(p) = "moves"
<1>1. /\ new[p].kind \in {"none", "dir", "link", "file"}
      /\ new[p] = None <=> new[p].kind = "none"
      /\ new[p] = Dir <=> new[p].kind = "dir"
      /\ p \in Files <=> new[p].kind = "file"
      /\ p # NoPath
  BY NodeFacts, BuildFacts, PathFacts DEF FixedInv, Files, Kind
<1>2. CASE new[p].kind # "file"
  BY <1>1, <1>2 DEF Due, Phases, NextPhaseOf
<1>3. CASE new[p].kind = "file"
  BY <1>1, <1>3 DEF Due, Phases, NextPhaseOf
<1>4. QED
  BY <1>2, <1>3

-----------------------------------------------------------------------------
(* The order of Commit                                                      *)

Rank ==
  [patch |-> 1, dirs |-> 2, symlinks |-> 3, transpositions |-> 4, cleanup |-> 5, moves |-> 6,
   overlays |-> 7, ghosts |-> 8, done |-> 9]

LEMMA PhasesAre ==
  /\ Phases = {"patch", "dirs", "symlinks", "transpositions", "cleanup", "moves", "overlays", "ghosts", "done"}
  /\ \A k \in Phases : Rank[k] \in DOMAIN Order /\ Order[Rank[k]] = k
  /\ \A i \in DOMAIN Order : Order[i] \in Phases /\ Rank[Order[i]] = i
<1>1. Phases = {"patch", "dirs", "symlinks", "transpositions", "cleanup", "moves", "overlays", "ghosts", "done"}
  BY DEF Phases, NextPhaseOf
<1>2. DOMAIN Order = 1 .. 9
  BY DEF Order
<1>3. \A k \in Phases : Rank[k] \in DOMAIN Order /\ Order[Rank[k]] = k
  BY <1>1, <1>2 DEF Rank, Order
<1>4. ASSUME NEW i \in DOMAIN Order PROVE Order[i] \in Phases /\ Rank[Order[i]] = i
  <2>1. i \in {1, 2, 3, 4, 5, 6, 7, 8, 9}
    BY <1>2
  <2>2. QED
    BY <1>1, <2>1 DEF Rank, Order
<1>5. QED
  BY <1>1, <1>3, <1>4

LEMMA BeforeIs ==
  ASSUME phase \in Phases, NEW k \in Phases
  PROVE  Before(k) <=> Rank[phase] < Rank[k]
  BY PhasesAre DEF Before

\* What is ahead, by the phase.
LEMMA AheadIs ==
  ASSUME phase \in Phases, NEW k \in Phases, NEW r
  PROVE  /\ Rank[phase] < Rank[k] => Ahead(k, r)
         /\ Rank[k] < Rank[phase] => ~Ahead(k, r)
         /\ k = phase => (Ahead(k, r) <=> r \in pending)
<1>1. Rank[phase] \in Nat /\ Rank[k] \in Nat
  BY PhasesAre DEF Order
<1>2. QED
  BY <1>1, BeforeIs DEF Ahead

\* Work done on p leaves what is ahead of any other path as it was.
LEMMA StepAhead ==
  ASSUME phase \in Phases, NEW ph, NEW p, Step(ph, p), Did(p), NEW k \in Phases, NEW r
  PROVE  Ahead(k, r)' <=> Ahead(k, r) /\ ~(k = ph /\ r = p)
<1>1. phase = ph /\ phase' = phase /\ pending' = pending \ {p} /\ p \in pending
  BY DEF Step, Did
<1>2. Rank[phase] \in Nat /\ Rank[k] \in Nat
  BY PhasesAre DEF Order
<1>3. Before(k)' <=> Before(k)
  BY <1>1 DEF Before
<1>4. k = phase => ~Before(k)
  BY <1>2, BeforeIs
<1>5. QED
  BY <1>1, <1>3, <1>4 DEF Ahead

LEMMA SameAhead ==
  ASSUME UNCHANGED <<phase, pending>>, NEW k, NEW r
  PROVE  Ahead(k, r)' <=> Ahead(k, r)
  BY DEF Ahead, Before

\* A new phase begins with all of its work.
LEMMA NextAhead ==
  ASSUME OrderInv, NextPhase, NEW k \in Phases, NEW r
  PROVE  /\ phase' \in Phases \ {"patch"}
         /\ phase' = k => Ahead(k, r) /\ (Ahead(k, r)' <=> r \in WorkOf(k))
         /\ phase' # k => (Ahead(k, r)' <=> Ahead(k, r))
<1>1. phase \in Phases \ {"done"} /\ pending = {} /\ phase' = NextPhaseOf[phase] /\ pending' = WorkOf(phase')
  BY DEF NextPhase, OrderInv, Phases, NextPhaseOf
<1>2. phase' \in Phases \ {"patch"} /\ Rank[phase'] = Rank[phase] + 1
  BY <1>1, PhasesAre DEF NextPhaseOf, Rank
<1>3. Rank[k] \in Nat /\ Rank[phase] \in Nat /\ (phase' # k => Rank[k] # Rank[phase'])
  BY <1>1, <1>2, PhasesAre DEF Order
<1>4. Before(k)' <=> Rank[phase'] < Rank[k]
  <2>1. ASSUME NEW f \in Phases
        PROVE (\E i, j \in DOMAIN Order : i < j /\ Order[i] = f /\ Order[j] = k) <=> Rank[f] < Rank[k]
    BY <2>1, PhasesAre
  <2>2. QED
    BY <1>2, <2>1 DEF Before
<1>5. Before(k) <=> Rank[phase] < Rank[k]
  BY <1>1, BeforeIs
<1>6. phase' = k => Ahead(k, r) /\ (Ahead(k, r)' <=> r \in WorkOf(k))
  <2> SUFFICES ASSUME phase' = k PROVE Ahead(k, r) /\ (Ahead(k, r)' <=> r \in WorkOf(k))
    OBVIOUS
  <2>1. Before(k) /\ ~Before(k)'
    BY <1>2, <1>3, <1>4, <1>5
  <2>2. QED
    BY <1>1, <2>1 DEF Ahead
<1>7. phase' # k => (Ahead(k, r)' <=> Ahead(k, r))
  <2> SUFFICES ASSUME phase' # k PROVE Ahead(k, r)' <=> Ahead(k, r)
    OBVIOUS
  <2>1. Before(k)' <=> Before(k)
    BY <1>2, <1>3, <1>4, <1>5
  <2>2. ~(phase = k /\ r \in pending) /\ ~(phase' = k /\ r \in pending')
    BY <1>1
  <2>3. QED
    BY <2>1, <2>2 DEF Ahead
<1>8. QED
  BY <1>2, <1>6, <1>7

-----------------------------------------------------------------------------
(* What Commit has to do                                                    *)

\* In Commit the lists say what the patch does.
LEMMA ListFacts ==
  ASSUME RecordInv, FixedInv, phase # "failed", todo = {}
  PROVE  /\ \A p \in Paths : transpositions[p] = IF p \in Files THEN plan[p] ELSE NoPath
         /\ \A p \in Paths : p \in overlayFiles <=> Due(p) = "overlays"
         /\ \A p \in Paths : p \in moveFiles <=> Due(p) = "moves"
         /\ overlayFiles \subseteq Paths /\ moveFiles \subseteq Paths
         /\ \A q \in Paths : Grouped(q) = Users(q)
         /\ \A p \in Paths : Redirected(p) <=> Due(p) = "cleanup"
<1>1. Records(transpositions, overlayFiles, moveFiles, {})
  BY DEF RecordInv
<1>2. \A p \in Paths : transpositions[p] = IF p \in Files THEN plan[p] ELSE NoPath
  BY <1>1 DEF Records
<1>3. \A p \in Paths : p \in overlayFiles <=> Due(p) = "overlays"
  BY <1>1, DueFacts DEF Records
<1>4. \A p \in Paths : p \in moveFiles <=> Due(p) = "moves"
  BY <1>1, DueFacts DEF Records
<1>5. overlayFiles \subseteq Paths /\ moveFiles \subseteq Paths
  BY <1>1, FilesArePaths DEF Records
<1>6. ASSUME NEW q \in Paths PROVE Grouped(q) = Users(q)
  <2>1. q # NoPath
    BY PathFacts
  <2>2. \A r : r \in Grouped(q) <=> r \in Paths /\ transpositions[r] = q
    BY <2>1 DEF Grouped, Transposed
  <2>3. \A r : r \in Grouped(q) <=> r \in Files /\ plan[r] = q
    BY <1>2, <2>1, <2>2, FilesArePaths
  <2>4. QED
    BY <2>3 DEF Users
<1>7. ASSUME NEW p \in Paths PROVE Redirected(p) <=> Due(p) = "cleanup"
  BY <1>2, <1>6, DueFacts DEF Redirected
<1>8. QED
  BY <1>2, <1>3, <1>4, <1>5, <1>6, <1>7

LEMMA WorkFacts ==
  ASSUME RecordInv, FixedInv, phase # "failed", todo = {}, NEW p \in Paths
  PROVE  /\ \A k \in {"dirs", "symlinks", "cleanup", "moves", "overlays"} : p \in WorkOf(k) <=> Due(p) = k
         /\ p \in WorkOf("transpositions") <=> Due(p) \in {"transpositions", "cleanup"}
         /\ p \in WorkOf("ghosts") <=> Due(p) = "ghosts" /\ old[p] # None
         /\ p \notin WorkOf("done")
<1>1. p \in WorkOf("dirs") <=> Due(p) = "dirs"
  BY DueFacts, NodeFacts, BuildFacts DEF WorkOf, Kind, FixedInv
<1>2. p \in WorkOf("symlinks") <=> Due(p) = "symlinks"
  BY DueFacts DEF WorkOf, Kind
<1>3. p \in WorkOf("moves") <=> Due(p) = "moves"
  BY ListFacts DEF WorkOf
<1>4. p \in WorkOf("overlays") <=> Due(p) = "overlays"
  BY ListFacts DEF WorkOf
<1>5. p \in WorkOf("cleanup") <=> Due(p) = "cleanup"
  <2>1. p \in WorkOf("cleanup") <=> p \in Transposed /\ Redirected(p)
    BY DEF WorkOf, Transposed
  <2>2. Redirected(p) => p \in Transposed
    BY DEF Redirected, Transposed
  <2>3. QED
    BY <2>1, <2>2, ListFacts
<1>6. p \in WorkOf("transpositions") <=> Due(p) \in {"transpositions", "cleanup"}
  <2>1. p \in WorkOf("transpositions") <=> transpositions[p] \notin {NoPath, p}
    BY DEF WorkOf, Transposed
  <2>2. transpositions[p] = IF p \in Files THEN plan[p] ELSE NoPath
    BY ListFacts
  <2>3. QED
    BY <2>1, <2>2, DueFacts
<1>7. p \in WorkOf("ghosts") <=> Due(p) = "ghosts" /\ old[p] # None
  BY DueFacts DEF WorkOf, Ghosts
<1>8. p \notin WorkOf("done")
  BY DEF WorkOf
<1>9. QED
  BY <1>1, <1>2, <1>3, <1>4, <1>5, <1>6, <1>7, <1>8

\* What is pending is due, and ahead.
LEMMA PendingFacts ==
  ASSUME RecordInv, FixedInv, OrderInv, NEW p, NEW ph \in {"dirs", "symlinks", "transpositions", "cleanup", "moves", "overlays", "ghosts"},
         Step(ph, p)
  PROVE  /\ p \in Paths /\ phase = ph /\ phase # "failed" /\ phase # "patch" /\ todo = {} /\ phase \in Phases
         /\ Ahead(ph, p)
         /\ ph # "transpositions" => Due(p) = ph
         /\ ph = "transpositions" => Due(p) \in {"transpositions", "cleanup"}
         /\ ph = "ghosts" => old[p] # None
<1>1. phase = ph /\ phase # "failed" /\ phase # "patch" /\ todo = {} /\ phase \in Phases /\ p \in WorkOf(ph) /\ Ahead(ph, p)
  BY DEF Step, OrderInv, Ahead
<1>2. p \in Paths
  BY <1>1, ListFacts DEF WorkOf, Kind, Transposed, Ghosts
<1>3. QED
  BY <1>1, <1>2, WorkFacts

-----------------------------------------------------------------------------
(* What Commit finds                                                        *)

\* The old file of a full-file operation.
LEMMA SourceFacts ==
  ASSUME FixedInv, Applicable, NEW p \in Files, plan[p] # NoPath, NEW q, q = plan[p]
  PROVE  /\ q \in Paths /\ old[q] = new[p] /\ old[q].kind = "file" /\ old[q] # None
         /\ q \in Files \/ new[q] = None
         /\ Len(q) = 2 => /\ new[<<q[1]>>] \in {None, Dir} /\ <<q[1]>> \in Paths /\ old[<<q[1]>>] = Dir
         /\ ~Buried(q)
         /\ p \notin Inside(q) /\ q \notin Inside(p)
<1>1. /\ q \in Paths /\ old[q] = new[p] /\ old[q].kind = "file" /\ DOMAIN plan = Files
      /\ Len(q) = 2 => old[<<q[1]>>] = Dir /\ <<q[1]>> \in Paths
  BY PlanFacts
<1>2. /\ new[q].kind \in {"none", "file"}
      /\ new[<<q[1]>>].kind \in IF Len(q) = 2 THEN {"none", "dir"} ELSE {"none", "file"}
  BY <1>1, Zenon DEF Applicable, SourcesSurvive
<1>3. q \in Files \/ new[q] = None
  <2>1. new[q] \in Node
    BY <1>1, BuildFacts DEF FixedInv
  <2>2. new[q].kind = "file" \/ new[q] = None
    BY <1>2, <2>1, NodeFacts
  <2>3. QED
    BY <1>1, <2>2, Zenon DEF Files, Kind
<1>4. Len(q) = 2 => new[<<q[1]>>] \in {None, Dir}
  <2> SUFFICES ASSUME Len(q) = 2 PROVE new[<<q[1]>>] \in {None, Dir}
    OBVIOUS
  <2> DEFINE r == <<q[1]>>
  <2>1. new[r] \in Node
    BY <1>1, BuildFacts DEF FixedInv
  <2>2. new[r].kind \in {"none", "dir"}
    BY <1>2
  <2> HIDE DEF r
  <2>3. new[r] \in {None, Dir}
    BY <2>1, <2>2, NodeFacts
  <2>4. QED
    BY <2>3 DEF r
<1>5. ~Buried(q)
  BY <1>4 DEF Buried, None, Dir
<1>6. p \notin Inside(q)
  <2> SUFFICES ASSUME p \in Inside(q) PROVE FALSE
    OBVIOUS
  <2>1. q = <<p[1]>> /\ Len(p) = 2
    BY <1>1, InsideIs
  <2>2. new[q] = Dir
    BY <2>1, FileFacts
  <2>3. QED
    BY <1>2, <2>2 DEF Dir
<1>7. q \notin Inside(p)
  <2> SUFFICES ASSUME q \in Inside(p) PROVE FALSE
    OBVIOUS
  <2>1. p = <<q[1]>> /\ Len(q) = 2
    BY FileFacts, InsideIs
  <2>2. new[p].kind \in {"none", "dir"}
    BY <1>2, <2>1
  <2>3. QED
    BY <2>2, FileFacts
<1>8. old[q] # None
  BY <1>1 DEF None
<1>9. QED
  BY <1>1, <1>3, <1>4, <1>5, <1>6, <1>7, <1>8

\* A directory that both builds have, or that waits for its removal, is there.
LEMMA DirThere ==
  ASSUME FixedInv, Settled, NEW r \in Paths,
         \/ new[r] = Dir /\ ~Ahead("dirs", r)
         \/ new[r] = None /\ old[r] = Dir /\ Ahead("ghosts", r)
  PROVE  out[r] = Dir
<1>1. SettledAt(r)
  BY DEF Settled
<1>2. CASE new[r] = Dir /\ ~Ahead("dirs", r)
  BY <1>1, <1>2, DueFacts DEF SettledAt
<1>3. CASE new[r] = None /\ old[r] = Dir /\ Ahead("ghosts", r)
  <2>1. Due(r) = "ghosts"
    BY <1>3, DueFacts
  <2>2. Len(r) # 2
    <3>1. old[r].kind = "dir"
      BY <1>3 DEF Dir
    <3>2. Len(r) = 2 => old[r].kind \in {"none", "file"}
      BY BuildFacts DEF FixedInv
    <3>3. QED
      BY <3>1, <3>2
  <2>3. Users(r) = {}
    <3> SUFFICES ASSUME NEW u \in Users(r) PROVE FALSE
      OBVIOUS
    <3>1. u \in Files /\ plan[u] = r /\ r # NoPath
      BY PathFacts DEF Users
    <3>2. old[r].kind = "file"
      BY <3>1, PlanFacts
    <3>3. QED
      BY <1>3, <3>2 DEF Dir
  <2>4. ~Gone(r)
    BY <2>2, <2>3 DEF Gone, Spent, Buried, Swept
  <2>5. QED
    BY <1>1, <1>3, <2>1, <2>4 DEF SettledAt
<1>4. QED
  BY <1>2, <1>3

\* While it has users to come, an old file is where it was.
LEMMA SourceThere ==
  ASSUME FixedInv, Applicable, Settled, phase \in Phases,
         NEW p \in Files, plan[p] # NoPath, Ahead("transpositions", p), NEW q, q = plan[p]
  PROVE  out[q] = new[p]
<1>1. /\ q \in Paths /\ old[q] = new[p] /\ old[q].kind = "file"
      /\ q \in Files \/ new[q] = None
      /\ ~Buried(q)
  BY SourceFacts
<1>2. p \in Users(q)
  BY DEF Users
<1>3. SettledAt(q)
  BY <1>1 DEF Settled
<1>4. phase # "ghosts" /\ Ahead("ghosts", q) /\ Ahead("cleanup", q) /\ Ahead("overlays", q)
  <2>1. Rank[phase] <= 4
    BY AheadIs, PhasesAre DEF Rank
  <2>2. QED
    BY <2>1, AheadIs, PhasesAre DEF Rank
<1>5. ~Gone(q)
  BY <1>1, <1>2, <1>4 DEF Gone, Spent, Swept
<1>6. Due(q) \in {"ghosts", "patch", "cleanup", "overlays"}
  BY <1>1, <1>2, DueFacts
<1>7. CASE Due(q) = "patch"
  <2>1. q \in Files /\ plan[q] = q /\ q # NoPath
    BY <1>1, <1>7, DueFacts, PathFacts
  <2>2. new[q] = old[q]
    BY <2>1, PlanFacts
  <2>3. QED
    BY <1>1, <1>3, <1>5, <2>2 DEF SettledAt
<1>8. CASE Due(q) # "patch"
  BY <1>1, <1>3, <1>4, <1>5, <1>6, <1>8 DEF SettledAt
<1>9. QED
  BY <1>7, <1>8

\* It is reached through real directories.
LEMMA SourceReached ==
  ASSUME FixedInv, Applicable, Settled, phase = "transpositions",
         NEW p \in Files, plan[p] # NoPath, Ahead("transpositions", p), NEW q, q = plan[p]
  PROVE  Follow(out, q) = q /\ Entry(out, q) = q
<1>1. phase \in Phases
  BY PhasesAre
<1>2. out[q].kind = "file" /\ q \in Paths
  <2>1. out[q] = new[p]
    BY <1>1, SourceThere
  <2>2. q \in Paths /\ new[p].kind = "file"
    BY SourceFacts, FileFacts
  <2>3. QED
    BY <2>1, <2>2
<1>3. Len(q) = 2 => out[<<q[1]>>] = Dir
  <2> SUFFICES ASSUME Len(q) = 2 PROVE out[<<q[1]>>] = Dir
    OBVIOUS
  <2>1. new[<<q[1]>>] \in {None, Dir} /\ <<q[1]>> \in Paths /\ old[<<q[1]>>] = Dir
    BY SourceFacts
  <2>2. ~Ahead("dirs", <<q[1]>>) /\ Ahead("ghosts", <<q[1]>>)
    BY <1>1, AheadIs, PhasesAre DEF Rank
  <2>3. QED
    BY <2>1, <2>2, DirThere
<1>4. QED
  BY <1>2, <1>3, NoLinkFollowed DEF Dir

-----------------------------------------------------------------------------
(* What a step of Commit keeps                                              *)

\* The work on p is done: p holds its new entry if it was due, what is taken away on
\* the way is gone by right, everything else stays.
LEMMA SettledStep ==
  ASSUME FixedInv, Settled, UNCHANGED patch, phase \in Phases, NEW ph \in Phases, NEW p \in Paths,
         Step(ph, p), Did(p), DOMAIN out' = Paths,
         \A r \in Paths :
           \/ r = p /\ Due(p) = ph /\ out'[r] = new[r]
           \/ ~(r = p /\ Due(p) = ph) /\ out'[r] = out[r]
           \/ out'[r] = None /\ IF Ahead(Due(r), r)' THEN Gone(r)' ELSE new[r] = None,
         ph = "symlinks" => \A r \in Inside(p) : out'[r] = None
  PROVE  Settled'
<1>1. UNCHANGED <<old, new, plan>> /\ phase' = phase
  BY DEF patch, Did
<1> SUFFICES ASSUME NEW r \in Paths PROVE SettledAt(r)' /\ LinkedAt(r)'
  BY DEF Settled
<1>2. Due(r)' = Due(r) /\ Due(r) \in Phases
  BY <1>1, DueFacts, ZenonT(60) DEF Due, Users, Files, Kind
<1>3. Ahead(Due(r), r)' <=> Ahead(Due(r), r) /\ ~(Due(r) = ph /\ r = p)
  <2>1. \A k \in Phases : Ahead(k, r)' <=> Ahead(k, r) /\ ~(k = ph /\ r = p)
    BY StepAhead
  <2>2. QED
    BY <1>2, <2>1 DEF Ahead, Before
<1>4. Gone(r) => Gone(r)'
  <2>1. Spent(r) => Spent(r)'
    <3> SUFFICES ASSUME Spent(r) PROVE Spent(r)'
      OBVIOUS
    <3>1. Users(r)' = Users(r) /\ Files' = Files /\ plan' = plan
      BY <1>1 DEF Users, Files, Kind
    <3>2. ASSUME NEW u \in Users(r) PROVE ~Ahead("transpositions", u)'
      BY StepAhead, PhasesAre DEF Spent
    <3>3. QED
      BY <3>1, <3>2 DEF Spent
  <2>2. Buried(r) => Buried(r)'
    BY <1>1 DEF Buried
  <2>3. Swept(r) => Swept(r)'
    BY <1>1 DEF Swept
  <2>4. QED
    BY <2>1, <2>2, <2>3 DEF Gone
<1>5. SettledAt(r)
  BY DEF Settled
<1>6. ASSUME r = p /\ Due(p) = ph /\ out'[r] = new[r] PROVE SettledAt(r)'
  BY <1>1, <1>2, <1>3, <1>6 DEF SettledAt
<1>7. ASSUME ~(r = p /\ Due(p) = ph) /\ out'[r] = out[r] PROVE SettledAt(r)'
  BY <1>1, <1>2, <1>3, <1>4, <1>5, <1>7 DEF SettledAt
<1>8. ASSUME out'[r] = None /\ IF Ahead(Due(r), r)' THEN Gone(r)' ELSE new[r] = None PROVE SettledAt(r)'
  BY <1>1, <1>2, <1>8 DEF SettledAt
<1>9. LinkedAt(r)'
  <2> SUFFICES ASSUME Buried(r), ~Ahead("symlinks", <<r[1]>>)' PROVE out'[r] = None
    BY <1>1 DEF LinkedAt, Buried
  <2>1. new[r] = None
    <3>1. Len(r) = 2 /\ new[<<r[1]>>] # Dir
      BY DEF Buried, Dir
    <3>2. QED
      BY <3>1, BuildFacts DEF FixedInv
  <2>2. CASE Ahead("symlinks", <<r[1]>>)
    <3>1. ph = "symlinks" /\ p = <<r[1]>>
      BY <2>2, StepAhead, PhasesAre
    <3>2. Len(r) = 2 /\ Len(p) = 1 /\ p[1] = r[1]
      BY <3>1 DEF Buried
    <3>3. QED
      BY <3>1, <3>2 DEF Inside
  <2>3. CASE ~Ahead("symlinks", <<r[1]>>)
    <3>1. out[r] = None
      BY <2>3 DEF Settled, LinkedAt
    <3>2. QED
      BY <2>1, <3>1
  <2>4. QED
    BY <2>2, <2>3
<1>10. QED
  BY <1>6, <1>7, <1>8, <1>9

LEMMA StepCommit ==
  ASSUME RecordInv, FixedInv, CommitInv, UNCHANGED committing,
         NEW ph \in {"dirs", "symlinks", "transpositions", "cleanup", "moves", "overlays", "ghosts"},
         NEW p, Step(ph, p), Did(p), Settled',
         DOMAIN safe' = Paths, \A r \in Paths \ {p} : safe'[r] = safe[r],
         ph = "transpositions" /\ Due(p) = "cleanup" => safe'[p] = new[p],
         DOMAIN stage' = Paths, \A r \in Paths \ {p} : stage'[r] = stage[r],
         ph # "moves" => stage'[p] = stage[p],
         ph = "ghosts" => Inside(p) \cap pending = {}
  PROVE  CommitInv'
<1>1. /\ p \in Paths /\ phase = ph /\ phase # "failed" /\ phase # "patch" /\ todo = {} /\ phase \in Phases /\ ph \in Phases
      /\ ph # "transpositions" => Due(p) = ph
      /\ ph = "transpositions" => Due(p) \in {"transpositions", "cleanup"}
  BY PendingFacts DEF CommitInv, PhaseInv
<1>2. UNCHANGED <<old, new, plan, transpositions, overlayFiles, moveFiles, todo, checkpoint, phase>> /\ pending' = pending \ {p}
  BY DEF committing, patch, lists, Did
<1>3. ASSUME NEW k \in Phases, NEW r PROVE Ahead(k, r)' <=> Ahead(k, r) /\ ~(k = ph /\ r = p)
  BY <1>1, StepAhead
<1>4. PhaseInv'
  <2>1. WorkOf(phase)' = WorkOf(phase)
    BY <1>2 DEF WorkOf, Kind, Transposed, Redirected, Grouped, Ghosts
  <2>2. QED
    BY <1>1, <1>2, <2>1 DEF CommitInv, PhaseInv, OrderInv
<1>5. SafeInv'
  <2>1. \A r \in Paths : Due(r)' = Due(r)
    BY <1>2 DEF Due, Users, Files, Kind
  <2>2. Files' = Files /\ Files \subseteq Paths
    BY <1>2, FilesArePaths DEF Files, Kind
  <2>3. ASSUME NEW r \in Files, Due(r) = "cleanup", ~Ahead("transpositions", r)', Ahead("cleanup", r)'
        PROVE  safe'[r] = new[r]
    <3>1. Ahead("cleanup", r) /\ ~("cleanup" = ph /\ r = p)
      BY <1>3, <2>3, PhasesAre
    <3>2. Ahead("transpositions", r) => ph = "transpositions" /\ r = p
      BY <1>3, <2>3, PhasesAre
    <3>3. CASE r = p
      <4>1. ph = "transpositions"
        BY <1>1, <2>3, <3>1, <3>3
      <4>2. QED
        BY <2>3, <3>3, <4>1
    <3>4. CASE r # p
      <4>1. safe[r] = new[r]
        BY <2>3, <3>1, <3>2, <3>4 DEF CommitInv, SafeInv
      <4>2. QED
        BY <2>2, <3>4, <4>1
    <3>5. QED
      BY <3>3, <3>4
  <2>4. QED
    BY <1>2, <2>1, <2>2, <2>3 DEF SafeInv
<1>6. StageInv'
  <2>1. /\ overlayFiles \subseteq Paths /\ moveFiles \subseteq Paths
        /\ \A r \in overlayFiles : Due(r) = "overlays"
    BY <1>1, ListFacts
  <2>2. ASSUME NEW r \in overlayFiles, Ahead("overlays", r)'
        PROVE  stage'[r] = File(OverlayOf(old[r].data, new[r].data))
    <3>1. Ahead("overlays", r)
      BY <1>3, <2>2, PhasesAre
    <3>2. r = p => ph # "moves"
      BY <1>1, <2>1
    <3>3. stage'[r] = stage[r]
      BY <2>1, <3>2
    <3>4. QED
      BY <3>1, <3>3 DEF CommitInv, StageInv, StagedFor
  <2>3. ASSUME NEW r \in moveFiles, Ahead("moves", r)' PROVE stage'[r] = new[r]
    <3>1. Ahead("moves", r) /\ ~("moves" = ph /\ r = p)
      BY <1>3, <2>3, PhasesAre
    <3>2. stage'[r] = stage[r]
      BY <2>1, <3>1
    <3>3. QED
      BY <3>1, <3>2 DEF CommitInv, StageInv, StagedFor
  <2>4. StagedFor(overlayFiles, moveFiles)'
    BY <1>2, <2>2, <2>3 DEF StagedFor
  <2>5. QED
    BY <1>1, <1>2, <2>4 DEF StageInv
<1>7. GhostOrder'
  <2> SUFFICES ASSUME phase' = "ghosts", NEW q \in pending', Len(q) = 2, <<q[1]>> \in Ghosts'
               PROVE  <<q[1]>> \in pending'
    BY DEF GhostOrder
  <2>1. Ghosts' = Ghosts /\ ph = "ghosts" /\ q \in pending
    BY <1>1, <1>2 DEF Ghosts
  <2>2. <<q[1]>> \in pending
    BY <1>1, <2>1 DEF CommitInv, GhostOrder
  <2>3. q \in Paths
    BY <1>1, <2>1 DEF CommitInv, PhaseInv, OrderInv, WorkOf, Ghosts
  <2>4. <<q[1]>> # p
    <3> SUFFICES ASSUME <<q[1]>> = p PROVE FALSE
      OBVIOUS
    <3>1. Len(p) = 1 /\ p[1] = q[1]
      OBVIOUS
    <3>2. q \in Inside(p)
      BY <2>3, <3>1 DEF Inside
    <3>3. QED
      BY <2>1, <3>2
  <2>5. QED
    BY <1>2, <2>2, <2>4
<1>8. QED
  BY <1>4, <1>5, <1>6, <1>7 DEF CommitInv

-----------------------------------------------------------------------------
(* Steps of Commit                                                          *)

\* The place of a new file whose turn comes can be cleared, and is reached through
\* real directories.
LEMMA DestinationClear ==
  ASSUME FixedInv, Applicable, Settled, phase \in Phases, Rank[phase] > 2, NEW p \in Files, Ahead(Due(p), p)
  PROVE  /\ out[p] \in {old[p], None} /\ old[p] # Dir
         /\ MkdirFor(out, p) = out /\ DirExists(out, p)
         /\ Entry(out, p) = p
         /\ CanRemove(out, p)
         /\ Cleared(p) = [out EXCEPT ![p] = None]
         /\ DirExists(Cleared(p), p) /\ Entry(Cleared(p), p) = p
         /\ old[p].kind # "link" => Follow(out, p) = p /\ CanWrite(out, p)
<1>1. /\ p \in Paths /\ new[p] # None
      /\ Len(p) = 2 => new[<<p[1]>>] = Dir /\ <<p[1]>> \in Paths
      /\ p \in Kind(new, "file")
  BY FileFacts DEF Files
<1>2. DOMAIN out = Paths /\ SettledAt(p)
  BY <1>1 DEF Settled
<1>3. old[p] # Dir
  BY <1>1 DEF Applicable, NoFileOverDir
<1>4. out[p] \in {old[p], None} /\ out[p] # Dir
  BY <1>2, <1>3 DEF SettledAt, None, Dir
<1>5. Len(p) = 2 => out[<<p[1]>>] = Dir
  <2> SUFFICES ASSUME Len(p) = 2 PROVE out[<<p[1]>>] = Dir
    OBVIOUS
  <2>1. ~Ahead("dirs", <<p[1]>>)
    BY AheadIs, PhasesAre DEF Rank
  <2>2. QED
    BY <1>1, <2>1, DirThere
<1>6. MkdirFor(out, p) = out /\ DirExists(out, p)
  BY <1>1, <1>5, PathFacts DEF MkdirFor, DirExists, None, Dir
<1>7. Entry(out, p) = p
  <2>1. CASE Len(p) = 2
    <3>1. old[p].kind # "link" /\ None.kind # "link" /\ Dir.kind # "link"
      BY <1>1, <2>1, BuildFacts DEF FixedInv, None, Dir
    <3>2. out[p].kind # "link"
      BY <1>4, <3>1
    <3>3. QED
      BY <1>1, <1>5, <2>1, <3>1, <3>2, NoLinkFollowed, SMTT(60)
  <2>2. CASE Len(p) # 2
    BY <2>2 DEF Entry
  <2>3. QED
    BY <2>1, <2>2
<1>8. CanRemove(out, p)
  BY <1>4, <1>7 DEF CanRemove
<1> DEFINE t == [out EXCEPT ![p] = None]
<1>9. Remove(out, p) = t
  BY <1>7 DEF Remove
<1>10. t[p] = None /\ (Len(p) = 2 => t[<<p[1]>>] = Dir)
  BY <1>1, <1>2, <1>5, PathFacts
<1> HIDE DEF t
<1>11. Cleared(p) = t /\ DirExists(t, p)
  BY <1>1, <1>9, <1>10, PathFacts DEF Cleared, MkdirFor, DirExists, None, Dir
<1>12. Entry(t, p) = p
  BY <1>1, <1>10, NoLinkFollowed DEF None, Dir
<1>13. ASSUME old[p].kind # "link" PROVE Follow(out, p) = p /\ CanWrite(out, p)
  <2>1. /\ out[p].kind # "link"
        /\ Len(p) = 2 => out[<<p[1]>>].kind # "link"
    BY <1>4, <1>5, <1>13 DEF None, Dir
  <2>2. Follow(out, p) = p
    BY <1>1, <2>1, NoLinkFollowed
  <2>3. out[p].kind \in {"none", "file"}
    <3>1. old[p] \in Node
      BY <1>1, BuildFacts DEF FixedInv
    <3>2. old[p].kind \in {"none", "file"}
      BY <1>3, <1>13, <3>1, NodeFacts
    <3>3. QED
      BY <1>4, <3>2 DEF None
  <2>4. QED
    BY <1>6, <2>2, <2>3 DEF CanWrite
<1>14. QED
  BY <1>3, <1>4, <1>6, <1>7, <1>8, <1>11, <1>12, <1>13 DEF t

\* Putting a node in the place of new file p.
LEMMA PutSettles ==
  ASSUME FixedInv, Settled, UNCHANGED patch, phase \in Phases, NEW ph \in Phases, NEW p \in Paths, Due(p) = ph,
         Step(ph, p), Did(p), ph # "symlinks",
         DOMAIN out' = Paths, out'[p] = new[p], \A r \in Paths \ {p} : out'[r] = out[r]
  PROVE  Settled'
<1>1. DOMAIN out' = Paths
  OBVIOUS
<1>2. ASSUME NEW r \in Paths
      PROVE  \/ r = p /\ Due(p) = ph /\ out'[r] = new[r]
             \/ ~(r = p /\ Due(p) = ph) /\ out'[r] = out[r]
  BY <1>1
<1>3. QED
  BY <1>1, <1>2, SettledStep

LEMMA MoveIntoWorks ==
  ASSUME RecordInv, FixedInv, CommitInv, Applicable, NEW ph \in {"cleanup", "moves"}, NEW p, Step(ph, p), UNCHANGED patch,
         NEW node, node = new[p], MoveInto(p, node)
  PROVE  /\ Did(p) /\ phase' # "failed" /\ Settled'
<1>1. /\ p \in Paths /\ phase = ph /\ phase \in Phases /\ Ahead(ph, p) /\ Due(p) = ph /\ ph \in Phases
  BY PendingFacts, PhasesAre DEF CommitInv, PhaseInv
<1>2. p \in Files /\ node # None
  BY <1>1, DueFacts, FileFacts
<1>3. Rank[phase] > 2
  BY <1>1 DEF Rank
<1>4. /\ CanRemove(out, p)
      /\ Cleared(p) = [out EXCEPT ![p] = None]
      /\ DirExists(Cleared(p), p) /\ Entry(Cleared(p), p) = p
  BY <1>1, <1>2, <1>3, DestinationClear DEF CommitInv
<1>5. /\ out' = [Cleared(p) EXCEPT ![p] = node]
      /\ Did(p)
  BY <1>2, <1>4 DEF MoveInto
<1>6. DOMAIN out' = Paths /\ out'[p] = new[p] /\ \A r \in Paths \ {p} : out'[r] = out[r]
  BY <1>1, <1>4, <1>5 DEF CommitInv, Settled
<1>7. Settled'
  BY <1>1, <1>5, <1>6, PutSettles DEF CommitInv
<1>8. QED
  BY <1>1, <1>5, <1>7, PhasesAre DEF Did

LEMMA CleanupCommit ==
  ASSUME RecordInv, FixedInv, CommitInv, Applicable, NEW p, CleanupRename(p)
  PROVE  CommitInv'
<1>1. Step("cleanup", p) /\ UNCHANGED committing /\ UNCHANGED patch /\ UNCHANGED stage /\ MoveInto(p, safe[p])
      /\ safe' = [safe EXCEPT ![p] = IF phase' = "failed" THEN @ ELSE None]
  BY DEF CleanupRename, committing
<1>2. p \in Paths /\ phase = "cleanup" /\ phase \in Phases /\ Ahead("cleanup", p) /\ Due(p) = "cleanup"
  BY <1>1, PendingFacts DEF CommitInv, PhaseInv
<1>3. ~Ahead("transpositions", p) /\ p \in Files
  BY <1>2, AheadIs, PhasesAre, DueFacts DEF Rank
<1>4. safe[p] = new[p] /\ DOMAIN safe = Paths
  BY <1>2, <1>3 DEF CommitInv, SafeInv
<1>5. Did(p) /\ phase' # "failed" /\ Settled'
  BY <1>1, <1>4, MoveIntoWorks
<1>6. DOMAIN safe' = Paths /\ \A r \in Paths \ {p} : safe'[r] = safe[r]
  BY <1>1, <1>4
<1>7. QED
  BY <1>1, <1>5, <1>6, StepCommit DEF CommitInv, StageInv

LEMMA MoveCommit ==
  ASSUME RecordInv, FixedInv, CommitInv, Applicable, NEW p, ApplyMove(p)
  PROVE  CommitInv'
<1>1. Step("moves", p) /\ UNCHANGED committing /\ UNCHANGED patch /\ UNCHANGED safe /\ MoveInto(p, stage[p])
      /\ stage' = [stage EXCEPT ![p] = IF phase' = "failed" THEN @ ELSE None]
  BY DEF ApplyMove, committing
<1>2. p \in Paths /\ phase = "moves" /\ phase \notin {"patch", "failed"} /\ todo = {} /\ Ahead("moves", p) /\ Due(p) = "moves"
  BY <1>1, PendingFacts DEF CommitInv, PhaseInv
<1>3. p \in moveFiles
  BY <1>2, ListFacts
<1>4. stage[p] = new[p] /\ DOMAIN stage = Paths
  BY <1>2, <1>3 DEF CommitInv, StageInv, StagedFor
<1>5. Did(p) /\ phase' # "failed" /\ Settled'
  BY <1>1, <1>4, MoveIntoWorks
<1>6. DOMAIN stage' = Paths /\ \A r \in Paths \ {p} : stage'[r] = stage[r]
  BY <1>1, <1>4
<1>7. QED
  BY <1>1, <1>2, <1>5, <1>6, StepCommit DEF CommitInv, SafeInv

\* A directory takes the place of what is not one.
LEMMA EnsureDirCommit ==
  ASSUME RecordInv, FixedInv, CommitInv, Applicable, NEW p, EnsureDir(p)
  PROVE  CommitInv'
<1>1. Step("dirs", p) /\ Did(p) /\ UNCHANGED committing /\ UNCHANGED patch /\ UNCHANGED <<stage, safe>>
      /\ out' = IF out[p] = Dir THEN out ELSE [RemoveAll(out, p) EXCEPT ![p] = Dir]
  BY DEF EnsureDir, committing
<1>2. p \in Paths /\ phase = "dirs" /\ phase \in Phases /\ Ahead("dirs", p) /\ Due(p) = "dirs"
  BY <1>1, PendingFacts DEF CommitInv, PhaseInv
<1>3. new[p] = Dir /\ Len(p) # 2
  <2>1. new[p] = Dir
    BY <1>2, DueFacts
  <2>2. new[p].kind = "dir"
    BY <2>1 DEF Dir
  <2>3. QED
    BY <1>2, <2>1, <2>2, BuildFacts DEF FixedInv
<1>4. DOMAIN out = Paths
  BY DEF CommitInv, Settled
<1>5. out[p] # Dir => \A q \in Inside(p) : out[q] = None
  <2> SUFFICES ASSUME out[p] # Dir, NEW q \in Inside(p) PROVE out[q] = None
    OBVIOUS
  <2>1. q \in Paths /\ Len(q) = 2 /\ p = <<q[1]>>
    BY <1>2, InsideIs
  <2>2. ~Gone(p)
    <3>1. \A r \in Users(p) : Ahead("transpositions", r)
      BY <1>2, AheadIs, PhasesAre DEF Rank
    <3>2. QED
      BY <1>2, <1>3, <3>1 DEF Gone, Spent, Buried, Swept
  <2>3. old[p] # Dir
    BY <1>2, <2>2 DEF CommitInv, Settled, SettledAt
  <2>4. old[q] = None
    BY <2>1, <2>3, BuildFacts DEF FixedInv
  <2>5. Ahead(Due(q), q)
    <3>1. new[q].kind \in {"none", "file"}
      BY <2>1, BuildFacts DEF FixedInv
    <3>2. Due(q) \in {"ghosts", "transpositions", "cleanup", "moves", "overlays", "patch"}
      BY <3>1 DEF Due
    <3>3. Due(q) # "patch"
      <4> SUFFICES ASSUME Due(q) = "patch" PROVE FALSE
        OBVIOUS
      <4>1. q \in Files /\ plan[q] = q /\ q # NoPath
        BY <2>1, DueFacts, PathFacts
      <4>2. old[q].kind = "file"
        BY <4>1, PlanFacts
      <4>3. QED
        BY <2>4, <4>2 DEF None
    <3>4. QED
      BY <1>2, <3>2, <3>3, AheadIs, PhasesAre DEF Rank
  <2>6. SettledAt(q)
    BY <2>1 DEF CommitInv, Settled
  <2>7. QED
    BY <2>4, <2>5, <2>6 DEF SettledAt
<1>6. DOMAIN out' = Paths /\ out'[p] = new[p] /\ \A r \in Paths \ {p} : out'[r] = out[r]
  <2>1. CASE out[p] = Dir
    BY <1>1, <1>2, <1>3, <1>4, <2>1
  <2>2. CASE out[p] # Dir
    <3> DEFINE t == RemoveAll(out, p)
    <3>1. DOMAIN t = Paths /\ \A r \in Paths \ {p} : t[r] = out[r]
      BY <1>5, <2>2 DEF RemoveAll
    <3>2. out' = [t EXCEPT ![p] = new[p]]
      BY <1>1, <1>3, <2>2
    <3> HIDE DEF t
    <3>3. QED
      BY <1>2, <1>4, <3>1, <3>2
  <2>3. QED
    BY <2>1, <2>2
<1>7. Settled'
  BY <1>1, <1>2, <1>6, PutSettles DEF CommitInv
<1>8. QED
  BY <1>1, <1>2, <1>7, StepCommit DEF CommitInv, SafeInv, StageInv

\* A link takes the place of what is there, and of all that was below it.
LEMMA EnsureSymlinkCommit ==
  ASSUME RecordInv, FixedInv, CommitInv, Applicable, NEW p, EnsureSymlink(p)
  PROVE  CommitInv'
<1>1. Step("symlinks", p) /\ Did(p) /\ UNCHANGED committing /\ UNCHANGED patch /\ UNCHANGED <<stage, safe>>
      /\ out' = IF out[p] = new[p] THEN out ELSE [RemoveAll(out, p) EXCEPT ![p] = new[p]]
  BY DEF EnsureSymlink, committing
<1>2. p \in Paths /\ phase = "symlinks" /\ phase \in Phases /\ Ahead("symlinks", p) /\ Due(p) = "symlinks"
  BY <1>1, PendingFacts DEF CommitInv, PhaseInv
<1>3. new[p].kind = "link"
  BY <1>2, DueFacts
<1>4. DOMAIN out = Paths /\ DOMAIN out' = Paths
  <2>1. DOMAIN out = Paths
    BY DEF CommitInv, Settled
  <2>2. QED
    BY <1>1, <2>1 DEF RemoveAll
<1>5. ASSUME NEW q \in Inside(p)
      PROVE  q \in Paths /\ q # p /\ Due(q) = "ghosts" /\ Buried(q) /\ Ahead("ghosts", q)
  <2>1. q \in Paths /\ Len(q) = 2 /\ p = <<q[1]>> /\ q # p
    BY <1>2, InsideIs
  <2>2. new[q] = None
    BY <1>3, <2>1, BuildFacts DEF FixedInv, Dir
  <2>3. Ahead("ghosts", q)
    BY <1>2, AheadIs, PhasesAre DEF Rank
  <2>4. QED
    BY <1>3, <2>1, <2>2, <2>3, DueFacts DEF Buried
<1>6. out'[p] = new[p]
  BY <1>1, <1>2, <1>4 DEF RemoveAll
<1>7. \A q \in Inside(p) : out'[q] = None
  <2>1. CASE out[p] = new[p]
    <3>1. old[p] # Dir
      <4>1. out[p] # None /\ out[p] # Dir
        BY <1>3, <2>1 DEF None, Dir
      <4>2. QED
        BY <1>2, <4>1 DEF CommitInv, Settled, SettledAt
    <3>2. ASSUME NEW q \in Inside(p) PROVE out[q] = None
      <4>1. old[q] = None
        BY <1>2, <3>1, InsideIs, BuildFacts DEF FixedInv
      <4>2. QED
        BY <1>5, <4>1 DEF CommitInv, Settled, SettledAt
    <3>3. QED
      BY <1>1, <2>1, <3>2
  <2>2. CASE out[p] # new[p]
    BY <1>1, <1>5, <2>2 DEF RemoveAll
  <2>3. QED
    BY <2>1, <2>2
<1>8. \A r \in Paths : r = p \/ r \in Inside(p) \/ out'[r] = out[r]
  BY <1>1, <1>4 DEF RemoveAll
<1>9. Settled'
  <2>1. ASSUME NEW r \in Inside(p) PROVE Ahead(Due(r), r)' /\ Gone(r)'
    <3>1. new' = new /\ old' = old /\ plan' = plan
      BY <1>1 DEF patch
    <3>2. Due(r)' = "ghosts" /\ Gone(r)'
      BY <1>5, <3>1, ZenonT(60) DEF Due, Users, Files, Kind, Gone, Buried
    <3>3. Ahead("ghosts", r)'
      BY <1>1, <1>2, <1>5, StepAhead, PhasesAre
    <3>4. QED
      BY <3>2, <3>3
  <2>2. ASSUME NEW r \in Paths
        PROVE  \/ r = p /\ Due(p) = "symlinks" /\ out'[r] = new[r]
               \/ ~(r = p /\ Due(p) = "symlinks") /\ out'[r] = out[r]
               \/ out'[r] = None /\ IF Ahead(Due(r), r)' THEN Gone(r)' ELSE new[r] = None
    BY <1>2, <1>5, <1>6, <1>7, <1>8, <2>1
  <2>3. QED
    BY <1>1, <1>2, <1>4, <1>7, <2>2, SettledStep DEF CommitInv
<1>10. QED
  BY <1>1, <1>2, <1>9, StepCommit DEF CommitInv, SafeInv, StageInv

\* The file a full-file operation takes its contents from is readable, and so is the
\* place it goes to.
LEMMA TranspositionFinds ==
  ASSUME RecordInv, FixedInv, CommitInv, Applicable, NEW p, Step("transpositions", p),
         NEW q, q = transpositions[p]
  PROVE  /\ p \in Files /\ p \in Paths /\ q = plan[p] /\ q # NoPath /\ q # p /\ q \in Paths
         /\ phase = "transpositions" /\ phase \in Phases /\ todo = {}
         /\ Ahead("transpositions", p) /\ Ahead(Due(p), p)
         /\ Due(p) \in {"transpositions", "cleanup"}
         /\ Redirected(p) <=> Due(p) = "cleanup"
         /\ out[q] = new[p] /\ Follow(out, q) = q /\ Entry(out, q) = q
         /\ old[p].kind # "link"
         /\ DOMAIN out = Paths
<1>1. /\ p \in Paths /\ phase = "transpositions" /\ phase \in Phases /\ todo = {} /\ Ahead("transpositions", p)
      /\ Due(p) \in {"transpositions", "cleanup"}
  BY PendingFacts DEF CommitInv, PhaseInv
<1>2. p \in Files /\ q = plan[p] /\ q # NoPath /\ q # p
  <2>1. p \in Files /\ plan[p] \notin {NoPath, p}
    BY <1>1, DueFacts
  <2>2. transpositions[p] = plan[p]
    BY <1>1, <2>1, ListFacts
  <2>3. QED
    BY <2>1, <2>2
<1>3. Redirected(p) <=> Due(p) = "cleanup"
  BY <1>1, ListFacts
<1>4. Ahead(Due(p), p)
  BY <1>1, AheadIs, PhasesAre DEF Rank
<1>5. out[q] = new[p]
  BY <1>1, <1>2, SourceThere DEF CommitInv
<1>6. Follow(out, q) = q /\ Entry(out, q) = q
  BY <1>1, <1>2, SourceReached DEF CommitInv
<1>7. q \in Paths /\ p \in DOMAIN plan
  BY <1>2, PlanFacts
<1>8. old[p].kind # "link"
  BY <1>2, <1>7 DEF Applicable, NoCopyOntoLink
<1>9. QED
  BY <1>1, <1>2, <1>3, <1>4, <1>5, <1>6, <1>7, <1>8 DEF CommitInv, Settled

LEMMA CopyCommit ==
  ASSUME RecordInv, FixedInv, CommitInv, Applicable, NEW p, Step("transpositions", p), UNCHANGED committing, UNCHANGED stage,
         NEW q, q = transpositions[p], Copy(p, q)
  PROVE  CommitInv'
<1>1. /\ p \in Files /\ p \in Paths /\ q # p
      /\ phase = "transpositions" /\ phase \in Phases /\ Ahead(Due(p), p)
      /\ Due(p) \in {"transpositions", "cleanup"}
      /\ Redirected(p) <=> Due(p) = "cleanup"
      /\ out[q] = new[p] /\ Follow(out, q) = q
      /\ old[p].kind # "link" /\ DOMAIN out = Paths
  BY TranspositionFinds
<1>2. Rank[phase] > 2
  BY <1>1 DEF Rank
<1>3. MkdirFor(out, p) = out /\ DirExists(out, p) /\ Follow(out, p) = p /\ CanWrite(out, p)
  BY <1>1, <1>2, DestinationClear DEF CommitInv
<1>4. CanRead(out, q) /\ File(Read(out, q)) = new[p]
  BY <1>1, FileFacts DEF CanRead, Read
<1>5. UNCHANGED patch /\ DOMAIN safe = Paths /\ DOMAIN stage = Paths
  BY DEF committing, CommitInv, SafeInv, StageInv
<1>6. CASE Redirected(p)
  <2>1. safe' = [safe EXCEPT ![p] = new[p]] /\ out' = out /\ Did(p)
    BY <1>3, <1>4, <1>6 DEF Copy
  <2>2. Settled'
    <3>1. Due(p) # "transpositions"
      BY <1>1, <1>6
    <3>2. QED
      BY <1>1, <1>5, <2>1, <3>1, PhasesAre, SettledStep DEF CommitInv
  <2>3. DOMAIN safe' = Paths /\ safe'[p] = new[p] /\ \A r \in Paths \ {p} : safe'[r] = safe[r]
    BY <1>1, <1>5, <2>1
  <2>4. QED
    BY <1>5, <2>1, <2>2, <2>3, StepCommit
<1>7. CASE ~Redirected(p)
  <2>1. out' = Write(out, p, Read(out, q)) /\ Did(p) /\ safe' = safe
    BY <1>1, <1>3, <1>4, <1>7 DEF Copy
  <2>2. out' = [out EXCEPT ![p] = new[p]]
    BY <1>3, <1>4, <2>1 DEF Write
  <2>3. Settled'
    <3>1. DOMAIN out' = Paths /\ out'[p] = new[p] /\ \A r \in Paths \ {p} : out'[r] = out[r]
      BY <1>1, <2>2
    <3>2. Due(p) = "transpositions"
      BY <1>1, <1>7
    <3>3. QED
      BY <1>1, <1>5, <2>1, <3>1, <3>2, PhasesAre, PutSettles DEF CommitInv
  <2>4. QED
    BY <1>1, <1>5, <1>7, <2>1, <2>3, StepCommit
<1>8. QED
  BY <1>6, <1>7

\* An old file is renamed away only when nothing else needs it.
LEMMA RenamedIsSpent ==
  ASSUME RecordInv, FixedInv, CommitInv, Applicable, NEW p, Step("transpositions", p), UNCHANGED patch, Did(p),
         NEW q, q = transpositions[p], Renames(p)
  PROVE  Ahead(Due(q), q)' /\ Gone(q)'
<1>1. /\ p \in Files /\ p \in Paths /\ q = plan[p] /\ q # NoPath /\ q # p /\ q \in Paths
      /\ phase = "transpositions" /\ phase \in Phases /\ todo = {}
  BY TranspositionFinds
<1>2. p \in Users(q) /\ Grouped(q) = Users(q) /\ (q \in overlayFiles <=> Due(q) = "overlays")
  BY <1>1, ListFacts DEF Users
<1>3. q \notin Users(q) /\ q \notin overlayFiles /\ pending \cap Users(q) = {p}
  BY <1>2 DEF Renames, KeepsOld, LastOfGroup
<1>4. old[q].kind = "file" /\ (q \in Files \/ new[q] = None)
  BY <1>1, SourceFacts
<1>5. q \in Files => plan[q] # q
  BY <1>3 DEF Users
<1>6. ~(q \in Files /\ plan[q] = NoPath)
  BY <1>1, <1>2, <1>3, <1>4, DueFacts
<1>7. Due(q) \in {"ghosts", "cleanup"}
  <2>1. CASE q \in Files
    BY <1>1, <1>2, <1>5, <1>6, <2>1, DueFacts
  <2>2. CASE new[q] = None
    BY <1>1, <2>2, DueFacts
  <2>3. QED
    BY <1>4, <2>1, <2>2
<1>8. new' = new /\ old' = old /\ plan' = plan /\ phase' = phase /\ pending' = pending \ {p}
  BY DEF patch, Did
<1>9. Due(q)' = Due(q) /\ Users(q)' = Users(q) /\ Files' = Files
  BY <1>8 DEF Due, Users, Files, Kind
<1>10. Ahead(Due(q), q)'
  <2>1. \A k \in Phases : Ahead(k, q)' <=> Ahead(k, q) /\ ~(k = "transpositions" /\ q = p)
    BY <1>1, StepAhead
  <2>2. Ahead("ghosts", q) /\ Ahead("cleanup", q)
    BY <1>1, AheadIs, PhasesAre DEF Rank
  <2>3. Ahead("ghosts", q)' /\ Ahead("cleanup", q)'
    BY <2>1, <2>2, PhasesAre
  <2>4. QED
    BY <1>7, <1>9, <2>3
<1>11. Spent(q)'
  <2>1. ASSUME NEW r \in Users(q) PROVE ~Ahead("transpositions", r)'
    <3>1. r \notin pending \/ r = p
      BY <1>3
    <3>2. ~(Ahead("transpositions", r) /\ r # p)
      BY <1>1, <3>1, AheadIs, PhasesAre
    <3>3. QED
      BY <1>1, <3>2, StepAhead, PhasesAre
  <2>2. QED
    BY <1>2, <1>3, <1>6, <1>8, <1>9, <2>1 DEF Spent
<1>12. QED
  BY <1>10, <1>11 DEF Gone

LEMMA RenameCommit ==
  ASSUME RecordInv, FixedInv, CommitInv, Applicable, NEW p, Step("transpositions", p), UNCHANGED committing, UNCHANGED stage,
         NEW q, q = transpositions[p], Renames(p), Move(p, q)
  PROVE  CommitInv'
<1>1. /\ p \in Files /\ p \in Paths /\ q # p /\ q \in Paths /\ q = plan[p] /\ q # NoPath
      /\ phase = "transpositions" /\ phase \in Phases /\ Ahead(Due(p), p)
      /\ Due(p) \in {"transpositions", "cleanup"}
      /\ Redirected(p) <=> Due(p) = "cleanup"
      /\ out[q] = new[p] /\ Entry(out, q) = q
      /\ old[p].kind # "link" /\ DOMAIN out = Paths
  BY TranspositionFinds
<1>2. Rank[phase] > 2
  BY <1>1 DEF Rank
<1>3. /\ MkdirFor(out, p) = out /\ DirExists(out, p) /\ Entry(out, p) = p /\ CanRemove(out, p)
      /\ Cleared(p) = [out EXCEPT ![p] = None]
      /\ DirExists(Cleared(p), p) /\ Entry(Cleared(p), p) = p
  BY <1>1, <1>2, DestinationClear DEF CommitInv
<1>4. /\ old[q].kind = "file" /\ p \notin Inside(q) /\ (q \in Files \/ new[q] = None)
      /\ Len(q) = 2 => new[<<q[1]>>] \in {None, Dir}
  BY <1>1, SourceFacts
<1>5. new[p] # None /\ new[p] # Dir
  <2>1. new[p].kind = "file" /\ None.kind = "none" /\ Dir.kind = "dir"
    BY <1>1, FileFacts DEF None, Dir
  <2>2. QED
    BY <2>1
<1>6. UNCHANGED patch /\ DOMAIN safe = Paths /\ DOMAIN stage = Paths
  BY DEF committing, CommitInv, SafeInv, StageInv
<1>7. ASSUME NEW r \in Inside(q) PROVE out[r] = None
  <2>1. r \in Paths /\ Len(r) = 2 /\ q = <<r[1]>>
    BY <1>1, InsideIs
  <2>2. old[r] = None /\ new[r] = None
    <3>1. old[q] # Dir
      BY <1>4 DEF Dir
    <3>2. new[q] # Dir
      BY <1>4, FileFacts DEF Dir, None
    <3>3. QED
      BY <2>1, <3>1, <3>2, BuildFacts DEF FixedInv
  <2>3. QED
    BY <2>1, <2>2 DEF CommitInv, Settled, SettledAt
<1>8. CASE Redirected(p)
  <2>1. CanRename(out, q, p)
    BY <1>1, <1>3, <1>4, <1>5 DEF CanRename
  <2>2. safe' = [safe EXCEPT ![p] = new[p]] /\ out' = RemoveAll(out, q) /\ Did(p)
    BY <1>1, <1>3, <1>8, <2>1 DEF Move
  <2>3. DOMAIN out' = Paths /\ out'[q] = None /\ \A r \in Paths \ {q} : out'[r] = out[r]
    BY <1>1, <1>7, <2>2 DEF RemoveAll
  <2>4. Settled'
    <3>1. Due(p) # "transpositions"
      BY <1>1, <1>8
    <3>2. Ahead(Due(q), q)' /\ Gone(q)'
      BY <1>6, <2>2, RenamedIsSpent
    <3>3. Due(q)' = Due(q)
      BY <1>6 DEF Due, Users, Files, Kind, patch
    <3>4. ASSUME NEW r \in Paths
          PROVE \/ ~(r = p /\ Due(p) = "transpositions") /\ out'[r] = out[r]
                \/ out'[r] = None /\ IF Ahead(Due(r), r)' THEN Gone(r)' ELSE new[r] = None
      BY <2>3, <3>1, <3>2, <3>3
    <3>5. QED
      BY <1>1, <1>6, <2>2, <2>3, <3>4, PhasesAre, SettledStep DEF CommitInv
  <2>5. DOMAIN safe' = Paths /\ safe'[p] = new[p] /\ \A r \in Paths \ {p} : safe'[r] = safe[r]
    BY <1>1, <1>6, <2>2
  <2>6. QED
    BY <1>6, <2>2, <2>4, <2>5, StepCommit
<1>9. CASE ~Redirected(p)
  <2> DEFINE t == Cleared(p)
  <2>1. t[q] = new[p] /\ DOMAIN t = Paths /\ \A r \in Paths \ {p} : t[r] = out[r]
    BY <1>1, <1>3
  <2>2. Entry(t, q) = q
    <3>1. CASE Len(q) = 2
      <4>1. <<q[1]>> # p /\ <<q[1]>> \in Paths
        <5>1. new[p] \notin {None, Dir}
          BY <1>5
        <5>2. new[<<q[1]>>] \in {None, Dir}
          BY <1>4, <3>1
        <5>3. QED
          BY <1>1, <3>1, <5>1, <5>2, PathFacts
      <4>2. t[<<q[1]>>] = out[<<q[1]>>]
        BY <2>1, <4>1
      <4>3. t[q] = out[q]
        BY <1>1, <2>1
      <4>4. Follow(t, q) = Follow(out, q)
        <5>1. out[<<q[1]>>] = Dir
          <6>1. old[<<q[1]>>] = Dir
            BY <1>1, <3>1, SourceFacts
          <6>2. ~Ahead("dirs", <<q[1]>>) /\ Ahead("ghosts", <<q[1]>>)
            BY <1>1, AheadIs, PhasesAre DEF Rank
          <6>3. QED
            BY <1>4, <3>1, <4>1, <6>1, <6>2, DirThere DEF CommitInv
        <5>2. QED
          BY <1>1, <4>2, <5>1 DEF Follow, Resolve, Hop, Dir
      <4>5. QED
        BY <1>1, <3>1, <4>4 DEF Entry
    <3>2. CASE Len(q) # 2
      BY <3>2 DEF Entry
    <3>3. QED
      BY <3>1, <3>2
  <2>3. CanRename(t, q, p)
    BY <1>3, <1>4, <1>5, <2>1, <2>2 DEF CanRename
  <2>4. out' = Rename(t, q, p) /\ Did(p) /\ safe' = safe
    BY <1>3, <1>9, <2>3 DEF Move
  <2>5. Entry(t, p) = p
    BY <1>3
  <2> HIDE DEF t
  <2>6. DOMAIN out' = Paths /\ out'[p] = new[p] /\ out'[q] = None /\ \A r \in Paths \ {p, q} : out'[r] = out[r]
    <3>1. DOMAIN out' = Paths
      BY <2>4 DEF Rename
    <3>2. ASSUME NEW r \in Paths
          PROVE out'[r] = IF r = p THEN t[q] ELSE IF r = q THEN None ELSE t[r]
      <4>1. t[q] # Dir
        BY <1>5, <2>1
      <4>2. out'[r] = CASE r = p -> t[q]
                        [] r # p /\ r = q -> None
                        [] OTHER -> t[r]
        BY <2>2, <2>4, <2>5, <4>1 DEF Rename
      <4>3. QED
        BY <4>2
    <3>3. QED
      BY <1>1, <2>1, <3>1, <3>2
  <2>7. Settled'
    <3>1. Due(p) = "transpositions"
      BY <1>1, <1>9
    <3>2. Ahead(Due(q), q)' /\ Gone(q)'
      BY <1>6, <2>4, RenamedIsSpent
    <3>3. Due(q)' = Due(q)
      BY <1>6 DEF Due, Users, Files, Kind, patch
    <3>4. ASSUME NEW r \in Paths
          PROVE \/ r = p /\ Due(p) = "transpositions" /\ out'[r] = new[r]
                \/ ~(r = p /\ Due(p) = "transpositions") /\ out'[r] = out[r]
                \/ out'[r] = None /\ IF Ahead(Due(r), r)' THEN Gone(r)' ELSE new[r] = None
      BY <2>6, <3>1, <3>2, <3>3
    <3>5. QED
      BY <1>1, <1>6, <2>4, <2>6, <3>4, PhasesAre, SettledStep DEF CommitInv
  <2>8. QED
    BY <1>1, <1>6, <1>9, <2>4, <2>7, StepCommit
<1>10. QED
  BY <1>8, <1>9

LEMMA TranspositionCommit ==
  ASSUME RecordInv, FixedInv, CommitInv, Applicable, NEW p, ApplyTransposition(p)
  PROVE  CommitInv'
<1>1. /\ Step("transpositions", p) /\ UNCHANGED committing /\ UNCHANGED stage
      /\ IF Renames(p) THEN Move(p, transpositions[p]) ELSE Copy(p, transpositions[p])
  BY DEF ApplyTransposition
<1>2. CASE Renames(p)
  BY <1>1, <1>2, RenameCommit
<1>3. CASE ~Renames(p)
  BY <1>1, <1>3, CopyCommit
<1>4. QED
  BY <1>2, <1>3

\* An overlay turns the file it was made against into the one it was made for.
LEMMA OverlayWorks ==
  ASSUME NEW d \in Contents, NEW base \in Contents
  PROVE  PatchOverlay(OverlayOf(base, d), base) = d
<1> DEFINE ops == OverlayOf(base, d)
<1>1. /\ d = [i \in 1 .. Len(d) |-> d[i]] /\ DOMAIN d = 1 .. Len(d)
      /\ \A i \in DOMAIN d : d[i] \in Chunk
  BY DEF Contents
<1>2. DOMAIN ops = DOMAIN d /\ \A i \in DOMAIN d : ops[i] = IF i \in DOMAIN base /\ base[i] = d[i] THEN Skip ELSE d[i]
  BY DEF OverlayOf
<1>3. \A i \in DOMAIN d : d[i] # Skip
  BY <1>1, ChunkAssumption
<1> HIDE DEF ops
<1>4. PatchOverlay(ops, base) = [i \in DOMAIN d |-> d[i]]
  BY <1>2, <1>3 DEF PatchOverlay
<1>5. QED
  BY <1>1, <1>4 DEF ops

LEMMA OverlayCommit ==
  ASSUME RecordInv, FixedInv, CommitInv, Applicable, NEW p, ApplyOverlay(p)
  PROVE  CommitInv'
<1>1. Step("overlays", p) /\ UNCHANGED committing /\ UNCHANGED patch /\ UNCHANGED <<stage, safe>>
  BY DEF ApplyOverlay, committing
<1>2. /\ p \in Paths /\ phase = "overlays" /\ phase \in Phases /\ phase # "failed" /\ todo = {}
      /\ Ahead("overlays", p) /\ Due(p) = "overlays"
  BY <1>1, PendingFacts DEF CommitInv, PhaseInv
<1>3. p \in Files /\ plan[p] = NoPath /\ old[p].kind = "file" /\ p \in overlayFiles
  BY <1>2, DueFacts, ListFacts
<1>4. new[p] = File(new[p].data) /\ new[p].data \in Contents
  BY <1>3, FileFacts
<1>5. old[p] = File(old[p].data) /\ old[p].data \in Contents
  BY <1>2, <1>3, BuildFacts, NodeFacts DEF FixedInv
<1>6. out[p] = old[p] /\ DOMAIN out = Paths
  <2>1. ~Spent(p)
    BY <1>3 DEF Spent
  <2>2. ~Buried(p)
    BY <1>3, FileFacts DEF Buried, Dir
  <2>3. ~Swept(p)
    BY <1>2 DEF Swept
  <2>4. QED
    BY <1>2, <2>1, <2>2, <2>3 DEF CommitInv, Settled, SettledAt, Gone
<1>7. Follow(out, p) = p
  <2>1. Rank[phase] > 2
    BY <1>2 DEF Rank
  <2>2. QED
    BY <1>2, <1>3, <2>1, DestinationClear DEF CommitInv
<1>8. stage[p].data = OverlayOf(old[p].data, new[p].data)
  <2>1. stage[p] = File(OverlayOf(old[p].data, new[p].data))
    BY <1>2, <1>3 DEF CommitInv, StageInv, StagedFor
  <2>2. QED
    BY <2>1 DEF File
<1>9. CanRead(out, p) /\ Read(out, p) = old[p].data
  BY <1>3, <1>6, <1>7 DEF CanRead, Read
<1>10. out' = [out EXCEPT ![p] = new[p]] /\ Did(p)
  <2>1. out' = Write(out, p, PatchOverlay(stage[p].data, old[p].data)) /\ Did(p)
    BY <1>9 DEF ApplyOverlay
  <2>2. PatchOverlay(stage[p].data, old[p].data) = new[p].data
    BY <1>4, <1>5, <1>8, OverlayWorks
  <2>3. QED
    BY <1>4, <1>7, <2>1, <2>2 DEF Write
<1>11. Settled'
  <2>1. DOMAIN out' = Paths /\ out'[p] = new[p] /\ \A r \in Paths \ {p} : out'[r] = out[r]
    BY <1>2, <1>6, <1>10
  <2>2. QED
    BY <1>1, <1>2, <1>10, <2>1, PutSettles DEF CommitInv
<1>12. QED
  BY <1>1, <1>2, <1>10, <1>11, StepCommit DEF CommitInv, SafeInv, StageInv

\* What a removed entry of a directory that became a link is looked up as, when
\* ghosts are deleted.
LEMMA GhostThroughLink ==
  ASSUME FixedInv, Applicable, Settled, phase = "ghosts", NEW p \in Paths, Len(p) = 2, old[p] # None,
         new[<<p[1]>>].kind = "link", NEW e, e = Follow(out, p)
  PROVE  Len(e) = 2 /\ (e \in Paths => new[e] = None)
<1>1. phase \in Phases /\ <<p[1]>> \in Paths
  BY PhasesAre, PathFacts
<1>2. \A r \in Paths : IF new[r] = None THEN out[r] \in {old[r], None} ELSE out[r] = new[r]
  <2>1. \A r \in Paths : new[r] # None => ~Ahead(Due(r), r)
    <3> SUFFICES ASSUME NEW r \in Paths, new[r] # None PROVE ~Ahead(Due(r), r)
      OBVIOUS
    <3>1. Due(r) \in Phases \ {"done", "ghosts"}
      BY DueFacts
    <3>2. QED
      BY <1>1, <3>1, AheadIs, PhasesAre DEF Rank
  <2>2. QED
    BY <2>1 DEF Settled, SettledAt
<1> DEFINE n == new[<<p[1]>>].to
<1>3. new[<<p[1]>>] # None /\ n \in Top
  BY <1>1, NodeFacts, BuildFacts DEF FixedInv, None
<1>4. out[<<p[1]>>] = new[<<p[1]>>] /\ WithGhosts[<<p[1]>>] = new[<<p[1]>>]
  BY <1>1, <1>2, <1>3 DEF WithGhosts
<1>5. <<n>> \in Paths
  BY <1>3 DEF Paths
<1> HIDE DEF n
<1>6. Hop(out, p[1]) = n /\ Hop(new, p[1]) = n /\ Hop(WithGhosts, p[1]) = n
  BY <1>4 DEF Hop, n
<1>7. Hop(out, n) \in {Hop(new, n), Hop(WithGhosts, n)}
  <2>1. CASE new[<<n>>] # None
    BY <1>2, <1>5, <2>1 DEF Hop
  <2>2. CASE new[<<n>>] = None
    <3>1. WithGhosts[<<n>>] = old[<<n>>]
      BY <1>5, <2>2 DEF WithGhosts
    <3>2. out[<<n>>] \in {old[<<n>>], new[<<n>>]}
      BY <1>2, <1>5, <2>2
    <3>3. QED
      BY <3>1, <3>2 DEF Hop
  <2>3. QED
    BY <2>1, <2>2
<1>8. e \in {Follow(new, p), Follow(WithGhosts, p)}
  BY <1>6, <1>7 DEF Follow, Resolve
<1>9. Len(e) = 2
  <2>1. p = <<p[1], p[2]>>
    BY PathFacts
  <2>2. e = <<Resolve(out, p[1]), p[2]>>
    BY <2>1 DEF Follow
  <2>3. QED
    BY <2>2
<1>10. \A t \in {new, WithGhosts} : new[Follow(t, p)] = None
  <2>1. <<p[1]>> \in Kind(new, "link")
    BY <1>1 DEF Kind
  <2>2. p \in Inside(<<p[1]>>)
    BY <1>1 DEF Inside
  <2>3. QED
    BY <2>1, <2>2 DEF Applicable, NoLinkOverDir
<1>11. QED
  BY <1>8, <1>9, <1>10

\* A ghost is always deleted, and never a new entry with it.
LEMMA GhostCommit ==
  ASSUME RecordInv, FixedInv, CommitInv, Applicable, NEW p, DeleteGhost(p)
  PROVE  CommitInv'
<1>1. Step("ghosts", p) /\ UNCHANGED committing /\ UNCHANGED patch /\ UNCHANGED <<stage, safe>> /\ Inside(p) \cap pending = {}
  BY DEF DeleteGhost, committing
<1>2. /\ p \in Paths /\ phase = "ghosts" /\ phase \in Phases /\ phase # "failed" /\ todo = {}
      /\ Ahead("ghosts", p) /\ Due(p) = "ghosts" /\ old[p] # None /\ new[p] = None /\ p \in pending
  BY <1>1, PendingFacts, DueFacts DEF CommitInv, PhaseInv, Step
<1>3. Settled /\ DOMAIN out = Paths /\ SettledAt(p) /\ LinkedAt(p)
  BY <1>2 DEF CommitInv, Settled
<1>4. ASSUME CanRemove(out, p) PROVE out' = Remove(out, p) /\ Did(p)
  BY <1>4 DEF DeleteGhost
<1>5. CASE Entry(out, p) = p /\ CanRemove(out, p)
  <2>1. DOMAIN out' = Paths /\ out'[p] = new[p] /\ \A r \in Paths \ {p} : out'[r] = out[r]
    BY <1>2, <1>3, <1>4, <1>5 DEF Remove
  <2>2. Settled'
    BY <1>1, <1>2, <1>3, <1>4, <1>5, <2>1, PutSettles
  <2>3. QED
    BY <1>1, <1>2, <1>4, <1>5, <2>2, StepCommit DEF CommitInv, SafeInv, StageInv
<1>6. CASE Len(p) # 2
  <2>1. Entry(out, p) = p
    BY <1>6 DEF Entry
  <2>2. ASSUME NEW q \in Inside(p) PROVE out[q] = None
    <3>1. q \in Paths /\ Len(q) = 2 /\ p = <<q[1]>>
      BY <1>2, InsideIs
    <3>2. new[q] = None
      BY <1>2, <3>1, BuildFacts DEF FixedInv, None, Dir
    <3>3. Due(q) = "ghosts" /\ ~Ahead("ghosts", q)
      BY <1>1, <1>2, <3>1, <3>2, DueFacts, AheadIs, PhasesAre
    <3>4. QED
      BY <1>3, <3>1, <3>2, <3>3 DEF Settled, SettledAt
  <2>3. CanRemove(out, p)
    BY <2>2 DEF CanRemove
  <2>4. QED
    BY <1>5, <2>1, <2>3
<1>7. CASE Len(p) = 2
  <2> DEFINE r == <<p[1]>>
  <2>1. r \in Paths /\ r # p /\ old[r] = Dir /\ new[r] \in Node
    BY <1>2, <1>7, PathFacts, BuildFacts DEF FixedInv
  <2>2. new[r].kind \in {"none", "dir", "link", "file"} /\ (new[r].kind = "none" => new[r] = None) /\ (new[r].kind = "dir" => new[r] = Dir)
    BY <2>1, NodeFacts
  <2>3. new[r].kind # "file"
    <3>1. new[r].kind = "file" => r \in Kind(new, "file")
      BY <2>1 DEF Kind
    <3>2. QED
      BY <2>1, <3>1 DEF Applicable, NoFileOverDir
  <2>4. CASE new[r] \in {None, Dir}
    <3>1. out[r] = Dir
      <4>1. CASE new[r] = Dir
        <5>1. ~Ahead("dirs", r)
          BY <1>2, AheadIs, PhasesAre DEF Rank
        <5>2. QED
          BY <1>3, <2>1, <4>1, <5>1, DirThere
      <4>2. CASE new[r] = None
        <5>1. r \in Ghosts
          BY <2>1, <4>2 DEF Ghosts, Dir, None
        <5>2. r \in pending
          BY <1>2, <1>7, <5>1 DEF CommitInv, GhostOrder
        <5>3. Ahead("ghosts", r)
          BY <1>2, <5>2 DEF Ahead
        <5>4. QED
          BY <1>3, <2>1, <4>2, <5>3, DirThere
      <4>3. QED
        BY <2>4, <4>1, <4>2
    <3>2. out[p].kind \in {"none", "file"}
      <4>1. old[p].kind \in {"none", "file"}
        BY <1>2, <1>7, BuildFacts DEF FixedInv
      <4>2. out[p] \in {old[p], None}
        BY <1>2, <1>3 DEF SettledAt
      <4>3. QED
        BY <4>1, <4>2 DEF None
    <3>3. Entry(out, p) = p
      BY <1>2, <3>1, <3>2, NoLinkFollowed DEF Dir
    <3>4. CanRemove(out, p)
      BY <3>2, <3>3 DEF CanRemove, Dir
    <3>5. QED
      BY <1>5, <3>3, <3>4
  <2>5. CASE new[r].kind = "link"
    <3>1. PICK e : e = Follow(out, p)
      OBVIOUS
    <3>2. Len(e) = 2 /\ (e \in Paths => new[e] = None)
      BY <3>1, <1>2, <1>3, <1>7, <2>5, GhostThroughLink
    <3>3. Entry(out, p) = e
      BY <1>7, <3>1 DEF Entry
    <3>4. out[p] = None
      <4>1. Buried(p) /\ ~Ahead("symlinks", r)
        BY <1>2, <1>7, <2>5, AheadIs, PhasesAre DEF Rank, Buried
      <4>2. QED
        BY <1>3, <4>1 DEF LinkedAt
    <3>5. CASE CanRemove(out, p)
      <4>1. out' = [out EXCEPT ![e] = None] /\ Did(p)
        BY <1>4, <3>3, <3>5 DEF Remove
      <4>2. DOMAIN out' = Paths /\ out'[p] = new[p] /\ \A q \in Paths : q # e => out'[q] = out[q]
        BY <1>2, <1>3, <3>4, <4>1
      <4>3. e \in Paths => out'[e] = None
        BY <1>3, <4>1
      <4>4. ASSUME e \in Paths, Ahead(Due(e), e)' PROVE Gone(e)'
        BY <1>1, <1>2, <3>2, <4>1, <4>4 DEF Gone, Swept, Did, patch
      <4>5. ASSUME NEW q \in Paths
            PROVE  \/ q = p /\ Due(p) = "ghosts" /\ out'[q] = new[q]
                   \/ ~(q = p /\ Due(p) = "ghosts") /\ out'[q] = out[q]
                   \/ out'[q] = None /\ IF Ahead(Due(q), q)' THEN Gone(q)' ELSE new[q] = None
        <5>1. CASE q = p
          BY <1>2, <4>2, <5>1
        <5>2. CASE q # p /\ q # e
          BY <4>2, <5>2
        <5>3. CASE q # p /\ q = e
          <6>1. out'[q] = None /\ new[q] = None
            BY <3>2, <4>3, <5>3
          <6>2. Ahead(Due(q), q)' => Gone(q)'
            BY <4>4, <5>3
          <6>3. QED
            BY <6>1, <6>2
        <5>4. QED
          BY <5>1, <5>2, <5>3
      <4>6. Settled'
        BY <1>1, <1>2, <1>3, <4>1, <4>2, <4>5, PhasesAre, SettledStep
      <4>7. QED
        BY <1>1, <1>2, <4>1, <4>6, StepCommit DEF CommitInv, SafeInv, StageInv
    <3>6. CASE ~CanRemove(out, p)
      <4>1. old[p] # Dir
        <5>1. old[p].kind # "dir"
          BY <1>2, <1>7, BuildFacts DEF FixedInv
        <5>2. QED
          BY <5>1 DEF Dir
      <4>2. \A q \in Inside(p) : FALSE
        BY <1>7 DEF Inside
      <4>3. QED
        BY <3>6, <4>2 DEF CanRemove
    <3>7. QED
      BY <3>5, <3>6
  <2>6. QED
    BY <2>2, <2>3, <2>4, <2>5
<1>8. QED
  BY <1>6, <1>7

-----------------------------------------------------------------------------
(* From the patch to the last phase                                         *)

\* Before Commit, every path holds its old entry; those that stay are right already.
LEMMA PatchSettled ==
  ASSUME FixedInv, phase = "patch", pending = {}, out = old
  PROVE  Settled
<1>1. DOMAIN out = Paths
  BY DEF FixedInv, Build, Tree
<1>2. phase \in Phases
  BY PhasesAre
<1>3. ASSUME NEW p \in Paths PROVE SettledAt(p)
  <2>1. CASE Due(p) = "patch"
    <3>1. p \in Files /\ plan[p] = p /\ p # NoPath
      BY <2>1, DueFacts, PathFacts
    <3>2. old[p] = new[p]
      BY <3>1, PlanFacts
    <3>3. QED
      BY <3>2 DEF SettledAt
  <2>2. CASE Due(p) # "patch"
    <3>1. Due(p) \in Phases \ {"done", "patch"}
      BY <2>2, DueFacts
    <3>2. Ahead(Due(p), p)
      BY <1>2, <3>1, AheadIs, PhasesAre DEF Rank
    <3>3. QED
      BY <3>2 DEF SettledAt
  <2>3. QED
    BY <2>1, <2>2
<1>4. ASSUME NEW p \in Paths PROVE LinkedAt(p)
  BY <1>2, AheadIs, PhasesAre DEF Rank, LinkedAt
<1>5. QED
  BY <1>1, <1>3, <1>4 DEF Settled

\* A step that leaves the folders and the phase alone leaves Settled and SafeInv so.
LEMMA SettledSame ==
  ASSUME UNCHANGED <<patch, out, safe, phase, pending>>
  PROVE  (Settled => Settled') /\ (SafeInv => SafeInv')
<1>1. UNCHANGED <<old, new, plan, out, safe, phase, pending>>
  BY DEF patch
<1>2. \A k, r : Ahead(k, r)' <=> Ahead(k, r)
  BY <1>1 DEF Ahead, Before
<1>3. Files' = Files /\ \A p : Users(p)' = Users(p) /\ Due(p)' = Due(p)
  BY <1>1 DEF Due, Users, Files, Kind
<1>4. \A p : Gone(p)' <=> Gone(p)
  BY <1>1, <1>2, <1>3 DEF Gone, Spent, Buried, Swept
<1>5. \A p : (SettledAt(p)' <=> SettledAt(p)) /\ (LinkedAt(p)' <=> LinkedAt(p))
  BY <1>1, <1>2, <1>3, <1>4 DEF SettledAt, LinkedAt, Buried
<1>6. QED
  BY <1>1, <1>2, <1>3, <1>5 DEF Settled, SafeInv

LEMMA SettledInit ==
  ASSUME Init
  PROVE  FixedInv /\ (Committable => CommitInv)
<1>1. FixedInv
  BY UpgradesAssumption DEF Init, FixedInv
<1>2. ASSUME Committable PROVE CommitInv
  <2>1. phase = "patch" /\ phase \in Phases /\ pending = {} /\ out = old
    BY <1>2, PhasesAre DEF Init, Committable
  <2>2. PhaseInv
    BY <2>1 DEF PhaseInv, OrderInv
  <2>3. Settled
    BY <1>1, <2>1, PatchSettled
  <2>4. SafeInv
    <3>1. \A p : Ahead("transpositions", p)
      BY <2>1, AheadIs, PhasesAre DEF Rank
    <3>2. QED
      BY <3>1 DEF Init, Empty, SafeInv
  <2>5. StageInv
    BY DEF Init, Empty, StageInv, StagedFor
  <2>6. GhostOrder
    BY <2>1 DEF GhostOrder
  <2>7. QED
    BY <2>2, <2>3, <2>4, <2>5, <2>6 DEF CommitInv
<1>3. QED
  BY <1>1, <1>2

\* While patching, only the staging folder and the lists change.
LEMMA PatchCommit ==
  ASSUME FixedInv, CommitInv, phase = "patch", UNCHANGED <<patch, out, safe, phase, pending>>,
         DOMAIN stage' = Paths, (StagedFor(overlayFiles, moveFiles))',
         (StagedFor(checkpoint.overlayFiles, checkpoint.moveFiles))'
  PROVE  CommitInv'
<1>1. PhaseInv'
  BY DEF CommitInv, PhaseInv, OrderInv, patch
<1>2. Settled' /\ SafeInv'
  BY SettledSame DEF CommitInv
<1>3. StageInv'
  BY DEF StageInv
<1>4. GhostOrder'
  BY DEF GhostOrder
<1>5. QED
  BY <1>1, <1>2, <1>3, <1>4 DEF CommitInv

LEMMA StagedSame ==
  ASSUME UNCHANGED <<old, new, phase, pending, stage>>, NEW o, NEW m, StagedFor(o, m)
  PROVE  /\ \A r \in o : Ahead("overlays", r)' => stage'[r] = File(OverlayOf(old[r].data, new[r].data))'
         /\ \A r \in m : Ahead("moves", r)' => stage'[r] = new'[r]
  BY SameAhead DEF StagedFor

LEMMA TransposeCommit ==
  ASSUME RecordInv, FixedInv, CommitInv, NEW p, Transpose(p)
  PROVE  CommitInv'
<1>1. /\ phase = "patch" /\ UNCHANGED <<patch, out, safe, phase, pending>>
      /\ UNCHANGED <<old, new, phase, pending, stage, overlayFiles, moveFiles, checkpoint>>
  BY DEF Transpose, patch
<1>2. (StagedFor(overlayFiles, moveFiles))' /\ (StagedFor(checkpoint.overlayFiles, checkpoint.moveFiles))'
  BY <1>1, SameAhead DEF StagedFor, CommitInv, StageInv
<1>3. QED
  BY <1>1, <1>2, PatchCommit DEF CommitInv, StageInv

LEMMA SaveCommit ==
  ASSUME RecordInv, FixedInv, CommitInv, Save
  PROVE  CommitInv'
<1>1. /\ phase = "patch" /\ UNCHANGED <<patch, out, safe, phase, pending>>
      /\ UNCHANGED <<old, new, phase, pending, stage, overlayFiles, moveFiles>>
      /\ checkpoint'.overlayFiles = overlayFiles /\ checkpoint'.moveFiles = moveFiles
  BY DEF Save, patch, lists
<1>2. (StagedFor(overlayFiles, moveFiles))' /\ (StagedFor(checkpoint.overlayFiles, checkpoint.moveFiles))'
  BY <1>1, SameAhead DEF StagedFor, CommitInv, StageInv
<1>3. QED
  BY <1>1, <1>2, PatchCommit DEF CommitInv, StageInv

LEMMA ResumeCommit ==
  ASSUME RecordInv, FixedInv, CommitInv, CrashResume
  PROVE  CommitInv'
<1>1. /\ phase = "patch" /\ UNCHANGED <<patch, out, safe, phase, pending>>
      /\ UNCHANGED <<old, new, phase, pending, stage, checkpoint>>
      /\ overlayFiles' = checkpoint.overlayFiles /\ moveFiles' = checkpoint.moveFiles
  BY DEF CrashResume, patch
<1>2. (StagedFor(overlayFiles, moveFiles))' /\ (StagedFor(checkpoint.overlayFiles, checkpoint.moveFiles))'
  BY <1>1, SameAhead DEF StagedFor, CommitInv, StageInv
<1>3. QED
  BY <1>1, <1>2, PatchCommit DEF CommitInv, StageInv

\* The old file an overlay is made against is there, at its own path.
LEMMA WriteEntryCommit ==
  ASSUME RecordInv, FixedInv, CommitInv, Applicable, NEW p, WriteEntry(p)
  PROVE  CommitInv'
<1>1. phase = "patch" /\ p \in todo /\ plan[p] = NoPath /\ UNCHANGED <<patch, out, safe, pending, checkpoint>>
      /\ UNCHANGED <<old, new>>
  BY DEF WriteEntry, patch
<1>2. /\ Records(transpositions, overlayFiles, moveFiles, todo)
      /\ Records(checkpoint.transpositions, checkpoint.overlayFiles, checkpoint.moveFiles, checkpoint.todo)
  BY <1>1 DEF RecordInv
<1>3. p \in Files /\ p \in Paths /\ DOMAIN stage = Paths
  BY <1>1, <1>2, FilesArePaths DEF Records, CommitInv, StageInv
<1>4. out = old
  BY <1>1 DEF CommitInv, PhaseInv, OrderInv
<1>5. StagedFor(overlayFiles, moveFiles) /\ StagedFor(checkpoint.overlayFiles, checkpoint.moveFiles)
  BY <1>1 DEF CommitInv, StageInv
<1>6. /\ p \in overlayFiles \cup checkpoint.overlayFiles => old[p].kind = "file"
      /\ p \in moveFiles \cup checkpoint.moveFiles => old[p].kind # "file"
  BY <1>1, <1>2, <1>3 DEF Records
<1>7. CASE old[p].kind = "file"
  <2>1. Follow(out, p) = p
    <3>1. Len(p) = 2 => old[<<p[1]>>].kind # "link"
      <4> SUFFICES ASSUME Len(p) = 2 PROVE old[<<p[1]>>].kind # "link"
        OBVIOUS
      <4>1. old[p] # None
        BY <1>7 DEF None
      <4>2. old[<<p[1]>>] = Dir
        BY <1>3, <4>1, BuildFacts DEF FixedInv
      <4>3. QED
        BY <4>2 DEF Dir
    <3>2. QED
      BY <1>3, <1>4, <1>7, <3>1, NoLinkFollowed
  <2>2. CanRead(out, p) /\ Read(out, p) = old[p].data
    BY <1>4, <1>7, <2>1 DEF CanRead, Read
  <2>3. /\ stage' = [stage EXCEPT ![p] = File(OverlayOf(old[p].data, new[p].data))]
        /\ overlayFiles' = overlayFiles \cup {p} /\ moveFiles' = moveFiles /\ phase' = phase
    BY <1>7, <2>2 DEF WriteEntry
  <2>4. /\ stage'[p] = File(OverlayOf(old[p].data, new[p].data))
        /\ \A r : r # p => stage'[r] = stage[r]
        /\ DOMAIN stage' = Paths
    BY <1>3, <2>3
  <2>5. (StagedFor(overlayFiles, moveFiles))' /\ (StagedFor(checkpoint.overlayFiles, checkpoint.moveFiles))'
    BY <1>1, <1>5, <1>6, <1>7, <2>3, <2>4, SameAhead DEF StagedFor
  <2>6. QED
    BY <1>1, <2>3, <2>4, <2>5, PatchCommit
<1>8. CASE old[p].kind # "file"
  <2>1. /\ stage' = [stage EXCEPT ![p] = new[p]]
        /\ moveFiles' = moveFiles \cup {p} /\ overlayFiles' = overlayFiles /\ phase' = phase
    BY <1>8 DEF WriteEntry
  <2>2. /\ stage'[p] = new[p]
        /\ \A r : r # p => stage'[r] = stage[r]
        /\ DOMAIN stage' = Paths
    BY <1>3, <2>1
  <2>3. (StagedFor(overlayFiles, moveFiles))' /\ (StagedFor(checkpoint.overlayFiles, checkpoint.moveFiles))'
    BY <1>1, <1>5, <1>6, <1>8, <2>1, <2>2, SameAhead DEF StagedFor
  <2>4. QED
    BY <1>1, <2>1, <2>2, <2>3, PatchCommit
<1>9. QED
  BY <1>7, <1>8

\* A new phase starts with everything it is due to do.
LEMMA NextPhaseCommit ==
  ASSUME RecordInv, FixedInv, CommitInv, NextPhase
  PROVE  CommitInv'
<1>1. /\ phase \in DOMAIN NextPhaseOf /\ todo = {} /\ pending = {} /\ phase # "failed" /\ PhaseInv /\ OrderInv
      /\ phase' = NextPhaseOf[phase] /\ pending' = WorkOf(phase')
      /\ UNCHANGED <<old, new, plan, out, stage, safe, transpositions, overlayFiles, moveFiles, todo, checkpoint>>
  BY DEF NextPhase, CommitInv, PhaseInv, OrderInv, NextPhaseOf, patch, lists
<1>2. phase' \in Phases \ {"patch"}
  BY <1>1, NextAhead, PhasesAre
<1>3. ASSUME NEW k \in Phases, NEW r
      PROVE  /\ phase' = k => Ahead(k, r) /\ (Ahead(k, r)' <=> r \in WorkOf(k))
             /\ phase' # k => (Ahead(k, r)' <=> Ahead(k, r))
  BY <1>1, NextAhead
<1>4. PhaseInv'
  <2>1. WorkOf(phase)' = WorkOf(phase')
    BY <1>1 DEF WorkOf, Kind, Transposed, Redirected, Grouped, Ghosts
  <2>2. QED
    BY <1>1, <1>2, <2>1 DEF PhaseInv, OrderInv
<1>5. Files' = Files /\ Files \subseteq Paths /\ \A p : Due(p)' = Due(p) /\ Users(p)' = Users(p)
  BY <1>1, FilesArePaths DEF Due, Users, Files, Kind
<1>6. Settled'
  <2> SUFFICES ASSUME NEW p \in Paths PROVE SettledAt(p)' /\ LinkedAt(p)'
    BY <1>1 DEF CommitInv, Settled
  <2>1. Due(p) \in Phases \ {"done"}
    BY DueFacts
  <2>2. SettledAt(p) /\ LinkedAt(p)
    BY DEF CommitInv, Settled
  <2>3. ASSUME Gone(p), Ahead(Due(p), p) PROVE Gone(p)'
    <3>1. phase # "ghosts"
      <4>1. phase = "ghosts" => ~Ahead(Due(p), p)
        BY <1>1, <2>1, AheadIs, PhasesAre DEF Rank
      <4>2. QED
        BY <2>3, <4>1
    <3>2. Spent(p) => Spent(p)'
      <4>1. ASSUME NEW r, ~Ahead("transpositions", r) PROVE ~Ahead("transpositions", r)'
        BY <1>3, <4>1, PhasesAre
      <4>2. QED
        BY <1>1, <1>5, <4>1 DEF Spent
    <3>3. QED
      BY <1>1, <2>3, <3>1, <3>2 DEF Gone, Buried, Swept
  <2>4. SettledAt(p)'
    <3>1. PICK k \in Phases : k = Due(p)
      BY <2>1
    <3>2. Ahead(Due(p), p)' <=> Ahead(k, p)'
      BY <1>5, <3>1 DEF Ahead, Before
    <3>3. Ahead(Due(p), p)' => Ahead(Due(p), p)
      BY <1>3, <3>1, <3>2
    <3>4. CASE Ahead(Due(p), p) /\ ~Ahead(Due(p), p)'
      <4>1. phase' = Due(p) /\ p \notin WorkOf(Due(p))
        BY <1>3, <3>1, <3>2, <3>4
      <4>2. Due(p) = "ghosts" /\ old[p] = None
        BY <1>1, <1>2, <2>1, <4>1, WorkFacts, PhasesAre
      <4>3. new[p] = None
        BY <4>2, DueFacts
      <4>4. out[p] = None
        BY <2>2, <3>4, <4>2 DEF SettledAt
      <4>5. QED
        BY <1>1, <1>5, <3>4, <4>3, <4>4 DEF SettledAt
    <3>5. CASE Ahead(Due(p), p)' <=> Ahead(Due(p), p)
      BY <1>1, <1>5, <2>2, <2>3, <3>5 DEF SettledAt
    <3>6. QED
      BY <3>3, <3>4, <3>5
  <2>5. LinkedAt(p)'
    <3> SUFFICES ASSUME Buried(p), ~Ahead("symlinks", <<p[1]>>)' PROVE out[p] = None
      BY <1>1 DEF LinkedAt, Buried
    <3>1. <<p[1]>> \in Paths /\ new[<<p[1]>>].kind = "link"
      BY PathFacts DEF Buried
    <3>2. <<p[1]>> \in WorkOf("symlinks")
      BY <3>1 DEF WorkOf, Kind
    <3>3. ~Ahead("symlinks", <<p[1]>>)
      BY <1>3, <3>2, PhasesAre
    <3>4. QED
      BY <2>2, <3>3 DEF LinkedAt
  <2>6. QED
    BY <2>4, <2>5
<1>7. SafeInv'
  <2>1. ASSUME NEW p \in Files, Due(p) = "cleanup", ~Ahead("transpositions", p)', Ahead("cleanup", p)'
        PROVE  safe[p] = new[p]
    <3>1. Ahead("cleanup", p)
      BY <1>3, <2>1, PhasesAre
    <3>2. p \in WorkOf("transpositions")
      BY <1>1, <1>5, <2>1, WorkFacts
    <3>3. ~Ahead("transpositions", p)
      BY <1>3, <2>1, <3>2, PhasesAre
    <3>4. QED
      BY <2>1, <3>1, <3>3 DEF CommitInv, SafeInv
  <2>2. QED
    BY <1>1, <1>5, <2>1 DEF CommitInv, SafeInv
<1>8. StageInv'
  <2>1. \A r : (Ahead("overlays", r)' => Ahead("overlays", r)) /\ (Ahead("moves", r)' => Ahead("moves", r))
    BY <1>3, PhasesAre
  <2>2. (StagedFor(overlayFiles, moveFiles))'
    BY <1>1, <2>1 DEF CommitInv, StageInv, StagedFor
  <2>3. QED
    BY <1>1, <1>2, <2>2 DEF CommitInv, StageInv
<1>9. GhostOrder'
  <2>1. phase' = "ghosts" => pending' = Ghosts'
    BY <1>1 DEF WorkOf, Ghosts
  <2>2. QED
    BY <2>1 DEF GhostOrder
<1>10. QED
  BY <1>4, <1>6, <1>7, <1>8, <1>9 DEF CommitInv

-----------------------------------------------------------------------------
(* The invariant                                                            *)

LEMMA PatchIsFixed == [Next]_vars => UNCHANGED patch
<1> SUFFICES ASSUME [Next]_vars PROVE UNCHANGED patch
  OBVIOUS
<1>1. CASE UNCHANGED vars
  BY <1>1 DEF vars
<1>2. CASE Save \/ CrashResume \/ NextPhase \/ Terminated
  BY <1>2 DEF Save, CrashResume, NextPhase, Terminated, vars
<1>3. ASSUME NEW p \in Paths, Transpose(p) \/ WriteEntry(p) PROVE UNCHANGED patch
  BY <1>3 DEF Transpose, WriteEntry
<1>4. ASSUME NEW p \in Paths, EnsureDir(p) \/ EnsureSymlink(p) \/ ApplyTransposition(p) \/ CleanupRename(p)
                              \/ ApplyMove(p) \/ ApplyOverlay(p) \/ DeleteGhost(p)
      PROVE  UNCHANGED patch
  BY <1>4 DEF EnsureDir, EnsureSymlink, ApplyTransposition, CleanupRename, ApplyMove, ApplyOverlay, DeleteGhost, committing
<1>5. QED
  BY <1>1, <1>2, <1>3, <1>4 DEF Next

LEMMA BowlInit == Init => BowlInv
  BY RecordInit, SettledInit DEF BowlInv

LEMMA CommitStep ==
  ASSUME RecordInv, FixedInv, CommitInv, Applicable, [Next]_vars
  PROVE  CommitInv'
<1>1. ASSUME NEW p \in Paths, Transpose(p) PROVE CommitInv'
  BY <1>1, TransposeCommit
<1>2. ASSUME NEW p \in Paths, WriteEntry(p) PROVE CommitInv'
  BY <1>2, WriteEntryCommit
<1>3. ASSUME NEW p \in Paths, EnsureDir(p) PROVE CommitInv'
  BY <1>3, EnsureDirCommit
<1>4. ASSUME NEW p \in Paths, EnsureSymlink(p) PROVE CommitInv'
  BY <1>4, EnsureSymlinkCommit
<1>5. ASSUME NEW p \in Paths, ApplyTransposition(p) PROVE CommitInv'
  BY <1>5, TranspositionCommit
<1>6. ASSUME NEW p \in Paths, CleanupRename(p) PROVE CommitInv'
  BY <1>6, CleanupCommit
<1>7. ASSUME NEW p \in Paths, ApplyMove(p) PROVE CommitInv'
  BY <1>7, MoveCommit
<1>8. ASSUME NEW p \in Paths, ApplyOverlay(p) PROVE CommitInv'
  BY <1>8, OverlayCommit
<1>9. ASSUME NEW p \in Paths, DeleteGhost(p) PROVE CommitInv'
  BY <1>9, GhostCommit
<1>10. CASE Save
  BY <1>10, SaveCommit
<1>11. CASE CrashResume
  BY <1>11, ResumeCommit
<1>12. CASE NextPhase
  BY <1>12, NextPhaseCommit
<1>13. CASE Terminated \/ UNCHANGED vars
  <2>1. UNCHANGED <<patch, out, safe, stage, phase, pending, todo, lists, checkpoint>>
    BY <1>13 DEF Terminated, vars
  <2>2. UNCHANGED <<old, new, plan, transpositions, overlayFiles, moveFiles>>
    BY <2>1 DEF patch, lists
  <2>3. Settled' /\ SafeInv'
    BY <2>1, SettledSame DEF CommitInv
  <2>4. StageInv'
    BY <2>1, <2>2, SameAhead DEF CommitInv, StageInv, StagedFor
  <2>5. WorkOf(phase)' = WorkOf(phase) /\ Ghosts' = Ghosts
    BY <2>1, <2>2 DEF WorkOf, Kind, Transposed, Redirected, Grouped, Ghosts
  <2>6. PhaseInv' /\ GhostOrder'
    BY <2>1, <2>2, <2>5 DEF CommitInv, PhaseInv, OrderInv, GhostOrder
  <2>7. QED
    BY <2>3, <2>4, <2>6 DEF CommitInv
<1>14. QED
  BY <1>1, <1>2, <1>3, <1>4, <1>5, <1>6, <1>7, <1>8, <1>9, <1>10, <1>11, <1>12, <1>13 DEF Next

LEMMA ApplicableFixed == [Next]_vars => (Applicable' <=> Applicable)
<1> SUFFICES ASSUME [Next]_vars PROVE Applicable' <=> Applicable
  OBVIOUS
<1>1. UNCHANGED <<old, new, plan>>
  BY PatchIsFixed DEF patch
<1>2. SourcesSurvive' <=> SourcesSurvive
  BY <1>1 DEF SourcesSurvive
<1>3. NoCopyOntoLink' <=> NoCopyOntoLink
  BY <1>1 DEF NoCopyOntoLink
<1>4. NoLinkOverDir' <=> NoLinkOverDir
  BY <1>1 DEF NoLinkOverDir, WithGhosts, Kind
<1>5. NoFileOverDir' <=> NoFileOverDir
  BY <1>1 DEF NoFileOverDir, Kind
<1>6. QED
  BY <1>2, <1>3, <1>4, <1>5 DEF Applicable

LEMMA BowlStep == BowlInv /\ [Next]_vars => BowlInv'
<1> SUFFICES ASSUME BowlInv, [Next]_vars PROVE BowlInv'
  OBVIOUS
<1>1. UNCHANGED <<old, new, plan, found>>
  BY PatchIsFixed DEF patch
<1>2. RecordInv'
  BY RecordStep DEF BowlInv
<1>3. FixedInv'
  BY <1>1 DEF BowlInv, FixedInv, Build, Tree, WellFormed, Plans, SameContents, Kind
<1>4. Committable' <=> Committable
  BY <1>1, ApplicableFixed DEF Committable
<1>5. Committable => CommitInv'
  BY CommitStep DEF BowlInv, Committable
<1>6. QED
  BY <1>2, <1>3, <1>4, <1>5 DEF BowlInv

\* What the lists say, what is staged and set aside, and what the output folder
\* holds at each path, in every phase.
THEOREM BowlInvHolds == Spec => []BowlInv
  BY BowlInit, BowlStep, PTL DEF Spec

\* Before an upgrade that Commit can deal with is done, no step of it fails:
\* every file it opens, renames or removes is where it expects it.
THEOREM CommitSucceedsHolds == Spec => []CommitSucceeds
<1>1. BowlInv => CommitSucceeds
  BY PhasesAre DEF BowlInv, CommitInv, PhaseInv, OrderInv, CommitSucceeds
<1>2. QED
  BY <1>1, BowlInvHolds, PTL

\* When it is done, the output folder holds the new build and nothing of the
\* old one.
THEOREM CommitIsFaithfulHolds == Spec => []CommitIsFaithful
<1>1. BowlInv => CommitIsFaithful
  <2> SUFFICES ASSUME BowlInv, Committable, phase = "done" PROVE IsNewBuild
    BY DEF CommitIsFaithful
  <2>1. ASSUME NEW p \in Paths PROVE out[p] = new[p]
    <3>1. Due(p) \in Phases \ {"done"}
      BY DueFacts DEF BowlInv
    <3>2. ~Ahead(Due(p), p)
      BY <3>1, AheadIs, PhasesAre DEF Rank
    <3>3. SettledAt(p)
      BY DEF BowlInv, CommitInv, Settled
    <3>4. QED
      BY <3>2, <3>3 DEF SettledAt
  <2>2. QED
    BY <2>1 DEF IsNewBuild, Ghosts
<1>2. QED
  BY <1>1, BowlInvHolds, PTL

\* At every moment of the patch and of Commit, through crashes while patching,
\* a processed file is in place or can still be made from what is on disk.
THEOREM NothingLostHolds == Spec => []NothingLost
<1>1. BowlInv => NothingLost
  <2> SUFFICES ASSUME BowlInv, Committable, phase # "failed", NEW p \in Kind(new, "file") \ todo
               PROVE  Recoverable(p)
    BY DEF NothingLost
  <2>1. RecordInv /\ FixedInv /\ CommitInv /\ Applicable /\ p \in Files /\ p \in Paths /\ phase \in Phases
    BY FilesArePaths DEF BowlInv, Committable, Files, CommitInv, PhaseInv, OrderInv
  <2>2. /\ transpositions[p] = plan[p]
        /\ p \in overlayFiles <=> plan[p] = NoPath /\ old[p].kind = "file"
        /\ p \in moveFiles <=> plan[p] = NoPath /\ old[p].kind # "file"
    BY <2>1 DEF RecordInv, Records
  <2>3. p \in Transposed <=> plan[p] # NoPath
    BY <2>1, <2>2 DEF Transposed
  <2>4. ~Ahead("transpositions", p) => phase # "patch" /\ todo = {}
    <3>1. phase = "patch" => Ahead("transpositions", p)
      BY <2>1, AheadIs, PhasesAre DEF Rank
    <3>2. QED
      BY <2>1, <3>1 DEF CommitInv, PhaseInv, OrderInv
  <2>5. ~Ahead("transpositions", p) => (Redirected(p) <=> Due(p) = "cleanup")
    BY <2>1, <2>4, ListFacts
  <2>6. ASSUME plan[p] \notin {NoPath, p}, Ahead("transpositions", p) PROVE out[plan[p]] = new[p]
    BY <2>1, <2>6, SourceThere DEF CommitInv
  <2>7. ASSUME ~(plan[p] \notin {NoPath, p} /\ Ahead("transpositions", p)), Redirected(p), Ahead("cleanup", p)
        PROVE  safe[p] = new[p]
    <3>1. ~Ahead("transpositions", p)
      BY <2>2, <2>7 DEF Redirected
    <3>2. QED
      BY <2>1, <2>5, <2>7, <3>1 DEF CommitInv, SafeInv
  <2>8. ASSUME p \in moveFiles, Ahead("moves", p) PROVE stage[p] = new[p]
    BY <2>1, <2>8 DEF CommitInv, StageInv, StagedFor
  <2>9. ASSUME p \in overlayFiles, Ahead("overlays", p)
        PROVE  out[p] = old[p] /\ PatchOverlay(stage[p].data, old[p].data) = new[p].data
    <3>1. Due(p) = "overlays" /\ plan[p] = NoPath /\ old[p].kind = "file"
      BY <2>1, <2>2, <2>9, DueFacts
    <3>2. stage[p].data = OverlayOf(old[p].data, new[p].data)
      <4>1. stage[p] = File(OverlayOf(old[p].data, new[p].data))
        BY <2>1, <2>9 DEF CommitInv, StageInv, StagedFor
      <4>2. QED
        BY <4>1 DEF File
    <3>3. old[p].data \in Contents /\ new[p].data \in Contents
      BY <2>1, <3>1, FileFacts, BuildFacts, NodeFacts DEF FixedInv
    <3>4. ~Gone(p)
      <4>1. phase # "ghosts"
        BY <2>1, <2>9, AheadIs, PhasesAre DEF Rank
      <4>2. QED
        BY <2>1, <3>1, <4>1, FileFacts DEF Gone, Spent, Buried, Swept, Dir
    <3>5. out[p] = old[p]
      BY <2>1, <2>9, <3>1, <3>4 DEF CommitInv, Settled, SettledAt
    <3>6. QED
      BY <3>2, <3>3, <3>5, OverlayWorks
  <2>10. ASSUME ~(plan[p] \notin {NoPath, p} /\ Ahead("transpositions", p)), ~(Redirected(p) /\ Ahead("cleanup", p)),
                ~(p \in moveFiles /\ Ahead("moves", p)), ~(p \in overlayFiles /\ Ahead("overlays", p))
         PROVE  out[p] = new[p]
    <3>1. ~Ahead("patch", p)
      <4>1. phase = "patch" => p \notin pending
        BY <2>1 DEF CommitInv, PhaseInv, OrderInv
      <4>2. QED
        BY <2>1, <4>1, AheadIs, PhasesAre DEF Rank
    <3>2. Due(p) \in {"patch", "transpositions", "cleanup", "moves", "overlays"}
      BY <2>1, DueFacts
    <3>3. Due(p) \in {"transpositions", "cleanup"} => plan[p] \notin {NoPath, p}
      BY <2>1, DueFacts
    <3>4. Due(p) = "cleanup" => Redirected(p)
      BY <2>5, <2>10, <3>3
    <3>5. (Due(p) = "moves" => p \in moveFiles) /\ (Due(p) = "overlays" => p \in overlayFiles)
      BY <2>1, <2>2, DueFacts
    <3>6. ~Ahead(Due(p), p)
      BY <2>10, <3>1, <3>2, <3>3, <3>4, <3>5
    <3>7. QED
      BY <2>1, <3>6 DEF CommitInv, Settled, SettledAt
  <2>11. QED
    BY <2>2, <2>3, <2>6, <2>7, <2>8, <2>9, <2>10 DEF Recoverable
<1>2. QED
  BY <1>1, BowlInvHolds, PTL
-----------------------------------------------------------------------------
(* Whatever lies in the output folder                                       *)

\* Files the patch writes itself.
Written(p) == Due(p) \in {"moves", "overlays"}

\* The links that are left are to be replaced, or those of the new build.
LinksAt(p) ==
  /\ out[p].kind = "link" => Len(p) = 1 /\ new[p].kind \in {"dir", "link"}
  /\ new[p].kind = "dir" /\ ~Ahead("dirs", p) => out[p].kind # "link"
  /\ new[p].kind = "link" /\ ~Ahead("symlinks", p) => out[p] = new[p]

\* A file with an overlay is the one the overlay was made against, or is lost:
\* it was found through a link that gave way to a directory.
ReadyAt(p) ==
  \/ out[p] = None
  \/ /\ out[p].kind = "file" /\ out[p].data \in Contents
     /\ stage[p] = File(OverlayOf(out[p].data, new[p].data))

ReadyFor(o, m) ==
  /\ \A p \in o : Ahead("overlays", p) => ReadyAt(p)
  /\ \A p \in m : Ahead("moves", p) => stage[p] = new[p]

ReadyInv ==
  /\ DOMAIN stage = Paths
  /\ ReadyFor(overlayFiles, moveFiles)
  /\ phase = "patch" => ReadyFor(checkpoint.overlayFiles, checkpoint.moveFiles)

DiskInv ==
  /\ OrderInv
  /\ phase = "patch" => out = found
  /\ DOMAIN out = Paths /\ \A p \in Paths : LinksAt(p)
  /\ DOMAIN safe = Paths /\ \A p \in Paths : safe[p].kind # "link"
  /\ ReadyInv
  /\ \A p \in Paths : Written(p) /\ ~Ahead(Due(p), p) => out[p] = new[p]

WrittenInv ==
  /\ Build(found)
  /\ Applicable /\ LinksYield /\ phase # "failed" => DiskInv

\* The files the lists name.
LEMMA WrittenFacts ==
  ASSUME FixedInv, NEW p \in Paths
  PROVE  /\ Written(p) => /\ p \in Files /\ plan[p] = NoPath /\ Due(p) \in Phases
                          /\ Due(p) = "overlays" <=> old[p].kind = "file"
         /\ p \in Files => new[p].kind = "file"
  BY DueFacts, FileFacts DEF Written

\* In a build only what is at the top is a link, and there is nothing below but
\* in directories.
LEMMA TopLinks ==
  ASSUME NEW t, Build(t), NEW p \in Paths
  PROVE  /\ t[p].kind = "link" => Len(p) = 1
         /\ \A q \in Inside(p) : t[p] # Dir => t[q] = None
<1>1. t[p].kind = "link" => Len(p) = 1
  BY PathFacts, BuildFacts
<1>2. ASSUME NEW q \in Inside(p), t[p] # Dir PROVE t[q] = None
  <2>1. q \in Paths /\ Len(q) = 2 /\ p = <<q[1]>>
    BY InsideIs
  <2>2. QED
    BY <1>2, <2>1, BuildFacts
<1>3. QED
  BY <1>1, <1>2

\* Once the directories are made, a path that is not to be a directory or a link,
\* nor below a link, leads to itself, also after more links are gone.
LEMMA PathIsClear ==
  ASSUME DiskInv, NEW p \in Paths, new[p].kind \notin {"dir", "link"},
         Len(p) = 2 => new[<<p[1]>>].kind # "link" /\ ~Ahead("dirs", <<p[1]>>),
         NEW t, \A r \in Paths : t[r].kind = "link" => out[r].kind = "link"
  PROVE  t[p].kind # "link" /\ Follow(t, p) = p /\ Entry(t, p) = p
<1>1. out[p].kind # "link"
  BY DEF DiskInv, LinksAt
<1>2. ASSUME Len(p) = 2 PROVE <<p[1]>> \in Paths /\ out[<<p[1]>>].kind # "link"
  <2>1. <<p[1]>> \in Paths
    BY <1>2, PathFacts
  <2>2. LinksAt(<<p[1]>>)
    BY <2>1 DEF DiskInv
  <2>3. QED
    BY <1>2, <2>1, <2>2 DEF LinksAt
<1>3. t[p].kind # "link" /\ (Len(p) = 2 => t[<<p[1]>>].kind # "link")
  BY <1>1, <1>2
<1>4. QED
  BY <1>3, NoLinkFollowed

\* Making the directory a path lies in.
LEMMA MkdirIs ==
  ASSUME NEW t, DOMAIN t = Paths, NEW p \in Paths
  PROVE  /\ DOMAIN MkdirFor(t, p) = Paths
         /\ \A r \in Paths : \/ MkdirFor(t, p)[r] = t[r]
                             \/ Len(p) = 2 /\ r = <<p[1]>> /\ MkdirFor(t, p)[r] = Dir
  BY DEF MkdirFor

\* What a step of Commit on p may do to path r: nothing; put something that is no
\* link where no link is to be and the patch writes no file; lose a file that it
\* is still to write; or finish p.
Changed(ph, p, r) ==
  \/ out'[r] = out[r]
  \/ out'[r].kind # "link" /\ new[r].kind # "link" /\ ~Written(r)
  \/ out'[r] = None /\ Written(r) /\ Ahead(Due(r), r) /\ ~(Due(r) = ph /\ r = p)
  \/ r = p /\ out'[r] = new[r]

LEMMA StepDisk ==
  ASSUME RecordInv, FixedInv, DiskInv, UNCHANGED committing,
         NEW ph \in {"dirs", "symlinks", "transpositions", "cleanup", "moves", "overlays", "ghosts"},
         NEW p, Step(ph, p), Did(p),
         DOMAIN out' = Paths, \A r \in Paths : Changed(ph, p, r),
         ph \notin {"transpositions", "ghosts", "cleanup"} => out'[p] = new[p],
         DOMAIN safe' = Paths, \A r \in Paths : safe'[r].kind # "link",
         DOMAIN stage' = Paths, \A r \in Paths \ {p} : stage'[r] = stage[r],
         ph # "moves" => stage'[p] = stage[p]
  PROVE  DiskInv'
<1>1. /\ p \in Paths /\ phase = ph /\ phase # "failed" /\ phase # "patch" /\ todo = {} /\ phase \in Phases /\ ph \in Phases
      /\ ph # "transpositions" => Due(p) = ph
      /\ ph = "transpositions" => Due(p) \in {"transpositions", "cleanup"}
  BY PendingFacts DEF DiskInv
<1>2. UNCHANGED <<old, new, plan, transpositions, overlayFiles, moveFiles, todo, checkpoint, phase>> /\ pending' = pending \ {p}
  BY DEF committing, patch, lists, Did
<1>3. ASSUME NEW k \in Phases, NEW r PROVE Ahead(k, r)' <=> Ahead(k, r) /\ ~(k = ph /\ r = p)
  BY <1>1, StepAhead
<1>4. OrderInv'
  <2>1. WorkOf(phase)' = WorkOf(phase)
    BY <1>2 DEF WorkOf, Kind, Transposed, Redirected, Grouped, Ghosts
  <2>2. QED
    BY <1>1, <1>2, <2>1 DEF DiskInv, OrderInv
<1>5. ASSUME NEW r \in Paths PROVE LinksAt(r)'
  <2>1. LinksAt(r) /\ Changed(ph, p, r)
    BY DEF DiskInv
  <2>2. /\ "dirs" \in Phases /\ "symlinks" \in Phases
        /\ Ahead("dirs", r)' <=> Ahead("dirs", r) /\ ~("dirs" = ph /\ r = p)
        /\ Ahead("symlinks", r)' <=> Ahead("symlinks", r) /\ ~("symlinks" = ph /\ r = p)
    BY <1>3, PhasesAre
  <2>3. new[r].kind = "link" => Len(r) = 1 /\ ~Written(r)
    BY TopLinks, WrittenFacts DEF FixedInv
  <2>4. r = p => /\ ph = "dirs" => out'[r] = new[r]
                 /\ ph = "symlinks" => out'[r] = new[r]
    OBVIOUS
  <2>5. None.kind # "link"
    BY DEF None
  <2>6. Written(r) => new[r].kind = "file"
    BY WrittenFacts
  <2>7. out'[r].kind = "link" => Len(r) = 1 /\ new[r].kind \in {"dir", "link"}
    BY <2>1, <2>3, <2>5 DEF LinksAt, Changed
  <2>8. new[r].kind = "dir" /\ ~Ahead("dirs", r)' => out'[r].kind # "link"
    BY <2>1, <2>2, <2>4, <2>5 DEF LinksAt, Changed
  <2>9. new[r].kind = "link" /\ ~Ahead("symlinks", r)' => out'[r] = new[r]
    BY <2>1, <2>2, <2>3, <2>4 DEF LinksAt, Changed
  <2>10. QED
    BY <1>2, <2>7, <2>8, <2>9 DEF LinksAt
<1>6. \A r \in Paths : Due(r)' = Due(r) /\ (Written(r)' <=> Written(r))
  BY <1>2 DEF Due, Users, Files, Kind, Written
<1>7. ASSUME NEW r \in Paths, Written(r), ~Ahead(Due(r), r)' PROVE out'[r] = new[r]
  <2>1. Changed(ph, p, r) /\ Due(r) \in Phases /\ new[r].kind # "link"
    BY <1>7, WrittenFacts
  <2>2. CASE Ahead(Due(r), r)
    <3>1. Due(r) = ph /\ r = p
      <4>1. PICK k \in Phases : k = Due(r)
        BY <2>1
      <4>2. Ahead(Due(r), r)' <=> Ahead(k, r)'
        BY <1>6, <4>1 DEF Ahead, Before
      <4>3. QED
        BY <1>3, <1>7, <2>2, <4>1, <4>2
    <3>2. QED
      BY <1>7, <3>1 DEF Written
  <2>3. CASE ~Ahead(Due(r), r)
    <3>1. out[r] = new[r]
      BY <1>7, <2>3 DEF DiskInv
    <3>2. QED
      BY <1>7, <2>1, <2>3, <3>1 DEF Changed
  <2>4. QED
    BY <2>2, <2>3
<1>8. ReadyInv'
  <2>1. /\ "overlays" \in Phases /\ "moves" \in Phases
        /\ overlayFiles \subseteq Paths /\ moveFiles \subseteq Paths
        /\ \A r \in Paths : r \in overlayFiles <=> Due(r) = "overlays"
        /\ \A r \in Paths : r \in moveFiles <=> Due(r) = "moves"
    BY <1>1, PhasesAre, ListFacts
  <2>2. ASSUME NEW r \in overlayFiles, Ahead("overlays", r)' PROVE ReadyAt(r)'
    <3>1. Ahead("overlays", r) /\ ~("overlays" = ph /\ r = p) /\ r \in Paths /\ Due(r) = "overlays"
      BY <1>3, <2>1, <2>2
    <3>2. ReadyAt(r) /\ Changed(ph, p, r)
      BY <3>1 DEF DiskInv, ReadyInv, ReadyFor
    <3>3. stage'[r] = stage[r]
      <4>1. r = p => ph # "moves"
        BY <1>1, <3>1
      <4>2. QED
        BY <3>1, <4>1
    <3>4. r # p
      BY <1>1, <3>1
    <3>5. out'[r] = out[r] \/ out'[r] = None
      BY <3>1, <3>2, <3>4 DEF Changed, Written
    <3>6. QED
      BY <1>2, <3>2, <3>3, <3>5 DEF ReadyAt
  <2>3. ASSUME NEW r \in moveFiles, Ahead("moves", r)' PROVE stage'[r] = new[r]
    <3>1. Ahead("moves", r) /\ ~("moves" = ph /\ r = p) /\ r \in Paths
      BY <1>3, <2>1, <2>3
    <3>2. stage'[r] = stage[r]
      BY <3>1
    <3>3. QED
      BY <3>1, <3>2 DEF DiskInv, ReadyInv, ReadyFor
  <2>4. ReadyFor(overlayFiles, moveFiles)'
    BY <1>2, <2>2, <2>3 DEF ReadyFor
  <2>5. QED
    BY <1>1, <1>2, <2>4 DEF ReadyInv
<1>9. QED
  BY <1>1, <1>2, <1>4, <1>5, <1>6, <1>7, <1>8 DEF DiskInv

\* By the time the first file is put in place, directories and links are.
LEMMA LinksFirst ==
  ASSUME phase \in {"transpositions", "cleanup", "moves", "overlays", "ghosts", "done"}, NEW r
  PROVE  ~Ahead("dirs", r) /\ ~Ahead("symlinks", r)
  BY AheadIs, PhasesAre DEF Rank

\* From then on a file of the new build, or an old one it is made from, is where
\* its path says.
LEMMA FileIsClear ==
  ASSUME FixedInv, DiskInv, NEW p \in Files,
         phase \in {"transpositions", "cleanup", "moves", "overlays", "ghosts", "done"},
         NEW t, \A r \in Paths : t[r].kind = "link" => out[r].kind = "link"
  PROVE  t[p].kind # "link" /\ Follow(t, p) = p /\ Entry(t, p) = p
<1>1. p \in Paths /\ new[p].kind \notin {"dir", "link"} /\ (Len(p) = 2 => new[<<p[1]>>].kind # "link")
  BY FileFacts DEF Dir
<1>2. QED
  BY <1>1, LinksFirst, PathIsClear

\* Making room for a file touches only its path and the directory it lies in.
LEMMA ClearedIs ==
  ASSUME FixedInv, DiskInv, NEW p \in Files,
         phase \in {"transpositions", "cleanup", "moves", "overlays", "ghosts", "done"}
  PROVE  /\ DOMAIN Cleared(p) = Paths
         /\ Cleared(p)[p] = None
         /\ \A r \in Paths \ {p} : Cleared(p)[r] = out[r] \/ (Cleared(p)[r] = Dir /\ new[r] = Dir)
         /\ \A r \in Paths : Cleared(p)[r].kind = "link" => out[r].kind = "link"
         /\ Entry(Cleared(p), p) = p
<1>1. DOMAIN out = Paths /\ p \in Paths /\ (Len(p) = 2 => new[<<p[1]>>] = Dir /\ <<p[1]>> # p)
  BY FileFacts, PathFacts DEF DiskInv
<1>2. Entry(out, p) = p
  BY FileIsClear
<1> DEFINE t == Remove(out, p)
<1>3. DOMAIN t = Paths /\ t[p] = None /\ \A r \in Paths \ {p} : t[r] = out[r]
  BY <1>1, <1>2 DEF Remove
<1>4. Cleared(p) = MkdirFor(t, p)
  BY DEF Cleared
<1> HIDE DEF t
<1>5. /\ DOMAIN MkdirFor(t, p) = Paths
      /\ \A r \in Paths : \/ MkdirFor(t, p)[r] = t[r]
                          \/ Len(p) = 2 /\ r = <<p[1]>> /\ MkdirFor(t, p)[r] = Dir
  BY <1>1, <1>3, MkdirIs, SMTT(60)
<1>6. /\ DOMAIN Cleared(p) = Paths
      /\ Cleared(p)[p] = None
      /\ \A r \in Paths \ {p} : Cleared(p)[r] = out[r] \/ (Cleared(p)[r] = Dir /\ new[r] = Dir)
  BY <1>1, <1>3, <1>4, <1>5
<1>7. \A r \in Paths : Cleared(p)[r].kind = "link" => out[r].kind = "link"
  BY <1>6 DEF None, Dir
<1>8. QED
  BY <1>6, <1>7, FileIsClear

LEMMA MoveIntoDisk ==
  ASSUME FixedInv, DiskInv, NEW p \in Files, NEW node, MoveInto(p, node), phase' # "failed",
         phase \in {"transpositions", "cleanup", "moves", "overlays", "ghosts", "done"}
  PROVE  /\ Did(p) /\ DOMAIN out' = Paths /\ out'[p] = node
         /\ \A r \in Paths \ {p} : out'[r] = out[r] \/ (out'[r] = Dir /\ new[r] = Dir)
<1>1. Did(p) /\ out' = [Cleared(p) EXCEPT ![Entry(Cleared(p), p)] = node]
  BY DEF MoveInto, Fail
<1>2. p \in Paths
  BY FilesArePaths
<1>3. QED
  BY <1>1, <1>2, ClearedIs

\* What making a directory on the way is to the invariant.
LEMMA DirIsNoLoss ==
  ASSUME FixedInv, NEW ph, NEW p, NEW r \in Paths,
         out'[r] = out[r] \/ (out'[r] = Dir /\ new[r] = Dir)
  PROVE  Changed(ph, p, r)
<1>1. new[r] = Dir => ~Written(r) /\ new[r].kind # "link"
  BY WrittenFacts DEF Dir
<1>2. QED
  BY <1>1 DEF Changed, Dir

\* What an entry gives way to, and all that was in it.
LEMMA PutDisk ==
  ASSUME RecordInv, FixedInv, DiskInv, NEW ph \in {"dirs", "symlinks"}, NEW p, Step(ph, p), Did(p),
         UNCHANGED <<committing, stage, safe>>,
         out' = IF out[p] = new[p] THEN out ELSE [RemoveAll(out, p) EXCEPT ![p] = new[p]]
  PROVE  DiskInv'
<1>1. p \in Paths /\ phase = ph /\ phase \in Phases /\ Due(p) = ph
  BY PendingFacts DEF DiskInv
<1>2. DOMAIN out = Paths /\ DOMAIN safe = Paths /\ DOMAIN stage = Paths
      /\ \A r \in Paths : safe[r].kind # "link"
  BY DEF DiskInv, ReadyInv
<1>3. /\ DOMAIN out' = Paths /\ out'[p] = new[p]
      /\ \A r \in Paths \ {p} : out'[r] = out[r] \/ (r \in Inside(p) /\ out'[r] = None)
  BY <1>1, <1>2 DEF RemoveAll
<1>4. ASSUME NEW r \in Paths PROVE Changed(ph, p, r)
  <2>1. CASE r = p
    BY <1>3, <2>1 DEF Changed
  <2>2. CASE r \in Inside(p) /\ out'[r] = None
    <3>1. new[r].kind # "link"
      BY <1>1, <2>2, InsideIs, BuildFacts DEF FixedInv
    <3>2. r # p
      BY <1>1, <2>2, InsideIs
    <3>3. Written(r) => Ahead(Due(r), r)
      BY <1>1, AheadIs, PhasesAre DEF Rank, Written
    <3>4. QED
      BY <2>2, <3>1, <3>2, <3>3 DEF Changed, None
  <2>3. QED
    BY <1>3, <2>1, <2>2 DEF Changed
<1>5. QED
  BY <1>2, <1>3, <1>4, StepDisk

LEMMA EnsureDirDisk ==
  ASSUME RecordInv, FixedInv, DiskInv, NEW p, EnsureDir(p)
  PROVE  DiskInv'
<1>1. Step("dirs", p) /\ Did(p) /\ UNCHANGED <<committing, stage, safe>>
      /\ out' = IF out[p] = Dir THEN out ELSE [RemoveAll(out, p) EXCEPT ![p] = Dir]
  BY DEF EnsureDir
<1>2. p \in Paths /\ Due(p) = "dirs"
  BY <1>1, PendingFacts DEF DiskInv
<1>3. new[p] = Dir
  BY <1>2, DueFacts
<1>4. QED
  BY <1>1, <1>3, PutDisk

LEMMA EnsureSymlinkDisk ==
  ASSUME RecordInv, FixedInv, DiskInv, NEW p, EnsureSymlink(p)
  PROVE  DiskInv'
  BY PutDisk DEF EnsureSymlink

\* A file with a transposition, and the old file it is made from.
LEMMA TranspositionIs ==
  ASSUME RecordInv, FixedInv, DiskInv, Applicable, NEW p, Step("transpositions", p),
         NEW q, q = transpositions[p]
  PROVE  /\ p \in Files /\ p \in Paths /\ ~Written(p) /\ new[p].kind = "file" /\ q # p
         /\ q \in Paths /\ old[q].kind = "file" /\ new[q].kind \in {"none", "file"}
         /\ Len(q) = 2 => new[<<q[1]>>].kind # "link"
         /\ Grouped(q) = Users(q)
         /\ phase = "transpositions"
<1>1. p \in Paths /\ phase = "transpositions" /\ phase # "failed" /\ todo = {} /\ Due(p) \in {"transpositions", "cleanup"}
  BY PendingFacts DEF DiskInv
<1>2. p \in Files /\ plan[p] \notin {NoPath, p} /\ ~Written(p)
  BY <1>1, DueFacts DEF Written
<1>3. q = plan[p]
  BY <1>1, <1>2, ListFacts
<1>4. /\ q \in Paths /\ old[q].kind = "file" /\ (q \in Files \/ new[q] = None)
      /\ Len(q) = 2 => new[<<q[1]>>] \in {None, Dir}
  BY <1>2, <1>3, SourceFacts
<1>5. new[q].kind \in {"none", "file"} /\ new[p].kind = "file" /\ (Len(q) = 2 => new[<<q[1]>>].kind # "link")
  BY <1>2, <1>4 DEF None, Dir, Files, Kind
<1>6. Grouped(q) = Users(q)
  BY <1>1, <1>4, ListFacts
<1>7. QED
  BY <1>1, <1>2, <1>3, <1>4, <1>5, <1>6

LEMMA CopyDisk ==
  ASSUME RecordInv, FixedInv, DiskInv, Applicable, NEW p, Step("transpositions", p),
         UNCHANGED <<committing, stage>>,
         NEW q, q = transpositions[p], Copy(p, q), phase' # "failed"
  PROVE  DiskInv'
<1>1. p \in Files /\ p \in Paths /\ ~Written(p) /\ phase = "transpositions" /\ new[p].kind = "file"
  BY TranspositionIs
<1> DEFINE t == IF MakesDir(p) THEN MkdirFor(out, p) ELSE out
           d == IF Follow(t, p) = Follow(t, q) THEN << >> ELSE Read(t, q)
<1>2. /\ DOMAIN out = Paths /\ DOMAIN safe = Paths /\ DOMAIN stage = Paths
      /\ \A r \in Paths : safe[r].kind # "link"
  BY DEF DiskInv, ReadyInv
<1>3. DOMAIN t = Paths /\ \A r \in Paths : t[r] = out[r] \/ (t[r] = Dir /\ new[r] = Dir)
  <2>1. Len(p) = 2 => new[<<p[1]>>] = Dir
    BY <1>1, FileFacts
  <2>2. QED
    BY <1>1, <1>2, <2>1, MkdirIs, ZenonT(60)
<1>4. Did(p) /\ \/ out' = t /\ safe' = [safe EXCEPT ![p] = File(Read(t, q))]
                \/ out' = Write(t, p, d) /\ UNCHANGED safe
  BY DEF Copy, Fail
<1> HIDE DEF t, d
<1>5. Follow(t, p) = p
  <2>1. \A r \in Paths : t[r].kind = "link" => out[r].kind = "link"
    BY <1>3 DEF Dir
  <2>2. QED
    BY <1>1, <2>1, FileIsClear
<1>6. DOMAIN out' = Paths /\ \A r \in Paths : out'[r] = t[r] \/ (r = p /\ out'[r].kind = "file")
  <2>1. Write(t, p, d) = [t EXCEPT ![p] = File(d)]
    BY <1>5 DEF Write
  <2>2. File(d).kind = "file"
    BY DEF File
  <2>3. QED
    BY <1>3, <1>4, <2>1, <2>2
<1>7. DOMAIN safe' = Paths /\ \A r \in Paths : safe'[r].kind # "link"
  <2>1. File(Read(t, q)).kind = "file"
    BY DEF File
  <2>2. QED
    BY <1>1, <1>2, <1>4, <2>1
<1>8. ASSUME NEW r \in Paths PROVE Changed("transpositions", p, r)
  <2>1. CASE r = p /\ out'[r].kind = "file"
    BY <1>1, <2>1 DEF Changed
  <2>2. CASE out'[r] = t[r]
    BY <1>3, <2>2, DirIsNoLoss
  <2>3. QED
    BY <1>6, <2>1, <2>2
<1>9. QED
  BY <1>2, <1>4, <1>6, <1>7, <1>8, StepDisk

\* A rename takes away its source, which no later step needs, and what was in it.
LEMMA RenameIs ==
  ASSUME NEW t, NEW p \in Paths, NEW q \in Paths, p # q, Entry(t, p) = p, Entry(t, q) = q,
         NEW r \in Paths, r # p
  PROVE  \/ Rename(t, q, p)[r] = t[r]
         \/ Rename(t, q, p)[r] = None /\ (r = q \/ r \in Inside(q))
         \/ r \in Inside(p) /\ Len(<<q[1], r[2]>>) = 2 /\ <<q[1], r[2]>> \in Paths
            /\ Rename(t, q, p)[r] = t[<<q[1], r[2]>>]
<1> DEFINE carried(x) == Len(p) = 1 /\ t[q] = Dir /\ x \in Inside(p)
<1>1. Rename(t, q, p)[r] =
        CASE r = p                 -> t[q]
          [] r # p /\ carried(r)   -> t[<<q[1], r[2]>>]
          [] r # p /\ ~carried(r) /\ (r = q \/ (t[q] = Dir /\ r \in Inside(q))) -> None
          [] OTHER                 -> t[r]
  BY DEF Rename
<1>2. CASE carried(r)
  <2>1. r \in Inside(p) /\ Len(r) = 2 /\ r[2] \in Leaf /\ q[1] \in Top
    BY <1>2, PathFacts, InsideIs
  <2>2. <<q[1], r[2]>> \in Paths
    BY <2>1 DEF Paths
  <2>3. QED
    BY <1>1, <1>2, <2>1, <2>2
<1>3. CASE ~carried(r)
  BY <1>1, <1>3
<1>4. QED
  BY <1>2, <1>3

LEMMA MoveDisk ==
  ASSUME RecordInv, FixedInv, DiskInv, Applicable, NEW p, Step("transpositions", p),
         UNCHANGED <<committing, stage>>,
         NEW q, q = transpositions[p], Renames(p), Move(p, q), phase' # "failed"
  PROVE  DiskInv'
<1>1. /\ p \in Files /\ p \in Paths /\ ~Written(p) /\ phase = "transpositions" /\ new[p].kind = "file" /\ q # p
      /\ q \in Paths /\ old[q].kind = "file" /\ new[q].kind \in {"none", "file"}
      /\ Len(q) = 2 => new[<<q[1]>>].kind # "link"
      /\ phase # "failed" /\ todo = {}
  BY TranspositionIs, PendingFacts DEF DiskInv
<1>2. ~Written(q)
  <2>1. q \notin overlayFiles
    BY DEF Renames, KeepsOld
  <2>2. Due(q) # "overlays"
    BY <1>1, <2>1, ListFacts
  <2>3. QED
    BY <1>1, <2>2, WrittenFacts, DueFacts DEF Written
<1> DEFINE t == IF Redirected(p) THEN MkdirFor(out, p) ELSE Cleared(p)
<1>3. /\ DOMAIN out = Paths /\ DOMAIN safe = Paths /\ DOMAIN stage = Paths
      /\ \A r \in Paths : safe[r].kind # "link"
  BY DEF DiskInv, ReadyInv
<1>4. DOMAIN t = Paths /\ \A r \in Paths \ {p} : t[r] = out[r] \/ (t[r] = Dir /\ new[r] = Dir)
  <2>1. Len(p) = 2 => new[<<p[1]>>] = Dir
    BY <1>1, FileFacts
  <2>2. CASE Redirected(p)
    <3>1. /\ DOMAIN MkdirFor(out, p) = Paths
          /\ \A r \in Paths : MkdirFor(out, p)[r] = out[r] \/ (MkdirFor(out, p)[r] = Dir /\ new[r] = Dir)
      BY <1>1, <1>3, <2>1, MkdirIs, ZenonT(60)
    <3>2. t = MkdirFor(out, p)
      BY <2>2
    <3>3. QED
      BY <3>1, <3>2
  <2>3. CASE ~Redirected(p)
    BY <1>1, <2>3, ClearedIs
  <2>4. QED
    BY <2>2, <2>3
<1>5. Redirected(p) => t[p] = out[p]
  <2>1. Len(p) = 2 => <<p[1]>> # p
    BY <1>1, PathFacts
  <2>2. QED
    BY <1>1, <1>3, <2>1, MkdirIs
<1>6. ~Redirected(p) => t[p] = None
  BY <1>1, ClearedIs
<1>7. \A r \in Paths : t[r].kind = "link" => out[r].kind = "link"
  BY <1>4, <1>5, <1>6 DEF Dir, None
<1>8. Did(p) /\ \/ /\ Redirected(p)
                   /\ safe' = [safe EXCEPT ![p] = t[Entry(t, q)]]
                   /\ out' = RemoveAll(t, Entry(t, q))
                \/ ~Redirected(p) /\ out' = Rename(t, q, p) /\ UNCHANGED safe
  BY DEF Move, Fail
<1> HIDE DEF t
<1>9. Entry(t, p) = p
  BY <1>1, <1>7, FileIsClear
<1>10. Entry(t, q) = q /\ t[q].kind # "link"
  BY <1>1, <1>7, LinksFirst, PathIsClear
<1>11. DOMAIN safe' = Paths /\ \A r \in Paths : safe'[r].kind # "link"
  BY <1>1, <1>3, <1>8, <1>10
<1>12. DOMAIN out' = Paths
  BY <1>8 DEF RemoveAll, Rename
<1>13. ASSUME NEW r \in Paths, r \in Inside(p) \cup Inside(q) \cup {q} PROVE ~Written(r) /\ new[r].kind # "link"
  <2>1. CASE r = q
    BY <1>1, <1>2, <2>1
  <2>2. CASE r \in Inside(p) \cup Inside(q)
    <3>1. new[r] = None
      BY <1>1, <2>2, TopLinks DEF FixedInv, Dir
    <3>2. QED
      BY <3>1, WrittenFacts DEF None
  <2>3. QED
    BY <1>13, <2>1, <2>2
<1>14. ASSUME NEW r \in Paths, r # p, out'[r] = t[r] PROVE Changed("transpositions", p, r)
  BY <1>4, <1>14, DirIsNoLoss
<1>15. ASSUME NEW r \in Paths, r \in Inside(p) \cup Inside(q) \cup {q}, out'[r].kind # "link"
       PROVE  Changed("transpositions", p, r)
  BY <1>13, <1>15 DEF Changed
<1>16. ASSUME Redirected(p), NEW r \in Paths PROVE Changed("transpositions", p, r)
  <2>1. out'[r] = IF r = q \/ r \in Inside(q) THEN None ELSE t[r]
    BY <1>8, <1>10, <1>16 DEF RemoveAll
  <2>2. CASE r = q \/ r \in Inside(q)
    BY <1>15, <2>1, <2>2 DEF None
  <2>3. CASE ~(r = q \/ r \in Inside(q))
    <3>1. r = p => out'[r] = out[r]
      BY <1>5, <1>16, <2>1, <2>3
    <3>2. r # p => Changed("transpositions", p, r)
      BY <1>14, <2>1, <2>3
    <3>3. QED
      BY <3>1, <3>2 DEF Changed
  <2>4. QED
    BY <2>2, <2>3
<1>17. ASSUME ~Redirected(p), NEW r \in Paths PROVE Changed("transpositions", p, r)
  <2>1. out' = Rename(t, q, p)
    BY <1>8, <1>17
  <2>2. CASE r = p
    <3>1. out'[p] = t[q]
      BY <1>1, <1>9, <1>10, <2>1 DEF Rename
    <3>2. out'[p].kind # "link" /\ new[p].kind # "link" /\ ~Written(p)
      BY <1>1, <1>10, <3>1
    <3>3. Changed("transpositions", p, p)
      BY <3>2 DEF Changed
    <3>4. QED
      BY <2>2, <3>3, Zenon
  <2>3. CASE r # p
    <3>1. \/ out'[r] = t[r]
          \/ out'[r] = None /\ (r = q \/ r \in Inside(q))
          \/ r \in Inside(p) /\ Len(<<q[1], r[2]>>) = 2 /\ <<q[1], r[2]>> \in Paths /\ out'[r] = t[<<q[1], r[2]>>]
      BY <1>1, <1>9, <1>10, <2>1, <2>3, RenameIs
    <3>2. CASE out'[r] = t[r]
      BY <1>14, <2>3, <3>2
    <3>3. CASE out'[r] = None /\ (r = q \/ r \in Inside(q))
      BY <1>15, <3>3 DEF None
    <3>4. CASE r \in Inside(p) /\ Len(<<q[1], r[2]>>) = 2 /\ <<q[1], r[2]>> \in Paths /\ out'[r] = t[<<q[1], r[2]>>]
      <4> DEFINE s == <<q[1], r[2]>>
      <4>1. s \in Paths /\ Len(s) = 2 /\ out'[r] = t[s]
        BY <3>4
      <4> HIDE DEF s
      <4>2. out[s].kind # "link"
        BY <4>1, SMTT(60) DEF DiskInv, LinksAt
      <4>3. out'[r].kind # "link"
        BY <1>7, <4>1, <4>2
      <4>4. QED
        BY <1>15, <3>4, <4>3
    <3>5. QED
      BY <3>1, <3>2, <3>3, <3>4
  <2>4. QED
    BY <2>2, <2>3
<1>18. QED
  BY <1>3, <1>8, <1>11, <1>12, <1>16, <1>17, StepDisk

LEMMA TranspositionDisk ==
  ASSUME RecordInv, FixedInv, DiskInv, Applicable, NEW p, ApplyTransposition(p), phase' # "failed"
  PROVE  DiskInv'
<1>1. /\ Step("transpositions", p) /\ UNCHANGED <<committing, stage>>
      /\ IF Renames(p) THEN Move(p, transpositions[p]) ELSE Copy(p, transpositions[p])
  BY DEF ApplyTransposition
<1>2. QED
  BY <1>1, MoveDisk, CopyDisk

\* A file whose new contents wait outside the output folder.
LEMMA CleanupDisk ==
  ASSUME RecordInv, FixedInv, DiskInv, NEW p, CleanupRename(p), phase' # "failed"
  PROVE  DiskInv'
<1>1. Step("cleanup", p) /\ UNCHANGED <<committing, stage>> /\ MoveInto(p, safe[p])
      /\ safe' = [safe EXCEPT ![p] = IF phase' = "failed" THEN @ ELSE None]
  BY DEF CleanupRename
<1>2. p \in Paths /\ phase = "cleanup" /\ Due(p) = "cleanup"
  BY <1>1, PendingFacts DEF DiskInv
<1>3. p \in Files /\ new[p].kind = "file" /\ ~Written(p)
  BY <1>2, DueFacts, FileFacts DEF Written
<1>4. /\ DOMAIN safe = Paths /\ DOMAIN stage = Paths
      /\ \A r \in Paths : safe[r].kind # "link"
  BY DEF DiskInv, ReadyInv
<1>5. /\ Did(p) /\ DOMAIN out' = Paths /\ out'[p] = safe[p]
      /\ \A r \in Paths \ {p} : out'[r] = out[r] \/ (out'[r] = Dir /\ new[r] = Dir)
  BY <1>1, <1>2, <1>3, MoveIntoDisk
<1>6. ASSUME NEW r \in Paths PROVE Changed("cleanup", p, r)
  <2>1. CASE r = p
    BY <1>2, <1>3, <1>4, <1>5, <2>1 DEF Changed
  <2>2. CASE r # p
    BY <1>5, <2>2, DirIsNoLoss
  <2>3. QED
    BY <2>1, <2>2
<1>7. DOMAIN safe' = Paths /\ \A r \in Paths : safe'[r].kind # "link"
  BY <1>1, <1>2, <1>4 DEF None
<1>8. QED
  BY <1>1, <1>4, <1>5, <1>6, <1>7, StepDisk

LEMMA ApplyMoveDisk ==
  ASSUME RecordInv, FixedInv, DiskInv, NEW p, ApplyMove(p), phase' # "failed"
  PROVE  DiskInv'
<1>1. Step("moves", p) /\ UNCHANGED <<committing, safe>> /\ MoveInto(p, stage[p])
      /\ stage' = [stage EXCEPT ![p] = IF phase' = "failed" THEN @ ELSE None]
  BY DEF ApplyMove
<1>2. p \in Paths /\ phase = "moves" /\ phase # "failed" /\ todo = {} /\ Due(p) = "moves" /\ Ahead("moves", p)
  BY <1>1, PendingFacts DEF DiskInv
<1>3. p \in Files /\ p \in moveFiles
  BY <1>2, DueFacts, ListFacts
<1>4. /\ DOMAIN safe = Paths /\ DOMAIN stage = Paths /\ stage[p] = new[p]
      /\ \A r \in Paths : safe[r].kind # "link"
  BY <1>2, <1>3 DEF DiskInv, ReadyInv, ReadyFor
<1>5. /\ Did(p) /\ DOMAIN out' = Paths /\ out'[p] = new[p]
      /\ \A r \in Paths \ {p} : out'[r] = out[r] \/ (out'[r] = Dir /\ new[r] = Dir)
  BY <1>1, <1>2, <1>3, <1>4, MoveIntoDisk
<1>6. ASSUME NEW r \in Paths PROVE Changed("moves", p, r)
  <2>1. CASE r = p
    BY <1>5, <2>1 DEF Changed
  <2>2. CASE r # p
    BY <1>5, <2>2, DirIsNoLoss
  <2>3. QED
    BY <2>1, <2>2
<1>7. DOMAIN safe' = Paths /\ \A r \in Paths : safe'[r].kind # "link"
  BY <1>1, <1>4
<1>8. DOMAIN stage' = Paths /\ \A r \in Paths \ {p} : stage'[r] = stage[r]
  BY <1>1, <1>4
<1>9. QED
  BY <1>1, <1>4, <1>5, <1>6, <1>7, <1>8, StepDisk

\* What is found at the path of an overlay is what the overlay was made against.
LEMMA ApplyOverlayDisk ==
  ASSUME RecordInv, FixedInv, DiskInv, NEW p, ApplyOverlay(p), phase' # "failed"
  PROVE  DiskInv'
<1>1. /\ Step("overlays", p) /\ UNCHANGED <<committing, stage, safe>> /\ Did(p)
      /\ CanRead(out, p)
      /\ out' = Write(out, p, PatchOverlay(stage[p].data, Read(out, p)))
  BY DEF ApplyOverlay, Fail
<1>2. p \in Paths /\ phase = "overlays" /\ phase # "failed" /\ todo = {} /\ Due(p) = "overlays" /\ Ahead("overlays", p)
  BY <1>1, PendingFacts DEF DiskInv
<1>3. p \in Files /\ p \in overlayFiles
  BY <1>2, DueFacts, ListFacts
<1>4. /\ DOMAIN out = Paths /\ DOMAIN safe = Paths /\ DOMAIN stage = Paths /\ ReadyAt(p)
      /\ \A r \in Paths : safe[r].kind # "link"
  BY <1>2, <1>3 DEF DiskInv, ReadyInv, ReadyFor
<1>5. Follow(out, p) = p
  BY <1>2, <1>3, FileIsClear
<1>6. out[p].kind = "file" /\ Read(out, p) = out[p].data
  BY <1>1, <1>5 DEF CanRead, Read
<1>7. out[p].data \in Contents /\ stage[p].data = OverlayOf(out[p].data, new[p].data)
  BY <1>4, <1>6 DEF ReadyAt, None, File
<1>8. new[p] = File(new[p].data) /\ new[p].data \in Contents
  BY <1>3, FileFacts
<1>9. PatchOverlay(stage[p].data, out[p].data) = new[p].data
  BY <1>7, <1>8, OverlayWorks
<1>10. out' = [out EXCEPT ![p] = new[p]]
  BY <1>1, <1>5, <1>6, <1>8, <1>9 DEF Write
<1>11. DOMAIN out' = Paths /\ out'[p] = new[p] /\ \A r \in Paths \ {p} : out'[r] = out[r]
  BY <1>2, <1>4, <1>10
<1>12. \A r \in Paths : Changed("overlays", p, r)
  BY <1>11 DEF Changed
<1>13. QED
  BY <1>1, <1>4, <1>11, <1>12, StepDisk

\* A removed entry of a directory that became a link is looked up through that
\* link, and only what the new build does not have is there.
LEMMA GhostIsNoFile ==
  ASSUME FixedInv, Applicable, DiskInv, phase = "ghosts", NEW p \in Paths, old[p] # None, new[p] = None,
         NEW e \in Paths, e = Entry(out, p)
  PROVE  new[e] = None
<1>1. CASE Len(p) # 2
  BY <1>1 DEF Entry
<1>2. CASE Len(p) = 2
  <2> DEFINE r == <<p[1]>>
  <2>1. r \in Paths /\ p[1] \in Top /\ p = <<p[1], p[2]>> /\ Len(r) = 1 /\ r[1] = p[1]
    BY <1>2, PathFacts
  <2>2. ASSUME NEW n \in Top PROVE Hop(out, n) = Hop(new, n)
    <3>1. <<n>> \in Paths
      BY DEF Paths
    <3>2. LinksAt(<<n>>) /\ ~Ahead("dirs", <<n>>) /\ ~Ahead("symlinks", <<n>>)
      BY <3>1, LinksFirst DEF DiskInv
    <3>3. out[<<n>>].kind = "link" \/ new[<<n>>].kind = "link" => out[<<n>>] = new[<<n>>]
      BY <3>2 DEF LinksAt
    <3>4. QED
      BY <3>3 DEF Hop
  <2>3. Hop(new, p[1]) \in Top
    <3>1. new[r] \in Node
      BY <2>1, BuildFacts DEF FixedInv
    <3>2. new[r].kind = "link" => new[r].to \in Top
      BY <3>1, NodeFacts
    <3>3. QED
      BY <2>1, <3>2 DEF Hop
  <2>4. Resolve(out, p[1]) = Resolve(new, p[1])
    BY <2>1, <2>2, <2>3 DEF Resolve
  <2>5. e = Follow(new, p)
    BY <1>2, <2>4 DEF Entry, Follow
  <2>6. CASE new[r].kind = "link"
    <3>1. r \in Kind(new, "link") /\ p \in Inside(r)
      BY <1>2, <2>1, <2>6 DEF Kind, Inside
    <3>2. new[Follow(new, p)] = None
      BY <3>1, Zenon DEF Applicable, NoLinkOverDir
    <3>3. QED
      BY <2>5, <3>2
  <2>7. CASE new[r].kind # "link"
    <3>1. Follow(new, p) = p
      <4>1. new[p].kind # "link" /\ new[<<p[1]>>].kind # "link"
        BY <2>7 DEF None
      <4>2. QED
        BY <4>1, NoLinkFollowed
    <3>2. QED
      BY <2>5, <3>1
  <2>8. QED
    BY <2>6, <2>7
<1>3. QED
  BY <1>1, <1>2

LEMMA DeleteGhostDisk ==
  ASSUME RecordInv, FixedInv, DiskInv, Applicable, NEW p, DeleteGhost(p), phase' # "failed"
  PROVE  DiskInv'
<1>1. /\ Step("ghosts", p) /\ UNCHANGED <<committing, stage, safe>> /\ Did(p)
      /\ out' = Remove(out, p) \/ out' = out
  BY DEF DeleteGhost, Fail
<1>2. p \in Paths /\ phase = "ghosts" /\ old[p] # None /\ new[p] = None
  BY <1>1, PendingFacts, DueFacts DEF DiskInv
<1>3. /\ DOMAIN out = Paths /\ DOMAIN safe = Paths /\ DOMAIN stage = Paths
      /\ \A r \in Paths : safe[r].kind # "link"
  BY DEF DiskInv, ReadyInv
<1> DEFINE e == Entry(out, p)
<1>4. DOMAIN out' = Paths /\ \A r \in Paths : out'[r] = out[r] \/ (r = e /\ out'[r] = None)
  BY <1>1, <1>3 DEF Remove
<1>5. ASSUME NEW r \in Paths PROVE Changed("ghosts", p, r)
  <2>1. CASE r = e /\ out'[r] = None
    <3>1. new[r] = None
      BY <1>2, <2>1, GhostIsNoFile
    <3>2. QED
      BY <2>1, <3>1, WrittenFacts DEF Changed, None
  <2>2. CASE out'[r] = out[r]
    BY <2>2 DEF Changed
  <2>3. QED
    BY <1>4, <2>1, <2>2
<1>6. QED
  BY <1>1, <1>3, <1>4, <1>5, StepDisk

\* A step that leaves the folders and the phase alone keeps what they hold.
LEMMA DiskSame ==
  ASSUME DiskInv, UNCHANGED <<old, new, plan, out, safe, found, phase, pending>>, OrderInv', ReadyInv'
  PROVE  DiskInv'
<1>1. \A k, r : Ahead(k, r)' <=> Ahead(k, r)
  BY DEF Ahead, Before
<1>2. \A r : Due(r)' = Due(r) /\ (Written(r)' <=> Written(r))
  BY DEF Due, Users, Files, Kind, Written
<1>3. \A r : (Ahead(Due(r), r))' <=> Ahead(Due(r), r)
  BY <1>2 DEF Ahead, Before
<1>4. \A r : LinksAt(r)' <=> LinksAt(r)
  BY <1>1 DEF LinksAt
<1>5. QED
  BY <1>2, <1>3, <1>4 DEF DiskInv

LEMMA PatchDisk ==
  ASSUME DiskInv, phase = "patch", UNCHANGED <<patch, out, safe, phase, pending>>,
         DOMAIN stage' = Paths, (ReadyFor(overlayFiles, moveFiles))',
         (ReadyFor(checkpoint.overlayFiles, checkpoint.moveFiles))'
  PROVE  DiskInv'
<1>1. OrderInv'
  BY DEF DiskInv, OrderInv
<1>2. ReadyInv'
  BY DEF ReadyInv
<1>3. QED
  BY <1>1, <1>2, DiskSame DEF patch

LEMMA TransposeDisk ==
  ASSUME DiskInv, NEW p, Transpose(p)
  PROVE  DiskInv'
<1>1. /\ phase = "patch" /\ UNCHANGED <<patch, out, safe, phase, pending>>
      /\ UNCHANGED <<new, stage, overlayFiles, moveFiles, checkpoint>>
  BY DEF Transpose, patch
<1>2. (ReadyFor(overlayFiles, moveFiles))' /\ (ReadyFor(checkpoint.overlayFiles, checkpoint.moveFiles))'
  BY <1>1, SameAhead DEF ReadyFor, ReadyAt, DiskInv, ReadyInv
<1>3. QED
  BY <1>1, <1>2, PatchDisk DEF DiskInv, ReadyInv

LEMMA SaveDisk ==
  ASSUME DiskInv, Save
  PROVE  DiskInv'
<1>1. /\ phase = "patch" /\ UNCHANGED <<patch, out, safe, phase, pending>>
      /\ UNCHANGED <<new, stage, overlayFiles, moveFiles>>
      /\ checkpoint'.overlayFiles = overlayFiles /\ checkpoint'.moveFiles = moveFiles
  BY DEF Save, patch, lists
<1>2. (ReadyFor(overlayFiles, moveFiles))' /\ (ReadyFor(checkpoint.overlayFiles, checkpoint.moveFiles))'
  BY <1>1, SameAhead DEF ReadyFor, ReadyAt, DiskInv, ReadyInv
<1>3. QED
  BY <1>1, <1>2, PatchDisk DEF DiskInv, ReadyInv

LEMMA ResumeDisk ==
  ASSUME DiskInv, CrashResume
  PROVE  DiskInv'
<1>1. /\ phase = "patch" /\ UNCHANGED <<patch, out, safe, phase, pending>>
      /\ UNCHANGED <<new, stage, checkpoint>>
      /\ overlayFiles' = checkpoint.overlayFiles /\ moveFiles' = checkpoint.moveFiles
  BY DEF CrashResume, patch
<1>2. (ReadyFor(overlayFiles, moveFiles))' /\ (ReadyFor(checkpoint.overlayFiles, checkpoint.moveFiles))'
  BY <1>1, SameAhead DEF ReadyFor, ReadyAt, DiskInv, ReadyInv
<1>3. QED
  BY <1>1, <1>2, PatchDisk DEF DiskInv, ReadyInv

\* An overlay is made against the file at its own path, or against one found
\* through a link to another directory: then nothing is at its own path.
LEMMA WriteEntryDisk ==
  ASSUME RecordInv, FixedInv, DiskInv, Build(found), NEW p, WriteEntry(p), phase' # "failed"
  PROVE  DiskInv'
<1>1. phase = "patch" /\ p \in todo /\ plan[p] = NoPath /\ UNCHANGED <<patch, out, safe, phase, pending, checkpoint>>
      /\ UNCHANGED <<old, new>>
  BY DEF WriteEntry, patch
<1>2. /\ Records(transpositions, overlayFiles, moveFiles, todo)
      /\ Records(checkpoint.transpositions, checkpoint.overlayFiles, checkpoint.moveFiles, checkpoint.todo)
  BY <1>1 DEF RecordInv
<1>3. p \in Files /\ p \in Paths /\ DOMAIN stage = Paths
  BY <1>1, <1>2, FilesArePaths DEF Records, DiskInv, ReadyInv
<1>4. out = found
  BY <1>1 DEF DiskInv
<1>5. ReadyFor(overlayFiles, moveFiles) /\ ReadyFor(checkpoint.overlayFiles, checkpoint.moveFiles)
  BY <1>1 DEF DiskInv, ReadyInv
<1>6. /\ p \in overlayFiles \cup checkpoint.overlayFiles => old[p].kind = "file"
      /\ p \in moveFiles \cup checkpoint.moveFiles => old[p].kind # "file"
  BY <1>1, <1>2, <1>3 DEF Records
<1>7. CASE old[p].kind = "file"
  <2>1. /\ CanRead(out, p)
        /\ stage' = [stage EXCEPT ![p] = File(OverlayOf(Read(out, p), new[p].data))]
        /\ overlayFiles' = overlayFiles \cup {p} /\ moveFiles' = moveFiles
    BY <1>7 DEF WriteEntry
  <2>2. /\ stage'[p] = File(OverlayOf(Read(out, p), new[p].data))
        /\ \A r : r # p => stage'[r] = stage[r]
        /\ DOMAIN stage' = Paths
    BY <1>3, <2>1
  <2>3. \/ out[p] = None
        \/ /\ out[p].kind = "file" /\ out[p].data \in Contents
           /\ Read(out, p) = out[p].data
    <3>1. CASE Len(p) = 2 /\ out[<<p[1]>>].kind = "link"
      <4>1. out[<<p[1]>>] # Dir
        BY <3>1 DEF Dir
      <4>2. QED
        BY <1>3, <1>4, <3>1, <4>1, BuildFacts
    <3>2. CASE Len(p) = 2 => out[<<p[1]>>].kind # "link"
      <4>1. LinksAt(p) /\ new[p].kind = "file"
        BY <1>3, FileFacts DEF DiskInv
      <4>2. Follow(out, p) = p
        BY <1>3, <3>2, <4>1, NoLinkFollowed DEF LinksAt
      <4>3. out[p].kind = "file" /\ Read(out, p) = out[p].data
        BY <2>1, <4>2 DEF CanRead, Read
      <4>4. out[p] \in Node
        BY <1>3, <1>4, BuildFacts
      <4>5. QED
        BY <4>3, <4>4, NodeFacts
    <3>3. QED
      BY <3>1, <3>2
  <2>4. ReadyAt(p)'
    BY <1>1, <2>2, <2>3 DEF ReadyAt
  <2>5. ASSUME NEW r, r # p, ReadyAt(r) PROVE ReadyAt(r)'
    BY <1>1, <2>2, <2>5 DEF ReadyAt
  <2>6. (ReadyFor(overlayFiles, moveFiles))'
    BY <1>1, <1>5, <1>6, <1>7, <2>1, <2>2, <2>4, <2>5, SameAhead DEF ReadyFor
  <2>7. (ReadyFor(checkpoint.overlayFiles, checkpoint.moveFiles))'
    BY <1>1, <1>5, <1>6, <1>7, <2>1, <2>2, <2>4, <2>5, SameAhead DEF ReadyFor
  <2>8. QED
    BY <1>1, <2>2, <2>6, <2>7, PatchDisk
<1>8. CASE old[p].kind # "file"
  <2>1. /\ stage' = [stage EXCEPT ![p] = new[p]]
        /\ moveFiles' = moveFiles \cup {p} /\ overlayFiles' = overlayFiles
    BY <1>8 DEF WriteEntry
  <2>2. /\ stage'[p] = new[p]
        /\ \A r : r # p => stage'[r] = stage[r]
        /\ DOMAIN stage' = Paths
    BY <1>3, <2>1
  <2>3. ASSUME NEW r, r # p, ReadyAt(r) PROVE ReadyAt(r)'
    BY <1>1, <2>2, <2>3 DEF ReadyAt
  <2>4. (ReadyFor(overlayFiles, moveFiles))'
    BY <1>1, <1>5, <1>6, <1>8, <2>1, <2>2, <2>3, SameAhead DEF ReadyFor
  <2>5. (ReadyFor(checkpoint.overlayFiles, checkpoint.moveFiles))'
    BY <1>1, <1>5, <1>6, <1>8, <2>1, <2>2, <2>3, SameAhead DEF ReadyFor
  <2>6. QED
    BY <1>1, <2>2, <2>4, <2>5, PatchDisk
<1>9. QED
  BY <1>7, <1>8

LEMMA NextPhaseDisk ==
  ASSUME RecordInv, FixedInv, DiskInv, NextPhase
  PROVE  DiskInv'
<1>1. /\ phase \in DOMAIN NextPhaseOf /\ todo = {} /\ pending = {} /\ phase # "failed" /\ OrderInv
      /\ phase' = NextPhaseOf[phase] /\ pending' = WorkOf(phase')
      /\ UNCHANGED <<old, new, plan, out, stage, safe, transpositions, overlayFiles, moveFiles, todo, checkpoint>>
  BY DEF NextPhase, DiskInv, NextPhaseOf, patch, lists
<1>2. phase' \in Phases \ {"patch"}
  BY <1>1, NextAhead, PhasesAre
<1>3. ASSUME NEW k \in Phases, NEW r
      PROVE  /\ phase' = k => Ahead(k, r) /\ (Ahead(k, r)' <=> r \in WorkOf(k))
             /\ phase' # k => (Ahead(k, r)' <=> Ahead(k, r))
  BY <1>1, NextAhead
<1>4. OrderInv'
  <2>1. WorkOf(phase)' = WorkOf(phase')
    BY <1>1 DEF WorkOf, Kind, Transposed, Redirected, Grouped, Ghosts
  <2>2. QED
    BY <1>1, <1>2, <2>1 DEF OrderInv
<1>5. \A p : Due(p)' = Due(p) /\ (Written(p)' <=> Written(p))
  BY <1>1 DEF Due, Users, Files, Kind, Written
<1>6. ASSUME NEW p \in Paths, NEW k \in {"dirs", "symlinks", "moves", "overlays"}, Due(p) = k, ~Ahead(k, p)'
      PROVE  ~Ahead(k, p)
  <2>1. k \in Phases /\ p \in WorkOf(k)
    BY <1>1, <1>6, WorkFacts, PhasesAre
  <2>2. QED
    BY <1>3, <1>6, <2>1
<1>7. ASSUME NEW p \in Paths PROVE LinksAt(p)'
  <2>1. LinksAt(p)
    BY DEF DiskInv
  <2>2. (new[p].kind = "dir" => Due(p) = "dirs") /\ (new[p].kind = "link" => Due(p) = "symlinks")
    BY DEF Due
  <2>3. new[p].kind = "dir" /\ ~Ahead("dirs", p)' => ~Ahead("dirs", p)
    BY <1>6, <2>2
  <2>4. new[p].kind = "link" /\ ~Ahead("symlinks", p)' => ~Ahead("symlinks", p)
    BY <1>6, <2>2
  <2>5. QED
    BY <1>1, <2>1, <2>3, <2>4 DEF LinksAt
<1>8. ASSUME NEW p \in Paths, Written(p), ~(Ahead(Due(p), p))' PROVE out[p] = new[p]
  <2>1. PICK k \in {"moves", "overlays"} : k = Due(p)
    BY <1>8 DEF Written
  <2>2. (Ahead(Due(p), p))' <=> Ahead(k, p)'
    BY <1>5, <2>1 DEF Ahead, Before
  <2>3. ~Ahead(k, p)
    BY <1>6, <1>8, <2>1, <2>2
  <2>4. QED
    BY <1>8, <2>1, <2>3 DEF DiskInv
<1>9. ReadyInv'
  <2>1. \A r : (Ahead("overlays", r)' => Ahead("overlays", r)) /\ (Ahead("moves", r)' => Ahead("moves", r))
    BY <1>3, PhasesAre
  <2>2. (ReadyFor(overlayFiles, moveFiles))'
    BY <1>1, <2>1 DEF DiskInv, ReadyInv, ReadyFor, ReadyAt
  <2>3. QED
    BY <1>1, <1>2, <2>2 DEF DiskInv, ReadyInv
<1>10. QED
  BY <1>1, <1>2, <1>4, <1>5, <1>7, <1>8, <1>9 DEF DiskInv

\* A step that goes wrong ends Commit.
LEMMA FailedStays == phase = "failed" /\ [Next]_vars => phase' = "failed"
<1> SUFFICES ASSUME phase = "failed", [Next]_vars PROVE phase' = "failed"
  OBVIOUS
<1>1. ASSUME NEW p \in Paths,
             \/ EnsureDir(p) \/ EnsureSymlink(p) \/ ApplyTransposition(p) \/ CleanupRename(p)
             \/ ApplyMove(p) \/ ApplyOverlay(p) \/ DeleteGhost(p)
      PROVE FALSE
  BY <1>1 DEF EnsureDir, EnsureSymlink, ApplyTransposition, CleanupRename, ApplyMove, ApplyOverlay,
              DeleteGhost, Step
<1>2. ASSUME NEW p \in Paths, Transpose(p) \/ WriteEntry(p) PROVE FALSE
  BY <1>2 DEF Transpose, WriteEntry
<1>3. ~Save /\ ~CrashResume /\ ~NextPhase
  BY DEF Save, CrashResume, NextPhase, NextPhaseOf
<1>4. CASE Terminated \/ UNCHANGED vars
  BY <1>4 DEF Terminated, vars
<1>5. QED
  BY <1>1, <1>2, <1>3, <1>4 DEF Next

LEMMA WrittenInit == Init => WrittenInv
<1> SUFFICES ASSUME Init PROVE WrittenInv
  OBVIOUS
<1>1. Build(found) /\ FixedInv
  BY UpgradesAssumption DEF Init, FixedInv
<1>2. ASSUME LinksYield PROVE DiskInv
  <2>1. phase = "patch" /\ phase \in Phases /\ pending = {} /\ out = found
    BY PhasesAre DEF Init
  <2>2. OrderInv
    BY <2>1 DEF OrderInv
  <2>3. DOMAIN out = Paths
    BY <1>1, <2>1 DEF Build, Tree
  <2>4. \A k \in Phases \ {"patch"} : \A r : Ahead(k, r)
    BY <2>1, AheadIs, PhasesAre DEF Rank
  <2>5. ASSUME NEW p \in Paths PROVE LinksAt(p)
    <3>1. out[p].kind = "link" => Len(p) = 1 /\ new[p].kind \in {"dir", "link"}
      BY <1>1, <1>2, <2>1, TopLinks DEF LinksYield, Kind
    <3>2. Ahead("dirs", p) /\ Ahead("symlinks", p)
      BY <2>4, PhasesAre
    <3>3. QED
      BY <3>1, <3>2 DEF LinksAt
  <2>6. DOMAIN safe = Paths /\ \A p \in Paths : safe[p].kind # "link"
    BY DEF Init, Empty, None
  <2>7. ReadyInv
    BY DEF Init, Empty, ReadyInv, ReadyFor
  <2>8. ASSUME NEW p \in Paths, Written(p) PROVE Ahead(Due(p), p)
    BY <2>4, <2>8, PhasesAre DEF Written
  <2>9. QED
    BY <2>1, <2>2, <2>3, <2>5, <2>6, <2>7, <2>8 DEF DiskInv
<1>3. QED
  BY <1>1, <1>2 DEF WrittenInv

LEMMA DiskStep ==
  ASSUME RecordInv, FixedInv, Build(found), DiskInv, Applicable, [Next]_vars, phase' # "failed"
  PROVE  DiskInv'
<1>1. ASSUME NEW p \in Paths, Transpose(p) PROVE DiskInv'
  BY <1>1, TransposeDisk
<1>2. ASSUME NEW p \in Paths, WriteEntry(p) PROVE DiskInv'
  BY <1>2, WriteEntryDisk
<1>3. ASSUME NEW p \in Paths, EnsureDir(p) PROVE DiskInv'
  BY <1>3, EnsureDirDisk
<1>4. ASSUME NEW p \in Paths, EnsureSymlink(p) PROVE DiskInv'
  BY <1>4, EnsureSymlinkDisk
<1>5. ASSUME NEW p \in Paths, ApplyTransposition(p) PROVE DiskInv'
  BY <1>5, TranspositionDisk
<1>6. ASSUME NEW p \in Paths, CleanupRename(p) PROVE DiskInv'
  BY <1>6, CleanupDisk
<1>7. ASSUME NEW p \in Paths, ApplyMove(p) PROVE DiskInv'
  BY <1>7, ApplyMoveDisk
<1>8. ASSUME NEW p \in Paths, ApplyOverlay(p) PROVE DiskInv'
  BY <1>8, ApplyOverlayDisk
<1>9. ASSUME NEW p \in Paths, DeleteGhost(p) PROVE DiskInv'
  BY <1>9, DeleteGhostDisk
<1>10. CASE Save
  BY <1>10, SaveDisk
<1>11. CASE CrashResume
  BY <1>11, ResumeDisk
<1>12. CASE NextPhase
  BY <1>12, NextPhaseDisk
<1>13. CASE Terminated \/ UNCHANGED vars
  <2>1. UNCHANGED <<patch, out, safe, stage, phase, pending, todo, lists, checkpoint>>
    BY <1>13 DEF Terminated, vars
  <2>2. UNCHANGED <<old, new, plan, found, transpositions, overlayFiles, moveFiles>>
    BY <2>1 DEF patch, lists
  <2>3. WorkOf(phase)' = WorkOf(phase)
    BY <2>1, <2>2 DEF WorkOf, Kind, Transposed, Redirected, Grouped, Ghosts
  <2>4. OrderInv'
    BY <2>1, <2>2, <2>3 DEF DiskInv, OrderInv
  <2>5. ReadyInv'
    BY <2>1, <2>2, SameAhead DEF DiskInv, ReadyInv, ReadyFor, ReadyAt
  <2>6. QED
    BY <2>1, <2>2, <2>4, <2>5, DiskSame
<1>14. QED
  BY <1>1, <1>2, <1>3, <1>4, <1>5, <1>6, <1>7, <1>8, <1>9, <1>10, <1>11, <1>12, <1>13 DEF Next

LEMMA WrittenStep == BowlInv /\ WrittenInv /\ [Next]_vars => WrittenInv'
<1> SUFFICES ASSUME BowlInv, WrittenInv, [Next]_vars PROVE WrittenInv'
  OBVIOUS
<1>1. UNCHANGED <<old, new, plan, found>>
  BY PatchIsFixed DEF patch
<1>2. Build(found)'
  BY <1>1 DEF WrittenInv, Build, Tree, WellFormed
<1>3. Applicable' <=> Applicable
  BY ApplicableFixed
<1>4. LinksYield' <=> LinksYield
  BY <1>1 DEF LinksYield, Kind
<1>5. Applicable /\ LinksYield /\ phase' # "failed" => DiskInv'
  BY FailedStays, DiskStep DEF BowlInv, WrittenInv
<1>6. QED
  BY <1>2, <1>3, <1>4, <1>5 DEF WrittenInv

\* Whatever else lies in the output folder, when Commit of an upgrade it can deal
\* with is done the files the patch writes itself are right.
THEOREM WrittenFilesInPlaceHolds == Spec => []WrittenFilesInPlace
<1>1. Spec => []WrittenInv
  BY WrittenInit, WrittenStep, BowlInvHolds, PTL DEF Spec
<1>2. BowlInv /\ WrittenInv /\ CommitIsFaithful => WrittenFilesInPlace
  <2> SUFFICES ASSUME BowlInv, WrittenInv, CommitIsFaithful, Applicable, found = old \/ LinksYield, phase = "done",
                      NEW p \in overlayFiles \cup moveFiles
               PROVE  out[p] = new[p]
    BY DEF WrittenFilesInPlace
  <2>1. RecordInv /\ FixedInv
    BY DEF BowlInv
  <2>2. p \in Files /\ p \in Paths
    <3>1. Records(transpositions, overlayFiles, moveFiles, todo)
      BY <2>1 DEF RecordInv
    <3>2. QED
      BY <3>1, FilesArePaths DEF Records
  <2>3. CASE found = old
    <3>1. IsNewBuild
      BY <2>3 DEF CommitIsFaithful, Committable
    <3>2. new[p] # None
      BY <2>1, <2>2, FileFacts
    <3>3. QED
      BY <2>2, <3>1, <3>2 DEF IsNewBuild
  <2>4. CASE LinksYield
    <3>1. DiskInv
      BY <2>4 DEF WrittenInv
    <3>2. todo = {} /\ phase \in Phases
      BY <3>1 DEF DiskInv, OrderInv
    <3>3. Written(p)
      BY <2>1, <2>2, <3>2, ListFacts DEF Written
    <3>4. ~Ahead(Due(p), p)
      BY <3>2, <3>3, AheadIs, PhasesAre DEF Rank, Written
    <3>5. QED
      BY <2>2, <3>1, <3>3, <3>4 DEF DiskInv
  <2>5. QED
    BY <2>3, <2>4
<1>3. QED
  BY <1>1, <1>2, BowlInvHolds, CommitIsFaithfulHolds, PTL

-----------------------------------------------------------------------------
(* ZipExtract                                                               *)
(* The invariant                                                            *)

Indices == 0 .. N - 1

\* The worker is at an entry, and the entry is not complete.
Extracting(w) == workers[w].at \in {"create", "fill"}

AtEntry(w) == Extracting(w) \/ Working(w, "record")

Busy(e) == \E w \in 1 .. size : Extracting(w) /\ workers[w].entry = e

\* What an extraction can promise of an entry it is through with.
Complete(e) == InPlace(e) \/ e \in misread \/ (size > 1 /\ e \in torn)

GoneWorkers == {w \in 1 .. size : Working(w, "gone")}

Places == {"new", "idle", "create", "fill", "record", "gone"}

ZipTypes ==
  /\ size \in Concurrency
  /\ ready \in BOOLEAN
  /\ folder \in Tree
  /\ resume \in -2 .. N - 1
  /\ main \in {"none", "feed", "wait", "returned"}
  /\ result \in {"none", "nil", "failed"}
  /\ fed \in 0 .. N
  /\ closed \in BOOLEAN
  /\ lastDone \in -1 .. N - 1
  /\ workers \in [1 .. size -> [at : Places, entry : Nat]]
  /\ errs \in Seq({"nil", "failed"})
  /\ misread \subseteq {e \in Indices : Wanted(e).kind = "link"}
  /\ failures \in Nat

\* Where the call is, and how many workers it can have heard of.
CallInv ==
  /\ main = "none" => AllGone /\ result # "nil"
  /\ main \in {"feed", "wait"} => result = "none" /\ Len(errs) <= Cardinality(GoneWorkers)
  /\ main = "feed" => ~closed /\ \A i \in DOMAIN errs : errs[i] = "failed"
  /\ main = "wait" => fed = N
  /\ result = "nil" => main = "returned" /\ AllGone

\* Each entry is given to one worker, and not if it is to be skipped.
Assigned ==
  \A w \in 1 .. size : AtEntry(w) =>
    /\ lastDone < workers[w].entry /\ workers[w].entry < fed
    /\ \A v \in 1 .. size : v # w /\ AtEntry(v) => workers[v].entry # workers[w].entry
    /\ Working(w, "fill") => Wanted(workers[w].entry).kind = "file"

\* The file that is being filled is the one that was opened.
Opened ==
  \A w \in 1 .. size :
    LET e == workers[w].entry IN
      Working(w, "fill") =>
        /\ folder[Path(e)] = File(<< >>)
        /\ Len(Path(e)) = 2 => folder[<<Path(e)[1]>>] = Dir

\* A worker of its own is the only one to say anything.
Alone ==
  size = 1 =>
    /\ ~Working(1, "gone") => main \in {"feed", "wait"} /\ errs = << >>
    /\ Len(errs) <= 1
    /\ main \in {"feed", "wait"} => resume < fed \/ resume <= lastDone
    /\ AtEntry(1) => resume < workers[1].entry

DirsClear == ready => \A e \in Indices : Wanted(e) = Dir => folder[Path(e)] \in {None, Dir}

Unsuccessful == result = "failed" \/ errs = <<"failed">>

\* Entries that were fed are complete, or their worker is at them; those that will be
\* skipped, now or after a crash, are complete.
EntriesInv ==
  /\ main # "none" =>
       /\ \A e \in 0 .. fed - 1 : Complete(e) \/ Busy(e) \/ (size = 1 /\ Unsuccessful)
       /\ \A e \in 0 .. lastDone : Complete(e)
  /\ \A e \in 0 .. resume : Complete(e) \/ (size > 1 /\ Busy(e))
  /\ result = "nil" => \A e \in Indices : Complete(e)

\* Only reads fail.
Honest == failures = 0 => result # "failed" /\ \A i \in DOMAIN errs : errs[i] # "failed"

Undisturbed == size = 1 \/ ready

BaseInv == ZipTypes /\ CallInv /\ Assigned

DeepInv == DirsClear /\ Alone /\ Opened /\ EntriesInv /\ Honest

ZipInv == BaseInv /\ (Undisturbed => DeepInv)
-----------------------------------------------------------------------------
(* The archive and the folder *)

LEMMA Sizes == N \in Nat /\ DOMAIN Entries = 1 .. N
BY EntriesAssumption DEF N

LEMMA ElementsOfSequences ==
  \A S, s, i : s \in Seq(S) /\ i \in DOMAIN s => s[i] \in S
OBVIOUS

LEMMA EntryFacts ==
  ASSUME NEW e \in Indices
  PROVE  /\ e \in Nat /\ e + 1 \in DOMAIN Entries
         /\ Path(e) \in Paths
         /\ Wanted(e) \in Node /\ Wanted(e).kind \in {"dir", "link", "file"}
         /\ Wanted(e) # None
         /\ \A d \in Indices : Path(d) = Path(e) => d = e
         /\ Len(Path(e)) = 2 =>
              /\ Wanted(e).kind = "file"
              /\ \E d \in 0 .. e - 1 : Path(d) = <<Path(e)[1]>> /\ Wanted(d) = Dir
<1>1. /\ e \in Nat /\ N \in Nat /\ e + 1 \in DOMAIN Entries
      /\ \A d \in Indices : d \in Nat /\ d + 1 \in DOMAIN Entries
  BY Sizes DEF Indices
<1>2. /\ Path(e) \in Paths
      /\ Wanted(e) \in Node /\ Wanted(e) # None
  <2>1. Entries[e + 1] \in [path : Paths, node : Node \ {None}]
    BY <1>1, EntriesAssumption, ElementsOfSequences
  <2>2. QED
    BY <2>1 DEF Path, Wanted
<1>3. Wanted(e).kind \in {"dir", "link", "file"}
  BY <1>2, NodeFacts
<1>4. \A d \in Indices : Path(d) = Path(e) => d = e
  <2> SUFFICES ASSUME NEW d \in Indices, Path(d) = Path(e) PROVE d + 1 = e + 1
    BY <1>1
  <2>1. QED
    BY <1>1, EntriesAssumption DEF Path
<1>5. ASSUME Len(Path(e)) = 2
      PROVE  /\ Wanted(e).kind = "file"
             /\ \E d \in 0 .. e - 1 : Path(d) = <<Path(e)[1]>> /\ Wanted(d) = Dir
  <2>1. /\ Entries[e + 1].node.kind = "file"
        /\ \E j \in 1 .. e : Entries[j] = [path |-> <<Entries[e + 1].path[1]>>, node |-> Dir]
    BY <1>1, <1>5, EntriesAssumption, SMTT(60) DEF Path
  <2>2. PICK j \in 1 .. e : Entries[j] = [path |-> <<Entries[e + 1].path[1]>>, node |-> Dir]
    BY <2>1
  <2>3. j - 1 \in 0 .. e - 1 /\ (j - 1) + 1 = j
    BY <1>1
  <2>4. Path(j - 1) = <<Path(e)[1]>> /\ Wanted(j - 1) = Dir
    BY <2>2, <2>3 DEF Path, Wanted
  <2>5. QED
    BY <2>1, <2>3, <2>4 DEF Wanted
<1>6. QED
  BY <1>1, <1>2, <1>3, <1>4, <1>5

LEMMA NodesOfTrees ==
  ASSUME NEW t \in Tree
  PROVE  /\ \A p \in Paths : t[p] \in Node
         /\ \A x : \A n \in Node : [t EXCEPT ![x] = n] \in Tree
         /\ \A p, x : RemoveAll(t, p) \in Tree
         /\ \A p : MkdirFor(t, p) \in Tree
<1>1. None \in Node /\ Dir \in Node
  BY DEF Node
<1>2. \A x : \A n \in Node : [t EXCEPT ![x] = n] \in Tree
  BY DEF Tree
<1>3. \A p : RemoveAll(t, p) \in Tree
  BY <1>1 DEF RemoveAll, Tree
<1>4. \A p : MkdirFor(t, p) \in Tree
  BY <1>1, <1>2 DEF MkdirFor
<1>5. QED
  BY <1>2, <1>3, <1>4 DEF Tree

\* What an entry's extraction may do to the folder.
Touches(e) ==
  /\ folder' \in Tree
  /\ \A q \in Paths :
       \/ folder'[q] = folder[q]
       \/ q = Path(e)
       \/ q \in Inside(Path(e)) /\ Wanted(e) # Dir
       \/ folder[q] = None /\ folder'[q] = Dir
  /\ Wanted(e) = Dir => folder'[Path(e)] = Dir

\* The directory an entry is put into is one, or there is nothing yet.
ParentClear(e) == Len(Path(e)) = 2 => folder[<<Path(e)[1]>>] \in {None, Dir}

LEMMA DirectoryFollowed ==
  ASSUME NEW t, NEW p \in Paths, t[<<p[1]>>].kind # "link"
  PROVE  Follow(t, p) = p
<1>1. Resolve(t, p[1]) = p[1]
  BY DEF Resolve, Hop
<1>2. QED
  BY <1>1, PathFacts DEF Follow

LEMMA RoomMade ==
  ASSUME folder \in Tree, NEW e \in Indices, ParentClear(e)
  PROVE  LET u == MadeRoom(folder, Path(e)) IN
         /\ CanMakeRoom(folder, Path(e))
         /\ u \in Tree
         /\ u[Path(e)] = None
         /\ Len(Path(e)) = 2 => u[<<Path(e)[1]>>] = Dir
         /\ \A q \in Paths :
              u[q] = folder[q] \/ q = Path(e) \/ q \in Inside(Path(e)) \/ (folder[q] = None /\ u[q] = Dir)
<1> DEFINE p == Path(e)
           r == RemoveAll(folder, Entry(folder, p))
           u == MadeRoom(folder, p)
<1>1. p \in Paths /\ Len(p) \in {1, 2}
  BY EntryFacts, PathFacts
<1>2. Entry(folder, p) = p
  <2>1. CASE Len(p) = 1
    BY <2>1 DEF Entry
  <2>2. CASE Len(p) = 2
    <3>1. folder[<<p[1]>>].kind # "link"
      BY <2>2 DEF ParentClear, None, Dir
    <3>2. Follow(folder, p) = p
      BY <3>1, <1>1, DirectoryFollowed
    <3>3. QED
      BY <3>2 DEF Entry
  <2>3. QED
    BY <1>1, <2>1, <2>2
<1>3. CanMakeRoom(folder, p)
  <2> SUFFICES ASSUME Len(p) = 2 PROVE folder[<<p[1]>>] = None \/ Parent(folder, p) = "dir"
    BY DEF CanMakeRoom
  <2>1. <<p[1]>> \in Paths /\ Len(<<p[1]>>) = 1
    BY <1>1, PathFacts
  <2>2. folder[<<p[1]>>].kind # "link"
    BY DEF ParentClear, None, Dir
  <2>3. Follow(folder, <<p[1]>>) = <<p[1]>>
    BY <2>1, <2>2, NoLinkFollowed
  <2>4. QED
    BY <2>3 DEF ParentClear, Parent, Dir
<1>4. r \in Tree /\ u \in Tree
  BY NodesOfTrees DEF MadeRoom
<1>5. /\ r[p] = None
      /\ \A q \in Paths : q # p /\ q \notin Inside(p) => r[q] = folder[q]
  BY <1>1, <1>2 DEF RemoveAll
<1>6. u = MkdirFor(r, p)
  BY DEF MadeRoom
<1>7. CASE Len(p) = 1
  <2>1. u = r
    BY <1>6, <1>7 DEF MkdirFor
  <2>2. QED
    BY <1>3, <1>4, <1>5, <1>7, <2>1
<1>8. CASE Len(p) = 2
  <2>1. /\ <<p[1]>> \in Paths /\ <<p[1]>> # p /\ <<p[1]>> \notin Inside(p)
    BY <1>1, <1>8, PathFacts, InsideIs
  <2>2. r[<<p[1]>>] = folder[<<p[1]>>]
    BY <1>5, <2>1
  <2>3. CASE r[<<p[1]>>] = None
    <3>1. u = [r EXCEPT ![<<p[1]>>] = Dir]
      BY <1>6, <1>8, <2>3 DEF MkdirFor
    <3>2. u[<<p[1]>>] = Dir /\ \A q \in Paths : q # <<p[1]>> => u[q] = r[q]
      BY <1>4, <2>1, <3>1 DEF Tree
    <3>3. QED
      BY <1>1, <1>3, <1>4, <1>5, <2>1, <2>2, <2>3, <3>2
  <2>4. CASE r[<<p[1]>>] # None
    <3>1. u = r
      BY <1>6, <2>4 DEF MkdirFor
    <3>2. u[<<p[1]>>] = Dir
      BY <1>8, <2>2, <2>4, <3>1 DEF ParentClear
    <3>3. QED
      BY <1>3, <1>4, <1>5, <3>1, <3>2
  <2>5. QED
    BY <2>3, <2>4
<1>9. QED
  BY <1>1, <1>7, <1>8

\* Whatever a link, a file or a directory is put there as, the folder stays a tree.
LEMMA BegunIsTree ==
  ASSUME folder \in Tree, NEW e \in Indices
  PROVE  /\ Begun(folder, e) \in Tree
         /\ \A n \in Top : [MadeRoom(folder, Path(e)) EXCEPT ![Path(e)] = Link(n)] \in Tree
         /\ Wanted(e).kind = "file" => Write(folder, Path(e), Wanted(e).data) \in Tree
<1>1. MadeRoom(folder, Path(e)) \in Tree
  BY NodesOfTrees DEF MadeRoom
<1>2. /\ Dir \in Node /\ File(<< >>) \in Node /\ \A n \in Top : Link(n) \in Node
      /\ Wanted(e) \in Node /\ Wanted(e).kind \in {"dir", "link", "file"}
      /\ Wanted(e).kind = "file" => File(Wanted(e).data) \in Node
      /\ Wanted(e).kind = "dir" => Wanted(e) = Dir
  <2>1. << >> \in Contents
    BY DEF Contents
  <2>2. Dir \in Node /\ File(<< >>) \in Node /\ \A n \in Top : Link(n) \in Node
    BY <2>1 DEF Node, Dir, File, Link
  <2>3. QED
    BY <2>2, EntryFacts, NodeFacts
<1>3. \A n \in Top : [MadeRoom(folder, Path(e)) EXCEPT ![Path(e)] = Link(n)] \in Tree
  BY <1>1, <1>2, NodesOfTrees
<1>4. Wanted(e).kind = "file" => Write(folder, Path(e), Wanted(e).data) \in Tree
  BY <1>2, NodesOfTrees DEF Write
<1>5. MadeDir(folder, Path(e)) \in Tree
  BY <1>2, NodesOfTrees DEF MadeDir
<1>6. Write(MadeRoom(folder, Path(e)), Path(e), << >>) \in Tree
  BY <1>1, <1>2, NodesOfTrees DEF Write
<1>7. [MadeRoom(folder, Path(e)) EXCEPT ![Path(e)] = Wanted(e)] \in Tree
  BY <1>1, <1>2, NodesOfTrees
<1>8. CASE Wanted(e).kind = "dir"
  <2>1. Wanted(e) = Dir
    BY <1>2, <1>8
  <2>2. Begun(folder, e) = MadeDir(folder, Path(e))
    BY <2>1 DEF Begun, Dir
  <2>3. QED
    BY <2>2, <1>3, <1>4, <1>5
<1>9. CASE Wanted(e).kind = "link"
  <2>1. Wanted(e) # Dir
    BY <1>9 DEF Dir
  <2>2. Begun(folder, e) = [MadeRoom(folder, Path(e)) EXCEPT ![Path(e)] = Wanted(e)]
    BY <2>1, <1>9 DEF Begun
  <2>3. QED
    BY <2>2, <1>3, <1>4, <1>7
<1>10. CASE Wanted(e).kind = "file"
  <2>1. Wanted(e) # Dir
    BY <1>10 DEF Dir
  <2>2. Begun(folder, e) = Write(MadeRoom(folder, Path(e)), Path(e), << >>)
    BY <2>1, <1>10 DEF Begun
  <2>3. QED
    BY <2>2, <1>3, <1>4, <1>6
<1>11. QED
  BY <1>2, <1>8, <1>9, <1>10

\* Opening a file or making a directory or a link.
LEMMA BegunTouches ==
  ASSUME folder \in Tree, NEW e \in Indices, ParentClear(e), folder' = Begun(folder, e)
  PROVE  /\ CanMakeRoom(folder, Path(e))
         /\ Touches(e)
         /\ Wanted(e).kind # "file" => folder'[Path(e)] = Wanted(e)
         /\ Wanted(e).kind = "file" => folder'[Path(e)] = File(<< >>)
         /\ Len(Path(e)) = 2 => folder'[<<Path(e)[1]>>] = Dir
<1> DEFINE p == Path(e)
           u == MadeRoom(folder, p)
<1>1. /\ p \in Paths
      /\ Wanted(e).kind \in {"dir", "link", "file"}
      /\ Wanted(e).kind = "dir" => Wanted(e) = Dir
      /\ Len(p) = 2 => Wanted(e).kind = "file" /\ <<p[1]>> # p /\ <<p[1]>> \in Paths
  BY EntryFacts, NodeFacts, PathFacts
<1>2. folder' \in Tree
  BY BegunIsTree
<1>3. /\ CanMakeRoom(folder, p)
      /\ u \in Tree
      /\ u[p] = None
      /\ Len(p) = 2 => u[<<p[1]>>] = Dir
      /\ \A q \in Paths :
           u[q] = folder[q] \/ q = p \/ q \in Inside(p) \/ (folder[q] = None /\ u[q] = Dir)
  BY RoomMade
<1>4. CASE Wanted(e).kind = "dir"
  <2>1. Wanted(e) = Dir /\ Len(p) # 2
    BY <1>1, <1>4
  <2>2. folder' = MadeDir(folder, p)
    BY <2>1 DEF Begun, Dir
  <2>3. folder'[p] = Dir /\ \A q \in Paths : q # p => folder'[q] = folder[q]
    BY <1>1, <2>2 DEF MadeDir, Tree
  <2>4. QED
    BY <1>2, <1>3, <1>4, <2>1, <2>3 DEF Touches
<1>5. CASE Wanted(e).kind = "link"
  <2>1. Wanted(e) # Dir /\ Len(p) # 2
    BY <1>1, <1>5 DEF Dir
  <2>2. folder' = [u EXCEPT ![p] = Wanted(e)]
    BY <2>1, <1>5 DEF Begun
  <2>3. folder'[p] = Wanted(e) /\ \A q \in Paths : q # p => folder'[q] = u[q]
    BY <1>1, <1>3, <2>2 DEF Tree
  <2>4. QED
    BY <1>2, <1>3, <1>5, <2>1, <2>3 DEF Touches
<1>6. CASE Wanted(e).kind = "file"
  <2>1. Wanted(e) # Dir
    BY <1>6 DEF Dir
  <2>2. folder' = Write(u, p, << >>)
    BY <2>1, <1>6 DEF Begun
  <2>3. Follow(u, p) = p
    BY <1>1, <1>3, NoLinkFollowed DEF None, Dir
  <2>4. folder'[p] = File(<< >>) /\ \A q \in Paths : q # p => folder'[q] = u[q]
    BY <1>1, <1>3, <2>2, <2>3 DEF Tree, Write
  <2>5. QED
    BY <1>1, <1>2, <1>3, <1>6, <2>1, <2>4 DEF Touches
<1>7. QED
  BY <1>1, <1>4, <1>5, <1>6

\* A link with another name.
LEMMA MisreadTouches ==
  ASSUME folder \in Tree, NEW e \in Indices, ParentClear(e), Wanted(e).kind = "link", NEW n \in Top,
         folder' = [MadeRoom(folder, Path(e)) EXCEPT ![Path(e)] = Link(n)]
  PROVE  Touches(e)
<1> DEFINE p == Path(e)
           u == MadeRoom(folder, p)
<1>1. /\ p \in Paths /\ Wanted(e) # Dir
  BY EntryFacts DEF Dir
<1>2. folder' \in Tree
  BY BegunIsTree
<1>3. /\ u \in Tree
      /\ \A q \in Paths :
           u[q] = folder[q] \/ q = p \/ q \in Inside(p) \/ (folder[q] = None /\ u[q] = Dir)
  BY RoomMade
<1>4. \A q \in Paths : q # p => folder'[q] = u[q]
  BY <1>1, <1>3 DEF Tree
<1>5. QED
  BY <1>1, <1>2, <1>3, <1>4 DEF Touches

\* An open file gets its contents where it was opened.
LEMMA FilledTouches ==
  ASSUME folder \in Tree, NEW e \in Indices, Wanted(e).kind = "file", folder[Path(e)] = File(<< >>),
         Len(Path(e)) = 2 => folder[<<Path(e)[1]>>] = Dir,
         folder' = IF folder[Follow(folder, Path(e))].kind = "file"
                     THEN Write(folder, Path(e), Wanted(e).data) ELSE folder
  PROVE  Touches(e) /\ InPlace(e)'
<1> DEFINE p == Path(e)
<1>1. p \in Paths /\ Wanted(e) # Dir /\ Wanted(e) = File(Wanted(e).data)
  BY EntryFacts, NodeFacts DEF Dir
<1>2. folder[p].kind = "file" /\ (Len(p) = 2 => folder[<<p[1]>>].kind # "link")
  BY DEF Dir, File
<1>3. folder' = [folder EXCEPT ![p] = Wanted(e)]
  <2>1. Follow(folder, p) = p
    BY <1>1, <1>2, NoLinkFollowed
  <2>2. folder' = Write(folder, p, Wanted(e).data)
    BY <1>2, <2>1
  <2>3. QED
    BY <1>1, <2>1, <2>2 DEF Write
<1>4. folder'[p] = Wanted(e) /\ \A q \in Paths : q # p => folder'[q] = folder[q]
  BY <1>1, <1>3 DEF Tree
<1>5. folder' \in Tree
  <2>1. Wanted(e) \in Node
    BY EntryFacts
  <2>2. QED
    BY <1>3, <2>1 DEF Tree
<1>6. QED
  BY <1>1, <1>4, <1>5 DEF Touches, InPlace, Path, Wanted

\* What is in place of another entry stays there.
LEMMA TouchedElsewhere ==
  ASSUME NEW e \in Indices, Touches(e), NEW d \in Indices, d # e
  PROVE  /\ InPlace(d) => InPlace(d)'
         /\ Wanted(d) = Dir /\ folder[Path(d)] \in {None, Dir} => folder'[Path(d)] \in {None, Dir}
         /\ Path(d) # Path(e)
         /\ folder'[Path(d)] = folder[Path(d)] \/ folder[Path(d)] = None
<1>1. Path(d) \in Paths /\ Path(d) # Path(e) /\ Path(e) \in Paths /\ Wanted(d) # None
  BY EntryFacts
<1>2. ASSUME Path(d) \in Inside(Path(e)), Wanted(e) # Dir PROVE FALSE
  <2>1. Len(Path(d)) = 2 /\ Path(e) = <<Path(d)[1]>>
    BY <1>1, <1>2, InsideIs
  <2>2. PICK c \in 0 .. d - 1 : Path(c) = <<Path(d)[1]>> /\ Wanted(c) = Dir
    BY <2>1, EntryFacts
  <2>3. c \in Indices
    BY Sizes DEF Indices
  <2>4. c = e
    BY <2>1, <2>2, <2>3, EntryFacts
  <2>5. QED
    BY <1>2, <2>2, <2>4
<1>3. folder'[Path(d)] = folder[Path(d)] \/ (folder[Path(d)] = None /\ folder'[Path(d)] = Dir)
  BY <1>1, <1>2 DEF Touches
<1>4. InPlace(d) => InPlace(d)'
  BY <1>1, <1>3 DEF InPlace, Path, Wanted
<1>5. QED
  BY <1>1, <1>3, <1>4

-----------------------------------------------------------------------------
(* Where the call and its workers are                                       *)

LEMMA WorkersAre ==
  ASSUME ZipTypes
  PROVE  /\ size \in Nat \ {0}
         /\ \A w \in 1 .. size : workers[w].at \in Places /\ workers[w].entry \in Nat
         /\ IsFiniteSet(GoneWorkers) /\ Cardinality(GoneWorkers) \in Nat /\ Cardinality(GoneWorkers) <= size
         /\ Cardinality(GoneWorkers) = size => AllGone
<1>1. size \in Nat \ {0}
  BY ConcurrencyAssumption DEF ZipTypes
<1>2. \A w \in 1 .. size : workers[w].at \in Places /\ workers[w].entry \in Nat
  BY DEF ZipTypes
<1>3. IsFiniteSet(1 .. size) /\ Cardinality(1 .. size) = size
  BY <1>1, FS_Interval
<1>4. GoneWorkers \in SUBSET (1 .. size)
  BY DEF GoneWorkers
<1>5. /\ IsFiniteSet(GoneWorkers) /\ Cardinality(GoneWorkers) <= size
      /\ Cardinality(GoneWorkers) = size => GoneWorkers = 1 .. size
  BY <1>3, <1>4, FS_Subset, ZenonT(60)
<1>6. Cardinality(GoneWorkers) \in Nat
  BY <1>5, FS_CardinalityType
<1>7. QED
  BY <1>1, <1>2, <1>5, <1>6 DEF GoneWorkers, AllGone

LEMMA GotoFacts ==
  ASSUME ZipTypes, size' = size, NEW w \in 1 .. size, NEW a \in Places, Goto(w, a)
  PROVE  /\ workers' \in [1 .. size -> [at : Places, entry : Nat]]
         /\ workers'[w].at = a /\ workers'[w].entry = workers[w].entry
         /\ \A v \in 1 .. size : v # w => workers'[v] = workers[v]
<1>1. workers \in [1 .. size -> [at : Places, entry : Nat]]
  BY DEF ZipTypes
<1>2. workers' = [workers EXCEPT ![w].at = a]
  BY DEF Goto
<1>3. QED
  BY <1>1, <1>2

LEMMA AssignedGoto ==
  ASSUME ZipTypes, Assigned, UNCHANGED <<size, fed, lastDone>>, NEW w \in 1 .. size, NEW a \in Places, Goto(w, a),
         a \in {"create", "fill", "record"} => AtEntry(w),
         a = "fill" => Wanted(workers[w].entry).kind = "file"
  PROVE  Assigned'
<1>1. /\ \A v \in 1 .. size : workers'[v].entry = workers[v].entry /\ (AtEntry(v)' => AtEntry(v))
      /\ \A v \in 1 .. size : Working(v, "fill")' => Working(v, "fill") \/ (v = w /\ a = "fill")
  BY GotoFacts DEF AtEntry, Extracting, Working
<1>2. \A d : Wanted(d)' = Wanted(d)
  BY DEF Wanted
<1>3. \A v \in 1 .. size : Working(v, "fill") => AtEntry(v)
  BY DEF AtEntry, Extracting, Working
<1>4. QED
  BY <1>1, <1>2, <1>3 DEF Assigned

\* A worker that is there works for a call.
LEMMA WorkingFor ==
  ASSUME BaseInv, NEW w \in 1 .. size, ~Working(w, "gone")
  PROVE  main # "none" /\ result # "nil"
BY DEF BaseInv, CallInv, AllGone

\* A worker goes on with its entry, or is through with it.
LEMMA WorkerGoesOn ==
  ASSUME BaseInv, NEW w \in 1 .. size, ~Working(w, "gone"),
         NEW a \in Places \ {"gone"}, Goto(w, a), a \in {"create", "fill", "record"} => AtEntry(w),
         a = "fill" => Wanted(workers[w].entry).kind = "file",
         UNCHANGED <<call, feeding, errs>>,
         folder' \in Tree, resume' \in -2 .. N - 1, failures' \in Nat,
         misread' \subseteq {e \in Indices : Wanted(e).kind = "link"}
  PROVE  BaseInv'
<1>1. /\ workers' \in [1 .. size -> [at : Places, entry : Nat]]
      /\ workers'[w].at = a
      /\ \A v \in 1 .. size : v # w => workers'[v] = workers[v]
  BY GotoFacts DEF BaseInv, call
<1>2. ZipTypes'
  BY <1>1 DEF BaseInv, ZipTypes, call, feeding, Indices, N, Wanted
<1>3. GoneWorkers' = GoneWorkers
  BY <1>1 DEF GoneWorkers, Working, call
<1>4. CallInv'
  BY <1>3, WorkingFor DEF BaseInv, CallInv, feeding
<1>5. Assigned'
  BY AssignedGoto DEF BaseInv, call, feeding
<1>6. QED
  BY <1>2, <1>4, <1>5 DEF BaseInv

\* A worker ends, and says why.
LEMMA WorkerEnds ==
  ASSUME BaseInv, NEW w \in 1 .. size, ~Working(w, "gone"), Goto(w, "gone"),
         NEW r \in {"nil", "failed"}, errs' = Append(errs, r), r = "nil" => closed,
         UNCHANGED <<call, folder, resume, feeding, misread>>, failures' \in Nat
  PROVE  BaseInv'
<1>1. /\ workers' \in [1 .. size -> [at : Places, entry : Nat]]
      /\ workers'[w].at = "gone"
      /\ \A v \in 1 .. size : v # w => workers'[v] = workers[v]
  BY GotoFacts DEF BaseInv, call, Places
<1>2. errs \in Seq({"nil", "failed"}) /\ errs' \in Seq({"nil", "failed"})
  BY DEF BaseInv, ZipTypes
<1>3. ZipTypes'
  BY <1>1, <1>2 DEF BaseInv, ZipTypes, call, feeding, Indices, N, Wanted
<1>4. Cardinality(GoneWorkers') = Cardinality(GoneWorkers) + 1
  <2>1. GoneWorkers' = GoneWorkers \cup {w} /\ w \notin GoneWorkers
    BY <1>1 DEF GoneWorkers, Working, call
  <2>2. QED
    BY <2>1, WorkersAre, FS_AddElement DEF BaseInv
<1>5. Len(errs') = Len(errs) + 1 /\ \A i \in DOMAIN errs' : errs'[i] = r \/ (i \in DOMAIN errs /\ errs'[i] = errs[i])
  BY <1>2
<1>6. CallInv'
  <2>1. main' = main /\ result' = result /\ closed' = closed /\ fed' = fed /\ N' = N
    BY DEF feeding, N
  <2>2. main # "none" /\ result # "nil"
    BY WorkingFor
  <2>3. main \in {"feed", "wait"} => result = "none" /\ Len(errs) <= Cardinality(GoneWorkers)
    BY DEF BaseInv, CallInv
  <2>4. main = "feed" => ~closed /\ (\A i \in DOMAIN errs : errs[i] = "failed")
    BY DEF BaseInv, CallInv
  <2>5. main \in {"feed", "wait"} => Len(errs') <= Cardinality(GoneWorkers')
    BY <1>2, <1>4, <1>5, <2>3, WorkersAre DEF BaseInv
  <2>6. main = "feed" => ~closed' /\ (\A i \in DOMAIN errs' : errs'[i] = "failed")
    BY <1>5, <2>1, <2>4
  <2>7. main = "wait" => fed' = N'
    BY <2>1 DEF BaseInv, CallInv
  <2>8. QED
    BY <2>1, <2>2, <2>3, <2>5, <2>6, <2>7 DEF CallInv
<1>7. Assigned'
  BY AssignedGoto DEF BaseInv, call, feeding, Places
<1>8. QED
  BY <1>3, <1>6, <1>7 DEF BaseInv

LEMMA FailsBase ==
  ASSUME BaseInv, NEW w \in 1 .. size, ~Working(w, "gone"), Fails(w),
         UNCHANGED <<call, folder, resume, feeding, misread>>, failures' \in Nat
  PROVE  BaseInv'
BY WorkerEnds DEF Fails

\* The entry a worker is at.
LEMMA EntryOf ==
  ASSUME BaseInv, NEW w \in 1 .. size, AtEntry(w)
  PROVE  workers[w].entry \in Indices /\ workers[w].entry < fed /\ lastDone < workers[w].entry
         /\ ~Working(w, "gone")
<1>1. lastDone < workers[w].entry /\ workers[w].entry < fed
  BY DEF BaseInv, Assigned
<1>2. fed \in 0 .. N /\ workers[w].entry \in Nat
  BY WorkersAre DEF BaseInv, ZipTypes
<1>3. QED
  BY <1>1, <1>2, Sizes DEF Indices, AtEntry, Extracting, Working

LEMMA WorkerBase ==
  ASSUME BaseInv, NEW w \in 1 .. size, WorkerNext(w)
  PROVE  BaseInv'
<1> DEFINE e == workers[w].entry
<1>1. /\ folder \in Tree /\ resume \in -2 .. N - 1 /\ failures \in Nat /\ failures + 1 \in Nat
      /\ misread \subseteq {d \in Indices : Wanted(d).kind = "link"}
  BY DEF BaseInv, ZipTypes
<1>2. CASE OpenFails(w)
  BY <1>1, <1>2, FailsBase DEF OpenFails, Working
<1>3. CASE OpenEntryFails(w)
  BY <1>1, <1>3, FailsBase DEF OpenEntryFails, Working
<1>4. CASE BeginEntry(w)
  <2>1. AtEntry(w) /\ ~Working(w, "gone") /\ e \in Indices
    BY <1>4, EntryOf DEF BeginEntry, AtEntry, Extracting, Working
  <2>2. CASE CanMakeRoom(folder, Path(e))
    <3>1. folder' \in Tree
      BY <1>1, <1>4, <2>1, <2>2, BegunIsTree DEF BeginEntry
    <3>2. PICK a \in {"fill", "record"} : Goto(w, a) /\ (a = "fill" => Wanted(e).kind = "file")
      BY <1>4, <2>2 DEF BeginEntry
    <3>3. /\ UNCHANGED <<call, feeding, errs>> /\ UNCHANGED <<resume, failures, misread>>
      BY <1>4, <2>2 DEF BeginEntry
    <3>4. QED
      BY <1>1, <2>1, <3>1, <3>2, <3>3, WorkerGoesOn DEF Places
  <2>3. CASE ~CanMakeRoom(folder, Path(e))
    BY <1>1, <1>4, <2>1, <2>3, FailsBase DEF BeginEntry
  <2>4. QED
    BY <2>2, <2>3
<1>5. CASE MisreadLink(w)
  <2>1. AtEntry(w) /\ ~Working(w, "gone") /\ e \in Indices
    BY <1>5, EntryOf DEF MisreadLink, AtEntry, Extracting, Working
  <2>2. folder' \in Tree
    BY <1>1, <1>5, <2>1, BegunIsTree DEF MisreadLink
  <2>3. misread' \subseteq {d \in Indices : Wanted(d).kind = "link"}
    BY <1>1, <1>5, <2>1 DEF MisreadLink
  <2>4. /\ Goto(w, "record") /\ UNCHANGED <<call, feeding, errs>> /\ resume' = resume
        /\ failures' = failures + 1
    BY <1>5 DEF MisreadLink
  <2>5. QED
    BY <1>1, <2>1, <2>2, <2>3, <2>4, WorkerGoesOn DEF Places
<1>6. CASE FillFile(w)
  <2>1. AtEntry(w) /\ ~Working(w, "gone") /\ e \in Indices
    BY <1>6, EntryOf DEF FillFile, AtEntry, Extracting, Working
  <2>2. CASE Goto(w, "record") /\ UNCHANGED <<errs, failures>>
    <3>1. folder' \in Tree
      <4>1. Wanted(e).kind = "file"
        BY <1>6, <2>1 DEF BaseInv, Assigned, FillFile
      <4>2. folder' = folder \/ folder' = Write(folder, Path(e), Wanted(e).data)
        BY <1>6, <2>2 DEF FillFile, Fails, Goto
      <4>3. QED
        BY <1>1, <2>1, <4>1, <4>2, BegunIsTree
    <3>2. QED
      BY <1>1, <1>6, <2>1, <2>2, <3>1, WorkerGoesOn DEF FillFile, Places
  <2>3. CASE failures' = failures + 1 /\ Fails(w) /\ UNCHANGED folder
    BY <1>1, <1>6, <2>1, <2>3, FailsBase DEF FillFile
  <2>4. QED
    BY <1>6, <2>2, <2>3 DEF FillFile
<1>7. CASE WriteProgress(w)
  <2>1. AtEntry(w) /\ ~Working(w, "gone") /\ e \in Indices
    BY <1>7, EntryOf DEF WriteProgress, AtEntry, Extracting, Working
  <2>2. resume' \in -2 .. N - 1
    BY <1>7, <2>1, Sizes DEF WriteProgress, Indices
  <2>3. /\ Goto(w, "idle") /\ UNCHANGED <<call, feeding, errs>> /\ UNCHANGED <<folder, failures, misread>>
    BY <1>7 DEF WriteProgress, faults
  <2>4. QED
    BY <1>1, <2>1, <2>2, <2>3, WorkerGoesOn DEF Places
<1>8. CASE Leave(w)
  BY <1>1, <1>8, WorkerEnds DEF Leave, Working, faults
<1>9. QED
  BY <1>2, <1>3, <1>4, <1>5, <1>6, <1>7, <1>8 DEF WorkerNext

LEMMA CallBase == ASSUME BaseInv, Call PROVE BaseInv'
<1>1. /\ \A w \in 1 .. size : workers'[w] = [at |-> "new", entry |-> 0]
      /\ workers' \in [1 .. size -> [at : Places, entry : Nat]]
  BY DEF Call, Places
<1>2. lastDone' \in -1 .. N - 1 /\ fed' \in 0 .. N
  BY Sizes DEF BaseInv, ZipTypes, Call
<1>3. ZipTypes'
  <2>1. errs' = << >> /\ main' = "feed" /\ result' = "none" /\ closed' = FALSE
    BY DEF Call
  <2>2. /\ UNCHANGED <<size, ready, folder, resume, misread, failures>>
        /\ {e \in Indices : Wanted(e).kind = "link"}' = {e \in Indices : Wanted(e).kind = "link"}
    BY DEF Call, call, faults, Indices, Wanted, N
  <2>3. errs' \in Seq({"nil", "failed"})
    BY <2>1
  <2>4. closed' \in BOOLEAN
    BY <2>1
  <2>5. fed' \in 0 .. N /\ N' = N
    BY <1>2 DEF N
  <2>6. misread' \subseteq {e \in Indices : Wanted(e).kind = "link"}'
    BY <2>2 DEF BaseInv, ZipTypes
  <2>7. QED
    BY <1>1, <1>2, <2>1, <2>2, <2>3, <2>4, <2>5, <2>6 DEF BaseInv, ZipTypes
<1>4. GoneWorkers' = {} /\ Len(errs') = 0 /\ DOMAIN errs' = {}
  BY <1>1 DEF GoneWorkers, Working, Call, call
<1>5. CallInv'
  BY <1>4, FS_EmptySet DEF CallInv, Call
<1>6. Assigned'
  BY <1>1 DEF Assigned, AtEntry, Extracting, Working, Call, call
<1>7. QED
  BY <1>3, <1>5, <1>6 DEF BaseInv

LEMMA FeedBase == ASSUME BaseInv, NEW w \in 1 .. size, Feed(w) PROVE BaseInv'
<1>1. /\ workers \in [1 .. size -> [at : Places, entry : Nat]]
      /\ fed \in Nat /\ fed < N /\ fed' = fed + 1 /\ lastDone' = lastDone /\ size' = size
      /\ lastDone \in Int
  BY Sizes DEF BaseInv, ZipTypes, Feed, call
<1>2. PICK a \in {"idle", "create"} :
        /\ workers' = [workers EXCEPT ![w] = [at |-> a, entry |-> fed]]
        /\ a = "create" => lastDone < fed
  <2>1. CASE fed <= lastDone
    BY <2>1 DEF Feed
  <2>2. CASE ~(fed <= lastDone)
    BY <1>1, <2>2 DEF Feed
  <2>3. QED
    BY <2>1, <2>2
<1>3. /\ workers' \in [1 .. size -> [at : Places, entry : Nat]]
      /\ workers'[w] = [at |-> a, entry |-> fed]
      /\ \A v \in 1 .. size : v # w => workers'[v] = workers[v]
  BY <1>1, <1>2 DEF Places
<1>4. ZipTypes'
  BY <1>1, <1>3, Sizes DEF BaseInv, ZipTypes, Feed, call, faults, Indices, N, Wanted
<1>5. GoneWorkers' = GoneWorkers
  BY <1>1, <1>2, <1>3 DEF GoneWorkers, Working, Feed
<1>6. CallInv'
  BY <1>5 DEF BaseInv, CallInv, Feed
<1>7. Assigned'
  <2>1. \A v \in 1 .. size : v # w =>
          /\ AtEntry(v)' => AtEntry(v) /\ workers[v].entry < fed
          /\ workers'[v].entry = workers[v].entry /\ workers[v].entry \in Nat
          /\ Working(v, "fill")' => Working(v, "fill")
    BY <1>1, <1>3 DEF BaseInv, Assigned, AtEntry, Extracting, Working
  <2>2. /\ AtEntry(w)' => lastDone < fed
        /\ workers'[w].entry = fed /\ ~Working(w, "fill")'
    BY <1>2, <1>3 DEF AtEntry, Extracting, Working
  <2>3. \A d : Wanted(d)' = Wanted(d)
    BY DEF Wanted
  <2>4. \A v \in 1 .. size : AtEntry(v) =>
          /\ lastDone < workers[v].entry
          /\ \A u \in 1 .. size : u # v /\ AtEntry(u) => workers[u].entry # workers[v].entry
          /\ Working(v, "fill") => Wanted(workers[v].entry).kind = "file"
    BY DEF BaseInv, Assigned
  <2> SUFFICES ASSUME NEW v \in 1 .. size, AtEntry(v)'
               PROVE  /\ lastDone < workers'[v].entry /\ workers'[v].entry < fed + 1
                      /\ \A u \in 1 .. size : u # v /\ AtEntry(u)' => workers'[u].entry # workers'[v].entry
                      /\ Working(v, "fill")' => Wanted(workers'[v].entry).kind = "file"
    BY <1>1, <2>3 DEF Assigned
  <2>5. CASE v = w
    BY <1>1, <2>1, <2>2, <2>5
  <2>6. CASE v # w
    BY <1>1, <2>1, <2>2, <2>4, <2>6
  <2>7. QED
    BY <2>5, <2>6
<1>8. QED
  BY <1>4, <1>6, <1>7 DEF BaseInv

\* What the results of the workers say of them.
LEMMA ResultsAre ==
  ASSUME BaseInv, errs # << >>
  PROVE  /\ Head(errs) \in {"nil", "failed"} /\ Tail(errs) \in Seq({"nil", "failed"})
         /\ Len(Tail(errs)) = Len(errs) - 1 /\ Head(errs) = errs[1] /\ 1 \in DOMAIN errs
         /\ \A i \in DOMAIN Tail(errs) : i + 1 \in DOMAIN errs /\ Tail(errs)[i] = errs[i + 1]
<1>1. errs \in Seq({"nil", "failed"})
  BY DEF BaseInv, ZipTypes
<1>2. QED
  BY <1>1

\* The workers and what they do stay as they are.
WorkersStay == UNCHANGED <<call, folder, fed, lastDone, workers, faults>>

LEMMA MainFrame ==
  ASSUME BaseInv, WorkersStay, main' \in {"none", "feed", "wait", "returned"}, result' \in {"none", "nil", "failed"},
         closed' \in BOOLEAN, resume' \in -2 .. N - 1, errs' \in Seq({"nil", "failed"}), CallInv'
  PROVE  BaseInv'
<1>1. ZipTypes'
  BY DEF BaseInv, ZipTypes, WorkersStay, call, faults, Indices, N, Wanted
<1>2. Assigned'
  BY DEF BaseInv, Assigned, AtEntry, Extracting, Working, Wanted, WorkersStay, call
<1>3. QED
  BY <1>1, <1>2 DEF BaseInv

LEMMA GoneStay == ASSUME WorkersStay PROVE GoneWorkers' = GoneWorkers /\ AllGone' = AllGone
BY DEF WorkersStay, GoneWorkers, AllGone, Working, call

LEMMA AbortBase == ASSUME BaseInv, Abort PROVE BaseInv' /\ result' = "failed"
<1>1. /\ Head(errs) = "failed" /\ errs' \in Seq({"nil", "failed"})
  BY ResultsAre DEF BaseInv, CallInv, Abort
<1>2. WorkersStay /\ main' = "returned" /\ result' = "failed" /\ resume' = -2 /\ closed' = TRUE
  BY <1>1 DEF Abort, Return, WorkersStay, NoResume
<1>3. CallInv'
  BY <1>2 DEF CallInv
<1>4. QED
  BY <1>1, <1>2, <1>3, MainFrame, Sizes

LEMMA AllFedBase == ASSUME BaseInv, AllFed PROVE BaseInv'
<1>1. WorkersStay /\ main' = "wait" /\ closed' = TRUE /\ UNCHANGED <<result, resume, errs>> /\ fed = N
  BY DEF AllFed, WorkersStay
<1>2. CallInv'
  BY <1>1, GoneStay DEF BaseInv, CallInv, AllFed, N, WorkersStay
<1>3. QED
  BY <1>1, <1>2, MainFrame DEF BaseInv, ZipTypes

\* Do is told of every worker before it returns without an error.
LEMMA WaitCases ==
  ASSUME BaseInv, Wait
  PROVE  /\ WorkersStay /\ closed' = closed /\ errs' \in Seq({"nil", "failed"}) /\ Len(errs') < Len(errs)
         /\ \/ /\ main' = "returned" /\ result' = "failed" /\ resume' = NoResume
               /\ errs[1] = "failed" /\ 1 \in DOMAIN errs
            \/ /\ main' = "returned" /\ result' = "nil" /\ resume' = NoResume
               /\ AllGone /\ errs = [i \in 1 .. size |-> "nil"]
               /\ errs' = << >>
            \/ /\ UNCHANGED <<main, result, resume>>
               /\ Len(errs) > 1
               /\ \A i \in DOMAIN errs' : \E j \in DOMAIN errs : errs'[i] = errs[j]
<1>1. WorkersStay /\ closed' = closed
  BY DEF Wait, WorkersStay
<1>2. /\ errs \in Seq({"nil", "failed"}) /\ size \in Nat \ {0} /\ errs # << >>
      /\ Len(errs) <= Cardinality(GoneWorkers)
  BY WorkersAre DEF BaseInv, ZipTypes, CallInv, Wait
<1>3. CASE Head(errs) = "failed" /\ errs' = Tail(errs) /\ Return("failed")
  BY <1>1, <1>2, <1>3, ResultsAre DEF Return
<1>4. CASE errs = [i \in 1 .. size |-> "nil"] /\ errs' = << >> /\ Return("nil")
  <2>1. Len(errs) = size
    BY <1>2, <1>4
  <2>2. AllGone
    BY <1>2, <2>1, WorkersAre DEF BaseInv
  <2>3. QED
    BY <1>1, <1>2, <1>4, <2>1, <2>2 DEF Return
<1>5. CASE /\ Head(errs) = "nil" /\ (\E i \in DOMAIN errs : errs[i] = "failed")
           /\ errs' = Tail(errs) /\ UNCHANGED <<main, result, resume>>
  <2>1. PICK i \in DOMAIN errs : errs[i] = "failed"
    BY <1>5
  <2>2. i \in 1 .. Len(errs) /\ i # 1
    BY <1>2, <1>5, <2>1, ResultsAre
  <2>3. Len(errs) > 1
    BY <1>2, <2>2
  <2>4. /\ errs' \in Seq({"nil", "failed"}) /\ Len(errs') < Len(errs)
        /\ \A k \in DOMAIN errs' : k + 1 \in DOMAIN errs /\ errs'[k] = errs[k + 1]
    BY <1>2, <1>5, <2>3, ResultsAre
  <2>5. \A k \in DOMAIN errs' : \E j \in DOMAIN errs : errs'[k] = errs[j]
    BY <2>4
  <2>6. QED
    BY <1>1, <1>5, <2>3, <2>4, <2>5
<1>6. QED
  BY <1>3, <1>4, <1>5 DEF Wait

LEMMA WaitBase == ASSUME BaseInv, Wait PROVE BaseInv'
<1>1. main = "wait" /\ fed = N /\ result = "none" /\ Len(errs) <= Cardinality(GoneWorkers) /\ Cardinality(GoneWorkers) \in Nat
  BY WorkersAre DEF BaseInv, CallInv, Wait
<1>2. errs \in Seq({"nil", "failed"}) /\ resume \in -2 .. N - 1 /\ closed \in BOOLEAN /\ -2 \in -2 .. N - 1
  BY Sizes DEF BaseInv, ZipTypes
<1>3. WorkersStay /\ closed' = closed /\ errs' \in Seq({"nil", "failed"})
  BY WaitCases
<1>4. GoneWorkers' = GoneWorkers /\ AllGone' = AllGone /\ fed' = fed /\ N' = N
  BY <1>3, GoneStay DEF WorkersStay, N
<1>5. CASE main' = "returned" /\ result' = "failed" /\ resume' = NoResume
  <2>1. CallInv'
    BY <1>5 DEF CallInv
  <2>2. QED
    BY <1>2, <1>3, <1>5, <2>1, MainFrame DEF NoResume
<1>6. CASE main' = "returned" /\ result' = "nil" /\ resume' = NoResume /\ AllGone
  <2>1. CallInv'
    BY <1>4, <1>6 DEF CallInv
  <2>2. QED
    BY <1>2, <1>3, <1>6, <2>1, MainFrame DEF NoResume
<1>7. CASE UNCHANGED <<main, result, resume>> /\ Len(errs') < Len(errs)
  <2>1. CallInv'
    BY <1>1, <1>2, <1>3, <1>4, <1>7 DEF CallInv
  <2>2. QED
    BY <1>1, <1>2, <1>3, <1>7, <2>1, MainFrame
<1>8. QED
  BY <1>3, <1>5, <1>6, <1>7, WaitCases

\* A worker's index, or what a crash leaves of it.
LEMMA PartialIs ==
  ASSUME BaseInv, Crash
  PROVE  /\ resume' \in -2 .. N - 1
         /\ \/ resume' = resume \/ resume' < 0
            \/ \E w \in 1 .. size : Working(w, "record") /\ resume' < workers[w].entry
<1>1. resume \in -2 .. N - 1
  BY DEF BaseInv, ZipTypes
<1>2. ASSUME NEW w \in Recording, resume' \in Partial(workers[w].entry)
      PROVE  resume' \in -2 .. N - 1 /\ (resume' < 0 \/ resume' < workers[w].entry) /\ w \in 1 .. size
             /\ Working(w, "record")
  <2>1. w \in 1 .. size /\ Working(w, "record") /\ workers[w].entry \in Indices
    BY <1>2, EntryOf DEF Recording, AtEntry
  <2>2. resume' = -1 \/ resume' \in 1 .. workers[w].entry - 1
    BY <1>2 DEF Partial, Unreadable
  <2>3. QED
    BY <2>1, <2>2, Sizes, SMTT(60) DEF Indices
<1>3. resume' = resume \/ \E w \in Recording : resume' \in Partial(workers[w].entry)
  BY DEF Crash
<1>4. QED
  BY <1>1, <1>2, <1>3

LEMMA CrashBase == ASSUME BaseInv, Crash PROVE BaseInv'
<1>1. /\ workers' \in [1 .. size -> [at : Places, entry : Nat]]
      /\ \A w \in 1 .. size : workers'[w].at = "gone"
  BY DEF Crash, Places
<1>2. ZipTypes'
  BY <1>1, PartialIs, SMTT(60) DEF BaseInv, ZipTypes, Crash, call, feeding, Indices, N, Wanted
<1>3. CallInv'
  BY <1>1 DEF BaseInv, CallInv, Crash, AllGone, Working, call
<1>4. Assigned'
  BY <1>1 DEF Assigned, AtEntry, Extracting, Working, Crash, call
<1>5. QED
  BY <1>2, <1>3, <1>4 DEF BaseInv

LEMMA RetryBase == ASSUME BaseInv, Retry PROVE BaseInv'
<1>1. WorkersStay /\ main' = "none" /\ UNCHANGED <<result, resume, closed, errs>> /\ result = "failed" /\ AllGone
  BY DEF Retry, WorkersStay
<1>2. CallInv'
  BY <1>1, GoneStay DEF CallInv
<1>3. QED
  BY <1>1, <1>2, MainFrame DEF BaseInv, ZipTypes

LEMMA BaseStep == BaseInv /\ [ExtractNext]_extraction => BaseInv'
<1> SUFFICES ASSUME BaseInv, [ExtractNext]_extraction PROVE BaseInv'
  OBVIOUS
<1>1. CASE UNCHANGED extraction
  <2>1. WorkersStay /\ UNCHANGED <<main, result, closed, resume, errs>>
    BY <1>1 DEF extraction, WorkersStay, feeding
  <2>2. CallInv'
    BY <2>1, GoneStay DEF BaseInv, CallInv, WorkersStay, N
  <2>3. QED
    BY <2>1, <2>2, MainFrame DEF BaseInv, ZipTypes
<1>2. CASE \E w \in 1 .. size : Feed(w)
  BY <1>2, FeedBase
<1>3. CASE \E w \in 1 .. size : WorkerNext(w)
  BY <1>3, WorkerBase
<1>4. QED
  BY <1>1, <1>2, <1>3, CallBase, AbortBase, AllFedBase, WaitBase, CrashBase, RetryBase DEF ExtractNext, MainNext, Idle

-----------------------------------------------------------------------------
(* Entries                                                                  *)

\* While a worker of its own is there, nothing was said.
LEMMA AloneWorks ==
  ASSUME ZipInv, Undisturbed, size = 1, ~Working(1, "gone")
  PROVE  main \in {"feed", "wait"} /\ errs = << >> /\ result = "none" /\ ~Unsuccessful
<1>1. main \in {"feed", "wait"} /\ errs = << >>
  BY DEF ZipInv, DeepInv, Alone
<1>2. result = "none"
  BY <1>1 DEF ZipInv, BaseInv, CallInv
<1>3. QED
  BY <1>1, <1>2 DEF Unsuccessful

LEMMA SizeCases ==
  ASSUME BaseInv
  PROVE  size = 1 \/ size > 1
BY WorkersAre DEF BaseInv

LEMMA ParentIsClear ==
  ASSUME ZipInv, Undisturbed, NEW w \in 1 .. size, Extracting(w)
  PROVE  ParentClear(workers[w].entry)
<1> DEFINE e == workers[w].entry
<1>1. e \in Indices /\ e < fed /\ e \in Nat /\ fed \in Nat /\ ~Working(w, "gone")
  BY EntryOf, Sizes DEF ZipInv, BaseInv, ZipTypes, AtEntry, Indices
<1> SUFFICES ASSUME Len(Path(e)) = 2 PROVE folder[<<Path(e)[1]>>] \in {None, Dir}
  BY DEF ParentClear
<1>2. PICK d \in 0 .. e - 1 : Path(d) = <<Path(e)[1]>> /\ Wanted(d) = Dir
  BY <1>1, EntryFacts
<1>3. d \in Indices /\ d \in 0 .. fed - 1 /\ d # e
  BY <1>1, Sizes DEF Indices
<1>4. CASE ready
  BY <1>2, <1>3, <1>4 DEF ZipInv, DeepInv, DirsClear
<1>5. CASE size = 1
  <2>1. w = 1
    BY <1>5
  <2>2. ~Unsuccessful /\ main # "none"
    BY <1>1, <1>5, <2>1, AloneWorks
  <2>3. ~Busy(d)
    BY <1>3, <1>5, <2>1 DEF Busy
  <2>4. InPlace(d) \/ d \in misread
    BY <1>3, <1>5, <2>2, <2>3 DEF ZipInv, DeepInv, EntriesInv, Complete
  <2>5. d \notin misread
    BY <1>2, SMTT(60) DEF ZipInv, BaseInv, ZipTypes, Dir
  <2>6. QED
    BY <1>2, <2>4, <2>5 DEF InPlace
<1>6. QED
  BY <1>4, <1>5 DEF Undisturbed

LEMMA CompleteStays ==
  ASSUME UNCHANGED <<size, folder>>, misread \subseteq misread', torn \subseteq torn', NEW d, Complete(d)
  PROVE  Complete(d)'
BY DEF Complete, InPlace, Path, Wanted

\* A worker makes or opens its entry, or fills it.
LEMMA EntryStep ==
  ASSUME ZipInv, Undisturbed, NEW w \in 1 .. size, Extracting(w), NEW e, e = workers[w].entry, Touches(e),
         NEW a \in {"fill", "record"}, Goto(w, a),
         UNCHANGED <<call, resume, feeding, errs, torn>>, misread \subseteq misread', failures' = 0 => failures = 0,
         a = "fill" =>
           /\ folder'[Path(e)] = File(<< >>)
           /\ Len(Path(e)) = 2 => folder'[<<Path(e)[1]>>] = Dir,
         a = "record" => InPlace(e)' \/ e \in misread'
  PROVE  DeepInv'
<1>1. /\ AtEntry(w) /\ e \in Indices /\ e < fed /\ lastDone < e /\ ~Working(w, "gone")
      /\ e \in Nat /\ fed \in Nat /\ lastDone \in Int /\ resume \in Int
  BY EntryOf, Sizes DEF ZipInv, BaseInv, ZipTypes, AtEntry, Indices
<1>2. /\ size' = size /\ ready' = ready /\ main' = main /\ result' = result /\ fed' = fed /\ lastDone' = lastDone
      /\ errs' = errs /\ resume' = resume
  BY DEF call, feeding
<1>3. /\ workers'[w].at = a /\ workers'[w].entry = e
      /\ \A v \in 1 .. size : v # w => workers'[v] = workers[v]
  BY <1>2, GotoFacts DEF ZipInv, BaseInv, Places
<1>4. /\ \A d : Path(d)' = Path(d) /\ Wanted(d)' = Wanted(d)
      /\ Indices' = Indices
  BY DEF Path, Wanted, Indices, N
<1>5. DirsClear'
  <2> SUFFICES ASSUME ready, NEW d \in Indices, Wanted(d) = Dir PROVE folder'[Path(d)] \in {None, Dir}
    BY <1>2, <1>4 DEF DirsClear
  <2>1. folder[Path(d)] \in {None, Dir}
    BY DEF ZipInv, DeepInv, DirsClear
  <2>2. CASE d = e
    BY <2>2 DEF Touches
  <2>3. CASE d # e
    BY <1>1, <2>1, <2>3, TouchedElsewhere, SMTT(60)
  <2>4. QED
    BY <2>2, <2>3
<1>6. Alone'
  <2> SUFFICES ASSUME size = 1 PROVE Alone'
    BY <1>2 DEF Alone
  <2>1. w = 1 /\ main \in {"feed", "wait"} /\ errs = << >>
    BY <1>1, AloneWorks
  <2>2. resume < fed \/ resume <= lastDone
    BY <2>1 DEF ZipInv, DeepInv, Alone
  <2>3. resume < e
    BY <1>1, <2>1 DEF ZipInv, DeepInv, Alone
  <2>4. QED
    BY <1>2, <1>3, <2>1, <2>2, <2>3 DEF Alone, AtEntry, Extracting, Working
<1>7. Opened'
  <2> SUFFICES ASSUME NEW v \in 1 .. size, workers'[v].at = "fill"
               PROVE  /\ folder'[Path(workers'[v].entry)] = File(<< >>)
                      /\ Len(Path(workers'[v].entry)) = 2 =>
                           folder'[<<Path(workers'[v].entry)[1]>>] = Dir
    BY <1>2, <1>4 DEF Opened, Working
  <2>1. CASE v = w
    BY <1>3, <2>1
  <2>2. CASE v # w
    <3> DEFINE f == workers[v].entry
    <3>1. workers'[v] = workers[v] /\ Working(v, "fill")
      BY <1>3, <2>2 DEF Working
    <3>2. /\ folder[Path(f)] = File(<< >>)
          /\ Len(Path(f)) = 2 => folder[<<Path(f)[1]>>] = Dir
      BY <3>1 DEF ZipInv, DeepInv, Opened
    <3>3. AtEntry(v)
      BY <3>1 DEF AtEntry, Extracting, Working
    <3>4. f \in Indices /\ f # e
      BY <1>1, <2>2, <3>3, EntryOf DEF ZipInv, BaseInv, Assigned
    <3>5. folder'[Path(f)] = File(<< >>)
      <4>1. folder[Path(f)] # None
        BY <3>2 DEF File, None
      <4>2. QED
        BY <1>1, <3>2, <3>4, <4>1, TouchedElsewhere
    <3>6. ASSUME Len(Path(f)) = 2 PROVE folder'[<<Path(f)[1]>>] = Dir
      <4>1. PICK d \in 0 .. f - 1 : Path(d) = <<Path(f)[1]>> /\ Wanted(d) = Dir
        BY <3>4, <3>6, EntryFacts
      <4>2. d \in Indices /\ InPlace(d)
        BY <3>2, <3>4, <3>6, <4>1, Sizes DEF Indices, InPlace
      <4>3. CASE d = e
        BY <4>1, <4>3 DEF Touches
      <4>4. CASE d # e
        BY <1>1, <1>4, <4>1, <4>2, <4>4, TouchedElsewhere DEF InPlace
      <4>5. QED
        BY <4>3, <4>4
    <3>7. QED
      BY <3>1, <3>5, <3>6
  <2>3. QED
    BY <2>1, <2>2
<1>8. ASSUME NEW d \in Indices, d # e, Complete(d) PROVE Complete(d)'
  BY <1>1, <1>2, <1>8, TouchedElsewhere DEF Complete
<1>9. ASSUME NEW d, d # e, Busy(d) PROVE Busy(d)'
  <2>1. PICK v \in 1 .. size : Extracting(v) /\ workers[v].entry = d
    BY <1>9 DEF Busy
  <2>2. workers'[v] = workers[v]
    BY <1>3, <1>9, <2>1
  <2>3. QED
    BY <1>2, <2>1, <2>2 DEF Busy, Extracting
<1>10. Complete(e)' \/ Busy(e)'
  BY <1>2, <1>3 DEF Complete, Busy, Extracting
<1>11. EntriesInv'
  <2>1. main # "none" /\ result # "nil"
    BY <1>1, WorkingFor DEF ZipInv
  <2>2. Unsuccessful' = Unsuccessful
    BY <1>2 DEF Unsuccessful
  <2>3. ASSUME NEW d \in 0 .. fed - 1 PROVE Complete(d)' \/ Busy(d)' \/ (size = 1 /\ Unsuccessful)
    <3>1. d \in Indices
      BY Sizes DEF ZipInv, BaseInv, ZipTypes, Indices
    <3>2. Complete(d) \/ Busy(d) \/ (size = 1 /\ Unsuccessful)
      BY <2>1 DEF ZipInv, DeepInv, EntriesInv
    <3>3. QED
      BY <1>8, <1>9, <1>10, <3>1, <3>2
  <2>4. ASSUME NEW d \in 0 .. lastDone PROVE Complete(d)'
    <3>1. d \in Indices /\ d # e
      BY <1>1, Sizes, SMTT(60) DEF ZipInv, BaseInv, ZipTypes, Indices
    <3>2. Complete(d)
      BY <2>1 DEF ZipInv, DeepInv, EntriesInv
    <3>3. QED
      BY <1>8, <3>1, <3>2
  <2>5. ASSUME NEW d \in 0 .. resume PROVE Complete(d)' \/ (size > 1 /\ Busy(d)')
    <3>1. d \in Indices
      BY Sizes DEF ZipInv, BaseInv, ZipTypes, Indices
    <3>2. Complete(d) \/ (size > 1 /\ Busy(d))
      BY DEF ZipInv, DeepInv, EntriesInv
    <3>3. CASE d = e
      <4>1. size # 1
        <5> SUFFICES ASSUME size = 1 PROVE FALSE
          OBVIOUS
        <5>1. w = 1 /\ resume < e
          BY <1>1 DEF ZipInv, DeepInv, Alone
        <5>2. QED
          BY <1>1, <3>3, <5>1
      <4>2. QED
        BY <1>10, <3>3, <4>1, SizeCases DEF ZipInv
    <3>4. CASE d # e
      BY <1>8, <1>9, <3>1, <3>2, <3>4
    <3>5. QED
      BY <3>3, <3>4
  <2>6. QED
    BY <1>2, <2>1, <2>2, <2>3, <2>4, <2>5 DEF EntriesInv
<1>12. Honest'
  BY <1>2 DEF ZipInv, DeepInv, Honest
<1>13. QED
  BY <1>5, <1>6, <1>7, <1>11, <1>12 DEF DeepInv

\* The archive and the folder are as they were.
LEMMA FolderStays ==
  ASSUME DeepInv, UNCHANGED <<call, folder>>
  PROVE  DirsClear' /\ size' = size /\ Indices' = Indices
         /\ (\A d : Path(d)' = Path(d) /\ Wanted(d)' = Wanted(d))
BY DEF DeepInv, DirsClear, call, Path, Wanted, Indices, N

LEMMA OpenedStays ==
  ASSUME DeepInv, UNCHANGED <<call, folder>>,
         \A v \in 1 .. size : Working(v, "fill")' => workers'[v] = workers[v]
  PROVE  Opened'
<1>1. /\ size' = size
      /\ \A d : Path(d)' = Path(d)
  BY FolderStays
<1>2. \A v \in 1 .. size : Working(v, "fill")' => Working(v, "fill") /\ workers'[v] = workers[v]
  BY DEF Working
<1>3. QED
  BY <1>1, <1>2 DEF DeepInv, Opened

LEMMA FailsDeep ==
  ASSUME ZipInv, Undisturbed, NEW w \in 1 .. size, workers[w].at \in {"new", "create", "fill"}, Fails(w),
         UNCHANGED <<call, folder, resume, feeding, misread>>, failures' = failures + 1
  PROVE  DeepInv'
<1>1. /\ size' = size /\ main' = main /\ result' = result /\ fed' = fed /\ lastDone' = lastDone
      /\ resume' = resume /\ ~Working(w, "gone") /\ errs' = Append(errs, "failed")
      /\ torn' = IF Working(w, "new") THEN torn ELSE torn \cup {workers[w].entry}
  BY DEF call, feeding, Working, Fails
<1>2. /\ workers'[w].at = "gone"
      /\ \A v \in 1 .. size : v # w => workers'[v] = workers[v]
  BY <1>1, GotoFacts DEF ZipInv, BaseInv, Places, Fails
<1>3. DeepInv /\ BaseInv /\ errs \in Seq({"nil", "failed"}) /\ failures \in Nat
  BY DEF ZipInv, BaseInv, ZipTypes
<1>4. DirsClear'
  BY <1>3, FolderStays
<1>5. Opened'
  BY <1>2, <1>3, OpenedStays DEF Working
<1>6. main # "none" /\ result # "nil"
  BY <1>1, WorkingFor DEF ZipInv
<1>7. size = 1 => errs' = <<"failed">> /\ resume' \in Int /\ (main \in {"feed", "wait"} => resume < fed \/ resume <= lastDone)
  BY <1>1, <1>3, AloneWorks DEF DeepInv, Alone, BaseInv, ZipTypes
<1>8. Alone'
  BY <1>1, <1>2, <1>7 DEF Alone, AtEntry, Extracting, Working
<1>9. \A d : Complete(d) => Complete(d)'
  BY <1>1, CompleteStays
<1>10. ASSUME NEW d, Busy(d) PROVE Busy(d)' \/ (size > 1 /\ Complete(d)') \/ (size = 1 /\ Unsuccessful')
  <2>1. PICK v \in 1 .. size : Extracting(v) /\ workers[v].entry = d
    BY <1>10 DEF Busy
  <2>2. CASE v # w
    BY <1>1, <1>2, <2>1, <2>2 DEF Busy, Extracting
  <2>3. CASE v = w
    <3>1. d \in torn'
      BY <1>1, <2>1, <2>3 DEF Extracting, Working
    <3>2. QED
      BY <1>1, <1>3, <1>7, <3>1, SizeCases DEF Complete, Unsuccessful
  <2>4. QED
    BY <2>2, <2>3
<1>11. size = 1 => Unsuccessful'
  BY <1>7 DEF Unsuccessful
<1>12. EntriesInv'
  <2>1. /\ \A d \in 0 .. fed - 1 : Complete(d) \/ Busy(d) \/ (size = 1 /\ Unsuccessful)
        /\ \A d \in 0 .. lastDone : Complete(d)
        /\ \A d \in 0 .. resume : Complete(d) \/ (size > 1 /\ Busy(d))
    BY <1>3, <1>6 DEF DeepInv, EntriesInv
  <2>2. \A d \in 0 .. fed - 1 : Complete(d)' \/ Busy(d)' \/ (size = 1 /\ Unsuccessful')
    BY <1>9, <1>10, <1>11, <2>1
  <2>3. \A d \in 0 .. resume : Complete(d)' \/ (size > 1 /\ Busy(d)')
    BY <1>9, <1>10, <2>1
  <2>4. QED
    BY <1>1, <1>6, <1>9, <2>1, <2>2, <2>3 DEF EntriesInv
<1>13. Honest'
  BY <1>3 DEF Honest
<1>14. QED
  BY <1>4, <1>5, <1>8, <1>12, <1>13 DEF DeepInv

LEMMA LeaveDeep == ASSUME ZipInv, Undisturbed, NEW w \in 1 .. size, Leave(w) PROVE DeepInv'
<1>1. /\ size' = size /\ main' = main /\ result' = result /\ fed' = fed /\ lastDone' = lastDone
      /\ UNCHANGED <<call, folder, misread, torn, resume, failures>>
      /\ ~Working(w, "gone") /\ ~Extracting(w) /\ errs' = Append(errs, "nil")
  BY DEF Leave, call, feeding, faults, Working, Extracting
<1>2. /\ workers'[w].at = "gone"
      /\ \A v \in 1 .. size : v # w => workers'[v] = workers[v]
  BY <1>1, GotoFacts DEF ZipInv, BaseInv, Places, Leave
<1>3. DeepInv /\ BaseInv /\ errs \in Seq({"nil", "failed"})
  BY DEF ZipInv, BaseInv, ZipTypes
<1>4. DirsClear'
  BY <1>1, <1>3, FolderStays
<1>5. Opened'
  BY <1>1, <1>2, <1>3, OpenedStays DEF Working
<1>6. main # "none" /\ result # "nil"
  BY <1>1, WorkingFor DEF ZipInv
<1>7. size = 1 => ~Unsuccessful /\ errs' = <<"nil">> /\ (main \in {"feed", "wait"} => resume < fed \/ resume <= lastDone)
  BY <1>1, <1>3, AloneWorks DEF DeepInv, Alone
<1>8. Alone'
  BY <1>1, <1>2, <1>7 DEF Alone, AtEntry, Extracting, Working
<1>9. /\ \A d : Complete(d) => Complete(d)'
      /\ \A d : Busy(d) => Busy(d)'
  BY <1>1, <1>2, CompleteStays DEF Busy, Extracting
<1>10. EntriesInv'
  <2>1. /\ \A d \in 0 .. fed - 1 : Complete(d) \/ Busy(d) \/ (size = 1 /\ Unsuccessful)
        /\ \A d \in 0 .. lastDone : Complete(d)
        /\ \A d \in 0 .. resume : Complete(d) \/ (size > 1 /\ Busy(d))
    BY <1>3, <1>6 DEF DeepInv, EntriesInv
  <2>2. QED
    BY <1>1, <1>6, <1>7, <1>9, <2>1 DEF EntriesInv
<1>11. Honest'
  <2>1. \A i \in DOMAIN errs' : errs'[i] = "nil" \/ (i \in DOMAIN errs /\ errs'[i] = errs[i])
    BY <1>1, <1>3
  <2>2. QED
    BY <1>1, <1>3, <2>1 DEF DeepInv, Honest
<1>12. QED
  BY <1>4, <1>5, <1>8, <1>10, <1>11 DEF DeepInv

\* What a worker records is complete, and so is whatever comes before, unless another
\* worker is at it.
LEMMA RecordedIsComplete ==
  ASSUME ZipInv, Undisturbed, NEW w \in 1 .. size, Working(w, "record"), NEW d \in 0 .. workers[w].entry
  PROVE  (Complete(d) \/ (size > 1 /\ Busy(d))) /\ (d = workers[w].entry => Complete(d))
<1>1. AtEntry(w) /\ ~Working(w, "gone")
  BY DEF AtEntry, Working
<1>2. d \in 0 .. fed - 1
  BY <1>1, EntryOf DEF ZipInv, BaseInv, ZipTypes, Indices
<1>3. Complete(d) \/ Busy(d) \/ (size = 1 /\ Unsuccessful)
  BY <1>1, <1>2, WorkingFor DEF ZipInv, DeepInv, EntriesInv
<1>4. size = 1 => ~Unsuccessful /\ ~Busy(d)
  <2> SUFFICES ASSUME size = 1 PROVE ~Unsuccessful /\ ~Busy(d)
    OBVIOUS
  <2>1. w = 1
    OBVIOUS
  <2>2. QED
    BY <1>1, <2>1, AloneWorks DEF Busy, Extracting, Working
<1>5. ~Busy(workers[w].entry)
  <2>1. ASSUME NEW v \in 1 .. size, Extracting(v), workers[v].entry = workers[w].entry PROVE FALSE
    <3>1. v # w
      BY <2>1 DEF Extracting, Working
    <3>2. QED
      BY <1>1, <2>1, <3>1 DEF ZipInv, BaseInv, Assigned, AtEntry
  <2>2. QED
    BY <2>1 DEF Busy
<1>6. QED
  BY <1>3, <1>4, <1>5, SizeCases DEF ZipInv

LEMMA WriteProgressDeep == ASSUME ZipInv, Undisturbed, NEW w \in 1 .. size, WriteProgress(w) PROVE DeepInv'
<1> DEFINE r == workers[w].entry
<1>1. /\ size' = size /\ main' = main /\ result' = result /\ fed' = fed /\ lastDone' = lastDone /\ errs' = errs
      /\ UNCHANGED <<call, folder, misread, torn, failures>>
      /\ Working(w, "record") /\ AtEntry(w) /\ ~Working(w, "gone") /\ ~Extracting(w) /\ resume' = workers[w].entry
  BY DEF WriteProgress, call, feeding, faults, Working, AtEntry, Extracting
<1>2. /\ workers'[w].at = "idle"
      /\ \A v \in 1 .. size : v # w => workers'[v] = workers[v]
  BY <1>1, GotoFacts DEF ZipInv, BaseInv, Places, WriteProgress
<1>3. DeepInv /\ BaseInv
  BY DEF ZipInv
<1>4. DirsClear'
  BY <1>1, <1>3, FolderStays
<1>5. Opened'
  BY <1>1, <1>2, <1>3, OpenedStays DEF Working
<1>6. main # "none" /\ result # "nil"
  BY <1>1, WorkingFor DEF ZipInv
<1>7. Alone'
  <2> SUFFICES ASSUME size = 1 PROVE Alone'
    BY <1>1 DEF Alone
  <2>1. w = 1 /\ main \in {"feed", "wait"} /\ errs = << >>
    BY <1>1, AloneWorks
  <2>2. resume' < fed
    BY <1>1, EntryOf DEF ZipInv
  <2>3. QED
    BY <1>1, <1>2, <2>1, <2>2 DEF Alone, AtEntry, Extracting, Working
<1>8. /\ \A d : Complete(d) => Complete(d)'
      /\ \A d : Busy(d) => Busy(d)'
  BY <1>1, <1>2, CompleteStays DEF Busy, Extracting
<1>9. EntriesInv'
  <2>1. /\ \A d \in 0 .. fed - 1 : Complete(d) \/ Busy(d) \/ (size = 1 /\ Unsuccessful)
        /\ \A d \in 0 .. lastDone : Complete(d)
    BY <1>3, <1>6 DEF DeepInv, EntriesInv
  <2>2. \A d \in 0 .. resume' : Complete(d) \/ (size > 1 /\ Busy(d))
    BY <1>1, RecordedIsComplete
  <2>3. Unsuccessful' = Unsuccessful
    BY <1>1 DEF Unsuccessful
  <2>4. QED
    BY <1>1, <1>6, <1>8, <2>1, <2>2, <2>3 DEF EntriesInv
<1>10. Honest'
  BY <1>1, <1>3 DEF DeepInv, Honest
<1>11. QED
  BY <1>4, <1>5, <1>7, <1>9, <1>10 DEF DeepInv

LEMMA BeginEntryDeep == ASSUME ZipInv, Undisturbed, NEW w \in 1 .. size, BeginEntry(w) PROVE DeepInv'
<1>1. PICK e : e = workers[w].entry
  OBVIOUS
<1>2. /\ Extracting(w) /\ e \in Indices /\ folder \in Tree /\ ParentClear(e)
  BY <1>1, EntryOf, ParentIsClear DEF BeginEntry, Extracting, AtEntry, Working, ZipInv, BaseInv, ZipTypes
<1>3. CanMakeRoom(folder, Path(e))
  BY <1>2, RoomMade
<1>4. /\ folder' = Begun(folder, e)
      /\ Goto(w, IF Wanted(e).kind = "file" THEN "fill" ELSE "record")
      /\ UNCHANGED <<call, resume, feeding, errs, torn>> /\ misread \subseteq misread' /\ failures' = failures
  BY <1>1, <1>3 DEF BeginEntry
<1>5. /\ Touches(e)
      /\ Wanted(e).kind # "file" => folder'[Path(e)] = Wanted(e)
      /\ Wanted(e).kind = "file" => folder'[Path(e)] = File(<< >>)
      /\ Len(Path(e)) = 2 => folder'[<<Path(e)[1]>>] = Dir
  BY <1>2, <1>4, BegunTouches
<1>6. CASE Wanted(e).kind = "file"
  <2>1. Goto(w, "fill")
    BY <1>4, <1>6
  <2>2. QED
    BY <1>1, <1>2, <1>4, <1>5, <1>6, <2>1, EntryStep
<1>7. CASE Wanted(e).kind # "file"
  <2>1. Goto(w, "record")
    BY <1>4, <1>7
  <2>2. InPlace(e)'
    BY <1>5, <1>7 DEF InPlace, Path, Wanted
  <2>3. QED
    BY <1>1, <1>2, <1>4, <1>5, <2>1, <2>2, EntryStep
<1>8. QED
  BY <1>6, <1>7

LEMMA MisreadLinkDeep == ASSUME ZipInv, Undisturbed, NEW w \in 1 .. size, MisreadLink(w) PROVE DeepInv'
<1>1. PICK e : e = workers[w].entry
  OBVIOUS
<1>2. /\ Extracting(w) /\ e \in Indices /\ folder \in Tree /\ ParentClear(e) /\ failures \in Nat
  BY <1>1, EntryOf, ParentIsClear DEF MisreadLink, Extracting, AtEntry, Working, ZipInv, BaseInv, ZipTypes
<1>3. /\ Goto(w, "record") /\ Wanted(e).kind = "link"
      /\ UNCHANGED <<call, resume, feeding, errs, torn>> /\ misread' = misread \cup {e}
      /\ failures' = failures + 1
      /\ \E n \in Top : folder' = [MadeRoom(folder, Path(e)) EXCEPT ![Path(e)] = Link(n)]
  BY <1>1 DEF MisreadLink
<1>4. Touches(e)
  BY <1>2, <1>3, MisreadTouches
<1>5. e \in misread' /\ misread \subseteq misread' /\ (failures' = 0 => failures = 0)
  BY <1>2, <1>3
<1>6. QED
  BY <1>1, <1>2, <1>3, <1>4, <1>5, EntryStep

LEMMA FillFileDeep == ASSUME ZipInv, Undisturbed, NEW w \in 1 .. size, FillFile(w) PROVE DeepInv'
<1>1. PICK e : e = workers[w].entry
  OBVIOUS
<1>2. /\ Extracting(w) /\ Working(w, "fill") /\ e \in Indices /\ folder \in Tree
  BY <1>1, EntryOf DEF FillFile, Extracting, AtEntry, Working, ZipInv, BaseInv, ZipTypes
<1>3. /\ Wanted(e).kind = "file"
      /\ folder[Path(e)] = File(<< >>)
      /\ Len(Path(e)) = 2 => folder[<<Path(e)[1]>>] = Dir
  BY <1>1, <1>2 DEF ZipInv, BaseInv, DeepInv, Assigned, AtEntry, Opened
<1>4. /\ UNCHANGED <<call, resume, feeding>> /\ misread' = misread
  BY DEF FillFile
<1>5. CASE /\ folder' = IF folder[Follow(folder, Path(e))].kind = "file"
                          THEN Write(folder, Path(e), Wanted(e).data) ELSE folder
           /\ Goto(w, "record")
           /\ UNCHANGED <<errs, torn, failures>>
  <2>1. Touches(e) /\ InPlace(e)'
    BY <1>2, <1>3, <1>5, FilledTouches
  <2>2. QED
    BY <1>1, <1>2, <1>4, <1>5, <2>1, EntryStep
<1>6. CASE failures' = failures + 1 /\ Fails(w) /\ UNCHANGED folder
  BY <1>2, <1>4, <1>6, FailsDeep DEF Working
<1>7. QED
  BY <1>1, <1>5, <1>6 DEF FillFile

LEMMA WorkerDeep == ASSUME ZipInv, Undisturbed, NEW w \in 1 .. size, WorkerNext(w) PROVE DeepInv'
<1>1. CASE OpenFails(w)
  BY <1>1, FailsDeep DEF OpenFails, Working
<1>2. CASE OpenEntryFails(w)
  BY <1>2, FailsDeep DEF OpenEntryFails, Working
<1>3. QED
  BY <1>1, <1>2, BeginEntryDeep, MisreadLinkDeep, FillFileDeep, WriteProgressDeep, LeaveDeep DEF WorkerNext

\* No worker is at an entry once all are gone.
LEMMA NoneBusy == ASSUME AllGone, NEW d PROVE ~Busy(d)
BY DEF AllGone, Busy, Extracting, Working

LEMMA CallDeep == ASSUME ZipInv, Undisturbed, Call PROVE DeepInv'
<1>1. /\ size' = size /\ main = "none" /\ main' = "feed" /\ result' = "none" /\ fed' = 0 /\ errs' = << >>
      /\ lastDone' = IF resume < 0 THEN -1 ELSE resume
      /\ UNCHANGED <<call, folder, misread, torn>> /\ resume' = resume
      /\ resume \in Int
  BY Sizes DEF Call, call, faults, ZipInv, BaseInv, ZipTypes
<1>2. \A v \in 1 .. size : workers'[v].at = "new"
  BY DEF Call
<1>3. DeepInv /\ AllGone
  BY <1>1 DEF ZipInv, BaseInv, CallInv
<1>4. DirsClear'
  BY <1>1, <1>3, FolderStays
<1>5. Opened'
  BY <1>1, <1>2 DEF Opened, Working
<1>6. Alone'
  BY <1>1, <1>2 DEF Alone, Working, AtEntry, Extracting
<1>7. \A d \in 0 .. resume : Complete(d) /\ Complete(d)'
  BY <1>1, <1>3, NoneBusy, CompleteStays DEF DeepInv, EntriesInv
<1>8. EntriesInv'
  BY <1>1, <1>7 DEF EntriesInv
<1>9. Honest'
  BY <1>1 DEF Honest
<1>10. QED
  BY <1>4, <1>5, <1>6, <1>8, <1>9 DEF DeepInv

LEMMA FeedDeep == ASSUME ZipInv, Undisturbed, NEW w \in 1 .. size, Feed(w) PROVE DeepInv'
<1>1. /\ size' = size /\ main = "feed" /\ UNCHANGED <<main, result, errs, resume, lastDone, failures>> /\ fed' = fed + 1
      /\ UNCHANGED <<call, folder, misread, torn>>
      /\ fed \in Nat /\ resume \in Int /\ lastDone \in Int
      /\ ~Extracting(w) /\ ~Working(w, "gone")
  BY Sizes DEF Feed, call, faults, ZipInv, BaseInv, ZipTypes, Extracting, Working
<1>2. PICK a \in {"idle", "create"} :
        /\ workers' = [workers EXCEPT ![w] = [at |-> a, entry |-> fed]]
        /\ a = "create" <=> lastDone < fed
  <2>1. CASE fed <= lastDone
    BY <1>1, <2>1 DEF Feed
  <2>2. CASE ~(fed <= lastDone)
    BY <1>1, <2>2 DEF Feed
  <2>3. QED
    BY <2>1, <2>2
<1>3. /\ workers'[w].at = a /\ workers'[w].entry = fed
      /\ \A v \in 1 .. size : v # w => workers'[v] = workers[v]
  BY <1>2 DEF ZipInv, BaseInv, ZipTypes
<1>4. DeepInv
  BY DEF ZipInv
<1>5. DirsClear'
  BY <1>1, <1>4, FolderStays
<1>6. Opened'
  BY <1>1, <1>3, <1>4, OpenedStays DEF Working
<1>7. Alone'
  <2> SUFFICES ASSUME size = 1 PROVE Alone'
    BY <1>1 DEF Alone
  <2>1. w = 1 /\ errs = << >> /\ (resume < fed \/ resume <= lastDone)
    BY <1>1, <1>4, AloneWorks DEF DeepInv, Alone
  <2>2. resume < fed' \/ resume <= lastDone
    BY <1>1, <2>1
  <2>3. a = "create" => resume < fed
    BY <1>1, <1>2, <2>1
  <2>4. QED
    BY <1>1, <1>3, <2>1, <2>2, <2>3 DEF Alone, AtEntry, Extracting, Working
<1>8. /\ \A d : Complete(d) => Complete(d)'
      /\ \A d : Busy(d) => Busy(d)'
      /\ Unsuccessful' = Unsuccessful
  BY <1>1, <1>3, CompleteStays DEF Busy, Extracting, Unsuccessful
<1>9. EntriesInv'
  <2>1. /\ \A d \in 0 .. fed - 1 : Complete(d) \/ Busy(d) \/ (size = 1 /\ Unsuccessful)
        /\ \A d \in 0 .. lastDone : Complete(d)
        /\ \A d \in 0 .. resume : Complete(d) \/ (size > 1 /\ Busy(d))
        /\ result # "nil"
    BY <1>1, <1>4 DEF DeepInv, EntriesInv, ZipInv, BaseInv, CallInv
  <2>2. ASSUME NEW d \in 0 .. fed PROVE Complete(d)' \/ Busy(d)' \/ (size = 1 /\ Unsuccessful)
    <3>1. CASE d = fed /\ a = "create"
      BY <1>1, <1>3, <3>1 DEF Busy, Extracting
    <3>2. CASE d = fed /\ a = "idle"
      <4>1. d \in 0 .. lastDone
        BY <1>1, <1>2, <3>2
      <4>2. QED
        BY <1>8, <2>1, <4>1
    <3>3. CASE d # fed
      <4>1. d \in 0 .. fed - 1
        BY <1>1, <3>3
      <4>2. QED
        BY <1>8, <2>1, <4>1
    <3>4. QED
      BY <3>1, <3>2, <3>3
  <2>3. fed' - 1 = fed
    BY <1>1
  <2>4. QED
    BY <1>1, <1>8, <2>1, <2>2, <2>3 DEF EntriesInv
<1>10. Honest'
  BY <1>1, <1>4 DEF DeepInv, Honest
<1>11. QED
  BY <1>5, <1>6, <1>7, <1>9, <1>10 DEF DeepInv

\* A step of the call that leaves the workers alone.
LEMMA WorkersStayDeep ==
  ASSUME DeepInv, WorkersStay
  PROVE  /\ DirsClear' /\ Opened' /\ size' = size /\ fed' = fed /\ lastDone' = lastDone /\ failures' = failures
         /\ \A d : (Complete(d)' <=> Complete(d)) /\ (Busy(d)' <=> Busy(d))
         /\ \A a : Working(1, a)' = Working(1, a)
         /\ AtEntry(1)' = AtEntry(1) /\ workers' = workers
         /\ Indices' = Indices
<1>1. /\ UNCHANGED <<call, folder, workers, misread, torn>> /\ size' = size /\ fed' = fed /\ lastDone' = lastDone
      /\ failures' = failures
  BY DEF WorkersStay, call, faults
<1>2. DirsClear' /\ Opened' /\ Indices' = Indices
  BY <1>1, FolderStays, OpenedStays
<1>3. \A d : (Complete(d)' <=> Complete(d)) /\ (Busy(d)' <=> Busy(d))
  BY <1>1 DEF Complete, InPlace, Path, Wanted, Busy, Extracting
<1>4. QED
  BY <1>1, <1>2, <1>3 DEF Working, AtEntry, Extracting

LEMMA AbortDeep == ASSUME ZipInv, Undisturbed, Abort PROVE DeepInv'
<1>1. /\ WorkersStay /\ main = "feed" /\ main' = "returned" /\ result' = "failed" /\ resume' = -2
      /\ errs # << >> /\ errs' = Tail(errs) /\ Head(errs) = "failed"
  BY AbortBase DEF Abort, Return, WorkersStay, NoResume, ZipInv
<1>2. DeepInv /\ BaseInv /\ errs \in Seq({"nil", "failed"})
  BY DEF ZipInv, BaseInv, ZipTypes
<1>3. errs[1] = "failed" /\ 1 \in DOMAIN errs /\ Len(errs') = Len(errs) - 1 /\ Len(errs) \in Nat
  BY <1>1, <1>2, ResultsAre
<1>4. Alone'
  <2> SUFFICES ASSUME size = 1 PROVE Alone'
    BY <1>1, <1>2, WorkersStayDeep DEF Alone
  <2>1. Working(1, "gone")
    BY <1>1, AloneWorks
  <2>2. Len(errs) <= 1
    BY <1>2 DEF DeepInv, Alone
  <2>3. ~AtEntry(1)
    BY <2>1 DEF AtEntry, Extracting, Working
  <2>4. QED
    BY <1>1, <1>2, <1>3, <2>1, <2>2, <2>3, WorkersStayDeep DEF Alone
<1>5. EntriesInv'
  <2>1. /\ \A d \in 0 .. fed - 1 : Complete(d) \/ Busy(d) \/ (size = 1 /\ Unsuccessful)
        /\ \A d \in 0 .. lastDone : Complete(d)
    BY <1>1, <1>2 DEF DeepInv, EntriesInv
  <2>2. Unsuccessful' /\ 0 .. resume' = {}
    BY <1>1 DEF Unsuccessful
  <2>3. QED
    BY <1>1, <1>2, <2>1, <2>2, WorkersStayDeep DEF EntriesInv
<1>6. Honest'
  <2>1. failures # 0
    BY <1>2, <1>3 DEF DeepInv, Honest
  <2>2. QED
    BY <1>1, <1>2, <2>1, WorkersStayDeep DEF Honest
<1>7. QED
  BY <1>1, <1>2, <1>4, <1>5, <1>6, WorkersStayDeep DEF DeepInv

LEMMA AllFedDeep == ASSUME ZipInv, Undisturbed, AllFed PROVE DeepInv'
<1>1. WorkersStay /\ main = "feed" /\ main' = "wait" /\ UNCHANGED <<result, resume, errs>>
  BY DEF AllFed, WorkersStay
<1>2. DeepInv
  BY DEF ZipInv
<1>3. Alone'
  BY <1>1, <1>2, WorkersStayDeep DEF DeepInv, Alone
<1>4. EntriesInv'
  BY <1>1, <1>2, WorkersStayDeep DEF DeepInv, EntriesInv, Unsuccessful
<1>5. Honest'
  BY <1>1, <1>2, WorkersStayDeep DEF DeepInv, Honest
<1>6. QED
  BY <1>1, <1>2, <1>3, <1>4, <1>5, WorkersStayDeep DEF DeepInv

LEMMA WaitDeep == ASSUME ZipInv, Undisturbed, Wait PROVE DeepInv'
<1>1. WorkersStay /\ main = "wait" /\ result = "none" /\ fed = N /\ errs # << >>
  BY WaitCases DEF ZipInv, BaseInv, CallInv, Wait
<1>2. DeepInv /\ BaseInv /\ errs \in Seq({"nil", "failed"}) /\ errs' \in Seq({"nil", "failed"})
  BY WaitCases DEF ZipInv, BaseInv, ZipTypes
<1>3. /\ \A d \in 0 .. fed - 1 : Complete(d) \/ Busy(d) \/ (size = 1 /\ Unsuccessful)
      /\ \A d \in 0 .. lastDone : Complete(d)
      /\ \A d \in 0 .. resume : Complete(d) \/ (size > 1 /\ Busy(d))
  BY <1>1, <1>2 DEF DeepInv, EntriesInv
<1>4. size = 1 => Working(1, "gone") /\ ~AtEntry(1) /\ Len(errs) <= 1
  BY <1>1, <1>2, AloneWorks DEF DeepInv, Alone, AtEntry, Extracting, Working
<1>5. CASE main' = "returned" /\ resume' = NoResume /\ result' = "failed" /\ errs[1] = "failed" /\ 1 \in DOMAIN errs
  <2>1. Len(errs') < Len(errs) /\ Len(errs) \in Nat /\ Len(errs') \in Nat
    BY <1>2, WaitCases
  <2>2. Alone'
    BY <1>1, <1>2, <1>4, <1>5, <2>1, WorkersStayDeep DEF Alone
  <2>3. Unsuccessful' /\ 0 .. resume' = {}
    BY <1>5 DEF Unsuccessful, NoResume
  <2>4. EntriesInv'
    BY <1>1, <1>2, <1>3, <1>5, <2>3, WorkersStayDeep DEF EntriesInv
  <2>5. failures # 0
    BY <1>2, <1>5 DEF DeepInv, Honest
  <2>6. Honest'
    BY <1>1, <1>2, <2>5, WorkersStayDeep DEF Honest
  <2>7. QED
    BY <1>1, <1>2, <2>2, <2>4, <2>6, WorkersStayDeep DEF DeepInv
<1>6. CASE /\ main' = "returned" /\ result' = "nil" /\ resume' = NoResume
           /\ AllGone /\ errs = [i \in 1 .. size |-> "nil"] /\ errs' = << >>
  <2>1. Alone'
    BY <1>1, <1>2, <1>4, <1>6, WorkersStayDeep DEF Alone
  <2>2. errs # <<"failed">>
    <3>1. 1 \in 1 .. size
      BY <1>2, WorkersAre DEF BaseInv
    <3>2. errs[1] = "nil"
      BY <1>6, <3>1
    <3>3. QED
      BY <3>2
  <2>3. ~Unsuccessful
    BY <1>1, <2>2 DEF Unsuccessful
  <2>4. \A d \in Indices : Complete(d)
    BY <1>1, <1>3, <1>6, <2>3, NoneBusy DEF Indices
  <2>5. 0 .. resume' = {}
    BY <1>6 DEF NoResume
  <2>6. \A d \in 0 .. fed - 1 : Complete(d)
    BY <1>1, <2>4 DEF Indices
  <2>7. EntriesInv'
    BY <1>1, <1>2, <1>3, <1>6, <2>4, <2>5, <2>6, WorkersStayDeep DEF EntriesInv
  <2>8. Honest'
    BY <1>6 DEF Honest
  <2>9. QED
    BY <1>1, <1>2, <2>1, <2>7, <2>8, WorkersStayDeep DEF DeepInv
<1>7. CASE /\ UNCHANGED <<main, result, resume>>
           /\ Len(errs) > 1
           /\ \A i \in DOMAIN errs' : \E j \in DOMAIN errs : errs'[i] = errs[j]
  <2>1. size # 1
    BY <1>2, <1>4, <1>7
  <2>2. Alone'
    BY <1>1, <1>2, <2>1, WorkersStayDeep DEF Alone
  <2>3. EntriesInv'
    BY <1>1, <1>2, <1>3, <1>7, <2>1, WorkersStayDeep DEF EntriesInv
  <2>4. Honest'
    BY <1>1, <1>2, <1>7, WorkersStayDeep DEF DeepInv, Honest
  <2>5. QED
    BY <1>1, <1>2, <2>2, <2>3, <2>4, WorkersStayDeep DEF DeepInv
<1>8. QED
  BY <1>2, <1>5, <1>6, <1>7, WaitCases

LEMMA CrashDeep == ASSUME ZipInv, Undisturbed, Crash PROVE DeepInv'
<1>1. /\ size' = size /\ main # "none" /\ main' = "none" /\ UNCHANGED <<result, errs, failures>>
      /\ UNCHANGED <<call, folder, misread>> /\ torn \subseteq torn'
      /\ \A v \in 1 .. size : workers'[v].at = "gone"
  BY DEF Crash, call
<1>2. DeepInv /\ BaseInv
  BY DEF ZipInv
<1>3. DirsClear'
  BY <1>1, <1>2, FolderStays
<1>4. Opened'
  BY <1>1 DEF Opened, Working
<1>5. Alone'
  BY <1>1, <1>2 DEF DeepInv, Alone, AtEntry, Extracting, Working
<1>6. result # "nil"
  BY DEF ZipInv, BaseInv, CallInv, Crash
<1>7. \A d : Complete(d) => Complete(d)'
  BY <1>1, CompleteStays
<1>8. ASSUME NEW d, size > 1, Busy(d) PROVE Complete(d)'
  <2>1. PICK v \in 1 .. size : Extracting(v) /\ workers[v].entry = d
    BY <1>8 DEF Busy
  <2>2. d \in torn'
    BY <2>1 DEF Crash, Extracting
  <2>3. QED
    BY <1>1, <1>8, <2>2 DEF Complete
<1>9. ASSUME NEW d \in 0 .. resume' PROVE Complete(d) \/ (size > 1 /\ Busy(d))
  <2>1. CASE resume' = resume
    BY <1>2, <1>9, <2>1 DEF DeepInv, EntriesInv
  <2>2. CASE resume' < 0
    BY <1>2, <1>9, <2>2, PartialIs, Sizes
  <2>3. CASE \E w \in 1 .. size : Working(w, "record") /\ resume' < workers[w].entry
    <3>1. PICK w \in 1 .. size : Working(w, "record") /\ resume' < workers[w].entry
      BY <2>3
    <3>2. d \in 0 .. workers[w].entry
      BY <1>2, <1>9, <3>1, PartialIs, WorkersAre DEF BaseInv
    <3>3. QED
      BY <3>1, <3>2, RecordedIsComplete
  <2>4. QED
    BY <1>2, <2>1, <2>2, <2>3, PartialIs
<1>10. EntriesInv'
  BY <1>1, <1>6, <1>7, <1>8, <1>9 DEF EntriesInv
<1>11. Honest'
  BY <1>1, <1>2 DEF DeepInv, Honest
<1>12. QED
  BY <1>3, <1>4, <1>5, <1>10, <1>11 DEF DeepInv

LEMMA RetryDeep == ASSUME ZipInv, Undisturbed, Retry PROVE DeepInv'
<1>1. WorkersStay /\ main' = "none" /\ UNCHANGED <<result, resume, errs>> /\ result = "failed" /\ AllGone
  BY DEF Retry, WorkersStay
<1>2. DeepInv
  BY DEF ZipInv
<1>3. size = 1 => Working(1, "gone") /\ ~AtEntry(1)
  BY <1>1 DEF AllGone, AtEntry, Extracting, Working
<1>4. Alone'
  BY <1>1, <1>2, <1>3, WorkersStayDeep DEF DeepInv, Alone
<1>5. EntriesInv'
  BY <1>1, <1>2, WorkersStayDeep DEF DeepInv, EntriesInv
<1>6. Honest'
  BY <1>1, <1>2, WorkersStayDeep DEF DeepInv, Honest
<1>7. QED
  BY <1>1, <1>2, <1>4, <1>5, <1>6, WorkersStayDeep DEF DeepInv

-----------------------------------------------------------------------------
(* The theorem                                                              *)

LEMMA ZipInit == ExtractInit => ZipInv
<1> SUFFICES ASSUME ExtractInit PROVE ZipInv
  OBVIOUS
<1>1. /\ \A w \in 1 .. size : workers[w].at = "gone"
      /\ workers \in [1 .. size -> [at : Places, entry : Nat]]
      /\ errs = << >> /\ errs \in Seq({"nil", "failed"}) /\ DOMAIN errs = {}
  BY DEF ExtractInit, Places
<1>2. ZipTypes
  <2>1. size \in Concurrency /\ folder \in Tree
    BY DisksAssumption DEF ExtractInit
  <2>2. ready \in BOOLEAN
    BY DEF ExtractInit
  <2>3. /\ resume \in -2 .. N - 1 /\ fed \in 0 .. N /\ lastDone \in -1 .. N - 1
    BY Sizes DEF ExtractInit, NoResume
  <2>4. /\ main = "none" /\ result = "none" /\ closed = FALSE /\ misread = {} /\ failures = 0
    BY DEF ExtractInit
  <2>5. QED
    BY <1>1, <2>1, <2>2, <2>3, <2>4 DEF ZipTypes
<1>3. BaseInv
  BY <1>1, <1>2 DEF BaseInv, CallInv, Assigned, AtEntry, Extracting, Working, AllGone, ExtractInit
<1>4. DirsClear
  BY DEF ExtractInit, DirsClear, Indices
<1>5. Alone
  BY <1>1 DEF Alone, AtEntry, Extracting, Working, ExtractInit
<1>6. Opened
  BY <1>1 DEF Opened, Working
<1>7. EntriesInv
  BY DEF EntriesInv, ExtractInit, NoResume
<1>8. Honest
  BY <1>1 DEF Honest, ExtractInit
<1>9. QED
  BY <1>3, <1>4, <1>5, <1>6, <1>7, <1>8 DEF ZipInv, DeepInv

LEMMA ZipStep == ZipInv /\ [ExtractNext]_extraction => ZipInv'
<1> SUFFICES ASSUME ZipInv, [ExtractNext]_extraction PROVE ZipInv'
  OBVIOUS
<1>1. BaseInv'
  BY BaseStep DEF ZipInv
<1>2. ASSUME Undisturbed PROVE DeepInv'
  <2>1. CASE UNCHANGED extraction
    <3>1. WorkersStay /\ UNCHANGED <<main, result, resume, errs>>
      BY <2>1 DEF extraction, WorkersStay, feeding
    <3>2. DeepInv
      BY <1>2 DEF ZipInv
    <3>3. Alone' /\ EntriesInv' /\ Honest'
      BY <3>1, <3>2, WorkersStayDeep DEF DeepInv, Alone, EntriesInv, Honest, Unsuccessful
    <3>4. QED
      BY <3>1, <3>2, <3>3, WorkersStayDeep DEF DeepInv
  <2>2. CASE \E w \in 1 .. size : Feed(w)
    BY <1>2, <2>2, FeedDeep
  <2>3. CASE \E w \in 1 .. size : WorkerNext(w)
    BY <1>2, <2>3, WorkerDeep, SMTT(60)
  <2>4. QED
    BY <1>2, <2>1, <2>2, <2>3, CallDeep, AbortDeep, AllFedDeep, WaitDeep, CrashDeep, RetryDeep DEF ExtractNext, MainNext, Idle
<1>3. UNCHANGED call
  BY DEF ExtractNext, MainNext, WorkerNext, Call, Feed, Abort, AllFed, Wait, Crash, Retry, Idle, extraction,
         OpenFails, OpenEntryFails, BeginEntry, MisreadLink, FillFile, WriteProgress, Leave
<1>4. Undisturbed' => Undisturbed
  BY <1>3 DEF Undisturbed, call
<1>5. QED
  BY <1>1, <1>2, <1>4 DEF ZipInv

\* zip.go: whatever the archive, the folder, and the number of crashes and of failing
\* reads, a successful extraction has put every entry in place, and it only fails if
\* reading fails: with one worker, or in a folder without a file or link where the
\* archive has a directory, and then but for what an earlier call left unfinished.
THEOREM ExtractsAllHolds == ExtractSpec => []ExtractsAll
<1>1. ZipInv => ExtractsAll
  <2> SUFFICES ASSUME ZipInv, Undisturbed
               PROVE  /\ failures = 0 => result # "failed"
                      /\ result = "nil" =>
                           \A e \in 0 .. N - 1 : InPlace(e) \/ e \in misread \/ (size > 1 /\ e \in torn)
    BY DEF ExtractsAll, Undisturbed
  <2>1. QED
    BY DEF ZipInv, DeepInv, Honest, EntriesInv, Complete, Indices
<1>2. QED
  BY <1>1, ZipInit, ZipStep, PTL DEF ExtractSpec
=============================================================================
