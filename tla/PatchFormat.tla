----------------------------- MODULE PatchFormat -----------------------------
(***************************************************************************)
(* What a patch is and what it stands for: its messages, the files the     *)
(* operations amount to, and the overlay format of the in-place bowl.      *)
(*                                                                         *)
(* A file is a sequence of units; one unit is one block of the rsync       *)
(* algorithm.  Messages are MsgLen bytes long.                             *)
(***************************************************************************)
EXTENDS Integers, SequencesExt

CONSTANTS
  Old,         \* the contents of the old build's files
  Patch,       \* for every new file, [kind, base, target, ops]: base is the old
               \* file of the same path, or 0
  EndMarker,   \* the number that stands for HEY_YOU_DID_IT
  Values       \* units are numbers below this (256 in the code)

ASSUME ValuesAssumption == Values \in Nat \ {0}

ASSUME OldAssumption == Old \in Seq(Seq(Nat))

MsgLen == 2

Files == DOMAIN Patch

SyncOps ==
  [type : {"range"}, file : DOMAIN Old, first : Nat, span : Nat] \cup [type : {"data"}, data : Seq(Nat)]

Controls == [type : {"ctrl"}, add : Seq(Nat), copy : Seq(Nat), seek : Int]

-----------------------------------------------------------------------------
(* The patch, and what it stands for                                        *)

Messages(f) ==
  <<[type |-> "header", file |-> f]>>
    \o (IF Patch[f].kind = "bsdiff" THEN <<[type |-> "bsdiff", target |-> Patch[f].target]>> ELSE << >>)
    \o Patch[f].ops
    \o (IF Patch[f].kind = "bsdiff" THEN <<[type |-> "eof"]>> ELSE << >>)
    \o <<[type |-> "hey"]>>

Stream == FlattenSeq([f \in Files |-> Messages(f)])

\* The messages before the first operation of file f.
Preamble ==
  [f \in Files |-> Len(FlattenSeq([g \in 1 .. f - 1 |-> Messages(g)]))
                     + IF Patch[f].kind = "bsdiff" THEN 2 ELSE 1]

Units(s, first, n) == SubSeq(s, first + 1, IF first + n < Len(s) THEN first + n ELSE Len(s))

\* wsync.ApplySingle: a run of blocks of an old file, or fresh data.
Data(op) == IF op.type = "range" THEN Units(Old[op.file], op.first, op.span) ELSE op.data

\* bsdiff's Apply: old units with a difference added, then extra ones.
Added(ctrl, target, at) ==
  LET base == Units(Old[target], at, Len(ctrl.add))
  IN [i \in DOMAIN base |-> (base[i] + ctrl.add[i]) % Values] \o ctrl.copy

SeekBy(ctrl, at) == at + Len(ctrl.add) + ctrl.seek

\* The reference for all that follows: where a bsdiff series is in the old file
\* before its k-th operation, and what the first k operations amount to.
OldOffsetOf ==
  [f \in Files |->
     LET at[k \in 1 .. Len(Patch[f].ops) + 1] ==
           IF k = 1 \/ Patch[f].kind = "rsync" THEN 0
           ELSE at[k - 1] + Len(Patch[f].ops[k - 1].add) + Patch[f].ops[k - 1].seek
     IN at]

\* What WritePatch and the rediffer write: at least one file, at least one operation
\* in an rsync series, and a bsdiff series that stays inside the old file.
ASSUME PatchAssumption ==
  /\ Patch # << >>
  /\ Patch \in Seq([kind : {"rsync"}, base : {0} \cup DOMAIN Old, target : Nat, ops : Seq(SyncOps) \ {<< >>}]
                     \cup [kind : {"bsdiff"}, base : {0} \cup DOMAIN Old, target : DOMAIN Old, ops : Seq(Controls)])
  /\ \A f \in Files : \A k \in DOMAIN Patch[f].ops : OldOffsetOf[f][k] \in Nat

OutputOf ==
  [f \in Files |-> [k \in 0 .. Len(Patch[f].ops) |->
     FlattenSeq([i \in 1 .. k |->
       IF Patch[f].kind = "rsync" THEN Data(Patch[f].ops[i])
       ELSE Added(Patch[f].ops[i], Patch[f].target, OldOffsetOf[f][i])])]]

NewFile == [f \in Files |-> OutputOf[f][Len(Patch[f].ops)]]

\* isFullFileOp: the first operation covers an old file of the same size.
FullFile(f, op) ==
  /\ op.type = "range"
  /\ op.first = 0
  /\ Len(Old[op.file]) = Len(NewFile[f])
  /\ op.span = Len(NewFile[f])

IsEnd(op) == op.type = "hey"

\* skipFile takes every message for a SyncOp: the first field of a bsdiff header
\* is its target index.
ReadsAsEnd(m) == IsEnd(m) \/ (m.type = "bsdiff" /\ m.target = EndMarker)

-----------------------------------------------------------------------------
(* Files on disk, and the overlay format                                    *)

Hole == 0

\* Writing data at position pos leaves what lies beyond it.
WriteAt(file, pos, data) ==
  [i \in 1 .. (IF pos + Len(data) > Len(file) THEN pos + Len(data) ELSE Len(file)) |->
     IF i > pos /\ i <= pos + Len(data) THEN data[i - pos]
     ELSE IF i <= Len(file) THEN file[i] ELSE Hole]

\* Cells of an overlay: an operation each, and the units of a fresh one.
Skip(n)  == [op |-> "skip", n |-> n]
Fresh(n) == [op |-> "fresh", n |-> n]
Unit(v)  == [op |-> "unit", n |-> v]
Hey      == [op |-> "hey", n |-> 0]

\* overlayProcessor.write: maximal runs of equal units are skipped.  (The code
\* skips runs over 8 KiB and takes shorter ones as fresh.)
Overlay(buf, base, at) ==
  LET same == [i \in DOMAIN buf |-> at + i <= Len(base) /\ base[at + i] = buf[i]]
      run(i) == Cardinality({j \in i .. Len(buf) : \A k \in i .. j : same[k] = same[i]})
      starts(i) == i = 1 \/ same[i] # same[i - 1]
      cells(i) == IF starts(i) THEN <<IF same[i] THEN Skip(run(i)) ELSE Fresh(run(i))>> ELSE << >>
  IN FlattenSeq([i \in DOMAIN buf |-> cells(i) \o IF same[i] THEN << >> ELSE <<Unit(buf[i])>>])

Corrupt == <<"corrupt">>

\* OverlayPatchContext.Patch, from cell i and position at of the old file on, when
\* rest says what the later cells give.
Decoded(rest, cells, base, i, at) ==
  IF i > Len(cells) THEN Corrupt
  ELSE CASE cells[i].op = "hey"   -> << >>
         [] cells[i].op = "skip"  -> Units(base, at, cells[i].n) \o rest[i + 1][at + cells[i].n]
         [] cells[i].op = "fresh" -> [j \in 1 .. cells[i].n |-> cells[i + j].n]
                                       \o rest[i + 1 + cells[i].n][at + cells[i].n]
         [] cells[i].op = "unit"  -> Corrupt

Patched(cells, base) ==
  LET run[i \in Nat \ {0}] == [at \in Nat |-> Decoded(run, cells, base, i, at)]
  IN run[1][0]
=============================================================================
