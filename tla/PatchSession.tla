----------------------------- MODULE PatchSession -----------------------------
(***************************************************************************)
(* The saving patcher (pwr/patcher) at the granularity of one message of   *)
(* the patch, with the entry writers of the bowl it patches to             *)
(* (pwr/bowl, pwr/overlay) and the files they leave on disk.  A session    *)
(* may save, be stopped, or crash at any point; the next one resumes from  *)
(* the last checkpoint.                                                    *)
(***************************************************************************)
EXTENDS WireReader, PatchFormat

CONSTANTS
  Bowls,       \* the kinds of bowls, of "fresh" and "overlay"
  Skipped,     \* new files that are not on the whitelist
  BufSize,     \* what an overlay writer buffers
  PowerLoss,   \* the bowls under which a crash may take what was not synced
  MaxCrashes   \* bound on the number of crashes

ASSUME StreamAssumption == Boundary = {MsgLen * i : i \in 0 .. Len(Stream)}

ASSUME BowlsAssumption == Bowls \subseteq {"fresh", "overlay"}

ASSUME BufSizeAssumption == BufSize \in Nat \ {0}

VARIABLES
  bowl,       \* the kind of bowl
  session,    \* "idle", "running", "done" or "failed"
  pc,         \* what the patcher reads or does next
  file,       \* the file it is at
  oldOffset,  \* where a bsdiff series is in the old file
  writer,     \* the open entry writer
  disk,       \* the files in the output or staging folder
  synced,     \* what of them a power loss leaves
  recorded,   \* what an overlay bowl will do about every file
  kept,       \* the last checkpoint delivered
  crashes     \* crashes so far

local == <<session, pc, file, oldOffset, writer>>
vars  == <<bowl, reader, local, disk, synced, recorded, kept, crashes>>

Writers == [pos : Nat, buf : Seq(Nat), read : Nat, over : Nat]

Records == [how : {"none", "overlay", "move", "transposition"}, from : Nat]

Saves == [message : Checkpoints, file : Files, oldOffset : Int, writer : Writers, recorded : [Files -> Records]]

ASSUME KeptAssumption == NoCheckpoint \notin Saves

NoWriter == [pos |-> 0, buf |-> << >>, read |-> 0, over |-> 0]

Unrecorded == [how |-> "none", from |-> 0]

Init ==
  /\ bowl \in Bowls
  /\ NewReadContext
  /\ session = "idle"
  /\ pc = "header"
  /\ file = 1
  /\ oldOffset = 0
  /\ writer = NoWriter
  /\ disk = [f \in Files |-> << >>]
  /\ synced = disk
  /\ recorded = [f \in Files |-> Unrecorded]
  /\ kept = NoCheckpoint
  /\ crashes = 0

-----------------------------------------------------------------------------
(* Entry writers                                                            *)

\* An overlay bowl overlays the files the old build has; any other entry is
\* written whole.
Overlaid(f) == bowl = "overlay" /\ Patch[f].base # 0

Marked(f) ==
  IF bowl = "overlay"
    THEN [recorded EXCEPT ![f] = [how |-> IF Overlaid(f) THEN "overlay" ELSE "move", from |-> 0]]
    ELSE recorded

\* Mutant: buffered units are compared with the start of the old file.
ProcessedFromStart(f, w, n) ==
  LET cells == Overlay(SubSeq(w.buf, 1, n), Old[Patch[f].base], 0)
  IN [writer |-> [w EXCEPT !.buf = SubSeq(@, n + 1, Len(@)), !.read = @ + n, !.over = @ + Len(cells)],
      cells  |-> cells]

\* The first n buffered units of an overlay writer are compared and encoded.
Processed(f, w, n) ==
  LET cells == Overlay(SubSeq(w.buf, 1, n), Old[Patch[f].base], w.read)
  IN [writer |-> [w EXCEPT !.buf = SubSeq(@, n + 1, Len(@)), !.read = @ + n, !.over = @ + Len(cells)],
      cells  |-> cells]

Flushed(f, w) == Processed(f, w, Len(w.buf))

\* A full buffer is processed once more units come.
Overflow(w) == IF Len(w.buf) > BufSize THEN ((Len(w.buf) - 1) \div BufSize) * BufSize ELSE 0

WriterPos(f, w) == IF Overlaid(f) THEN w.over ELSE w.pos

\* EntryWriter.Write
Write(w, d) ==
  \E longer \in {[w EXCEPT !.pos = @ + Len(d), !.buf = IF Overlaid(file) THEN @ \o d ELSE @]} :
    \E step \in {IF Overlaid(file) THEN Processed(file, longer, Overflow(longer))
                 ELSE [writer |-> longer, cells |-> d]} :
      /\ writer' = step.writer
      /\ disk' = [disk EXCEPT ![file] = WriteAt(@, WriterPos(file, w), step.cells)]

\* Mutant: the end marker goes before what is still buffered.
FinalizeUnflushed ==
  IF Overlaid(file)
    THEN /\ disk' = [disk EXCEPT ![file] = WriteAt(@, writer.over, <<Hey>>)]
         /\ synced' = [synced EXCEPT ![file] = disk'[file]]
    ELSE UNCHANGED <<disk, synced>>

\* EntryWriter.Finalize: only an overlay writer has something left to write, and
\* syncs it.
Finalize ==
  IF Overlaid(file)
    THEN LET step == Flushed(file, writer)
         IN /\ disk' = [disk EXCEPT ![file] = WriteAt(@, writer.over, step.cells \o <<Hey>>)]
            /\ synced' = [synced EXCEPT ![file] = disk'[file]]
    ELSE UNCHANGED <<disk, synced>>

-----------------------------------------------------------------------------
(* Sessions                                                                 *)

\* NewFreshBowl prepares the output folder: every file gets its size.
Prepared ==
  IF bowl = "overlay" THEN disk
  ELSE [f \in Files |-> [i \in DOMAIN NewFile[f] |->
                           IF i <= Len(disk[f]) THEN disk[f][i] ELSE Hole]]

\* Mutant: a session without a checkpoint reads on where the last one stopped.
StartUnrewound ==
  /\ session = "idle"
  /\ kept = NoCheckpoint
  /\ session' = "running"
  /\ pc' = "header"
  /\ file' = 1
  /\ writer' = NoWriter
  /\ recorded' = [f \in Files |-> Unrecorded]
  /\ disk' = Prepared
  /\ UNCHANGED <<reader, oldOffset, synced, kept, crashes>>

\* A session that has no checkpoint starts from the beginning.
StartSession ==
  /\ session = "idle"
  /\ kept = NoCheckpoint
  /\ Rewind
  /\ session' = "running"
  /\ pc' = "header"
  /\ file' = 1
  /\ writer' = NoWriter
  /\ recorded' = [f \in Files |-> Unrecorded]
  /\ disk' = Prepared
  /\ UNCHANGED <<oldOffset, synced, kept, crashes>>

\* Resume(c): the bowl, the message reader and the entry writer take up where
\* the checkpoint says.
ResumeSession ==
  /\ session = "idle"
  /\ kept # NoCheckpoint
  /\ \/ /\ CanResume(kept.message)
        /\ Resume(kept.message)
        /\ session' = "running"
     \/ /\ ~CanResume(kept.message)
        /\ session' = "failed"
        /\ UNCHANGED reader
  /\ pc' = "top"
  /\ file' = kept.file
  /\ oldOffset' = kept.oldOffset
  /\ writer' = kept.writer
  /\ recorded' = kept.recorded
  /\ disk' = Prepared
  /\ UNCHANGED <<synced, kept, crashes>>

\* The process dies or a call fails, which may be a read that took a part of a message:
\* nothing of the session remains.  A power loss takes what was not synced of any file.
Crash ==
  /\ session = "running"
  /\ crashes < MaxCrashes
  /\ crashes' = crashes + 1
  /\ session' = "idle"
  /\ UNCHANGED reader \/ (pc # "top" /\ ReadPart)
  /\ \/ UNCHANGED disk
     \/ bowl \in PowerLoss /\ disk' \in {[f \in Files |-> IF f \in lost THEN synced[f] ELSE disk[f]] :
                                 lost \in SUBSET Files}
  /\ synced' = IF bowl \in PowerLoss THEN disk' ELSE synced
  /\ UNCHANGED <<bowl, pc, file, oldOffset, writer, recorded, kept>>

Reading(p) == session = "running" /\ pc = p

Message == Stream[source.pos \div MsgLen + 1]

Fail == session' = "failed" /\ UNCHANGED <<pc, file>>

\* The file is over: FileIndex is incremented, what was known of it is dropped.
NextFile ==
  /\ file' = file + 1
  /\ IF file = Len(Patch)
       THEN session' = "done" /\ pc' = "over"
       ELSE pc' = "header" /\ UNCHANGED session

Goto(p) == pc' = p /\ UNCHANGED <<session, file>>

ReadHeader ==
  /\ Reading("header")
  /\ ReadMessage
  /\ IF Message.type = "header" /\ Message.file = file
       THEN Goto(IF file \in Skipped THEN "skip"
                 ELSE IF Patch[file].kind = "rsync" THEN "first" ELSE "bsdiff")
       ELSE Fail
  /\ UNCHANGED <<oldOffset, writer, disk, synced, recorded, kept, crashes>>

\* skipFile
SkipMessage ==
  /\ Reading("skip")
  /\ ReadMessage
  /\ IF ReadsAsEnd(Message) THEN NextFile ELSE Goto("skip")
  /\ UNCHANGED <<oldOffset, writer, disk, synced, recorded, kept, crashes>>

\* A full-file operation is left to the bowl: a fresh one copies the old file, an
\* overlay bowl takes note of it.
ReadTransposition ==
  /\ Reading("first")
  /\ ReadMessage
  /\ FullFile(file, Message)
  /\ IF bowl = "fresh"
       THEN disk' = [disk EXCEPT ![file] = WriteAt(@, 0, Old[Message.file])] /\ UNCHANGED recorded
       ELSE recorded' = [recorded EXCEPT ![file] = [how |-> "transposition", from |-> Message.file]]
            /\ UNCHANGED disk
  /\ Goto("tail")
  /\ UNCHANGED <<oldOffset, writer, synced, kept, crashes>>

\* What follows a full-file operation is ignored.
ReadTail ==
  /\ Reading("tail")
  /\ ReadMessage
  /\ IF IsEnd(Message) THEN NextFile ELSE Goto("tail")
  /\ UNCHANGED <<oldOffset, writer, disk, synced, recorded, kept, crashes>>

\* Any other first operation opens the writer and is applied.
ReadFirst ==
  /\ Reading("first")
  /\ ReadMessage
  /\ ~FullFile(file, Message)
  /\ recorded' = Marked(file)
  /\ IF Message.type \in {"range", "data"}
       THEN Write(NoWriter, Data(Message)) /\ Goto("top")
       ELSE Fail /\ UNCHANGED <<writer, disk>>
  /\ UNCHANGED <<oldOffset, synced, kept, crashes>>

ReadBsdiffHeader ==
  /\ Reading("bsdiff")
  /\ ReadMessage
  /\ recorded' = Marked(file)
  /\ writer' = NoWriter
  /\ oldOffset' = 0
  /\ Goto("top")
  /\ UNCHANGED <<disk, synced, kept, crashes>>

-----------------------------------------------------------------------------
(* The loop of a file: maybe save, then read and apply one operation        *)

\* Mutant: once it asked, the patcher waits for the source's checkpoint.
GoOnWhenGiven ==
  /\ Reading("top")
  /\ Goto(IF source.wants THEN "top" ELSE "read")
  /\ UNCHANGED <<reader, oldOffset, writer, disk, synced, recorded, kept, crashes>>

\* ShouldSave is false, or the source has no checkpoint yet.
GoOn ==
  /\ Reading("top")
  /\ Goto("read")
  /\ UNCHANGED <<reader, oldOffset, writer, disk, synced, recorded, kept, crashes>>

AskSave ==
  /\ Reading("top")
  /\ WantSave
  /\ Goto("read")
  /\ UNCHANGED <<oldOffset, writer, disk, synced, recorded, kept, crashes>>

\* Mutant: an overlay writer saves its offsets only.
OffsetsOnly == [writer |-> writer, cells |-> << >>]

\* EntryWriter.Save: an overlay writer flushes first.
SavedWriter == IF Overlaid(file) THEN Flushed(file, writer)
               ELSE [writer |-> writer, cells |-> << >>]

\* A checkpoint is made and delivered; the consumer lets the patcher go on, or
\* stops it.
SaveCheckpoint ==
  /\ Reading("top")
  /\ PopCheckpoint
  /\ writer' = SavedWriter.writer
  /\ disk' = [disk EXCEPT ![file] = WriteAt(@, WriterPos(file, writer), SavedWriter.cells)]
  /\ synced' = [synced EXCEPT ![file] = disk'[file]]
  /\ kept' = [message |-> Checkpoint, file |-> file, oldOffset |-> oldOffset,
              writer |-> [writer' EXCEPT !.buf = << >>], recorded |-> recorded]
  /\ pc' = "read"
  /\ session' \in {"running", "idle"}
  /\ UNCHANGED <<file, oldOffset, recorded, crashes>>

ReadOp ==
  /\ Reading("read")
  /\ Patch[file].kind = "rsync"
  /\ ReadMessage
  /\ \/ /\ IsEnd(Message)
        /\ Finalize
        /\ NextFile
        /\ UNCHANGED writer
     \/ /\ Message.type \in {"range", "data"}
        /\ Write(writer, Data(Message))
        /\ Goto("top")
        /\ UNCHANGED synced
     \/ /\ ~IsEnd(Message) /\ Message.type \notin {"range", "data"}
        /\ Fail
        /\ UNCHANGED <<writer, disk, synced>>
  /\ UNCHANGED <<oldOffset, recorded, kept, crashes>>

ReadControl ==
  /\ Reading("read")
  /\ Patch[file].kind = "bsdiff"
  /\ ReadMessage
  /\ \/ /\ Message.type = "eof"
        /\ Goto("sentinel")
        /\ UNCHANGED <<writer, disk, oldOffset>>
     \/ /\ Message.type = "ctrl"
        /\ Write(writer, Added(Message, Patch[file].target, oldOffset))
        /\ oldOffset' = SeekBy(Message, oldOffset)
        /\ Goto("top")
     \/ /\ Message.type \notin {"eof", "ctrl"}
        /\ Fail
        /\ UNCHANGED <<writer, disk, oldOffset>>
  /\ UNCHANGED <<synced, recorded, kept, crashes>>

\* The end marker of a bsdiff series, then the check of the final size.
ReadSentinel ==
  /\ Reading("sentinel")
  /\ ReadMessage
  /\ IF IsEnd(Message) /\ writer.pos = Len(NewFile[file])
       THEN Finalize /\ NextFile
       ELSE Fail /\ UNCHANGED <<disk, synced>>
  /\ UNCHANGED <<oldOffset, writer, recorded, kept, crashes>>

Over == session \in {"done", "failed"} /\ UNCHANGED vars

Proceed ==
  /\ UNCHANGED bowl
  /\ \/ StartSession \/ ResumeSession
     \/ ReadHeader \/ SkipMessage \/ ReadTransposition \/ ReadTail \/ ReadFirst \/ ReadBsdiffHeader
     \/ GoOn \/ AskSave \/ SaveCheckpoint
     \/ ReadOp \/ ReadControl \/ ReadSentinel

Next == Proceed \/ Crash \/ Over

Spec == Init /\ [][Next]_vars

\* The patcher is one sequential loop, and whoever runs it resumes it.
FairSpec == Spec /\ WF_vars(Proceed)

-----------------------------------------------------------------------------
(* Properties                                                               *)

\* What the bowl makes of file f, once committed.
Result(f, record, cells) ==
  IF bowl = "fresh" THEN cells
  ELSE CASE record.how = "move"          -> cells
         [] record.how = "overlay"       -> Patched(cells, Old[Patch[f].base])
         [] record.how = "transposition" -> Old[record.from]
         [] OTHER                        -> Corrupt

\* A patch that was applied, in however many sessions, yields exactly the new
\* files.
PatchedFaithfully ==
  session = "done" => \A f \in Files \ Skipped : Result(f, recorded[f], disk[f]) = NewFile[f]

\* What cells hold of file f up to the place w of its writer.
Prefix(f, w, cells) ==
  IF Overlaid(f)
    THEN Patched(SubSeq(cells, 1, w.over) \o <<Hey>>, Old[Patch[f].base]) \o w.buf
    ELSE SubSeq(cells, 1, w.pos)

OpsBefore(f, o) == o \div MsgLen - Preamble[f]

\* The open writer has got what the operations read so far amount to, and no
\* more than a buffer's worth of it is not in the file yet.
WriterInStep ==
  Reading("top") =>
    /\ Len(writer.buf) <= BufSize
    /\ Prefix(file, writer, disk[file]) = OutputOf[file][OpsBefore(file, offset)]
    /\ writer.pos = Len(OutputOf[file][OpsBefore(file, offset)])

\* At any later time, whatever was written since, the last checkpoint can be
\* resumed from: its parts agree and the files hold what it relies on.
CheckpointHolds ==
  kept # NoCheckpoint =>
    LET f == kept.file
    IN /\ CanResume(kept.message)
       /\ kept.message.offset \in Boundary
       /\ WriterPos(f, kept.writer) <= Len(disk[f])
       /\ Prefix(f, kept.writer, disk[f]) = OutputOf[f][OpsBefore(f, kept.message.offset)]
       /\ \A g \in 1 .. f - 1 :
            g \in Skipped \/ Result(g, kept.recorded[g], disk[g]) = NewFile[g]

\* A session is a resumable computation whose steps are the patch's messages.
SavedMessages == IF kept = NoCheckpoint THEN 0 ELSE kept.message.offset \div MsgLen

Job == INSTANCE ResumableJob WITH
  N     <- Len(Stream),
  done  <- IF session = "idle" THEN SavedMessages ELSE source.pos \div MsgLen,
  saved <- SavedMessages,
  state <- session

Resumable == Job!Spec

\* The reader's count is where its source really is, through every save inside a read,
\* failed read and resume; a session is between two messages.
ReaderInStep ==
  /\ source.pos = offset
  /\ session # "idle" => offset \in Boundary

\* The patcher uses the reader as it has to be used: no message is read on after a
\* failure, and what is resumed from is the last checkpoint that was popped.
Client == INSTANCE WireClient WITH
  broken <- offset \notin Boundary,
  popped <- IF kept = NoCheckpoint THEN NoCheckpoint ELSE kept.message

ReadsAsClient == Client!Spec

\* Every patch is applied in the end.
Finishes == <>(session = "done")
=============================================================================
