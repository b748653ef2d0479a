------------------------------ MODULE WireReader ------------------------------
(***************************************************************************)
(* wire.ReadContext: reads messages from a (usually compressed) source and *)
(* hands out checkpoints at message boundaries.  The source gives its own  *)
(* checkpoint when it can, somewhere inside a read, so the two offsets of  *)
(* a checkpoint differ.                                                    *)
(***************************************************************************)
EXTENDS Integers

CONSTANTS
  Boundary,    \* the offsets where a message starts, and the end of the stream
  NoCheckpoint

ASSUME BoundaryAssumption == Boundary \subseteq Nat /\ 0 \in Boundary

ASSUME NoCheckpointAssumption == NoCheckpoint \notin [offset : Nat, source : Nat]

VARIABLES
  offset,            \* bytes read through the context
  saveState,         \* "idle", "waitingForSource" or "hasSourceCheckpoint"
  sourceCheckpoint,  \* the source's offset in the checkpoint it gave, or NoCheckpoint
  source             \* where the source is, and whether it was asked to save

reader == <<offset, saveState, sourceCheckpoint, source>>

Checkpoints == [offset : Nat, source : Nat]

NewReadContext ==
  /\ offset = 0
  /\ saveState = "idle"
  /\ sourceCheckpoint = NoCheckpoint
  /\ source = [pos |-> 0, wants |-> FALSE]

\* The source moves on by n bytes; if it was asked to, it may give a checkpoint
\* of a place it passes (OnSave).
Advance(n) ==
  /\ offset' = offset + n
  /\ \/ /\ source' = [source EXCEPT !.pos = @ + n]
        /\ UNCHANGED <<saveState, sourceCheckpoint>>
     \/ /\ source.wants
        /\ source' = [pos |-> source.pos + n, wants |-> FALSE]
        /\ sourceCheckpoint' \in source.pos .. source.pos + n
        /\ saveState' = "hasSourceCheckpoint"

\* The message the source comes to next ends at b.
EndsAt(b) == source.pos < b /\ \A c \in Boundary : c <= source.pos \/ b <= c

ReadMessage == \E b \in Boundary : EndsAt(b) /\ Advance(b - source.pos)

\* A read fails inside a message.
ReadPart == \E b \in Boundary : EndsAt(b) /\ \E n \in 1 .. b - source.pos - 1 : Advance(n)

WantSave ==
  /\ saveState = "idle"
  /\ source' = [source EXCEPT !.wants = TRUE]
  /\ saveState' = "waitingForSource"
  /\ UNCHANGED <<offset, sourceCheckpoint>>

HasCheckpoint == saveState = "hasSourceCheckpoint"

Checkpoint == [offset |-> offset, source |-> sourceCheckpoint]

PopCheckpoint ==
  /\ HasCheckpoint
  /\ saveState' = "idle"
  /\ sourceCheckpoint' = NoCheckpoint
  /\ UNCHANGED <<offset, source>>

\* Mutant: the request is dropped without its state.
RewindWaiting ==
  /\ source' = [pos |-> 0, wants |-> FALSE]
  /\ offset' = 0
  /\ sourceCheckpoint' = NoCheckpoint
  /\ UNCHANGED saveState

\* The source cannot come back after the context's own offset.
CanResume(c) == c.source <= c.offset

\* Mutant: the source is left where it resumed.
ResumeWithoutDiscard(c) ==
  \E s \in 0 .. c.source :
    /\ source' = [pos |-> s, wants |-> FALSE]
    /\ offset' = c.offset
    /\ saveState' = "idle"
    /\ sourceCheckpoint' = NoCheckpoint

\* The source resumes at its checkpoint, or earlier; what the context had read
\* beyond is read again and discarded.
Resume(c) ==
  \E s \in 0 .. c.source :
    LET delta == c.offset - s
    IN /\ delta >= 0
       /\ source' = [pos |-> s + delta, wants |-> FALSE]
       /\ offset' = c.offset
       /\ saveState' = "idle"
       /\ sourceCheckpoint' = NoCheckpoint

Rewind ==
  /\ source' = [pos |-> 0, wants |-> FALSE]
  /\ offset' = 0
  /\ saveState' = "idle"
  /\ sourceCheckpoint' = NoCheckpoint

ReaderTypeOK ==
  /\ offset \in Nat
  /\ saveState \in {"idle", "waitingForSource", "hasSourceCheckpoint"}
  /\ sourceCheckpoint \in Nat \cup {NoCheckpoint}
  /\ source \in [pos : Nat, wants : BOOLEAN]

\* A context that waits for its source's checkpoint has a source that was asked
\* for one: otherwise it would never hand out a checkpoint again.
WaitsForSource == saveState = "waitingForSource" <=> source.wants
=============================================================================
