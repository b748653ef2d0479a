------------------------------ MODULE WireClient ------------------------------
(***************************************************************************)
(* What a user of a wire.ReadContext may do: read messages, ask for        *)
(* checkpoints, and come back to the last one after any failure.  The      *)
(* patcher (module PatchSession) uses it so.                               *)
(***************************************************************************)
EXTENDS WireReader

VARIABLES
  broken,  \* a read failed: nothing but a restart is possible
  popped   \* the last checkpoint handed out

vars == <<reader, broken, popped>>

Init ==
  /\ NewReadContext
  /\ broken = FALSE
  /\ popped = NoCheckpoint

Read == ~broken /\ ReadMessage /\ UNCHANGED <<broken, popped>>

FailRead ==
  /\ ~broken
  /\ ReadPart
  /\ broken' = TRUE
  /\ UNCHANGED popped

Ask == ~broken /\ WantSave /\ UNCHANGED <<broken, popped>>

Pop ==
  /\ ~broken
  /\ PopCheckpoint
  /\ popped' = Checkpoint
  /\ UNCHANGED broken

Restart ==
  /\ IF popped = NoCheckpoint THEN Rewind ELSE Resume(popped)
  /\ broken' = FALSE
  /\ UNCHANGED popped

Next == Read \/ FailRead \/ Ask \/ Pop \/ Restart

Spec == Init /\ [][Next]_vars

-----------------------------------------------------------------------------

TypeOK ==
  /\ ReaderTypeOK
  /\ broken \in BOOLEAN
  /\ popped \in Checkpoints \cup {NoCheckpoint}

\* The context's count is where the source really is, through every resume, and
\* between reads that is where a message starts.
InStep ==
  /\ source.pos = offset
  /\ ~broken => offset \in Boundary

\* Every checkpoint handed out can be resumed from, at a message boundary, however
\* long before it the source saved.
AlwaysResumable ==
  popped # NoCheckpoint => CanResume(popped) /\ popped.offset \in Boundary
=============================================================================
