---------------------------- MODULE Streams_proofs ----------------------------
(***************************************************************************)
(* Proofs about two streams of messages: the one a wire.ReadContext reads  *)
(* and resumes (WireClient), for messages of any lengths; and the one      *)
(* bsdiff writes: that it is in order for any matches and any number of    *)
(* workers (ScanRing), and that it makes the new file (Bsdiff).            *)
(***************************************************************************)
EXTENDS WireClient, Bsdiff, SequenceFacts, FiniteSetTheorems

-----------------------------------------------------------------------------
(* WireClient                                                               *)

\* What the source saved is behind the context, and there is something saved
\* exactly in the state that says so.
SourceBehind ==
  /\ saveState = "hasSourceCheckpoint" => sourceCheckpoint \in Nat /\ sourceCheckpoint <= offset
  /\ WaitsForSource

IInv == TypeOK /\ InStep /\ AlwaysResumable /\ SourceBehind

LEMMA InitIInv == Init => IInv
<1> SUFFICES ASSUME Init PROVE IInv
  OBVIOUS
<1>1. source = [pos |-> 0, wants |-> FALSE]
  BY DEF Init, NewReadContext
<1>2. WaitsForSource
  BY <1>1 DEF Init, NewReadContext, WaitsForSource
<1>3. TypeOK
  BY DEF Init, NewReadContext, TypeOK, ReaderTypeOK
<1>4. InStep /\ AlwaysResumable
  BY BoundaryAssumption DEF Init, NewReadContext, InStep, AlwaysResumable
<1>5. QED
  BY <1>2, <1>3, <1>4 DEF Init, NewReadContext, IInv, SourceBehind

\* The source moves on with the context, whatever it saves on the way.
LEMMA AdvanceIInv ==
  ASSUME IInv, NEW n \in Nat, Advance(n)
  PROVE  /\ offset' = offset + n
         /\ offset' \in Nat
         /\ source' \in [pos : Nat, wants : BOOLEAN]
         /\ source'.pos = offset'
         /\ saveState' \in {"idle", "waitingForSource", "hasSourceCheckpoint"}
         /\ sourceCheckpoint' \in Nat \cup {NoCheckpoint}
         /\ SourceBehind'
<1> USE DEF IInv, TypeOK, ReaderTypeOK, InStep, SourceBehind, WaitsForSource
<1>1. offset' = offset + n /\ offset' \in Nat
  BY DEF Advance
<1>2. CASE source' = [source EXCEPT !.pos = @ + n] /\ UNCHANGED <<saveState, sourceCheckpoint>>
  BY <1>1, <1>2
<1>3. CASE /\ source.wants
           /\ source' = [pos |-> source.pos + n, wants |-> FALSE]
           /\ sourceCheckpoint' \in source.pos .. source.pos + n
           /\ saveState' = "hasSourceCheckpoint"
  BY <1>1, <1>3
<1>4. QED
  BY <1>1, <1>2, <1>3 DEF Advance

LEMMA ReadIInv == ASSUME IInv, Read PROVE IInv'
<1>1. PICK b \in Boundary : EndsAt(b) /\ Advance(b - source.pos)
  BY DEF Read, ReadMessage
<1>2. b - source.pos \in Nat /\ source.pos = offset /\ offset \in Nat /\ b \in Nat
  BY <1>1, BoundaryAssumption DEF EndsAt, IInv, InStep, TypeOK, ReaderTypeOK
<1>3. offset' = b
  BY <1>1, <1>2, AdvanceIInv
<1>4. QED
  BY <1>1, <1>2, <1>3, AdvanceIInv DEF Read, IInv, TypeOK, ReaderTypeOK, InStep, AlwaysResumable, CanResume

LEMMA FailReadIInv == ASSUME IInv, FailRead PROVE IInv'
<1>1. PICK b \in Boundary : EndsAt(b) /\ \E n \in 1 .. b - source.pos - 1 : Advance(n)
  BY DEF FailRead, ReadPart
<1>2. PICK n \in 1 .. b - source.pos - 1 : Advance(n)
  BY <1>1
<1>3. n \in Nat
  BY <1>1, BoundaryAssumption DEF EndsAt, IInv, TypeOK, ReaderTypeOK
<1>4. QED
  BY <1>2, <1>3, AdvanceIInv DEF FailRead, IInv, TypeOK, ReaderTypeOK, InStep, AlwaysResumable, CanResume

LEMMA AskIInv == ASSUME IInv, Ask PROVE IInv'
  BY DEF Ask, WantSave, IInv, TypeOK, ReaderTypeOK, InStep, AlwaysResumable, CanResume, SourceBehind, WaitsForSource

LEMMA PopIInv == ASSUME IInv, Pop PROVE IInv'
<1> USE DEF IInv, TypeOK, ReaderTypeOK, Pop, PopCheckpoint, HasCheckpoint
<1>1. popped' \in Checkpoints /\ popped'.source <= popped'.offset /\ popped'.offset \in Boundary
  BY DEF SourceBehind, Checkpoint, Checkpoints, InStep
<1>2. ~source.wants
  BY DEF SourceBehind, WaitsForSource
<1>3. QED
  BY <1>1, <1>2 DEF InStep, AlwaysResumable, CanResume, SourceBehind, WaitsForSource

\* A context that starts again at a message boundary, with its source there too.
LEMMA StartsAgain ==
  ASSUME IInv, NEW o \in Boundary,
         source' = [pos |-> o, wants |-> FALSE], offset' = o, saveState' = "idle",
         sourceCheckpoint' = NoCheckpoint, broken' = FALSE, UNCHANGED popped
  PROVE  IInv'
<1>1. o \in Nat
  BY BoundaryAssumption
<1>2. WaitsForSource'
  BY DEF WaitsForSource
<1>3. TypeOK'
  BY <1>1 DEF IInv, TypeOK, ReaderTypeOK
<1>4. InStep' /\ AlwaysResumable'
  BY DEF IInv, InStep, AlwaysResumable, CanResume
<1>5. QED
  BY <1>2, <1>3, <1>4 DEF IInv, SourceBehind

LEMMA RestartIInv == ASSUME IInv, Restart PROVE IInv'
<1>1. CASE popped = NoCheckpoint
  BY <1>1, BoundaryAssumption, StartsAgain DEF Restart, Rewind
<1>2. CASE popped # NoCheckpoint
  <2>1. PICK s \in 0 .. popped.source :
          /\ source' = [pos |-> s + (popped.offset - s), wants |-> FALSE]
          /\ offset' = popped.offset
          /\ saveState' = "idle"
          /\ sourceCheckpoint' = NoCheckpoint
    BY <1>2 DEF Restart, Resume
  <2>2. popped.offset \in Int /\ popped.source \in Int /\ popped.offset \in Boundary
    BY <1>2 DEF IInv, TypeOK, ReaderTypeOK, AlwaysResumable, Checkpoints
  <2>3. s + (popped.offset - s) = popped.offset
    BY <2>1, <2>2
  <2>4. QED
    BY <2>1, <2>2, <2>3, StartsAgain DEF Restart
<1>3. QED
  BY <1>1, <1>2

\* The invariant behind the three properties: the source is never ahead of what
\* was read through the context.
THEOREM ReaderInvariant == Spec => []IInv
<1>1. IInv /\ [Next]_vars => IInv'
  <2> SUFFICES ASSUME IInv, [Next]_vars PROVE IInv'
    OBVIOUS
  <2>1. CASE UNCHANGED vars
    BY <2>1 DEF vars, reader, IInv, TypeOK, ReaderTypeOK, InStep, AlwaysResumable, CanResume, SourceBehind,
                WaitsForSource
  <2>2. QED
    BY <2>1, ReadIInv, FailReadIInv, AskIInv, PopIInv, RestartIInv DEF Next
<1>2. QED
  BY <1>1, InitIInv, PTL DEF Spec

\* Whatever the lengths of the messages and wherever the source saves:
\* ReadContext.Resume never finds the source ahead of its own offset, and every
\* checkpoint is at a message boundary.
THEOREM AlwaysResumableHolds == Spec => []AlwaysResumable
  BY ReaderInvariant, PTL DEF IInv

\* The offset a ReadContext counts is the place its source is at, through every
\* failed read and resume.
THEOREM InStepHolds == Spec => []InStep
  BY ReaderInvariant, PTL DEF IInv

\* A context never waits for a checkpoint its source was not asked for, nor hands
\* on one it does not have.
THEOREM WaitsForSourceHolds == Spec => []WaitsForSource
<1>1. IInv => WaitsForSource
  BY DEF IInv, SourceBehind
<1>2. QED
  BY <1>1, ReaderInvariant, PTL

\* A checkpoint is held only in the state that says so, and every offset is one.
THEOREM TypeOKHolds == Spec => []TypeOK
  BY ReaderInvariant, PTL DEF IInv

-----------------------------------------------------------------------------
(* ScanRing: where the dispatcher and the collector are on the ring         *)

\* The block the collector comes to next at worker w.
Turn(w) ==
  collector.block + (w - collector.worker) + (IF w < collector.worker THEN size ELSE 0)

\* What worker w has sent and will send of the block it was given.
Pipe(w) == (found[w] \o left[w]) \o (IF work[w] = << >> THEN << >> ELSE Sent(work[w][1]))

Idle(w) == found[w] = << >> /\ left[w] = << >> /\ work[w] = << >>

\* What the collector has handed on, or is about to.
Delivered == (written \o matches) \o (IF collector.at = "forward" THEN <<collector.held>> ELSE << >>)

RingTypes(V) ==
  /\ Eoc \notin V
  /\ blocks \in Seq(Seq(V))
  /\ size \in Nat \ {0}
  /\ dispatcher \in [at : {"take", "give", "over"}, block : Nat, worker : Workers]
  /\ work \in [Workers -> {<< >>} \cup {<<b>> : b \in 0 .. Len(blocks) - 1}]
  /\ left \in [Workers -> Seq(V \cup {Eoc})]
  /\ found \in [Workers -> Seq(V \cup {Eoc})]
  /\ consumed \in [Workers -> BOOLEAN]
  /\ collector \in [at : {"receive", "forward", "acknowledge", "over"}, block : Nat,
                    worker : Workers, held : V \cup {NoMatch}]
  /\ collector.at = "forward" => collector.held \in V
  /\ matches \in Seq(V)
  /\ written \in Seq(V)

\* The dispatcher is at most once round the ring ahead of the collector.
RingPlaces ==
  /\ collector.block <= dispatcher.block
  /\ dispatcher.block <= Len(blocks)
  /\ dispatcher.block <= collector.block + size
  /\ dispatcher.worker = collector.worker + (dispatcher.block - collector.block)
       - (IF collector.worker + (dispatcher.block - collector.block) >= size THEN size ELSE 0)
  /\ dispatcher.at = "give" => dispatcher.block < Len(blocks) /\ dispatcher.block < collector.block + size
  /\ collector.at \in {"forward", "acknowledge"} => collector.block < dispatcher.block
  /\ collector.at = "over" => collector.block = Len(blocks)
  /\ result = "nil" => collector.at = "over" /\ matches = << >>

\* A worker has its token while it has no block.
Tokens ==
  \A w \in Workers :
    consumed[w] <=> dispatcher.block <= Turn(w) /\ ~(dispatcher.at = "give" /\ w = dispatcher.worker)

\* A worker whose block is not the collector's has all of it to send, or none.
Pipes ==
  \A w \in Workers :
    /\ dispatcher.block <= Turn(w) => Idle(w)
    /\ collector.block < Turn(w) /\ Turn(w) < dispatcher.block => Pipe(w) = Sent(Turn(w))

\* What was handed on and what is to come of the collector's block are the blocks
\* up to it.
Current ==
  /\ Len(Joined(collector.block)) <= Len(Delivered)
  /\ collector.block = dispatcher.block => Delivered = Joined(collector.block)
  /\ collector.block < dispatcher.block /\ collector.at # "acknowledge" =>
       Delivered \o Pipe(collector.worker) = Append(Joined(collector.block + 1), Eoc)
  /\ collector.at = "acknowledge" =>
       Delivered = Joined(collector.block + 1) /\ Idle(collector.worker)

RingInv(V) == RingTypes(V) /\ RingPlaces /\ Tokens /\ Pipes /\ Current

-----------------------------------------------------------------------------
(* Sequences *)

\* An element goes from the end of one sequence to the beginning of the next.
LEMMA PassOn ==
  ASSUME NEW S, NEW s \in Seq(S), NEW t \in Seq(S), t # << >>
  PROVE  /\ Head(t) \in S /\ Tail(t) \in Seq(S) /\ Append(s, Head(t)) \in Seq(S)
         /\ Append(s, Head(t)) \o Tail(t) = s \o t
         /\ s \o (<<Head(t)>> \o Tail(t)) = s \o t
         /\ <<Head(t)>> \o Tail(t) = t
<1>1. Head(t) \in S /\ Tail(t) \in Seq(S)
  OBVIOUS
<1>2. Append(s, Head(t)) \in Seq(S)
  BY <1>1
<1>3. <<Head(t)>> \o Tail(t) = t
  OBVIOUS
<1>4. Append(s, Head(t)) = s \o <<Head(t)>> /\ <<Head(t)>> \in Seq(S)
  BY <1>1
<1>5. (s \o <<Head(t)>>) \o Tail(t) = s \o (<<Head(t)>> \o Tail(t))
  BY <1>1, <1>4, ConcatAssoc, SMTT(60)
<1>6. QED
  BY <1>1, <1>2, <1>3, <1>4, <1>5, SMTT(60)

\* A mark that is not in s and ends s and in t \o u: if u begins with it, u is no longer.
LEMMA MarkIsLast ==
  ASSUME NEW V, NEW mark, mark \notin V, NEW s \in Seq(V), NEW t \in Seq(V), NEW u \in Seq(V \cup {mark}),
         t \o u = Append(s, mark), u # << >>, Head(u) = mark
  PROVE  t = s /\ u = <<mark>>
<1> DEFINE W == V \cup {mark}
<1>1. t \in Seq(W) /\ s \in Seq(W) /\ mark \in W /\ Len(t) \in Nat /\ Len(s) \in Nat /\ Len(u) \in Nat
  OBVIOUS
<1>2. Len(u) >= 1 /\ u[1] = mark
  OBVIOUS
<1>3. Len(t \o u) = Len(t) + Len(u) /\ (t \o u)[Len(t) + 1] = u[1] /\ \A i \in 1 .. Len(t) : (t \o u)[i] = t[i]
  BY <1>1, <1>2, SMTT(120)
<1>4. /\ Len(Append(s, mark)) = Len(s) + 1
      /\ \A i \in 1 .. Len(s) : Append(s, mark)[i] = s[i] /\ s[i] \in V
  BY <1>1
<1>5. Len(t) + Len(u) = Len(s) + 1
  BY <1>3, <1>4
<1>6. Len(t) + 1 \notin 1 .. Len(s)
  <2>1. SUFFICES ASSUME Len(t) + 1 \in 1 .. Len(s) PROVE FALSE
    OBVIOUS
  <2>2. Append(s, mark)[Len(t) + 1] = s[Len(t) + 1] /\ s[Len(t) + 1] \in V
    BY <1>4, <2>1
  <2>3. Append(s, mark)[Len(t) + 1] = mark
    BY <1>2, <1>3
  <2>4. QED
    BY <2>2, <2>3
<1>7. Len(t) = Len(s) /\ Len(u) = 1
  <2>1. \A a, b, c \in Nat : a + c = b + 1 /\ c >= 1 /\ a + 1 \notin 1 .. b => a = b /\ c = 1
    OBVIOUS
  <2>2. QED
    BY <1>1, <1>2, <1>5, <1>6, <2>1, Zenon
<1>8. \A i \in 1 .. Len(t) : t[i] = s[i]
  BY <1>3, <1>4, <1>7
<1>9. t = s
  BY <1>7, <1>8, SameSequence
<1>10. u = <<mark>>
  BY <1>2, <1>7
<1>11. QED
  BY <1>9, <1>10

\* If there is none in t, there is one in u.
LEMMA MarkIsToCome ==
  ASSUME NEW V, NEW mark, mark \notin V, NEW s \in Seq(V), NEW t \in Seq(V), NEW u \in Seq(V \cup {mark}),
         t \o u = Append(s, mark)
  PROVE  Len(t) <= Len(s) /\ \A i \in 1 .. Len(t) : t[i] = s[i]
<1> DEFINE W == V \cup {mark}
<1>1. t \in Seq(W) /\ s \in Seq(W) /\ mark \in W /\ Len(t) \in Nat /\ Len(s) \in Nat /\ Len(u) \in Nat
  OBVIOUS
<1>2. Len(t \o u) = Len(t) + Len(u) /\ \A i \in 1 .. Len(t) : (t \o u)[i] = t[i] /\ t[i] \in V
  BY <1>1, SMTT(60)
<1>3. /\ Len(Append(s, mark)) = Len(s) + 1 /\ Append(s, mark)[Len(s) + 1] = mark
      /\ \A i \in 1 .. Len(s) : Append(s, mark)[i] = s[i]
  BY <1>1
<1>4. Len(t) # Len(s) + 1
  <2>1. SUFFICES ASSUME Len(t) = Len(s) + 1 PROVE FALSE
    OBVIOUS
  <2>2. Len(s) + 1 \in 1 .. Len(t)
    BY <1>1, <2>1
  <2>3. QED
    BY <1>2, <1>3, <2>2
<1>5. Len(t) <= Len(s)
  BY <1>1, <1>2, <1>3, <1>4
<1>6. QED
  BY <1>1, <1>2, <1>3, <1>5

-----------------------------------------------------------------------------
(* Blocks *)

LEMMA JoinedFacts ==
  ASSUME NEW V, blocks \in Seq(Seq(V))
  PROVE  /\ Joined(0) = << >>
         /\ \A n \in 0 .. Len(blocks) : Joined(n) \in Seq(V)
         /\ \A n \in 0 .. Len(blocks) - 1 : Joined(n + 1) = Joined(n) \o blocks[n + 1]
  BY UptoNone, UptoType, UptoStep DEF Joined, Upto

\* What a worker sends of a block makes, after the blocks before it, the blocks up
\* to it and Eoc.
LEMMA SentFacts ==
  ASSUME NEW V, RingTypes(V), NEW b \in 0 .. Len(blocks) - 1
  PROVE  /\ Sent(b) \in Seq(V \cup {Eoc})
         /\ Sent(b) # << >>
         /\ Joined(b) \in Seq(V) /\ Joined(b + 1) \in Seq(V)
         /\ Len(Joined(b)) <= Len(Joined(b + 1))
         /\ Joined(b) \o Sent(b) = Append(Joined(b + 1), Eoc)
<1>1. blocks[b + 1] \in Seq(V) /\ b \in 0 .. Len(blocks) /\ b + 1 \in 0 .. Len(blocks)
  BY SMTT(60) DEF RingTypes
<1>2. /\ Joined(b) \in Seq(V) /\ Joined(b + 1) \in Seq(V)
      /\ Joined(b + 1) = Joined(b) \o blocks[b + 1]
  BY <1>1, JoinedFacts DEF RingTypes
<1>3. /\ blocks[b + 1] \in Seq(V \cup {Eoc}) /\ Joined(b) \in Seq(V \cup {Eoc})
  BY <1>1, <1>2
<1>4. Sent(b) = blocks[b + 1] \o <<Eoc>> /\ <<Eoc>> \in Seq(V \cup {Eoc}) /\ Sent(b) \in Seq(V \cup {Eoc})
  BY <1>3, SMTT(120) DEF Sent
<1>5. Sent(b) # << >>
  BY <1>3 DEF Sent
<1>6. (Joined(b) \o blocks[b + 1]) \o <<Eoc>> = Joined(b) \o (blocks[b + 1] \o <<Eoc>>)
  <2> DEFINE W == V \cup {Eoc}
             s == Joined(b)
             t == blocks[b + 1]
             u == <<Eoc>>
  <2>1. s \in Seq(W) /\ t \in Seq(W) /\ u \in Seq(W)
    BY <1>3, <1>4
  <2> HIDE DEF W, s, t, u
  <2>2. (s \o t) \o u = s \o (t \o u)
    BY <2>1, ConcatAssoc, SMTT(60)
  <2>3. QED
    BY <2>2 DEF s, t, u
<1>7. Append(Joined(b + 1), Eoc) = Joined(b + 1) \o <<Eoc>>
  BY <1>2
<1>8. Len(Joined(b)) <= Len(Joined(b + 1))
  BY <1>1, <1>2
<1>9. QED
  BY <1>2, <1>4, <1>5, <1>6, <1>7, <1>8

LEMMA PipeType ==
  ASSUME NEW V, RingTypes(V), NEW w \in Workers
  PROVE  /\ found[w] \in Seq(V \cup {Eoc}) /\ left[w] \in Seq(V \cup {Eoc})
         /\ work[w] # << >> => work[w][1] \in 0 .. Len(blocks) - 1 /\ Head(work[w]) = work[w][1]
                               /\ Sent(work[w][1]) \in Seq(V \cup {Eoc}) /\ Sent(work[w][1]) # << >>
         /\ Pipe(w) \in Seq(V \cup {Eoc})
         /\ Idle(w) <=> Pipe(w) = << >>
<1>1. found[w] \in Seq(V \cup {Eoc}) /\ left[w] \in Seq(V \cup {Eoc})
  BY DEF RingTypes
<1>2. work[w] = << >> \/ \E b \in 0 .. Len(blocks) - 1 : work[w] = <<b>>
  <2>1. work[w] \in {<< >>} \cup {<<b>> : b \in 0 .. Len(blocks) - 1}
    BY DEF RingTypes
  <2>2. QED
    BY <2>1, Zenon
<1>3. ASSUME work[w] # << >>
      PROVE  /\ work[w][1] \in 0 .. Len(blocks) - 1 /\ Head(work[w]) = work[w][1]
             /\ Sent(work[w][1]) \in Seq(V \cup {Eoc}) /\ Sent(work[w][1]) # << >>
  <2>1. work[w][1] \in 0 .. Len(blocks) - 1 /\ Head(work[w]) = work[w][1]
    BY <1>2, <1>3
  <2>2. QED
    BY <2>1, SentFacts
<1> DEFINE s == found[w]
           t == left[w]
           u == IF work[w] = << >> THEN << >> ELSE Sent(work[w][1])
<1>4. u \in Seq(V \cup {Eoc}) /\ (u = << >> <=> work[w] = << >>)
  BY <1>3
<1>5. Pipe(w) = (s \o t) \o u
  BY DEF Pipe
<1>6. (s \o t) \o u \in Seq(V \cup {Eoc}) /\ ((s \o t) \o u = << >> <=> s = << >> /\ t = << >> /\ u = << >>)
  <2> HIDE DEF s, t, u
  <2>1. s \in Seq(V \cup {Eoc}) /\ t \in Seq(V \cup {Eoc}) /\ u \in Seq(V \cup {Eoc})
    BY <1>1, <1>4 DEF s, t
  <2>2. /\ (s \o t) \o u \in Seq(V \cup {Eoc})
        /\ Len((s \o t) \o u) = Len(s) + Len(t) + Len(u)
    BY <2>1
  <2>3. QED
    BY <2>1, <2>2
<1>7. QED
  BY <1>1, <1>3, <1>4, <1>5, <1>6 DEF Idle

-----------------------------------------------------------------------------
(* Turns *)

\* The blocks the workers come to next are those from the collector's on, one each,
\* and the dispatcher's is one of them unless it is once round.
LEMMA TurnFacts ==
  ASSUME NEW V, RingTypes(V), RingPlaces
  PROVE  /\ collector.block \in Nat /\ dispatcher.block \in Nat /\ size \in Nat /\ size >= 1 /\ Len(blocks) \in Nat
         /\ collector.worker \in Workers /\ dispatcher.worker \in Workers
         /\ Turn(collector.worker) = collector.block
         /\ \A w \in Workers : /\ Turn(w) \in Nat
                               /\ collector.block <= Turn(w) /\ Turn(w) < collector.block + size
                               /\ Turn(w) = collector.block => w = collector.worker
         /\ dispatcher.block < collector.block + size =>
              Turn(dispatcher.worker) = dispatcher.block
              /\ \A w \in Workers : Turn(w) = dispatcher.block => w = dispatcher.worker
         /\ dispatcher.block = collector.block + size => dispatcher.worker = collector.worker
<1> DEFINE cb == collector.block
           cw == collector.worker
           db == dispatcher.block
           dw == dispatcher.worker
<1>1. /\ cb \in Nat /\ db \in Nat /\ size \in Nat /\ size >= 1 /\ Len(blocks) \in Nat
      /\ cw \in 0 .. size - 1 /\ dw \in 0 .. size - 1
  BY SMTT(60) DEF RingTypes, Workers
<1>2. /\ cb <= db /\ db <= cb + size
      /\ dw = cw + (db - cb) - (IF cw + (db - cb) >= size THEN size ELSE 0)
  BY DEF RingPlaces
<1>3. \A w : Turn(w) = cb + (w - cw) + (IF w < cw THEN size ELSE 0)
  BY DEF Turn
<1>4. ASSUME NEW w \in Workers
      PROVE  /\ Turn(w) \in Nat /\ cb <= Turn(w) /\ Turn(w) < cb + size
             /\ Turn(w) = cb => w = cw
             /\ db < cb + size /\ Turn(w) = db => w = dw
  <2>1. w \in 0 .. size - 1
    BY DEF Workers
  <2> HIDE DEF cb, cw, db, dw
  <2>2. CASE w < cw
    BY <1>1, <1>2, <1>3, <2>1, <2>2, SMTT(60)
  <2>3. CASE ~(w < cw)
    BY <1>1, <1>2, <1>3, <2>1, <2>3
  <2>4. QED
    BY <2>2, <2>3
<1>5. Turn(cw) = cb
  <2> HIDE DEF cb, cw, db, dw
  <2>1. QED
    BY <1>1, <1>3
<1>6. /\ db < cb + size => Turn(dw) = db
      /\ db = cb + size => dw = cw
  <2> HIDE DEF cb, cw, db, dw
  <2>1. CASE cw + (db - cb) >= size
    BY <1>1, <1>2, <1>3, <2>1
  <2>2. CASE ~(cw + (db - cb) >= size)
    BY <1>1, <1>2, <1>3, <2>2
  <2>3. QED
    BY <2>1, <2>2
<1>7. QED
  BY <1>1, <1>4, <1>5, <1>6, SMTT(60) DEF Workers

-----------------------------------------------------------------------------
(* What a step leaves alone *)

LEMMA SameTurns ==
  ASSUME size' = size, collector.block' = collector.block, collector.worker' = collector.worker
  PROVE  Workers' = Workers /\ \A w : Turn(w)' = Turn(w)
  BY DEF Turn, Workers

LEMMA SameBlocks ==
  ASSUME blocks' = blocks
  PROVE  (\A n : Joined(n)' = Joined(n)) /\ \A b : Sent(b)' = Sent(b)
  BY DEF Joined, Sent

LEMMA SamePipes ==
  ASSUME blocks' = blocks, work' = work, left' = left, found' = found
  PROVE  \A w : Pipe(w)' = Pipe(w) /\ Idle(w)' = Idle(w)
  BY DEF Pipe, Idle, Sent

\* A step of the dispatcher, or of a worker, that changes no pipe and gives no block.
LEMMA PipesKept ==
  ASSUME NEW V, RingInv(V), UNCHANGED <<blocks, size, collector, matches, written>>,
         dispatcher'.block = dispatcher.block,
         \A w \in Workers : Pipe(w)' = Pipe(w),
         \A w \in Workers : Idle(w) => Idle(w)'
  PROVE  Pipes' /\ Current'
<1>1. Workers' = Workers /\ \A w : Turn(w)' = Turn(w)
  BY SameTurns
<1>2. (\A n : Joined(n)' = Joined(n)) /\ \A b : Sent(b)' = Sent(b)
  BY SameBlocks
<1>3. Delivered' = Delivered
  BY DEF Delivered
<1>4. collector.worker \in Workers
  BY DEF RingInv, RingTypes
<1>5. ASSUME NEW w \in Workers
      PROVE  /\ dispatcher'.block <= Turn(w)' => Idle(w)'
             /\ collector'.block < Turn(w)' /\ Turn(w)' < dispatcher'.block => Pipe(w)' = Sent(Turn(w))'
  <2>1. /\ dispatcher.block <= Turn(w) => Idle(w)
        /\ collector.block < Turn(w) /\ Turn(w) < dispatcher.block => Pipe(w) = Sent(Turn(w))
    BY DEF RingInv, Pipes
  <2>2. Sent(Turn(w))' = Sent(Turn(w))
    BY <1>1 DEF Sent
  <2>3. QED
    BY <1>1, <2>1, <2>2
<1>6. Pipes'
  BY <1>1, <1>5 DEF Pipes
<1>7. Current'
  <2>1. Pipe(collector.worker)' = Pipe(collector.worker) /\ (Idle(collector.worker) => Idle(collector.worker)')
    BY <1>4
  <2>2. Joined(collector.block)' = Joined(collector.block) /\ Joined(collector.block + 1)' = Joined(collector.block + 1)
    BY DEF Joined
  <2>3. Current
    BY DEF RingInv
  <2>4. QED
    BY <1>3, <2>1, <2>2, <2>3 DEF Current
<1>8. QED
  BY <1>6, <1>7

-----------------------------------------------------------------------------
(* The dispatcher *)

LEMMA TakeTokenInv ==
  ASSUME NEW V, RingInv(V), TakeToken
  PROVE  RingInv(V)'
<1> DEFINE dw == dispatcher.worker
<1>1. /\ UNCHANGED <<given, closed, work, working, found, collector, matches, writing>>
      /\ dispatcher.at = "take" /\ dispatcher.block < Len(blocks) /\ consumed[dw]
      /\ consumed' = [consumed EXCEPT ![dw] = FALSE]
      /\ dispatcher' = [dispatcher EXCEPT !.at = "give"]
  BY DEF TakeToken
<1>2. RingTypes(V) /\ RingPlaces /\ Tokens
  BY DEF RingInv
<1>3. dispatcher' = [at |-> "give", block |-> dispatcher.block, worker |-> dw] /\ dw \in Workers
  BY <1>1, <1>2 DEF RingTypes
<1>4. UNCHANGED <<blocks, size, work, left, found, collector, matches, written, result>>
  BY <1>1 DEF given, working, writing
<1>5. Workers' = Workers /\ \A w : Turn(w)' = Turn(w)
  BY <1>4, SameTurns
<1>6. dispatcher.block < collector.block + size
  <2>1. dispatcher.block <= Turn(dw)
    BY <1>1, <1>2, <1>3 DEF Tokens
  <2>2. dispatcher.block = collector.block + size => Turn(dw) = collector.block
    BY <1>2, TurnFacts
  <2>3. dispatcher.block <= collector.block + size
    BY <1>2 DEF RingPlaces
  <2>4. QED
    BY <1>2, <2>1, <2>2, <2>3, TurnFacts
<1>7. RingTypes(V)'
  BY <1>1, <1>2, <1>3, <1>4, <1>5, ZenonT(60) DEF RingTypes
<1>8. RingPlaces'
  BY <1>1, <1>2, <1>3, <1>4, <1>6 DEF RingPlaces
<1>9. Tokens'
  <2>1. \A w \in Workers : consumed'[w] <=> consumed[w] /\ w # dw
    BY <1>1, <1>2, <1>3 DEF RingTypes
  <2>2. \A w \in Workers : consumed[w] <=> dispatcher.block <= Turn(w)
    BY <1>1, <1>2 DEF Tokens
  <2>3. QED
    BY <1>3, <1>5, <2>1, <2>2 DEF Tokens
<1>10. Pipes' /\ Current'
  <2>1. \A w : Pipe(w)' = Pipe(w) /\ Idle(w)' = Idle(w)
    BY <1>4, SamePipes
  <2>2. QED
    BY <1>3, <1>4, <2>1, PipesKept
<1>11. QED
  BY <1>7, <1>8, <1>9, <1>10 DEF RingInv

LEMMA CloseWorkInv ==
  ASSUME NEW V, RingInv(V), CloseWork
  PROVE  RingInv(V)'
<1>1. /\ UNCHANGED <<given, work, working, found, consumed, collector, matches, writing>>
      /\ dispatcher.at = "take"
      /\ dispatcher' = [dispatcher EXCEPT !.at = "over"]
  BY DEF CloseWork
<1>2. RingTypes(V) /\ RingPlaces /\ Tokens
  BY DEF RingInv
<1>3. dispatcher' = [at |-> "over", block |-> dispatcher.block, worker |-> dispatcher.worker]
  BY <1>1, <1>2 DEF RingTypes
<1>4. UNCHANGED <<blocks, size, work, left, found, consumed, collector, matches, written, result>>
  BY <1>1 DEF given, working, writing
<1>5. Workers' = Workers /\ \A w : Turn(w)' = Turn(w)
  BY <1>4, SameTurns
<1>6. RingTypes(V)'
  BY <1>2, <1>3, <1>4, <1>5 DEF RingTypes
<1>7. RingPlaces'
  BY <1>2, <1>3, <1>4 DEF RingPlaces
<1>8. Tokens'
  BY <1>1, <1>2, <1>3, <1>4, <1>5 DEF Tokens
<1>9. Pipes' /\ Current'
  <2>1. \A w : Pipe(w)' = Pipe(w) /\ Idle(w)' = Idle(w)
    BY <1>4, SamePipes
  <2>2. QED
    BY <1>3, <1>4, <2>1, PipesKept
<1>10. QED
  BY <1>6, <1>7, <1>8, <1>9 DEF RingInv

\* The next worker is the next place on the ring.
LEMMA NextPlace ==
  ASSUME NEW s \in Nat, NEW c \in 0 .. s - 1, NEW d \in 0 .. s - 1, NEW w,
         w = c + d - (IF c + d >= s THEN s ELSE 0)
  PROVE  (IF w + 1 = s THEN 0 ELSE w + 1) = c + (d + 1) - (IF c + (d + 1) >= s THEN s ELSE 0)
<1>1. CASE c + d >= s
  BY <1>1
<1>2. CASE c + d < s /\ c + (d + 1) >= s
  BY <1>2
<1>3. CASE c + (d + 1) < s
  BY <1>3
<1>4. QED
  BY <1>1, <1>2, <1>3

\* The block goes to the worker whose turn it is, which is idle.
LEMMA GiveBlockInv ==
  ASSUME NEW V, RingInv(V), GiveBlock
  PROVE  RingInv(V)'
<1>0. PICK dw, db, cw, cb : /\ dw = dispatcher.worker /\ db = dispatcher.block
                            /\ cw = collector.worker /\ cb = collector.block
  OBVIOUS
<1> USE <1>0
<1>1. /\ UNCHANGED <<given, closed, working, found, consumed, collector, matches, writing>>
      /\ dispatcher.at = "give"
      /\ work' = [work EXCEPT ![dw] = <<db>>]
      /\ dispatcher' = [at |-> "take", block |-> db + 1, worker |-> NextWorker(dw)]
  BY DEF GiveBlock
<1>2. RingTypes(V) /\ RingPlaces /\ Tokens /\ Pipes /\ Current
  BY DEF RingInv
<1>3. UNCHANGED <<blocks, size, left, found, consumed, collector, matches, written, result>>
  BY <1>1 DEF given, working, writing
<1>4. Workers' = Workers /\ \A w : Turn(w)' = Turn(w)
  BY <1>3, SameTurns
<1>5. /\ db < Len(blocks) /\ db < cb + size /\ cb <= db
      /\ db \in Nat /\ cb \in Nat /\ size \in Nat /\ size >= 1 /\ Len(blocks) \in Nat
      /\ dw \in Workers /\ cw \in Workers /\ Turn(cw) = cb
      /\ Turn(dw) = db
      /\ \A w \in Workers : Turn(w) = db => w = dw
      /\ \A w \in Workers : Turn(w) \in Nat
  BY <1>1, <1>2, TurnFacts DEF RingPlaces
<1>6. /\ db \in 0 .. Len(blocks) - 1
      /\ NextWorker(dw) = (IF dw + 1 = size THEN 0 ELSE dw + 1)
      /\ NextWorker(dw) \in Workers
  BY <1>5, SMTT(60) DEF NextWorker, Workers
<1>7. RingTypes(V)'
  <2>1. work' \in [Workers -> {<< >>} \cup {<<b>> : b \in 0 .. Len(blocks) - 1}]
    BY <1>1, <1>2, <1>6 DEF RingTypes
  <2>2. dispatcher' \in [at : {"take", "give", "over"}, block : Nat, worker : Workers]
    BY <1>1, <1>5, <1>6, SMTT(60)
  <2>3. QED
    BY <1>2, <1>3, <1>4, <2>1, <2>2 DEF RingTypes
<1>8. RingPlaces'
  <2>1. dispatcher'.at = "take" /\ dispatcher'.block = db + 1 /\ dispatcher'.worker = NextWorker(dw)
    BY <1>1
  <2>2. NextWorker(dw) = cw + ((db + 1) - cb) - (IF cw + ((db + 1) - cb) >= size THEN size ELSE 0)
    <3>1. cw \in 0 .. size - 1 /\ dw \in 0 .. size - 1
      BY <1>5 DEF Workers
    <3>2. dw = cw + (db - cb) - (IF cw + (db - cb) >= size THEN size ELSE 0)
      BY <1>2 DEF RingPlaces
    <3>3. /\ (db + 1) - cb = (db - cb) + 1
          /\ db - cb \in 0 .. size - 1
          /\ size \in Nat
      BY <1>5, SMTT(60)
    <3>4. PICK D \in 0 .. size - 1 : D = db - cb
      BY <3>3
    <3>5. (IF dw + 1 = size THEN 0 ELSE dw + 1) = cw + (D + 1) - (IF cw + (D + 1) >= size THEN size ELSE 0)
      BY <3>1, <3>2, <3>3, <3>4, NextPlace
    <3>6. (db + 1) - cb = D + 1
      BY <3>3, <3>4
    <3>7. NextWorker(dw) = cw + (D + 1) - (IF cw + (D + 1) >= size THEN size ELSE 0)
      BY <1>6, <3>5, Zenon
    <3>8. QED
      BY <3>6, <3>7, Zenon
  <2>3. RingPlaces
    BY <1>2
  <2>4. QED
    BY <1>3, <1>5, <2>1, <2>2, <2>3, SMTT(60) DEF RingPlaces
<1>9. Tokens'
  <2>1. ASSUME NEW w \in Workers PROVE consumed[w] <=> db + 1 <= Turn(w)
    <3>1. consumed[w] <=> db <= Turn(w) /\ w # dw
      BY <1>1, <1>2 DEF Tokens
    <3>2. QED
      BY <1>5, <3>1
  <2>2. QED
    BY <1>1, <1>3, <1>4, <2>1 DEF Tokens
<1>10. /\ \A w \in Workers : w # dw => (Pipe(w)' = Pipe(w) /\ Idle(w)' = Idle(w))
       /\ Pipe(dw)' = Sent(db)
  <2>1. \A w \in Workers : w # dw => work'[w] = work[w]
    BY <1>1, <1>2 DEF RingTypes
  <2>2. \A w \in Workers : w # dw => (Pipe(w)' = Pipe(w) /\ Idle(w)' = Idle(w))
    BY <1>3, <2>1 DEF Pipe, Idle, Sent
  <2>3. work'[dw] = <<db>>
    BY <1>1, <1>2, <1>5 DEF RingTypes
  <2>4. found[dw] = << >> /\ left[dw] = << >>
    BY <1>2, <1>5 DEF Pipes, Idle
  <2>5. Sent(db)' = Sent(db) /\ Sent(db) \in Seq(V \cup {Eoc})
    BY <1>2, <1>3, <1>6, SentFacts DEF Sent
  <2>6. Pipe(dw)' = (<< >> \o << >>) \o Sent(db)
    BY <1>3, <2>3, <2>4, <2>5 DEF Pipe, Sent
  <2>7. QED
    BY <2>2, <2>5, <2>6
<1>11. Pipes'
  <2>1. ASSUME NEW w \in Workers
        PROVE  /\ db + 1 <= Turn(w) => Idle(w)'
               /\ cb < Turn(w) /\ Turn(w) < db + 1 => Pipe(w)' = Sent(Turn(w))
    <3>1. CASE w = dw
      BY <1>5, <1>10, <3>1
    <3>2. CASE w # dw
      BY <1>2, <1>5, <1>10, <3>2 DEF Pipes
    <3>3. QED
      BY <3>1, <3>2
  <2>2. \A w : Sent(Turn(w))' = Sent(Turn(w))
    BY <1>3, <1>4 DEF Sent
  <2>3. dispatcher'.block = db + 1 /\ collector'.block = cb
    BY <1>1, <1>3
  <2>4. QED
    BY <1>4, <2>1, <2>2, <2>3 DEF Pipes
<1>12. Current'
  <2>1. Delivered' = Delivered /\ dispatcher'.block = db + 1 /\ collector' = collector
    BY <1>1, <1>3 DEF Delivered
  <2>2. Joined(cb)' = Joined(cb) /\ Joined(cb + 1)' = Joined(cb + 1)
    BY <1>3 DEF Joined
  <2>3. ASSUME cb = db, collector.at # "acknowledge"
        PROVE  Delivered \o Pipe(cw)' = Append(Joined(cb + 1), Eoc)
    <3>1. cw = dw /\ Delivered = Joined(cb)
      BY <1>2, <1>5, <2>3 DEF Current
    <3>2. QED
      BY <1>2, <1>6, <1>10, <2>3, <3>1, SentFacts
  <2>4. ASSUME cb < db PROVE Pipe(cw)' = Pipe(cw) /\ Idle(cw)' = Idle(cw)
    BY <1>5, <1>10, <2>4
  <2>5. collector.at = "acknowledge" => cb < db
    BY <1>2 DEF RingPlaces
  <2>6. /\ Len(Joined(cb)) <= Len(Delivered)
        /\ cb < db /\ collector.at # "acknowledge" => Delivered \o Pipe(cw) = Append(Joined(cb + 1), Eoc)
        /\ collector.at = "acknowledge" => Delivered = Joined(cb + 1) /\ Idle(cw)
    BY <1>2 DEF Current
  <2>7. cb # db + 1 /\ (cb = db \/ cb < db)
    BY <1>5
  <2>8. /\ collector.at # "acknowledge" => Delivered \o Pipe(cw)' = Append(Joined(cb + 1), Eoc)
        /\ collector.at = "acknowledge" => Delivered = Joined(cb + 1) /\ Idle(cw)'
    BY <2>3, <2>4, <2>5, <2>6, <2>7
  <2>9. Pipe(collector.worker)' = Pipe(cw)' /\ Idle(collector.worker)' = Idle(cw)'
    BY <2>1
  <2>10. QED
    BY <2>1, <2>2, <2>6, <2>7, <2>8, <2>9, SMTT(60) DEF Current
<1>13. QED
  BY <1>7, <1>8, <1>9, <1>11, <1>12 DEF RingInv

-----------------------------------------------------------------------------
(* The workers *)

\* What is left to show of a step of worker w: its pipe, and that it was not idle.
LEMMA WorkerInv ==
  ASSUME NEW V, RingInv(V),
         UNCHANGED <<blocks, size, dispatcher, consumed, collector, matches, written, result>>,
         work' \in [Workers -> {<< >>} \cup {<<b>> : b \in 0 .. Len(blocks) - 1}],
         left' \in [Workers -> Seq(V \cup {Eoc})], found' \in [Workers -> Seq(V \cup {Eoc})],
         \A w \in Workers : Pipe(w)' = Pipe(w),
         \A w \in Workers : Idle(w) => Idle(w)'
  PROVE  RingInv(V)'
<1>1. Workers' = Workers /\ \A w : Turn(w)' = Turn(w)
  BY SameTurns
<1>2. RingTypes(V) /\ RingPlaces /\ Tokens
  BY DEF RingInv
<1>3. RingTypes(V)'
  BY <1>1, <1>2 DEF RingTypes
<1>4. RingPlaces'
  BY <1>2 DEF RingPlaces
<1>5. Tokens'
  BY <1>1, <1>2 DEF Tokens
<1>6. Pipes' /\ Current'
  BY PipesKept
<1>7. QED
  BY <1>3, <1>4, <1>5, <1>6 DEF RingInv

LEMMA TakeBlockInv ==
  ASSUME NEW V, RingInv(V), NEW w \in Workers, TakeBlock(w)
  PROVE  RingInv(V)'
<1>1. /\ UNCHANGED <<given, dispatching, leaving, found, consumed, collector, matches, writing>>
      /\ left[w] = << >> /\ work[w] # << >>
      /\ left' = [left EXCEPT ![w] = Sent(Head(work[w]))]
      /\ work' = [work EXCEPT ![w] = << >>]
  BY DEF TakeBlock
<1>2. RingTypes(V)
  BY DEF RingInv
<1>3. UNCHANGED <<blocks, size, dispatcher, consumed, collector, matches, written, result, found>>
  BY <1>1 DEF given, dispatching, writing
<1>4. /\ Head(work[w]) = work[w][1] /\ Sent(work[w][1]) \in Seq(V \cup {Eoc}) /\ found[w] \in Seq(V \cup {Eoc})
  BY <1>1, <1>2, PipeType
<1>5. work' \in [Workers -> {<< >>} \cup {<<b>> : b \in 0 .. Len(blocks) - 1}]
  BY <1>1, <1>2 DEF RingTypes
<1>6. left' \in [Workers -> Seq(V \cup {Eoc})] /\ found' \in [Workers -> Seq(V \cup {Eoc})]
  BY <1>1, <1>2, <1>3, <1>4 DEF RingTypes
<1>7. ASSUME NEW v \in Workers PROVE Pipe(v)' = Pipe(v) /\ (Idle(v) => Idle(v)')
  <2>1. CASE v # w
    <3>1. work'[v] = work[v] /\ left'[v] = left[v]
      BY <1>1, <1>2, <2>1 DEF RingTypes
    <3>2. QED
      BY <1>3, <3>1 DEF Pipe, Idle, Sent
  <2>2. CASE v = w
    <3>1. work'[w] = << >> /\ left'[w] = Sent(work[w][1])
      BY <1>1, <1>2, <1>4 DEF RingTypes
    <3>2. Pipe(w)' = (found[w] \o Sent(work[w][1])) \o << >>
      BY <1>3, <3>1 DEF Pipe
    <3>3. Pipe(w) = (found[w] \o << >>) \o Sent(work[w][1])
      BY <1>1 DEF Pipe
    <3>4. (found[w] \o Sent(work[w][1])) \o << >> = (found[w] \o << >>) \o Sent(work[w][1])
      BY <1>4
    <3>5. ~Idle(w)
      BY <1>1 DEF Idle
    <3>6. QED
      BY <2>2, <3>2, <3>3, <3>4, <3>5
  <2>3. QED
    BY <2>1, <2>2
<1>8. QED
  BY <1>3, <1>5, <1>6, <1>7, WorkerInv

LEMMA SendMatchInv ==
  ASSUME NEW V, RingInv(V), NEW w \in Workers, SendMatch(w)
  PROVE  RingInv(V)'
<1>1. /\ UNCHANGED <<given, dispatching, work, leaving, consumed, collector, matches, writing>>
      /\ left[w] # << >>
      /\ found' = [found EXCEPT ![w] = Append(found[w], Head(left[w]))]
      /\ left' = [left EXCEPT ![w] = Tail(left[w])]
  BY DEF SendMatch
<1>2. RingTypes(V)
  BY DEF RingInv
<1>3. UNCHANGED <<blocks, size, dispatcher, consumed, collector, matches, written, result, work>>
  BY <1>1 DEF given, dispatching, writing
<1>4. found[w] \in Seq(V \cup {Eoc}) /\ left[w] \in Seq(V \cup {Eoc})
  BY <1>2, PipeType
<1>5. /\ Tail(left[w]) \in Seq(V \cup {Eoc}) /\ Append(found[w], Head(left[w])) \in Seq(V \cup {Eoc})
      /\ Append(found[w], Head(left[w])) \o Tail(left[w]) = found[w] \o left[w]
  <2>1. PICK S, s, t : S = V \cup {Eoc} /\ s = found[w] /\ t = left[w]
    OBVIOUS
  <2>2. s \in Seq(S) /\ t \in Seq(S) /\ t # << >>
    BY <1>1, <1>4, <2>1
  <2>3. Tail(t) \in Seq(S) /\ Append(s, Head(t)) \in Seq(S) /\ Append(s, Head(t)) \o Tail(t) = s \o t
    BY <2>2, PassOn
  <2>4. QED
    BY <2>1, <2>3
<1>6. work' \in [Workers -> {<< >>} \cup {<<b>> : b \in 0 .. Len(blocks) - 1}]
  BY <1>2, <1>3 DEF RingTypes
<1>7. left' \in [Workers -> Seq(V \cup {Eoc})] /\ found' \in [Workers -> Seq(V \cup {Eoc})]
  BY <1>1, <1>2, <1>5 DEF RingTypes
<1>8. ASSUME NEW v \in Workers PROVE Pipe(v)' = Pipe(v) /\ (Idle(v) => Idle(v)')
  <2>1. CASE v # w
    <3>1. found'[v] = found[v] /\ left'[v] = left[v]
      BY <1>1, <1>2, <2>1 DEF RingTypes
    <3>2. QED
      BY <1>3, <3>1 DEF Pipe, Idle, Sent
  <2>2. CASE v = w
    <3>1. found'[w] = Append(found[w], Head(left[w])) /\ left'[w] = Tail(left[w])
      BY <1>1, <1>2 DEF RingTypes
    <3>2. found'[w] \o left'[w] = found[w] \o left[w]
      BY <1>5, <3>1
    <3>3. Pipe(w)' = Pipe(w)
      BY <1>3, <3>2 DEF Pipe, Sent
    <3>4. ~Idle(w)
      BY <1>1 DEF Idle
    <3>5. QED
      BY <2>2, <3>3, <3>4
  <2>3. QED
    BY <2>1, <2>2
<1>9. QED
  BY <1>3, <1>6, <1>7, <1>8, WorkerInv

LEMMA LeaveRingInv ==
  ASSUME NEW V, RingInv(V), NEW w \in Workers, LeaveRing(w)
  PROVE  RingInv(V)'
<1>1. UNCHANGED <<given, dispatching, work, left, found, consumed, collector, matches, writing>>
  BY DEF LeaveRing
<1>2. UNCHANGED <<blocks, size, dispatcher, consumed, collector, matches, written, result, work, left, found>>
  BY <1>1 DEF given, dispatching, writing
<1>3. \A v : Pipe(v)' = Pipe(v) /\ Idle(v)' = Idle(v)
  BY <1>2, SamePipes
<1>4. RingTypes(V)
  BY DEF RingInv
<1>5. /\ work' \in [Workers -> {<< >>} \cup {<<b>> : b \in 0 .. Len(blocks) - 1}]
      /\ left' \in [Workers -> Seq(V \cup {Eoc})] /\ found' \in [Workers -> Seq(V \cup {Eoc})]
  BY <1>2, <1>4 DEF RingTypes
<1>6. QED
  BY <1>2, <1>3, <1>5, WorkerInv

-----------------------------------------------------------------------------
(* The collector *)

\* The first match of a channel is the first of the pipe.
LEMMA PipeHead ==
  ASSUME NEW V, RingTypes(V), NEW w \in Workers, found[w] # << >>
  PROVE  LET rest == (Tail(found[w]) \o left[w]) \o (IF work[w] = << >> THEN << >> ELSE Sent(work[w][1]))
         IN  /\ Head(found[w]) \in V \cup {Eoc} /\ Tail(found[w]) \in Seq(V \cup {Eoc})
             /\ rest \in Seq(V \cup {Eoc})
             /\ Pipe(w) = <<Head(found[w])>> \o rest
<1> DEFINE S == V \cup {Eoc}
           s == found[w]
           t == left[w]
           u == IF work[w] = << >> THEN << >> ELSE Sent(work[w][1])
<1>1. s \in Seq(S) /\ t \in Seq(S) /\ s # << >>
  BY PipeType
<1>2. u \in Seq(S)
  BY PipeType
<1>3. Pipe(w) = (s \o t) \o u
  BY DEF Pipe
<1> HIDE DEF S, s, t, u
<1>4. Head(s) \in S /\ Tail(s) \in Seq(S) /\ <<Head(s)>> \o Tail(s) = s
  BY <1>1, PassOn
<1>5. <<Head(s)>> \in Seq(S) /\ Tail(s) \o t \in Seq(S) /\ (Tail(s) \o t) \o u \in Seq(S)
  BY <1>1, <1>2, <1>4
<1>6. (<<Head(s)>> \o Tail(s)) \o t = <<Head(s)>> \o (Tail(s) \o t)
  BY <1>1, <1>4, <1>5, ConcatAssoc
<1>7. (<<Head(s)>> \o (Tail(s) \o t)) \o u = <<Head(s)>> \o ((Tail(s) \o t) \o u)
  BY <1>2, <1>5, ConcatAssoc, SMTT(60)
<1>8. Pipe(w) = <<Head(s)>> \o ((Tail(s) \o t) \o u)
  BY <1>3, <1>4, <1>6, <1>7
<1>9. QED
  BY <1>4, <1>5, <1>8 DEF S, s, t, u

LEMMA AllEmpty ==
  ASSUME NEW S, NEW s \in Seq(S), NEW t \in Seq(S), NEW u \in Seq(S), (s \o t) \o u = << >>
  PROVE  s = << >> /\ t = << >> /\ u = << >>
<1>1. Len((s \o t) \o u) = Len(s) + Len(t) + Len(u)
  OBVIOUS
<1>2. QED
  BY <1>1

LEMMA ReceiveMatchInv ==
  ASSUME NEW V, RingInv(V), ReceiveMatch
  PROVE  RingInv(V)'
<1>0. PICK w, b, h : w = collector.worker /\ b = collector.block /\ h = Head(found[w])
  OBVIOUS
<1>1. /\ UNCHANGED <<given, dispatching, work, working, consumed, matches, writing>>
      /\ collector.at = "receive" /\ b < Len(blocks) /\ found[w] # << >>
      /\ found' = [found EXCEPT ![w] = Tail(found[w])]
      /\ collector' = IF h = Eoc THEN [collector EXCEPT !.at = "acknowledge"]
                      ELSE [collector EXCEPT !.at = "forward", !.held = h]
  BY <1>0 DEF ReceiveMatch
<1>2. RingTypes(V) /\ RingPlaces /\ Tokens /\ Pipes /\ Current
  BY DEF RingInv
<1>3. UNCHANGED <<blocks, size, dispatcher, work, left, consumed, matches, written, result>>
  BY <1>1 DEF given, dispatching, working, writing
<1>4. /\ w \in Workers /\ b \in Nat /\ Turn(w) = b /\ dispatcher.block \in Nat /\ Len(blocks) \in Nat
      /\ \A v \in Workers : Turn(v) \in Nat
  BY <1>0, <1>2, TurnFacts
<1>5. b < dispatcher.block
  <2>1. ~Idle(w)
    BY <1>1, SMTT(60) DEF Idle
  <2>2. QED
    BY <1>2, <1>4, <2>1 DEF Pipes
<1>6. PICK rest : /\ rest = (Tail(found[w]) \o left[w]) \o (IF work[w] = << >> THEN << >> ELSE Sent(work[w][1]))
                  /\ h \in V \cup {Eoc} /\ Tail(found[w]) \in Seq(V \cup {Eoc})
                  /\ rest \in Seq(V \cup {Eoc}) /\ Pipe(w) = <<h>> \o rest
  BY <1>0, <1>1, <1>2, <1>4, PipeHead
<1>7. /\ Pipe(w)' = rest
      /\ \A v \in Workers : v # w => (Pipe(v)' = Pipe(v) /\ Idle(v)' = Idle(v))
  <2>1. found'[w] = Tail(found[w]) /\ \A v \in Workers : v # w => found'[v] = found[v]
    BY <1>1, <1>2, <1>4 DEF RingTypes
  <2>2. QED
    BY <1>3, <1>6, <2>1 DEF Pipe, Idle, Sent
<1>8. collector'.at \in {"acknowledge", "forward"} /\ collector'.block = b /\ collector'.worker = w
  BY <1>0, <1>1, <1>2 DEF RingTypes
<1>9. Workers' = Workers /\ \A v : Turn(v)' = Turn(v)
  BY <1>0, <1>3, <1>8, SameTurns, SMTT(60)
<1>10. /\ h = Eoc => collector'.at = "acknowledge"
       /\ h # Eoc => collector'.at = "forward" /\ collector'.held = h /\ h \in V
       /\ collector' \in [at : {"receive", "forward", "acknowledge", "over"}, block : Nat,
                          worker : Workers, held : V \cup {NoMatch}]
  BY <1>1, <1>2, <1>6 DEF RingTypes
<1>11. RingTypes(V)'
  <2>1. found' \in [Workers -> Seq(V \cup {Eoc})]
    BY <1>1, <1>2, <1>6 DEF RingTypes
  <2>2. collector'.at = "forward" => collector'.held \in V
    BY <1>10
  <2>3. QED
    BY <1>2, <1>3, <1>9, <1>10, <2>1, <2>2 DEF RingTypes
<1>12. RingPlaces'
  <2>1. result # "nil"
    BY <1>1, <1>2 DEF RingPlaces
  <2>2. QED
    BY <1>0, <1>2, <1>3, <1>5, <1>8, <2>1 DEF RingPlaces
<1>13. Tokens'
  BY <1>2, <1>3, <1>9 DEF Tokens
<1>14. Pipes'
  <2>1. ASSUME NEW v \in Workers
        PROVE  /\ dispatcher.block <= Turn(v) => Idle(v)'
               /\ b < Turn(v) /\ Turn(v) < dispatcher.block => Pipe(v)' = Sent(Turn(v))
    <3>1. CASE v = w
      BY <1>4, <1>5, <3>1
    <3>2. CASE v # w
      BY <1>0, <1>2, <1>7, <3>2 DEF Pipes
    <3>3. QED
      BY <3>1, <3>2
  <2>2. \A v : Sent(Turn(v))' = Sent(Turn(v))
    BY <1>3, <1>9 DEF Sent
  <2>3. QED
    BY <1>3, <1>8, <1>9, <2>1, <2>2 DEF Pipes
<1>15. Current'
  <2>1. PICK d : d = written \o matches /\ d \in Seq(V)
    <3>1. written \in Seq(V) /\ matches \in Seq(V)
      BY <1>2 DEF RingTypes
    <3>2. written \o matches \in Seq(V)
      BY <3>1
    <3>3. QED
      BY <3>2
  <2>2. Delivered = d
    BY <1>1, <2>1 DEF Delivered
  <2>3. PICK j, k : j = Joined(b) /\ k = Joined(b + 1)
    OBVIOUS
  <2>4. Joined(b)' = j /\ Joined(b + 1)' = k /\ k \in Seq(V) /\ j \in Seq(V)
    <3>1. b \in 0 .. Len(blocks) - 1
      BY <1>1, <1>4
    <3>2. QED
      BY <1>2, <1>3, <2>3, <3>1, SentFacts DEF Joined
  <2>5. Len(j) <= Len(d) /\ d \o (<<h>> \o rest) = Append(k, Eoc)
    BY <1>0, <1>1, <1>2, <1>5, <1>6, <2>2, <2>3 DEF Current
  <2>6. CASE h = Eoc
    <3>1. Eoc \notin V /\ <<h>> \o rest \in Seq(V \cup {Eoc}) /\ <<h>> \o rest # << >>
          /\ Head(<<h>> \o rest) = Eoc
      BY <1>2, <1>6, <2>6 DEF RingTypes
    <3>2. d = k /\ <<h>> \o rest = <<Eoc>>
      BY <2>1, <2>4, <2>5, <3>1, MarkIsLast
    <3>3. rest = << >>
      <4>1. PICK S : S = V \cup {Eoc} /\ rest \in Seq(S) /\ h \in S
        BY <1>6
      <4>2. Len(<<h>> \o rest) = 1 + Len(rest)
        BY <4>1
      <4>3. Len(rest) = 0
        BY <3>2, <4>1, <4>2, SMTT(60)
      <4>4. QED
        BY <4>1, <4>3
    <3>4. Delivered' = k
      BY <1>3, <1>10, <2>1, <2>6, <3>2 DEF Delivered
    <3>5. Idle(w)'
      <4>1. /\ Tail(found[w]) = << >> /\ left[w] = << >>
            /\ (IF work[w] = << >> THEN << >> ELSE Sent(work[w][1])) = << >>
        <5>1. PICK S, s, t, u : /\ S = V \cup {Eoc} /\ s = Tail(found[w]) /\ t = left[w]
                                /\ u = IF work[w] = << >> THEN << >> ELSE Sent(work[w][1])
          OBVIOUS
        <5>2. s \in Seq(S) /\ t \in Seq(S)
          BY <1>2, <1>4, <1>6, <5>1, PipeType
        <5>3. u \in Seq(S)
          BY <1>2, <1>4, <5>1, PipeType, SMTT(60)
        <5>4. (s \o t) \o u = << >>
          BY <1>6, <3>3, <5>1
        <5>5. QED
          BY <5>1, <5>2, <5>3, <5>4, AllEmpty
      <4>2. work[w] = << >>
        BY <1>2, <1>4, <4>1, PipeType
      <4>3. found'[w] = Tail(found[w])
        BY <1>1, <1>2, <1>4 DEF RingTypes
      <4>4. QED
        BY <1>3, <4>1, <4>2, <4>3 DEF Idle
    <3>6. /\ Joined(collector.block)' = j /\ Joined(collector.block + 1)' = k /\ Idle(collector.worker)'
      BY <1>8, <2>4, <3>5
    <3>7. Len(j) <= Len(k)
      BY <2>5, <3>2
    <3>8. QED
      BY <1>3, <1>5, <1>8, <1>10, <2>6, <3>4, <3>6, <3>7, SMTT(60) DEF Current
  <2>7. CASE h # Eoc
    <3>1. Delivered' = d \o <<h>> /\ h \in V
      BY <1>3, <1>10, <2>1, <2>7, SMTT(60) DEF Delivered
    <3>2. d \in Seq(V \cup {Eoc}) /\ <<h>> \in Seq(V \cup {Eoc})
      BY <1>6, <2>1
    <3>3. (d \o <<h>>) \o rest = d \o (<<h>> \o rest)
      <4>1. PICK S : S = V \cup {Eoc} /\ d \in Seq(S) /\ <<h>> \in Seq(S) /\ rest \in Seq(S)
        BY <1>6, <3>2
      <4>2. QED
        BY <4>1, ConcatAssoc, SMTT(60)
    <3>4. Len(j) <= Len(d \o <<h>>)
      BY <2>1, <2>4, <2>5, <3>1
    <3>5. Joined(collector.block)' = j /\ Joined(collector.block + 1)' = k /\ Pipe(collector.worker)' = rest
      BY <1>7, <1>8, <2>4
    <3>6. Delivered' \o Pipe(collector.worker)' = Append(k, Eoc) /\ Len(j) <= Len(Delivered')
      BY <2>5, <3>1, <3>3, <3>4, <3>5
    <3>7. collector'.block < dispatcher'.block /\ collector'.at = "forward"
      BY <1>3, <1>5, <1>8, <1>10, <2>7
    <3>8. collector'.block # dispatcher'.block
      BY <1>3, <1>4, <1>5, <1>8
    <3>9. QED
      BY <3>5, <3>6, <3>7, <3>8 DEF Current
  <2>8. QED
    BY <2>6, <2>7
<1>16. QED
  BY <1>11, <1>12, <1>13, <1>14, <1>15 DEF RingInv

\* A step of the collector or the writer that moves matches along: nothing else
\* changes.
LEMMA MovedOn ==
  ASSUME NEW V, RingInv(V),
         UNCHANGED <<blocks, size, dispatcher, work, left, found, consumed>>,
         collector' \in [at : {"receive", "forward", "acknowledge", "over"}, block : Nat,
                         worker : Workers, held : V \cup {NoMatch}],
         collector'.block = collector.block, collector'.worker = collector.worker,
         collector'.at \in {"forward", "acknowledge"} => collector'.at = collector.at,
         collector.at = "acknowledge" => collector'.at = collector.at,
         collector'.at = "forward" => collector'.held \in V,
         collector'.at = "over" => collector.block = Len(blocks),
         result' = "nil" => collector'.at = "over" /\ matches' = << >>,
         matches' \in Seq(V), written' \in Seq(V),
         Delivered' = Delivered
  PROVE  RingInv(V)'
<1>1. Workers' = Workers /\ \A w : Turn(w)' = Turn(w)
  BY SameTurns
<1>2. RingTypes(V) /\ RingPlaces /\ Tokens /\ Pipes /\ Current
  BY DEF RingInv
<1>3. \A w : Pipe(w)' = Pipe(w) /\ Idle(w)' = Idle(w)
  BY SamePipes
<1>4. RingTypes(V)'
  BY <1>1, <1>2 DEF RingTypes
<1>5. RingPlaces'
  BY <1>2 DEF RingPlaces
<1>6. Tokens'
  BY <1>1, <1>2 DEF Tokens
<1>7. Pipes'
  <2>1. \A w : Sent(Turn(w))' = Sent(Turn(w))
    BY <1>1 DEF Sent
  <2>2. QED
    BY <1>1, <1>2, <1>3, <2>1 DEF Pipes
<1>8. Current'
  <2>1. Joined(collector.block)' = Joined(collector.block) /\ Joined(collector.block + 1)' = Joined(collector.block + 1)
    BY DEF Joined
  <2>2. Pipe(collector.worker)' = Pipe(collector.worker) /\ Idle(collector.worker)' = Idle(collector.worker)
    BY <1>3
  <2>3. collector'.at = "acknowledge" <=> collector.at = "acknowledge"
    OBVIOUS
  <2>4. QED
    BY <1>2, <2>1, <2>2, <2>3 DEF Current
<1>9. QED
  BY <1>4, <1>5, <1>6, <1>7, <1>8 DEF RingInv

LEMMA ForwardInv ==
  ASSUME NEW V, RingInv(V), Forward
  PROVE  RingInv(V)'
<1>1. /\ UNCHANGED <<given, dispatching, work, working, found, consumed, writing>>
      /\ collector.at = "forward"
      /\ matches' = Append(matches, collector.held)
      /\ collector' = [collector EXCEPT !.at = "receive", !.held = NoMatch]
  BY DEF Forward
<1>2. RingTypes(V) /\ RingPlaces
  BY DEF RingInv
<1>3. UNCHANGED <<blocks, size, dispatcher, work, left, found, consumed, written, result>>
  BY <1>1 DEF given, dispatching, working, writing
<1>4. written \in Seq(V) /\ matches \in Seq(V) /\ collector.held \in V
  BY <1>1, <1>2 DEF RingTypes
<1>5. matches' \in Seq(V) /\ written' \in Seq(V)
  BY <1>1, <1>3, <1>4
<1>6. /\ collector' \in [at : {"receive", "forward", "acknowledge", "over"}, block : Nat,
                         worker : Workers, held : V \cup {NoMatch}]
      /\ collector'.block = collector.block /\ collector'.worker = collector.worker
      /\ collector'.at = "receive"
  BY <1>1, <1>2 DEF RingTypes
<1>7. Delivered' = Delivered
  <2>1. PICK x : x = collector.held /\ x \in V
    BY <1>4
  <2>2. (written \o Append(matches, x)) \o << >> = (written \o matches) \o <<x>>
    BY <1>4, <2>1
  <2>3. Delivered' = (written \o Append(matches, x)) \o << >>
    BY <1>1, <1>3, <1>6, <2>1 DEF Delivered
  <2>4. Delivered = (written \o matches) \o <<x>>
    BY <1>1, <2>1 DEF Delivered
  <2>5. QED
    BY <2>2, <2>3, <2>4
<1>8. result' # "nil"
  BY <1>1, <1>2, <1>3 DEF RingPlaces
<1>9. QED
  BY <1>1, <1>3, <1>5, <1>6, <1>7, <1>8, MovedOn

LEMMA CloseMatchesInv ==
  ASSUME NEW V, RingInv(V), CloseMatches
  PROVE  RingInv(V)'
<1>1. /\ UNCHANGED <<given, dispatching, work, working, found, consumed, matches, writing>>
      /\ collector.at = "receive" /\ collector.block = Len(blocks)
      /\ collector' = [collector EXCEPT !.at = "over"]
  BY DEF CloseMatches
<1>2. RingTypes(V) /\ RingPlaces
  BY DEF RingInv
<1>3. UNCHANGED <<blocks, size, dispatcher, work, left, found, consumed, matches, written, result>>
  BY <1>1 DEF given, dispatching, working, writing
<1>4. written' \in Seq(V) /\ matches' \in Seq(V)
  BY <1>2, <1>3 DEF RingTypes
<1>5. /\ collector' \in [at : {"receive", "forward", "acknowledge", "over"}, block : Nat,
                         worker : Workers, held : V \cup {NoMatch}]
      /\ collector'.block = collector.block /\ collector'.worker = collector.worker
      /\ collector'.at = "over"
  BY <1>1, <1>2 DEF RingTypes
<1>6. Delivered' = Delivered
  BY <1>1, <1>3, <1>5 DEF Delivered
<1>7. result' # "nil"
  BY <1>1, <1>2, <1>3 DEF RingPlaces
<1>8. QED
  BY <1>1, <1>3, <1>4, <1>5, <1>6, <1>7, MovedOn

\* The place before, from the next worker.
LEMMA PlaceFromNext ==
  ASSUME NEW s \in Nat, NEW c \in 0 .. s - 1, NEW d \in 1 .. s, NEW w, NEW n,
         w = c + d - (IF c + d >= s THEN s ELSE 0),
         n = IF c + 1 = s THEN 0 ELSE c + 1
  PROVE  w = n + (d - 1) - (IF n + (d - 1) >= s THEN s ELSE 0)
<1>1. CASE c + 1 = s
  BY <1>1
<1>2. CASE c + 1 # s /\ c + d >= s
  BY <1>2
<1>3. CASE c + 1 # s /\ c + d < s
  BY <1>3
<1>4. QED
  BY <1>1, <1>2, <1>3

\* The collector's worker is idle and has its token again: its next block is one
\* round on.
LEMMA AcknowledgeInv ==
  ASSUME NEW V, RingInv(V), Acknowledge
  PROVE  RingInv(V)'
<1>0. PICK w, b, d, n : /\ w = collector.worker /\ b = collector.block /\ d = dispatcher.block
                        /\ n = NextWorker(w)
  OBVIOUS
<1>1. /\ UNCHANGED <<given, dispatching, work, working, found, matches, writing>>
      /\ collector.at = "acknowledge"
      /\ consumed' = [consumed EXCEPT ![w] = TRUE]
      /\ collector' = [collector EXCEPT !.at = "receive", !.block = b + 1, !.worker = n]
  BY <1>0 DEF Acknowledge
<1>2. RingTypes(V) /\ RingPlaces /\ Tokens /\ Pipes /\ Current
  BY DEF RingInv
<1>3. UNCHANGED <<blocks, size, dispatcher, work, left, found, matches, written, result>>
  BY <1>1 DEF given, dispatching, working, writing
<1>4. /\ w \in Workers /\ b \in Nat /\ Turn(w) = b /\ d \in Nat /\ Len(blocks) \in Nat /\ size \in Nat
      /\ size >= 1 /\ w \in 0 .. size - 1
      /\ \A v \in Workers : Turn(v) \in Nat /\ b <= Turn(v) /\ Turn(v) < b + size /\ (Turn(v) = b => v = w)
  BY <1>0, <1>2, TurnFacts DEF Workers
<1>5. b < d /\ d <= b + size /\ d <= Len(blocks)
  BY <1>0, <1>1, <1>2 DEF RingPlaces
<1>6. n = (IF w + 1 = size THEN 0 ELSE w + 1) /\ n \in 0 .. size - 1 /\ n \in Workers
  BY <1>0, <1>4, SMTT(60) DEF NextWorker, Workers
<1>7. /\ collector' \in [at : {"receive", "forward", "acknowledge", "over"}, block : Nat,
                         worker : Workers, held : V \cup {NoMatch}]
      /\ collector'.block = b + 1 /\ collector'.worker = n /\ collector'.at = "receive"
  <2>1. collector.held \in V \cup {NoMatch}
    BY <1>2 DEF RingTypes
  <2>2. collector' = [at |-> "receive", block |-> b + 1, worker |-> n, held |-> collector.held]
    BY <1>1, <1>2 DEF RingTypes
  <2>3. b + 1 \in Nat
    BY <1>4
  <2>4. QED
    BY <1>6, <2>1, <2>2, <2>3
<1>8. Workers' = Workers
  BY <1>3 DEF Workers
<1>9. ASSUME NEW v \in Workers PROVE Turn(v)' = IF v = w THEN b + size ELSE Turn(v)
  <2>1. v \in 0 .. size - 1
    BY DEF Workers
  <2>2. Turn(v) = b + (v - w) + (IF v < w THEN size ELSE 0)
    BY <1>0 DEF Turn
  <2>3. Turn(v)' = (b + 1) + (v - n) + (IF v < n THEN size ELSE 0)
    BY <1>3, <1>7 DEF Turn
  <2>4. CASE w + 1 = size
    BY <1>4, <1>6, <2>1, <2>2, <2>3, <2>4
  <2>5. CASE w + 1 # size
    BY <1>4, <1>6, <2>1, <2>2, <2>3, <2>5, SMTT(60)
  <2>6. QED
    BY <2>4, <2>5
<1>10. RingTypes(V)'
  <2>1. consumed' \in [Workers -> BOOLEAN]
    BY <1>1, <1>2 DEF RingTypes
  <2>2. QED
    BY <1>2, <1>3, <1>7, <1>8, <2>1 DEF RingTypes
<1>11. RingPlaces'
  <2>1. PICK D \in 1 .. size : D = d - b
    BY <1>4, <1>5
  <2>2. dispatcher.worker = w + D - (IF w + D >= size THEN size ELSE 0)
    BY <1>0, <1>2, <2>1 DEF RingPlaces
  <2>3. dispatcher.worker = n + (D - 1) - (IF n + (D - 1) >= size THEN size ELSE 0)
    BY <1>4, <1>6, <2>1, <2>2, PlaceFromNext
  <2>4. d - (b + 1) = D - 1
    BY <1>4, <2>1
  <2>5. dispatcher'.worker = collector'.worker + (dispatcher'.block - collector'.block)
          - (IF collector'.worker + (dispatcher'.block - collector'.block) >= size' THEN size' ELSE 0)
    BY <1>0, <1>3, <1>7, <2>3, <2>4
  <2>6. /\ b + 1 <= d /\ d <= (b + 1) + size
        /\ \A x \in Nat : x < b + size => x < (b + 1) + size
    BY <1>4, <1>5
  <2>7. dispatcher.at = "give" => d < Len(blocks) /\ d < b + size
    BY <1>0, <1>2 DEF RingPlaces
  <2>8. result # "nil"
    BY <1>1, <1>2 DEF RingPlaces
  <2>9. QED
    BY <1>0, <1>3, <1>4, <1>5, <1>7, <2>5, <2>6, <2>7, <2>8 DEF RingPlaces
<1>12. Tokens'
  <2>1. ASSUME NEW v \in Workers
        PROVE  consumed'[v] <=> d <= Turn(v)' /\ ~(dispatcher.at = "give" /\ v = dispatcher.worker)
    <3>1. CASE v = w
      <4>1. consumed'[v] /\ d <= Turn(v)'
        BY <1>1, <1>2, <1>4, <1>5, <1>9, <3>1 DEF RingTypes
      <4>2. dispatcher.at = "give" => Turn(dispatcher.worker) = d
        BY <1>0, <1>2, TurnFacts DEF RingPlaces
      <4>3. ~(dispatcher.at = "give" /\ v = dispatcher.worker)
        BY <1>4, <1>5, <3>1, <4>2
      <4>4. QED
        BY <4>1, <4>3
    <3>2. CASE v # w
      <4>1. consumed'[v] = consumed[v] /\ Turn(v)' = Turn(v)
        BY <1>1, <1>2, <1>9, <3>2 DEF RingTypes
      <4>2. QED
        BY <1>0, <1>2, <4>1 DEF Tokens
    <3>3. QED
      BY <3>1, <3>2
  <2>2. QED
    BY <1>0, <1>3, <1>8, <2>1 DEF Tokens
<1>13. \A v : Pipe(v)' = Pipe(v) /\ Idle(v)' = Idle(v)
  BY <1>3, SamePipes
<1>14. Pipes'
  <2>1. ASSUME NEW v \in Workers
        PROVE  /\ d <= Turn(v)' => Idle(v)'
               /\ b + 1 < Turn(v)' /\ Turn(v)' < d => Pipe(v)' = Sent(Turn(v))'
    <3>1. CASE v = w
      <4>1. Idle(w)
        BY <1>0, <1>1, <1>2 DEF Current
      <4>2. ~(Turn(v)' < d)
        BY <1>4, <1>5, <1>9, <3>1
      <4>3. QED
        BY <1>13, <3>1, <4>1, <4>2
    <3>2. CASE v # w
      <4>1. Turn(v)' = Turn(v) /\ Turn(v) \in Nat
        BY <1>4, <1>9, <3>2
      <4>2. Sent(Turn(v))' = Sent(Turn(v))
        BY <1>3, <4>1 DEF Sent
      <4>3. /\ d <= Turn(v) => Idle(v)
            /\ b < Turn(v) /\ Turn(v) < d => Pipe(v) = Sent(Turn(v))
        BY <1>0, <1>2 DEF Pipes
      <4>4. QED
        BY <1>4, <1>13, <4>1, <4>2, <4>3
    <3>3. QED
      BY <3>1, <3>2
  <2>2. QED
    BY <1>0, <1>3, <1>7, <1>8, <2>1 DEF Pipes
<1>15. Current'
  <2>1. b \in 0 .. Len(blocks) - 1
    BY <1>4, <1>5
  <2>2. PICK k : k = Joined(b + 1) /\ k \in Seq(V)
    BY <1>2, <2>1, SentFacts
  <2>3. Delivered' = k
    BY <1>0, <1>1, <1>2, <1>3, <1>7, <2>2 DEF Delivered, Current
  <2>4. Joined(collector.block)' = k
    BY <1>3, <1>7, <2>2 DEF Joined
  <2>5. ASSUME b + 1 < d PROVE k \o Pipe(n)' = Append(Joined((b + 1) + 1), Eoc)
    <3>1. Turn(n) = b + (n - w) + (IF n < w THEN size ELSE 0)
      BY <1>0 DEF Turn
    <3>2. Turn(n) = b + 1 /\ n # w
      <4>1. w \in Int /\ n \in Int
        BY <1>4, <1>6
      <4>2. CASE w + 1 = size
        BY <1>4, <1>5, <1>6, <2>5, <3>1, <4>1, <4>2
      <4>3. CASE w + 1 # size
        BY <1>4, <1>5, <1>6, <2>5, <3>1, <4>1, <4>3
      <4>4. QED
        BY <4>2, <4>3
    <3>3. Pipe(n) = Sent(b + 1)
      BY <1>0, <1>2, <1>4, <1>6, <2>5, <3>2, SMTT(60) DEF Pipes
    <3>4. b + 1 \in 0 .. Len(blocks) - 1
      BY <1>4, <1>5, <2>5
    <3>5. k \o Sent(b + 1) = Append(Joined((b + 1) + 1), Eoc)
      BY <1>2, <2>2, <3>4, SentFacts
    <3>6. QED
      BY <1>13, <3>3, <3>5
  <2>6. Joined(collector.block + 1)' = Joined((b + 1) + 1)
    BY <1>3, <1>7 DEF Joined
  <2>7. Pipe(collector.worker)' = Pipe(n)'
    BY <1>7
  <2>8. Len(k) \in Nat
    BY <2>2
  <2>9. /\ Len(Joined(collector.block)') <= Len(Delivered')
        /\ collector'.block < dispatcher'.block =>
             Delivered' \o Pipe(collector.worker)' = Append(Joined(collector.block + 1)', Eoc)
    BY <1>0, <1>3, <1>7, <2>3, <2>4, <2>5, <2>6, <2>7, <2>8, SMTT(60)
  <2>10. QED
    BY <1>7, <2>3, <2>4, <2>9, SMTT(60) DEF Current
<1>16. QED
  BY <1>10, <1>11, <1>12, <1>14, <1>15 DEF RingInv

-----------------------------------------------------------------------------
(* writeMessages *)

LEMMA WriteMatchInv ==
  ASSUME NEW V, RingInv(V), WriteMatch
  PROVE  RingInv(V)'
<1>1. /\ UNCHANGED <<given, dispatching, work, working, found, consumed, collector>>
      /\ result = "none" /\ matches # << >>
      /\ matches' = Tail(matches)
      /\ written' = Append(written, Head(matches))
      /\ result' # "nil"
  BY DEF WriteMatch
<1>2. RingTypes(V) /\ RingPlaces
  BY DEF RingInv
<1>3. UNCHANGED <<blocks, size, dispatcher, work, left, found, consumed, collector>>
  BY <1>1 DEF given, dispatching, working
<1>4. written \in Seq(V) /\ matches \in Seq(V)
  BY <1>2 DEF RingTypes
<1>5. /\ Tail(matches) \in Seq(V) /\ Append(written, Head(matches)) \in Seq(V)
      /\ Append(written, Head(matches)) \o Tail(matches) = written \o matches
  BY <1>1, <1>4, PassOn, SMTT(60)
<1>6. Delivered' = Delivered
  BY <1>1, <1>3, <1>5 DEF Delivered
<1>7. /\ collector' \in [at : {"receive", "forward", "acknowledge", "over"}, block : Nat,
                         worker : Workers, held : V \cup {NoMatch}]
      /\ collector'.at = "forward" => collector'.held \in V
      /\ collector'.at = "over" => collector.block = Len(blocks)
  BY <1>2, <1>3 DEF RingTypes, RingPlaces
<1>8. QED
  BY <1>1, <1>3, <1>5, <1>6, <1>7, MovedOn

LEMMA WriteLastInv ==
  ASSUME NEW V, RingInv(V), WriteLast
  PROVE  RingInv(V)'
<1>1. /\ UNCHANGED <<given, dispatching, work, working, found, consumed, collector, matches, written>>
      /\ matches = << >> /\ collector.at = "over"
  BY DEF WriteLast
<1>2. RingTypes(V) /\ RingPlaces
  BY DEF RingInv
<1>3. UNCHANGED <<blocks, size, dispatcher, work, left, found, consumed, collector, matches, written>>
  BY <1>1 DEF given, dispatching, working
<1>4. Delivered' = Delivered /\ written' \in Seq(V) /\ matches' \in Seq(V)
  BY <1>2, <1>3 DEF Delivered, RingTypes
<1>5. /\ collector' \in [at : {"receive", "forward", "acknowledge", "over"}, block : Nat,
                         worker : Workers, held : V \cup {NoMatch}]
      /\ collector'.at = "over" /\ collector.block = Len(blocks) /\ matches' = << >>
  BY <1>1, <1>2, <1>3 DEF RingTypes, RingPlaces
<1>6. QED
  BY <1>1, <1>3, <1>4, <1>5, MovedOn

-----------------------------------------------------------------------------

LEMMA RingInitInv ==
  ASSUME RingInit
  PROVE  \E V : RingInv(V)
<1>1. PICK V : Eoc \notin V /\ \E bs \in Seq(Seq(V)), n \in Nat \ {0} : Start(bs, n)
  BY DEF RingInit
<1>2. PICK bs \in Seq(Seq(V)), n \in Nat \ {0} : Start(bs, n)
  BY <1>1
<1>3. /\ blocks = bs /\ size = n
      /\ dispatcher = [at |-> "take", block |-> 0, worker |-> 0]
      /\ work = [w \in 0 .. n - 1 |-> << >>]
      /\ left = [w \in 0 .. n - 1 |-> << >>]
      /\ found = [w \in 0 .. n - 1 |-> << >>]
      /\ consumed = [w \in 0 .. n - 1 |-> TRUE]
      /\ collector = [at |-> "receive", block |-> 0, worker |-> 0, held |-> NoMatch]
      /\ matches = << >> /\ written = << >> /\ result = "none"
  BY <1>2 DEF Start
<1>4. Workers = 0 .. n - 1 /\ 0 \in Workers /\ n \in Nat /\ n >= 1 /\ Len(blocks) \in Nat /\ blocks \in Seq(Seq(V))
  BY <1>2, <1>3 DEF Workers
<1>5. RingTypes(V)
  <2>1. /\ work \in [Workers -> {<< >>} \cup {<<b>> : b \in 0 .. Len(blocks) - 1}]
        /\ left \in [Workers -> Seq(V \cup {Eoc})] /\ found \in [Workers -> Seq(V \cup {Eoc})]
        /\ consumed \in [Workers -> BOOLEAN]
    BY <1>3, <1>4
  <2>2. /\ dispatcher \in [at : {"take", "give", "over"}, block : Nat, worker : Workers]
        /\ collector \in [at : {"receive", "forward", "acknowledge", "over"}, block : Nat,
                          worker : Workers, held : V \cup {NoMatch}]
        /\ collector.at # "forward"
    BY <1>3, <1>4
  <2>3. QED
    BY <1>1, <1>3, <1>4, <2>1, <2>2 DEF RingTypes
<1>6. RingPlaces
  <2>1. 0 = 0 + (0 - 0) - (IF 0 + (0 - 0) >= size THEN size ELSE 0)
    <3>1. size \in Nat /\ ~(0 >= size)
      BY <1>3, <1>4
    <3>2. 0 - 0 = 0 /\ 0 + 0 = 0
      OBVIOUS
    <3>3. QED
      BY <3>1, <3>2
  <2>2. 0 <= Len(blocks) /\ 0 <= 0 + size
    BY <1>3, <1>4
  <2>3. /\ dispatcher.at = "take" /\ dispatcher.block = 0 /\ dispatcher.worker = 0
        /\ collector.at = "receive" /\ collector.block = 0 /\ collector.worker = 0 /\ result = "none"
    BY <1>3
  <2>4. QED
    BY <2>1, <2>2, <2>3 DEF RingPlaces
<1>7. ASSUME NEW w \in Workers PROVE Turn(w) \in Nat /\ Turn(w) >= 0 /\ consumed[w] /\ Idle(w)
  <2>1. w \in 0 .. n - 1
    BY <1>4
  <2>2. consumed[w] /\ Idle(w)
    BY <1>3, <2>1 DEF Idle
  <2>3. Turn(w) = 0 + (w - 0) + (IF w < 0 THEN n ELSE 0)
    BY <1>3 DEF Turn
  <2>4. QED
    BY <1>4, <2>1, <2>2, <2>3
<1>8. Tokens /\ Pipes
  <2>1. dispatcher.block = 0 /\ collector.block = 0 /\ dispatcher.at # "give"
    BY <1>3
  <2>2. Tokens
    BY <1>7, <2>1 DEF Tokens
  <2>3. Pipes
    BY <1>7, <2>1 DEF Pipes
  <2>4. QED
    BY <2>2, <2>3
<1>9. Current
  <2>1. Joined(0) = << >> /\ Delivered = << >>
    BY <1>3, <1>4, JoinedFacts DEF Delivered
  <2>2. QED
    BY <1>3, <2>1 DEF Current
<1>10. QED
  BY <1>5, <1>6, <1>8, <1>9 DEF RingInv

LEMMA RingStep ==
  ASSUME NEW V, RingInv(V), [RingNext]_ring
  PROVE  RingInv(V)'
<1>1. CASE UNCHANGED ring
  <2>1. UNCHANGED <<blocks, size, dispatcher, work, left, found, consumed, collector, matches, written, result>>
    BY <1>1 DEF ring, given, dispatching, working, writing
  <2>2. RingTypes(V) /\ RingPlaces
    BY DEF RingInv
  <2>3. Delivered' = Delivered
    BY <2>1 DEF Delivered
  <2>4. /\ collector' \in [at : {"receive", "forward", "acknowledge", "over"}, block : Nat,
                           worker : Workers, held : V \cup {NoMatch}]
        /\ collector'.at = "forward" => collector'.held \in V
        /\ matches' \in Seq(V) /\ written' \in Seq(V)
    BY <2>1, <2>2 DEF RingTypes
  <2>5. /\ collector'.at = "over" => collector.block = Len(blocks)
        /\ result' = "nil" => collector'.at = "over" /\ matches' = << >>
    BY <2>1, <2>2 DEF RingPlaces
  <2>6. QED
    BY <2>1, <2>3, <2>4, <2>5, MovedOn
<1>2. CASE DispatcherNext
  BY <1>2, TakeTokenInv, GiveBlockInv, CloseWorkInv DEF DispatcherNext
<1>3. CASE \E w \in Workers : WorkerNext(w)
  BY <1>3, TakeBlockInv, SendMatchInv, LeaveRingInv DEF WorkerNext
<1>4. CASE CollectorNext
  BY <1>4, ReceiveMatchInv, ForwardInv, AcknowledgeInv, CloseMatchesInv DEF CollectorNext
<1>5. CASE WriterNext
  BY <1>5, WriteMatchInv, WriteLastInv DEF WriterNext
<1>6. QED
  BY <1>1, <1>2, <1>3, <1>4, <1>5 DEF RingNext

LEMMA RingInvInOrder ==
  ASSUME NEW V, RingInv(V)
  PROVE  InOrder
<1> DEFINE b == collector.block
           k == Joined(IF b < Len(blocks) THEN b + 1 ELSE Len(blocks))
<1>1. RingTypes(V) /\ RingPlaces /\ Current
  BY DEF RingInv
<1>2. b \in Nat /\ Len(blocks) \in Nat /\ b <= dispatcher.block /\ dispatcher.block <= Len(blocks)
      /\ dispatcher.block \in Nat /\ collector.worker \in Workers /\ blocks \in Seq(Seq(V)) /\ Eoc \notin V
  BY <1>1, TurnFacts DEF RingPlaces, RingTypes
<1>3. Delivered \in Seq(V)
  <2>1. written \in Seq(V) /\ matches \in Seq(V) /\ (collector.at = "forward" => collector.held \in V)
    BY <1>1 DEF RingTypes
  <2>2. QED
    BY <2>1 DEF Delivered
<1>4. k \in Seq(V) /\ Joined(b) \in Seq(V)
  BY <1>2, JoinedFacts
<1>5. Len(Joined(b)) <= Len(Delivered)
  BY <1>1 DEF Current
<1>6. Len(Delivered) <= Len(k) /\ \A i \in 1 .. Len(Delivered) : Delivered[i] = k[i]
  <2>1. CASE b = dispatcher.block
    <3>1. Delivered = Joined(b)
      BY <1>1, <2>1 DEF Current
    <3>2. CASE b < Len(blocks)
      <4>1. k = Joined(b) \o blocks[b + 1] /\ blocks[b + 1] \in Seq(V)
        <5>1. b \in 0 .. Len(blocks) - 1 /\ b + 1 \in 1 .. Len(blocks)
          BY <1>2, <3>2
        <5>2. blocks[b + 1] \in Seq(V)
          BY <1>2, <5>1
        <5>3. \A m \in 0 .. Len(blocks) - 1 : Joined(m + 1) = Joined(m) \o blocks[m + 1]
          BY <1>2, JoinedFacts
        <5>4. Joined(b + 1) = Joined(b) \o blocks[b + 1]
          BY <5>1, <5>3, Zenon
        <5>5. QED
          BY <3>2, <5>2, <5>4
      <4>2. PICK s, t, u : /\ s = Joined(b) /\ t = blocks[b + 1] /\ u = k
                           /\ s \in Seq(V) /\ t \in Seq(V) /\ u = s \o t /\ Delivered = s
        BY <1>4, <3>1, <4>1
      <4>3. Len(s) <= Len(u) /\ \A i \in 1 .. Len(s) : s[i] = u[i]
        <5>1. s \in Seq(V) /\ t \in Seq(V) /\ u = s \o t
          BY <4>2
        <5>2. Len(s) <= Len(s \o t) /\ \A i \in 1 .. Len(s) : s[i] = (s \o t)[i]
          BY ONLY <5>1
        <5>3. QED
          BY <5>1, <5>2, Zenon
      <4>4. QED
        BY <4>2, <4>3
    <3>3. CASE ~(b < Len(blocks))
      <4>1. k = Joined(b)
        BY <1>2, <3>3
      <4>2. QED
        BY <1>4, <3>1, <4>1
    <3>4. QED
      BY <3>2, <3>3
  <2>2. CASE b < dispatcher.block
    <3>1. k = Joined(b + 1)
      BY <1>2, <2>2
    <3>2. CASE collector.at = "acknowledge"
      BY <1>1, <1>4, <3>1, <3>2 DEF Current
    <3>3. CASE collector.at # "acknowledge"
      <4>1. PICK u : u = Pipe(collector.worker) /\ u \in Seq(V \cup {Eoc})
        BY <1>1, <1>2, PipeType
      <4>2. Delivered \o u = Append(k, Eoc)
        BY <1>1, <2>2, <3>1, <3>3, <4>1, SMTT(60) DEF Current
      <4>3. PICK s, t : s = k /\ t = Delivered /\ s \in Seq(V) /\ t \in Seq(V) /\ t \o u = Append(s, Eoc)
        BY <1>3, <1>4, <4>2, SMTT(60)
      <4>4. Len(t) <= Len(s) /\ \A i \in 1 .. Len(t) : t[i] = s[i]
        BY <1>2, <4>1, <4>3, MarkIsToCome, SMTT(60)
      <4>5. QED
        BY <4>3, <4>4
    <3>4. QED
      BY <3>2, <3>3
  <2>3. QED
    BY <1>2, <2>1, <2>2
<1>7. Delivered = SubSeq(k, 1, Len(Delivered))
  <2> HIDE DEF k
  <2>1. PICK s : s = Delivered /\ s \in Seq(V) /\ Len(s) <= Len(k) /\ \A i \in 1 .. Len(s) : s[i] = k[i]
    BY <1>3, <1>6
  <2>2. /\ SubSeq(k, 1, Len(s)) \in Seq(V) /\ Len(SubSeq(k, 1, Len(s))) = Len(s)
        /\ \A i \in 1 .. Len(s) : SubSeq(k, 1, Len(s))[i] = k[i]
    BY <1>4, <2>1
  <2>3. s = SubSeq(k, 1, Len(s))
    BY <2>1, <2>2, SameSequence
  <2>4. QED
    BY <2>1, <2>3
<1>8. QED
  BY <1>5, <1>6, <1>7, Zenon DEF InOrder, Delivered

\* Whatever the matches of the blocks, however many workers scan them and however
\* fast each of them is: what Do has been handed are the matches of the blocks
\* before the collector's, in order, and then some of that block's.
THEOREM InOrderHolds == RingSpec => []InOrder
<1> DEFINE Inv == \E V : RingInv(V)
<1>1. RingInit => Inv
  BY RingInitInv
<1>2. Inv /\ [RingNext]_ring => Inv'
  BY RingStep
<1>3. Inv => InOrder
  BY RingInvInOrder
<1> HIDE DEF Inv
<1>4. QED
  BY <1>1, <1>2, <1>3, PTL DEF RingSpec

\* A Do that returns nil has written all the matches of all the blocks.
THEOREM AllWritten == RingSpec => [](result = "nil" => written = Joined(Len(blocks)))
<1> DEFINE Inv == \E V : RingInv(V)
           Nil == result = "nil" => written = Joined(Len(blocks))
<1>1. RingInit => Inv
  BY RingInitInv
<1>2. Inv /\ [RingNext]_ring => Inv'
  BY RingStep
<1>3. Inv => Nil
  <2> SUFFICES ASSUME NEW V, RingInv(V), result = "nil" PROVE written = Joined(Len(blocks))
    OBVIOUS
  <2>1. RingTypes(V) /\ RingPlaces /\ Current
    BY DEF RingInv
  <2>2. collector.at = "over" /\ matches = << >> /\ collector.block = Len(blocks) /\ written \in Seq(V)
    BY <2>1 DEF RingPlaces, RingTypes
  <2>3. collector.block = dispatcher.block
    BY <2>1, <2>2, TurnFacts DEF RingPlaces
  <2>4. Delivered = written
    BY <2>2 DEF Delivered
  <2>5. QED
    BY <2>1, <2>2, <2>3, <2>4 DEF Current
<1> HIDE DEF Inv, Nil
<1>4. RingSpec => []Nil
  BY <1>1, <1>2, <1>3, PTL DEF RingSpec
<1>5. QED
  BY <1>4 DEF Nil

-----------------------------------------------------------------------------
(* What bsdiff computes: choices and searches                               *)

\* There is a best score.
LEMMA BestIs ==
  ASSUME NEW n \in Nat, NEW score \in [0 .. n -> Int]
  PROVE  Best(score) \in 0 .. n
<1> DEFINE Better(i, j) == score[j] < score[i] \/ (score[j] = score[i] /\ i <= j)
           T == {m \in Int : \E i \in 0 .. m : \A j \in 0 .. m : Better(i, j)}
<1>1. 0 <= n => 0 \in T
  <2>1. 0 .. 0 = {0} /\ Better(0, 0)
    OBVIOUS
  <2>2. QED
    BY <2>1
<1>2. ASSUME NEW m \in 0 .. n - 1, m \in T PROVE m + 1 \in T
  <2>1. PICK i \in 0 .. m : \A j \in 0 .. m : Better(i, j)
    BY <1>2
  <2>2. /\ i \in 0 .. m + 1 /\ m + 1 \in 0 .. m + 1 /\ m \in Nat /\ m + 1 \in 0 .. n /\ m + 1 \in Int
        /\ i <= m + 1
        /\ score[i] \in Int /\ score[m + 1] \in Int
        /\ \A j \in 0 .. m + 1 : (j \in 0 .. m \/ j = m + 1) /\ score[j] \in Int
    OBVIOUS
  <2>3. CASE score[i] >= score[m + 1]
    <3>1. \A j \in 0 .. m + 1 : Better(i, j)
      BY <2>1, <2>2, <2>3
    <3>2. QED
      BY <2>2, <3>1
  <2>4. CASE score[i] < score[m + 1]
    <3>1. ASSUME NEW j \in 0 .. m + 1 PROVE Better(m + 1, j)
      <4>1. CASE j = m + 1
        BY <2>2, <4>1
      <4>2. CASE j \in 0 .. m
        BY <2>1, <2>2, <2>4, <4>2
      <4>3. QED
        BY <2>2, <4>1, <4>2
    <3>2. QED
      BY <2>2, <3>1, SMTT(60)
  <2>5. QED
    BY <2>2, <2>3, <2>4
<1>3. n \in T
  <2>1. 0 \in Int /\ n \in Int /\ n \in 0 .. n
    OBVIOUS
  <2> HIDE DEF T
  <2>2. 0 .. n \subseteq T
    BY <1>1, <1>2, <2>1, RangeInduction, Zenon
  <2>3. QED
    BY <2>1, <2>2
<1>4. \E i \in DOMAIN score : \A j \in DOMAIN score : Better(i, j)
  <2>1. DOMAIN score = 0 .. n
    OBVIOUS
  <2>2. QED
    BY <1>3, <2>1
<1>5. Best(score) \in DOMAIN score
  BY <1>4 DEF Best
<1>6. QED
  BY <1>5

LEMMA MatchLenIs ==
  ASSUME NEW S, NEW a \in Seq(S), NEW b \in Seq(S)
  PROVE  MatchLen(a, b) \in 0 .. Lesser(Len(a), Len(b))
<1> DEFINE l == Lesser(Len(a), Len(b))
           T == {m \in Nat : m = l \/ (m < l /\ a[m + 1] # b[m + 1])}
<1>1. l \in Nat
  BY DEF Lesser
<1> HIDE DEF l
<1>2. T \subseteq Nat /\ l \in T
  BY <1>1
<1>3. PICK m \in T : \A k \in T : m <= k
  <2> HIDE DEF T
  <2>1. QED
    BY <1>2, LeastNumber
<1>4. m \in 0 .. l
  BY <1>1
<1>5. m < l => a[m + 1] # b[m + 1]
  BY <1>3
<1>6. \A i \in 1 .. m : a[i] = b[i]
  <2> SUFFICES ASSUME NEW i \in 1 .. m, a[i] # b[i] PROVE FALSE
    OBVIOUS
  <2>1. i - 1 \in Nat /\ i - 1 < l /\ (i - 1) + 1 = i
    BY <1>1, <1>4
  <2>2. i - 1 \in T
    BY <2>1
  <2>3. QED
    BY <1>3, <1>4, <2>2
<1>7. QED
  BY <1>4, <1>5, <1>6, Zenon DEF MatchLen, l

LEMMA FromSubSeq ==
  ASSUME NEW S, NEW s \in Seq(S), NEW i \in 0 .. Len(s)
  PROVE  From(s, i) \in Seq(S) /\ Len(From(s, i)) = Len(s) - i
<1>1. i + 1 \in 1 .. Len(s) + 1 /\ Len(s) \in Nat
  OBVIOUS
<1>2. \A k \in (i + 1) .. Len(s) : s[k] \in S
  OBVIOUS
<1>3. QED
  BY <1>1, <1>2 DEF From

LEMMA SliceSubSeq ==
  ASSUME NEW S, NEW s \in Seq(S), NEW i \in 0 .. Len(s), NEW j \in i .. Len(s)
  PROVE  /\ Slice(s, i, j) \in Seq(S)
         /\ Len(Slice(s, i, j)) = j - i
         /\ \A k \in 1 .. j - i : Slice(s, i, j)[k] = s[i + k]
  BY DEF Slice

LEMMA CountIs ==
  ASSUME NEW a \in Int, NEW b \in Int, NEW T \in SUBSET (a .. b)
  PROVE  Cardinality(T) \in Nat /\ Cardinality(T) <= IF a > b THEN 0 ELSE b - a + 1
<1>1. IsFiniteSet(a .. b) /\ Cardinality(a .. b) = IF a > b THEN 0 ELSE b - a + 1
  BY FS_Interval
<1>2. IsFiniteSet(T) /\ Cardinality(T) <= Cardinality(a .. b)
  BY <1>1, FS_Subset
<1>3. QED
  BY <1>1, <1>2, FS_CardinalityType

LEMMA PutInIs ==
  ASSUME NEW V, NEW s \in Seq(V), NEW text, NEW i \in V
  PROVE  PutIn(s, text, i) \in Seq(V) /\ Len(PutIn(s, text, i)) = Len(s) + 1
<1> DEFINE T == {k \in DOMAIN s : Less(From(text, s[k]), From(text, i))}
           c == Cardinality(T)
<1>1. T \in SUBSET (1 .. Len(s)) /\ 1 \in Int /\ Len(s) \in Nat /\ Len(s) \in Int
  OBVIOUS
<1> HIDE DEF T
<1>2. c \in 0 .. Len(s)
  BY <1>1, CountIs, SMTT(120)
<1>3. PutIn(s, text, i) = InsertAt(s, c + 1, i)
  BY Zenon DEF PutIn, T
<1> HIDE DEF c
<1>4. /\ SubSeq(s, 1, (c + 1) - 1) \in Seq(V) /\ Len(SubSeq(s, 1, (c + 1) - 1)) = c
      /\ SubSeq(s, c + 1, Len(s)) \in Seq(V) /\ Len(SubSeq(s, c + 1, Len(s))) = Len(s) - c
  BY <1>1, <1>2
<1>5. InsertAt(s, c + 1, i) \in Seq(V) /\ Len(InsertAt(s, c + 1, i)) = c + 1 + (Len(s) - c)
  BY <1>4 DEF InsertAt
<1>6. QED
  BY <1>1, <1>2, <1>3, <1>5

LEMMA SuffixArrayIs ==
  ASSUME NEW S, NEW text \in Seq(S)
  PROVE  SuffixArray(text) \in [1 .. Len(text) -> 0 .. Len(text) - 1]
<1> DEFINE n == Len(text)
           V == Seq(0 .. n - 1)
           first == CHOOSE f : f = [k \in 0 .. Len(text) |-> IF k = 0 THEN << >> ELSE PutIn(f[k - 1], text, k - 1)]
           step == [k \in 1 .. n |-> [h \in V |-> PutIn(h, text, k - 1)]]
<1>1. n \in Nat /\ << >> \in V
  OBVIOUS
<1>2. SuffixArray(text) = first[n]
  BY DEF SuffixArray
<1>3. step \in [1 .. n -> [V -> V]]
  <2>1. \A k \in 1 .. n : k - 1 \in 0 .. n - 1
    OBVIOUS
  <2>2. \A k \in 1 .. n, h \in V : PutIn(h, text, k - 1) \in V
    BY <2>1, PutInIs
  <2> HIDE DEF V, n
  <2>3. QED
    BY <2>2
<1>4. \A k \in 1 .. n : \A h \in V : step[k][h] = PutIn(h, text, k - 1)
  OBVIOUS
<1> HIDE DEF step, V
<1>5. PICK f : RecursFromZero(f, V, n, << >>, step)
  <2> HIDE DEF n
  <2>1. QED
    BY <1>1, <1>3, RecursionFromZero
<1>6. f \in [0 .. n -> V] /\ \A k \in 0 .. n : f[k] = IF k = 0 THEN << >> ELSE step[k][f[k - 1]]
  BY <1>5, Zenon DEF RecursFromZero
<1>7. ASSUME NEW k \in 0 .. n PROVE f[k] = IF k = 0 THEN << >> ELSE PutIn(f[k - 1], text, k - 1)
  <2>1. k # 0 => k \in 1 .. n /\ k - 1 \in 0 .. n
    BY <1>1
  <2>2. k # 0 => f[k - 1] \in V
    BY <1>6, <2>1
  <2>3. k # 0 => step[k][f[k - 1]] = PutIn(f[k - 1], text, k - 1)
    BY <1>4, <2>1, <2>2
  <2>4. QED
    BY <1>6, <2>3
<1>8. f = [k \in 0 .. n |-> IF k = 0 THEN << >> ELSE PutIn(f[k - 1], text, k - 1)]
  <2>1. f = [k \in 0 .. n |-> f[k]]
    BY <1>6
  <2>2. [k \in 0 .. n |-> f[k]] = [k \in 0 .. n |-> IF k = 0 THEN << >> ELSE PutIn(f[k - 1], text, k - 1)]
    BY <1>7, Zenon
  <2>3. QED
    BY <2>1, <2>2, Zenon
<1>9. first = [k \in 0 .. n |-> IF k = 0 THEN << >> ELSE PutIn(first[k - 1], text, k - 1)]
  BY <1>8, Zenon
<1> HIDE DEF first
<1>10. \A k \in 0 .. n : first[k] = IF k = 0 THEN << >> ELSE PutIn(first[k - 1], text, k - 1)
  BY <1>9, Zenon
<1> DEFINE T == {k \in Int : first[k] \in V /\ Len(first[k]) = k}
<1>11. 0 <= n => 0 \in T
  <2>1. 0 \in 0 .. n
    BY <1>1
  <2>2. first[0] = << >>
    BY <1>10, <2>1, Zenon
  <2>3. QED
    BY <1>1, <2>2
<1>12. ASSUME NEW k \in 0 .. n - 1, k \in T PROVE k + 1 \in T
  <2>1. k + 1 \in 0 .. n /\ k + 1 # 0 /\ (k + 1) - 1 = k /\ k \in 0 .. n - 1 /\ k + 1 \in Int
    BY <1>1
  <2>2. first[k + 1] = PutIn(first[(k + 1) - 1], text, (k + 1) - 1)
    BY <1>10, <2>1, Zenon
  <2>3. first[k + 1] = PutIn(first[k], text, k)
    BY <2>1, <2>2, Zenon
  <2>4. first[k] \in Seq(0 .. n - 1) /\ Len(first[k]) = k
    BY <1>12 DEF V
  <2>5. PutIn(first[k], text, k) \in Seq(0 .. n - 1) /\ Len(PutIn(first[k], text, k)) = Len(first[k]) + 1
    BY <2>1, <2>4, PutInIs
  <2>6. QED
    BY <2>1, <2>3, <2>4, <2>5 DEF V
<1>13. n \in T
  <2>1. 0 \in Int /\ n \in Int /\ n \in 0 .. n
    BY <1>1
  <2> HIDE DEF T, n
  <2>2. 0 .. n \subseteq T
    BY <1>11, <1>12, <2>1, RangeInduction, Zenon
  <2>3. QED
    BY <2>1, <2>2
<1>14. first[n] \in Seq(0 .. n - 1) /\ Len(first[n]) = n
  BY <1>13 DEF V
<1>15. QED
  BY <1>1, <1>2, <1>14

\* The search finds a place of the text, and no more than there is to find.
LEMMA SearchIs ==
  ASSUME NEW S, NEW text \in Seq(S), text # << >>, NEW target \in Seq(S), NEW part,
         part.text = text, part.suffixes = SuffixArray(text)
  PROVE  Search(part, target) \in [pos : 0 .. Len(text) - 1, n : 0 .. Len(target)]
<1> DEFINE n == Len(text)
           V == {r \in [st : 0 .. n, en : 0 .. n] : r.st < r.en}
           v == [st |-> 0, en |-> n]
           range == CHOOSE f : f = [k \in 0 .. Len(part.text) |->
                      IF k = 0 THEN [st |-> 0, en |-> Len(part.text)] ELSE Halved(part, target, f[k - 1])]
           step == [k \in 1 .. n |-> [h \in V |-> Halved(part, target, h)]]
           st == range[n].st
           en == range[n].en
<1>1. n \in Nat /\ n >= 1 /\ v \in V
  OBVIOUS
<1>2. Search(part, target) = IF en >= n \/ Found(part, target, st).n > Found(part, target, en).n
                               THEN Found(part, target, st) ELSE Found(part, target, en)
  BY DEF Search
<1>3. ASSUME NEW r \in V PROVE Halved(part, target, r) \in V
  <2> DEFINE x == r.st + (r.en - r.st) \div 2
  <2>1. r \in [st : 0 .. n, en : 0 .. n] /\ r.st \in 0 .. n /\ r.en \in 0 .. n /\ r.st < r.en
    OBVIOUS
  <2>2. r.en - r.st >= 2 => x \in Int /\ r.st < x /\ x < r.en
    BY <2>1
  <2>3. CASE r.en - r.st < 2
    BY <2>1, <2>3 DEF Halved
  <2>4. CASE ~(r.en - r.st < 2)
    <3>1. x \in 0 .. n /\ r.st < x /\ x < r.en
      BY <2>1, <2>2, <2>4
    <3>2. Halved(part, target, r) = [r EXCEPT !.st = x] \/ Halved(part, target, r) = [r EXCEPT !.en = x]
      BY <2>4 DEF Halved
    <3> HIDE DEF x
    <3>3. [r EXCEPT !.st = x] \in V
      BY <2>1, <3>1
    <3>4. [r EXCEPT !.en = x] \in V
      BY <2>1, <3>1, SMTT(60)
    <3>5. QED
      BY <3>2, <3>3, <3>4
  <2>5. QED
    BY <2>3, <2>4
<1>4. step \in [1 .. n -> [V -> V]] /\ \A k \in 1 .. n : \A h \in V : step[k][h] = Halved(part, target, h)
  <2> HIDE DEF V, n
  <2>1. QED
    BY <1>3
<1> HIDE DEF step, V, v
<1>5. PICK f : RecursFromZero(f, V, n, v, step)
  <2> HIDE DEF n
  <2>1. QED
    BY <1>1, <1>4, RecursionFromZero
<1>6. f \in [0 .. n -> V] /\ \A k \in 0 .. n : f[k] = IF k = 0 THEN v ELSE step[k][f[k - 1]]
  BY <1>5, Zenon DEF RecursFromZero
<1>7. ASSUME NEW k \in 0 .. n PROVE f[k] = IF k = 0 THEN v ELSE Halved(part, target, f[k - 1])
  <2>1. k # 0 => k \in 1 .. n /\ k - 1 \in 0 .. n
    BY <1>1
  <2>2. k # 0 => f[k - 1] \in V
    BY <1>6, <2>1
  <2>3. k # 0 => step[k][f[k - 1]] = Halved(part, target, f[k - 1])
    BY <1>4, <2>1, <2>2
  <2>4. QED
    BY <1>6, <2>3
<1>8. f = [k \in 0 .. n |-> IF k = 0 THEN v ELSE Halved(part, target, f[k - 1])]
  <2>1. f = [k \in 0 .. n |-> f[k]]
    BY <1>6
  <2>2. [k \in 0 .. n |-> f[k]] = [k \in 0 .. n |-> IF k = 0 THEN v ELSE Halved(part, target, f[k - 1])]
    BY <1>7, Zenon
  <2>3. QED
    BY <2>1, <2>2, Zenon
<1>9. range = [k \in 0 .. n |-> IF k = 0 THEN v ELSE Halved(part, target, range[k - 1])]
  <2>1. range = CHOOSE g : g = [k \in 0 .. n |-> IF k = 0 THEN v ELSE Halved(part, target, g[k - 1])]
    BY Zenon DEF v
  <2> HIDE DEF range
  <2>2. QED
    BY <1>8, <2>1, Zenon
<1> HIDE DEF range
<1>10. \A k \in 0 .. n : range[k] = IF k = 0 THEN v ELSE Halved(part, target, range[k - 1])
  BY <1>9, Zenon
<1> DEFINE T == {k \in Int : range[k] \in V}
<1>11. 0 <= n => 0 \in T
  <2>1. 0 \in 0 .. n
    BY <1>1
  <2>2. range[0] = v
    BY <1>10, <2>1, Zenon
  <2>3. QED
    BY <1>1, <2>2
<1>12. ASSUME NEW k \in 0 .. n - 1, k \in T PROVE k + 1 \in T
  <2>1. k + 1 \in 0 .. n /\ k + 1 # 0 /\ (k + 1) - 1 = k /\ k + 1 \in Int
    BY <1>1
  <2>2. range[k + 1] = Halved(part, target, range[(k + 1) - 1])
    BY <1>10, <2>1, Zenon
  <2>3. range[k + 1] = Halved(part, target, range[k]) /\ range[k] \in V
    BY <1>12, <2>1, <2>2
  <2>4. QED
    BY <1>3, <2>1, <2>3
<1>13. n \in T
  <2>1. 0 \in Int /\ n \in Int /\ n \in 0 .. n
    BY <1>1
  <2> HIDE DEF T, n
  <2>2. 0 .. n \subseteq T
    BY <1>11, <1>12, <2>1, RangeInduction, Zenon
  <2>3. QED
    BY <2>1, <2>2
<1>14. st \in 0 .. n - 1 /\ en \in 0 .. n
  BY <1>1, <1>13 DEF V
<1>15. ASSUME NEW i \in 0 .. n - 1
       PROVE  Found(part, target, i) \in [pos : 0 .. n - 1, n : 0 .. Len(target)]
  <2>1. part.suffixes \in [1 .. n -> 0 .. n - 1]
    BY SuffixArrayIs
  <2>2. At(part.suffixes, i) \in 0 .. n - 1
    BY <1>1, <2>1 DEF At
  <2>3. Suffix(part, i) \in Seq(S)
    BY <2>2, FromSubSeq DEF Suffix
  <2>4. MatchLen(Suffix(part, i), target) \in 0 .. Len(target)
    <3>1. Lesser(Len(Suffix(part, i)), Len(target)) \in 0 .. Len(target)
      BY <2>3 DEF Lesser
    <3>2. MatchLen(Suffix(part, i), target) \in 0 .. Lesser(Len(Suffix(part, i)), Len(target))
      BY <2>3, MatchLenIs
    <3>3. QED
      BY <3>1, <3>2
  <2>5. QED
    BY <2>2, <2>4 DEF Found
<1>16. QED
  <2> HIDE DEF st, en, n
  <2>1. en >= n \/ en \in 0 .. n - 1
    BY <1>1, <1>14
  <2>2. QED
    BY <1>2, <1>14, <1>15, <2>1 DEF n

-----------------------------------------------------------------------------
(* The partitioned suffix array, and the scan of a block                   *)

LEMMA PartsAre ==
  ASSUME NEW S, NEW old \in Seq(S), NEW p \in 1 .. Len(old), NEW i \in 1 .. p
  PROVE  LET part == NewPSA(old, p)[i]
         IN /\ part.at \in Nat
            /\ part.text \in Seq(S) /\ part.text # << >>
            /\ part.at + Len(part.text) <= Len(old)
            /\ part.suffixes = SuffixArray(part.text)
<1> DEFINE l == Len(old)
           n == l \div p
           st == (i - 1) * n
           en == IF i = p THEN l ELSE i * n
<1>1. l \in Nat /\ p \in Nat \ {0} /\ p <= l /\ i \in Nat
  OBVIOUS
<1>2. n \in Nat /\ n * p <= l /\ l < n * p + p
  <2> HIDE DEF l
  <2>1. QED
    BY <1>1, ChunkBounds
<1>3. NewPSA(old, p)[i] = Part(old, st, en)
  BY DEF NewPSA
<1> HIDE DEF n
<1>4. n >= 1
  <2>1. n = 0 => n * p = 0
    OBVIOUS
  <2>2. QED
    BY <1>1, <1>2, <2>1
<1>5. st \in Nat /\ i * n \in Nat /\ st + n = i * n
  <2>1. i * n = (i - 1) * n + n /\ i - 1 \in Nat
    BY <1>1, <1>2
  <2>2. (i - 1) * n \in Nat
    BY <1>2, <2>1
  <2>3. QED
    BY <1>2, <2>1, <2>2
<1>6. i * n <= l
  <2>1. PICK e \in Nat : p = i + e
    <3>1. p - i \in Nat /\ p = i + (p - i)
      OBVIOUS
    <3>2. QED
      BY <3>1
  <2>2. n * p = i * n + e * n /\ e * n \in Nat
    BY <1>1, <1>2, <2>1
  <2>3. QED
    BY <1>1, <1>2, <1>5, <2>2
<1> HIDE DEF st
<1>7. en \in Nat /\ st < en /\ en <= l
  BY <1>1, <1>2, <1>4, <1>5, <1>6
<1> HIDE DEF en
<1>8. Slice(old, st, en) \in Seq(S) /\ Len(Slice(old, st, en)) = en - st
  <2>1. st \in 0 .. Len(old) /\ en \in st .. Len(old)
    BY <1>1, <1>5, <1>7
  <2>2. QED
    BY <2>1, SliceSubSeq
<1>9. Slice(old, st, en) # << >>
  BY <1>5, <1>7, <1>8
<1>10. /\ Part(old, st, en).at = st /\ Part(old, st, en).text = Slice(old, st, en)
       /\ Part(old, st, en).suffixes = SuffixArray(Slice(old, st, en))
  BY DEF Part
<1>11. QED
  BY <1>1, <1>3, <1>5, <1>7, <1>8, <1>9, <1>10

LEMMA SearchAllIs ==
  ASSUME NEW S, NEW old \in Seq(S), NEW p \in 1 .. Len(old), NEW target \in Seq(S)
  PROVE  SearchAll(NewPSA(old, p), target) \in [pos : 0 .. Len(old), n : 0 .. Len(target)]
<1> DEFINE psa == NewPSA(old, p)
           hit == [i \in 1 .. Len(psa) |-> Search(psa[i], target)]
           score == [i \in 0 .. Len(psa) |-> IF i = 0 THEN 0 ELSE hit[i].n]
           best == Best(score)
<1>1. Len(psa) = p /\ p \in Nat
  BY DEF NewPSA
<1>2. SearchAll(psa, target) = IF best = 0 THEN [pos |-> 0, n |-> 0]
                               ELSE [pos |-> psa[best].at + hit[best].pos, n |-> hit[best].n]
  BY Zenon DEF SearchAll
<1>3. ASSUME NEW i \in 1 .. p
      PROVE  /\ hit[i].n \in 0 .. Len(target)
             /\ psa[i].at + hit[i].pos \in 0 .. Len(old)
  <2> DEFINE part == psa[i]
             text == part.text
  <2>1. /\ part.at \in Nat /\ text \in Seq(S) /\ text # << >>
        /\ part.at + Len(text) <= Len(old) /\ part.suffixes = SuffixArray(text)
    BY PartsAre
  <2>2. hit[i] = Search(part, target)
    BY <1>1
  <2> HIDE DEF psa, hit
  <2>3. Search(part, target) \in [pos : 0 .. Len(text) - 1, n : 0 .. Len(target)]
    BY <2>1, SearchIs
  <2> HIDE DEF part
  <2>4. hit[i].pos \in 0 .. Len(text) - 1 /\ hit[i].n \in 0 .. Len(target)
    BY <2>2, <2>3
  <2>5. QED
    BY <2>1, <2>4, SMTT(60) DEF part
<1> HIDE DEF psa, hit
<1>4. score \in [0 .. p -> Int]
  <2>1. \A i \in 0 .. p : i # 0 => i \in 1 .. p
    OBVIOUS
  <2>2. \A i \in 0 .. p : (IF i = 0 THEN 0 ELSE hit[i].n) \in Int
    BY <1>3, <2>1
  <2>3. QED
    BY <1>1, <2>2
<1> HIDE DEF score
<1>5. best \in 0 .. p
  BY <1>1, <1>4, BestIs
<1>6. best # 0 => best \in 1 .. p
  BY <1>5
<1> HIDE DEF best
<1>7. QED
  BY <1>2, <1>3, <1>6 DEF psa

\* Places to go on at.
LEMMA NextMatchIs ==
  ASSUME NEW S, NEW old \in Seq(S), NEW new \in Seq(S), NEW off \in Int, NEW scan \in 0 .. Len(new) - 1,
         NEW hits \in [0 .. Len(new) - 1 -> [pos : 0 .. Len(old), n : Nat]],
         \A i \in 0 .. Len(new) - 1 : hits[i].n <= Len(new) - i
  PROVE  LET m == NextMatch(old, new, hits, off, scan)
         IN /\ m.scan \in scan .. Len(new)
            /\ m.pos \in 0 .. Len(old)
            /\ m.n \in Nat
            /\ m.scan < Len(new) => m.scan + m.n <= Len(new)
            /\ m.scan = Len(new) \/ m.scan + m.n > scan
            /\ m.scan = Len(new) => m.better
<1> DEFINE l == Len(new)
           Agrees(i) == i + off < Len(old) /\ At(old, i + off) = At(new, i)
           Reached(i) == {k \in scan .. l - 1 : Agrees(k) /\ \E j \in scan .. i : k < j + hits[j].n}
           Passed(i) == {k \in scan .. i - 1 : Agrees(k)}
           score == [i \in scan .. l - 1 |-> Cardinality(Reached(i)) - Cardinality(Passed(i))]
           Good(i) == (hits[i].n = score[i] /\ hits[i].n # 0) \/ hits[i].n > score[i] + Slack
           stops == {i \in scan .. l - 1 : Good(i)}
           stop == CHOOSE i \in stops : \A j \in stops : i <= j
           m == NextMatch(old, new, hits, off, scan)
<1>1. l \in Nat /\ scan \in Nat /\ scan < l /\ l - 1 \in 0 .. l - 1 /\ scan .. l - 1 \subseteq 0 .. l - 1
  OBVIOUS
<1>2. m = IF stops = {} THEN [scan |-> l, pos |-> hits[l - 1].pos, n |-> hits[l - 1].n, better |-> TRUE]
          ELSE [scan |-> stop, pos |-> hits[stop].pos, n |-> hits[stop].n, better |-> hits[stop].n # score[stop]]
  BY Zenon DEF NextMatch
<1>3. Good(scan) => hits[scan].n # 0
  <2>1. Reached(scan) \in SUBSET (scan .. l - 1) /\ scan \in Int /\ l - 1 \in Int
    BY <1>1
  <2>2. Cardinality(Reached(scan)) \in Nat
    <3> HIDE DEF Reached, l
    <3>1. QED
      BY <2>1, CountIs
  <2>3. Passed(scan) = {}
    BY <1>1
  <2>4. Cardinality(Passed(scan)) = 0
    BY <2>3, FS_EmptySet
  <2>5. scan \in scan .. l - 1
    BY <1>1
  <2> HIDE DEF Reached, Passed
  <2>6. score[scan] \in Nat
    BY <2>2, <2>4, <2>5
  <2> HIDE DEF score
  <2>7. QED
    BY <2>6, SlackAssumption, SMTT(60)
<1> HIDE DEF score, Good
<1>4. CASE stops = {}
  <2>1. m.scan = l /\ m.pos = hits[l - 1].pos /\ m.n = hits[l - 1].n /\ m.better
    BY <1>2, <1>4
  <2>2. hits[l - 1] \in [pos : 0 .. Len(old), n : Nat]
    BY <1>1
  <2> HIDE DEF m
  <2>3. QED
    BY <1>1, <2>1, <2>2 DEF m
<1>5. CASE stops # {}
  <2>1. stops \subseteq Nat
    BY <1>1
  <2>2. PICK i \in stops : \A j \in stops : i <= j
    <3> HIDE DEF stops
    <3>1. QED
      BY <1>5, <2>1, LeastNumber
  <2>3. stop \in stops
    BY <2>2, Zenon
  <2>4. stop \in scan .. l - 1 /\ Good(stop)
    BY <2>3
  <2> HIDE DEF m, stop, stops
  <2>5. m.scan = stop /\ m.pos = hits[stop].pos /\ m.n = hits[stop].n
    BY <1>2, <1>5
  <2>6. /\ hits[stop] \in [pos : 0 .. Len(old), n : Nat] /\ hits[stop].n <= l - stop
    BY <1>1, <2>4
  <2>7. stop = scan => hits[stop].n # 0
    BY <1>3, <2>4
  <2>8. QED
    BY <1>1, <2>4, <2>5, <2>6, <2>7, SMTT(60) DEF m
<1>6. QED
  BY <1>4, <1>5

\* No byte is claimed twice.
LEMMA OverlapIs ==
  ASSUME NEW old, NEW new, NEW last, NEW m, last.scan \in Nat, m.scan \in Nat, last.scan <= m.scan,
         NEW lenf \in 0 .. m.scan - last.scan, NEW lenb \in 0 .. m.scan - last.scan
  PROVE  LET len == Overlap(old, new, last, m, lenf, lenb)
         IN /\ len.f \in 0 .. lenf
            /\ len.b \in 0 .. lenb
            /\ last.scan + len.f <= m.scan - len.b
<1> DEFINE n == (last.scan + lenf) - (m.scan - lenb)
           fore == {i \in 0 .. n - 1 : At(new, last.scan + lenf - n + i) = At(old, last.pos + lenf - n + i)}
           back == {i \in 0 .. n - 1 : At(new, m.scan - lenb + i) = At(old, m.pos - lenb + i)}
           score == [i \in 0 .. n |-> Cardinality(fore \cap 0 .. i - 1) - Cardinality(back \cap 0 .. i - 1)]
           split == Best(score)
           len == Overlap(old, new, last, m, lenf, lenb)
<1>1. len = IF n > 0 THEN [f |-> lenf + split - n, b |-> lenb - split] ELSE [f |-> lenf, b |-> lenb]
  BY Zenon DEF Overlap
<1> HIDE DEF len, fore, back
<1>2. n \in Int /\ n = lenf + lenb - (m.scan - last.scan)
  OBVIOUS
<1>3. CASE n > 0
  <2>1. score \in [0 .. n -> Int]
    <3> HIDE DEF n
    <3>1. ASSUME NEW i \in 0 .. n, NEW T PROVE Cardinality(T \cap 0 .. i - 1) \in Int
      <4>1. T \cap 0 .. i - 1 \in SUBSET (0 .. i - 1) /\ 0 \in Int /\ i - 1 \in Int
        BY <1>2
      <4>2. Cardinality(T \cap 0 .. i - 1) \in Nat
        BY <4>1, CountIs
      <4>3. QED
        BY <4>2
    <3>2. QED
      BY <3>1, SMTT(60)
  <2>2. split \in 0 .. n
    <3>1. n \in Nat
      BY <1>2, <1>3
    <3> HIDE DEF n, score
    <3>2. QED
      BY <2>1, <3>1, BestIs
  <2>3. len.f = lenf + split - n /\ len.b = lenb - split
    BY <1>1, <1>3
  <2> HIDE DEF split, n
  <2>4. lenf \in Nat /\ lenb \in Nat /\ lenf <= m.scan - last.scan /\ lenb <= m.scan - last.scan
    OBVIOUS
  <2>5. QED
    BY <1>2, <2>2, <2>3, <2>4 DEF len
<1>4. CASE ~(n > 0)
  <2>1. len.f = lenf /\ len.b = lenb
    BY <1>1, <1>4
  <2>2. QED
    BY <1>2, <1>4, <2>1 DEF len
<1>5. QED
  BY <1>3, <1>4

LEMMA ExtendedIs ==
  ASSUME NEW S, NEW old \in Seq(S), NEW new \in Seq(S), NEW last, NEW m,
         last.scan \in Nat, m.scan \in last.scan .. Len(new),
         last.pos \in 0 .. Len(old), m.pos \in 0 .. Len(old)
  PROVE  LET len == Extended(old, new, last, m)
         IN /\ len.f \in Nat /\ last.pos + len.f <= Len(old)
            /\ len.b \in Nat /\ len.b <= m.pos
            /\ last.scan + len.f <= m.scan - len.b
            /\ m.scan = Len(new) => len.b = 0
<1> DEFINE f == Lesser(m.scan - last.scan, Len(old) - last.pos)
           b == IF m.scan < Len(new) THEN Lesser(m.scan - last.scan, m.pos) ELSE 0
           fore == {i \in 0 .. f - 1 : At(old, last.pos + i) = At(new, last.scan + i)}
           back == {i \in 0 .. b - 1 : At(old, m.pos - i - 1) = At(new, m.scan - i - 1)}
           Gain(same, n) == [i \in 0 .. n |-> 2 * Cardinality(same \cap 0 .. i - 1) - i]
           lenf == Best(Gain(fore, f))
           lenb == Best(Gain(back, b))
           len == Overlap(old, new, last, m, lenf, lenb)
<1>1. Extended(old, new, last, m) = len
  BY Zenon DEF Extended
<1>2. /\ f \in 0 .. m.scan - last.scan /\ f <= Len(old) - last.pos
      /\ b \in 0 .. m.scan - last.scan /\ b <= m.pos /\ (m.scan = Len(new) => b = 0)
  BY SMTT(60) DEF Lesser
<1> HIDE DEF f, b
<1>3. ASSUME NEW T, NEW n \in Nat PROVE Best(Gain(T, n)) \in 0 .. n
  <2>1. ASSUME NEW i \in 0 .. n PROVE 2 * Cardinality(T \cap 0 .. i - 1) - i \in Int
    <3>1. T \cap 0 .. i - 1 \in SUBSET (0 .. i - 1) /\ 0 \in Int /\ i - 1 \in Int
      OBVIOUS
    <3>2. Cardinality(T \cap 0 .. i - 1) \in Nat
      BY <3>1, CountIs
    <3>3. QED
      BY <3>2
  <2>2. Gain(T, n) \in [0 .. n -> Int]
    BY <2>1
  <2> HIDE DEF Gain
  <2>3. QED
    BY <2>2, BestIs
<1>4. lenf \in 0 .. f /\ lenb \in 0 .. b
  <2>1. f \in Nat /\ b \in Nat
    BY <1>2
  <2> HIDE DEF Gain
  <2>2. QED
    BY <1>3, <2>1
<1> HIDE DEF lenf, lenb
<1>5. m.scan \in Nat /\ last.scan <= m.scan /\ lenf \in 0 .. m.scan - last.scan /\ lenb \in 0 .. m.scan - last.scan
  BY <1>2, <1>4, SMTT(60)
<1>6. len.f \in 0 .. lenf /\ len.b \in 0 .. lenb /\ last.scan + len.f <= m.scan - len.b
  BY <1>5, OverlapIs
<1> HIDE DEF len
<1>7. QED
  BY <1>1, <1>2, <1>4, <1>6, SMTT(60)

-----------------------------------------------------------------------------
(* Matches one after the other                                             *)

\* A match lies in both files.
Lies(old, m) ==
  m.addNewStart + m.addLength <= m.copyEnd /\ m.addOldStart + m.addLength <= Len(old)

\* Matches one after the other, from a to b of the new file; the first from the start
\* of the old one.
Chain(old, s, a, b) ==
  /\ s \in Seq(MatchSet)
  /\ \A k \in 1 .. Len(s) : Lies(old, s[k]) /\ s[k].addNewStart = IF k = 1 THEN a ELSE s[k - 1].copyEnd
  /\ b = IF Len(s) = 0 THEN a ELSE s[Len(s)].copyEnd
  /\ Len(s) # 0 => s[1].addOldStart = 0

LEMMA ChainAppend ==
  ASSUME NEW old, NEW a, NEW b, NEW s, Chain(old, s, a, b), NEW m \in MatchSet, Lies(old, m),
         m.addNewStart = b, s = << >> => m.addOldStart = 0
  PROVE  Chain(old, Append(s, m), a, m.copyEnd)
<1> DEFINE t == Append(s, m)
           n == Len(s)
<1>1. s \in Seq(MatchSet) /\ n \in Nat
  BY DEF Chain
<1>2. t \in Seq(MatchSet) /\ Len(t) = n + 1 /\ t[n + 1] = m /\ \A k \in 1 .. n : t[k] = s[k]
  BY <1>1
<1>3. n = 0 <=> s = << >>
  BY <1>1
<1>4. /\ \A k \in 1 .. n : Lies(old, s[k]) /\ s[k].addNewStart = IF k = 1 THEN a ELSE s[k - 1].copyEnd
      /\ b = IF n = 0 THEN a ELSE s[n].copyEnd
      /\ n # 0 => s[1].addOldStart = 0
  BY DEF Chain
<1> HIDE DEF t, n
<1>5. ASSUME NEW k \in 1 .. n + 1
      PROVE  Lies(old, t[k]) /\ t[k].addNewStart = IF k = 1 THEN a ELSE t[k - 1].copyEnd
  <2>1. CASE k \in 1 .. n
    <3>1. k # 1 => k - 1 \in 1 .. n
      BY <1>1, <2>1
    <3>2. QED
      BY <1>2, <1>4, <2>1, <3>1
  <2>2. CASE k = n + 1
    <3>1. n # 0 => n \in 1 .. n /\ k # 1 /\ k - 1 = n
      BY <1>1, <2>2
    <3>2. n = 0 => k = 1
      BY <2>2
    <3>3. QED
      BY <1>2, <1>4, <2>2, <3>1, <3>2
  <2>3. QED
    BY <1>1, <2>1, <2>2
<1>6. t[1].addOldStart = 0
  <2>1. CASE n = 0
    BY <1>2, <1>3, <2>1
  <2>2. CASE n # 0
    <3>1. 1 \in 1 .. n
      BY <1>1, <2>2
    <3>2. QED
      BY <1>2, <1>4, <2>2, <3>1
  <2>3. QED
    BY <2>1, <2>2
<1>7. Len(t) # 0 /\ t[Len(t)].copyEnd = m.copyEnd
  BY <1>1, <1>2
<1>8. Chain(old, t, a, m.copyEnd)
  BY <1>2, <1>5, <1>6, <1>7 DEF Chain
<1>9. QED
  BY <1>8 DEF t

LEMMA ChainConcat ==
  ASSUME NEW old, NEW a, NEW b, NEW c, NEW s, NEW t, Chain(old, s, a, b), Chain(old, t, b, c)
  PROVE  Chain(old, s \o t, a, c)
<1> DEFINE u == s \o t
           n == Len(s)
           l == Len(t)
<1>1. s \in Seq(MatchSet) /\ t \in Seq(MatchSet) /\ n \in Nat /\ l \in Nat
  BY DEF Chain
<1>2. /\ u \in Seq(MatchSet) /\ Len(u) = n + l
      /\ \A k \in 1 .. n : u[k] = s[k]
      /\ \A k \in 1 .. l : u[n + k] = t[k]
  BY <1>1, ConcatFacts
<1>3. /\ \A k \in 1 .. n : Lies(old, s[k]) /\ s[k].addNewStart = IF k = 1 THEN a ELSE s[k - 1].copyEnd
      /\ b = IF n = 0 THEN a ELSE s[n].copyEnd
      /\ n # 0 => s[1].addOldStart = 0
      /\ \A k \in 1 .. l : Lies(old, t[k]) /\ t[k].addNewStart = IF k = 1 THEN b ELSE t[k - 1].copyEnd
      /\ c = IF l = 0 THEN b ELSE t[l].copyEnd
      /\ l # 0 => t[1].addOldStart = 0
  BY DEF Chain
<1> HIDE DEF u, n, l
<1>4. ASSUME NEW k \in 1 .. n + l
      PROVE  Lies(old, u[k]) /\ u[k].addNewStart = IF k = 1 THEN a ELSE u[k - 1].copyEnd
  <2>1. CASE k \in 1 .. n
    <3>1. k # 1 => k - 1 \in 1 .. n
      BY <1>1, <2>1
    <3>2. QED
      BY <1>2, <1>3, <2>1, <3>1
  <2>2. CASE k \notin 1 .. n
    <3>1. PICK j \in 1 .. l : k = n + j
      <4>1. k - n \in 1 .. l /\ k = n + (k - n)
        BY <1>1, <2>2
      <4>2. QED
        BY <4>1
    <3>2. u[k] = t[j] /\ Lies(old, t[j]) /\ t[j].addNewStart = IF j = 1 THEN b ELSE t[j - 1].copyEnd
      BY <1>2, <1>3, <3>1
    <3>3. CASE j = 1
      <4>1. n # 0 => n \in 1 .. n /\ k # 1 /\ k - 1 = n
        BY <1>1, <3>1, <3>3
      <4>2. n = 0 => k = 1
        BY <3>1, <3>3
      <4>3. QED
        BY <1>2, <1>3, <3>2, <3>3, <4>1, <4>2
    <3>4. CASE j # 1
      <4>1. j - 1 \in 1 .. l /\ k # 1 /\ k - 1 = n + (j - 1)
        BY <1>1, <3>1, <3>4
      <4>2. u[k - 1] = t[j - 1]
        BY <1>2, <4>1
      <4>3. QED
        BY <3>2, <3>4, <4>1, <4>2
    <3>5. QED
      BY <3>3, <3>4
  <2>3. QED
    BY <2>1, <2>2
<1>5. c = IF n + l = 0 THEN a ELSE u[n + l].copyEnd
  <2>1. CASE l = 0
    <3>1. n # 0 => n \in 1 .. n
      BY <1>1
    <3>2. QED
      BY <1>1, <1>2, <1>3, <2>1, <3>1
  <2>2. CASE l # 0
    <3>1. l \in 1 .. l /\ n + l # 0
      BY <1>1, <2>2
    <3>2. QED
      BY <1>2, <1>3, <2>2, <3>1
  <2>3. QED
    BY <2>1, <2>2
<1>6. n + l # 0 => u[1].addOldStart = 0
  <2>1. CASE n = 0
    <3>1. l # 0 => 1 \in 1 .. l /\ n + 1 = 1
      BY <1>1, <2>1
    <3>2. QED
      BY <1>2, <1>3, <2>1, <3>1
  <2>2. CASE n # 0
    <3>1. 1 \in 1 .. n
      BY <1>1, <2>2
    <3>2. QED
      BY <1>2, <1>3, <2>2, <3>1
  <2>3. QED
    BY <2>1, <2>2
<1>7. Chain(old, u, a, c)
  BY <1>2, <1>4, <1>5, <1>6 DEF Chain
<1>8. QED
  BY <1>7 DEF u

LEMMA ChainEmpty ==
  ASSUME NEW old, NEW a
  PROVE  Chain(old, << >>, a, a)
  BY DEF Chain

\* Where the scan of a block of l bytes may be: what it has found so far reaches to
\* where its last match began.
Scans(old, at, l) ==
  {g \in [scan : 0 .. l, pos : 0 .. Len(old), n : Nat,
          last : [scan : 0 .. l, pos : 0 .. Len(old), offset : Int], matches : Seq(MatchSet)] :
     /\ g.scan = l \/ g.scan + g.n <= l
     /\ g.last.scan <= g.scan
     /\ g.scan = l => g.last.scan = l
     /\ g.matches = << >> => g.last.pos = 0
     /\ Chain(old, g.matches, at, at + g.last.scan)}

\* A turn keeps to that and passes a byte, if any is left.
LEMMA ScanOnIs ==
  ASSUME NEW S, NEW old \in Seq(S), NEW new \in Seq(S), NEW at \in Nat,
         NEW hits \in [0 .. Len(new) - 1 -> [pos : 0 .. Len(old), n : Nat]],
         \A i \in 0 .. Len(new) - 1 : hits[i].n <= Len(new) - i,
         NEW g \in Scans(old, at, Len(new))
  PROVE  LET h == ScanOn(old, new, hits, at, g)
         IN /\ h \in Scans(old, at, Len(new))
            /\ h.scan = Len(new) \/ (g.scan # Len(new) /\ h.scan + h.n > g.scan + g.n)
<1> DEFINE l == Len(new)
           scan == g.scan + g.n
           m == IF scan = l THEN [scan |-> scan, pos |-> g.pos, n |-> g.n, better |-> TRUE]
                ELSE NextMatch(old, new, hits, g.last.offset, scan)
           len == Extended(old, new, g.last, m)
           next == [g EXCEPT !.scan = m.scan, !.pos = m.pos, !.n = m.n]
           match == [addOldStart |-> g.last.pos, addNewStart |-> g.last.scan + at,
                     addLength |-> len.f, copyEnd |-> m.scan - len.b + at]
           late == [scan |-> m.scan - len.b, pos |-> m.pos - len.b, offset |-> m.pos - m.scan]
           h == ScanOn(old, new, hits, at, g)
<1>1. h = IF g.scan = l THEN g ELSE IF ~m.better THEN next
          ELSE [next EXCEPT !.last = late, !.matches = Append(@, match)]
  BY Zenon DEF ScanOn
<1>2. /\ g \in [scan : 0 .. l, pos : 0 .. Len(old), n : Nat,
               last : [scan : 0 .. l, pos : 0 .. Len(old), offset : Int], matches : Seq(MatchSet)]
      /\ g.scan = l \/ g.scan + g.n <= l
      /\ g.last.scan <= g.scan
      /\ g.scan = l => g.last.scan = l
      /\ g.matches = << >> => g.last.pos = 0
      /\ Chain(old, g.matches, at, at + g.last.scan)
  BY DEF Scans
<1>3. /\ g.scan \in 0 .. l /\ g.pos \in 0 .. Len(old) /\ g.n \in Nat /\ g.matches \in Seq(MatchSet)
      /\ g.last \in [scan : 0 .. l, pos : 0 .. Len(old), offset : Int]
      /\ g.last.scan \in 0 .. l /\ g.last.pos \in 0 .. Len(old) /\ g.last.offset \in Int
      /\ g = [scan |-> g.scan, pos |-> g.pos, n |-> g.n, last |-> g.last, matches |-> g.matches]
      /\ l \in Nat
  BY <1>2, SMTT(60)
<1>4. CASE g.scan = l
  <2>1. h = g
    BY <1>1, <1>4
  <2> HIDE DEF h
  <2>2. QED
    BY <1>4, <2>1 DEF h
<1>5. CASE g.scan # l
  <2>1. scan \in 0 .. l /\ g.scan <= scan
    BY <1>2, <1>3, <1>5, SMTT(60)
  <2>2. /\ m.scan \in scan .. l /\ m.pos \in 0 .. Len(old) /\ m.n \in Nat
        /\ m.scan < l => m.scan + m.n <= l
        /\ m.scan = l \/ m.scan + m.n > scan
        /\ m.scan = l => m.better
    <3>1. CASE scan = l
      BY <1>3, <2>1, <3>1, SMTT(60)
    <3>2. CASE scan # l
      <4>1. m = NextMatch(old, new, hits, g.last.offset, scan) /\ scan \in 0 .. Len(new) - 1
        BY <1>3, <2>1, <3>2, SMTT(60)
      <4> HIDE DEF m, scan
      <4>2. QED
        BY <1>3, <4>1, NextMatchIs
    <3>3. QED
      BY <3>1, <3>2
  <2> HIDE DEF m, scan, h
  <2>3. /\ len.f \in Nat /\ g.last.pos + len.f <= Len(old)
        /\ len.b \in Nat /\ len.b <= m.pos
        /\ g.last.scan + len.f <= m.scan - len.b
        /\ m.scan = l => len.b = 0
    <3>1. g.last.scan \in Nat /\ m.scan \in g.last.scan .. Len(new)
      BY <1>2, <1>3, <2>1, <2>2, SMTT(60)
    <3>2. QED
      BY <1>3, <2>2, <3>1, ExtendedIs
  <2> HIDE DEF len, l
  <2>4. /\ next \in [scan : 0 .. l, pos : 0 .. Len(old), n : Nat,
                    last : [scan : 0 .. l, pos : 0 .. Len(old), offset : Int], matches : Seq(MatchSet)]
        /\ next.scan = m.scan /\ next.pos = m.pos /\ next.n = m.n /\ next.last = g.last /\ next.matches = g.matches
    <3>1. m.scan \in 0 .. l /\ m.pos \in 0 .. Len(old) /\ m.n \in Nat
      BY <2>1, <2>2
    <3>2. QED
      BY <1>2, <3>1
  <2> HIDE DEF next
  <2>5. m.scan \in 0 .. l /\ (m.scan = l \/ m.scan + m.n <= l) /\ g.last.scan <= m.scan
    BY <1>2, <1>3, <2>1, <2>2, SMTT(120)
  <2>6. CASE ~m.better
    <3>1. h = next
      BY <1>1, <1>5, <2>6
    <3>2. next \in Scans(old, at, l)
      BY <1>2, <1>3, <2>2, <2>4, <2>5, <2>6 DEF Scans
    <3>3. QED
      BY <1>5, <2>2, <2>4, <3>1, <3>2, SMTT(60) DEF h, l, scan
  <2>7. CASE m.better
    <3>1. h = [next EXCEPT !.last = late, !.matches = Append(@, match)]
      BY <1>1, <1>5, <2>7
    <3>2. /\ late \in [scan : 0 .. l, pos : 0 .. Len(old), offset : Int]
          /\ late.scan = m.scan - len.b /\ late.scan <= m.scan /\ (m.scan = l => late.scan = l)
      <4>1. /\ m.scan - len.b \in 0 .. l /\ m.scan - len.b <= m.scan
            /\ m.pos - len.b \in 0 .. Len(old) /\ m.pos - m.scan \in Int
            /\ m.scan = l => m.scan - len.b = l
        <5>1. m.scan \in Nat /\ m.scan <= l /\ m.pos \in Nat /\ m.pos <= Len(old) /\ g.last.scan \in Nat /\ Len(old) \in Nat
          BY <1>3, <2>2, <2>5, SMTT(60)
        <5>2. l \in Nat
          BY <1>3
        <5>3. len.f \in Nat /\ len.b \in Nat /\ len.b <= m.pos /\ g.last.scan + len.f <= m.scan - len.b /\ (m.scan = l => len.b = 0)
          BY <2>3
        <5>4. m.scan - len.b >= 0
          BY <5>1, <5>3, SMTT(60)
        <5>5. m.scan - len.b <= l
          BY <5>1, <5>2, <5>3, SMTT(60)
        <5>6. m.scan - len.b \in 0 .. l
          BY <5>1, <5>2, <5>3, <5>4, <5>5, SMTT(60)
        <5>7. m.pos - len.b \in 0 .. Len(old)
          BY <5>1, <5>3, SMTT(60)
        <5>8. m.scan = l => m.scan - len.b = l
          BY <5>1, <5>2, <5>3
        <5>9. QED
          BY <5>1, <5>3, <5>6, <5>7, <5>8, SMTT(60)
      <4>2. late.scan = m.scan - len.b /\ late.pos = m.pos - len.b /\ late.offset = m.pos - m.scan
        OBVIOUS
      <4>3. QED
        BY <4>1
    <3>3. match \in MatchSet /\ Lies(old, match) /\ match.copyEnd = at + late.scan
          /\ match.addNewStart = at + g.last.scan /\ match.addOldStart = g.last.pos
      <4>1. /\ g.last.pos \in Nat /\ g.last.scan + at \in Nat /\ len.f \in Nat /\ m.scan - len.b + at \in Nat
            /\ (g.last.scan + at) + len.f <= m.scan - len.b + at
            /\ g.last.pos + len.f <= Len(old) /\ m.scan - len.b + at = at + (m.scan - len.b)
            /\ g.last.scan + at = at + g.last.scan
        <5>1. g.last.pos \in Nat /\ g.last.scan \in Nat
          BY <1>3, SMTT(60)
        <5>2. m.scan \in Nat
          BY <2>5
        <5>3. /\ len.f \in Nat /\ len.b \in Nat /\ g.last.pos + len.f <= Len(old)
              /\ g.last.scan + len.f <= m.scan - len.b
          BY <2>3
        <5>4. m.scan - len.b \in Nat
          BY <5>1, <5>2, <5>3, SMTT(60)
        <5>5. /\ g.last.scan + at \in Nat /\ m.scan - len.b + at \in Nat
              /\ (g.last.scan + at) + len.f <= m.scan - len.b + at
          <6>1. PICK x, y, z : x = g.last.scan /\ y = len.f /\ z = m.scan - len.b
            OBVIOUS
          <6>2. x \in Nat /\ y \in Nat /\ z \in Nat /\ x + y <= z /\ at \in Nat
            BY <5>1, <5>3, <5>4, <6>1
          <6>3. x + at \in Nat /\ z + at \in Nat /\ (x + at) + y <= z + at
            BY ONLY <6>2
          <6>4. QED
            BY <6>1, <6>3, Zenon
        <5>6. m.scan - len.b + at = at + (m.scan - len.b) /\ g.last.scan + at = at + g.last.scan
          BY <5>1, <5>4, SMTT(60)
        <5>7. QED
          BY <5>1, <5>3, <5>5, <5>6
      <4>2. match.addOldStart = g.last.pos /\ match.addNewStart = g.last.scan + at
            /\ match.addLength = len.f /\ match.copyEnd = m.scan - len.b + at
        OBVIOUS
      <4>3. match \in MatchSet
        BY <4>1 DEF MatchSet
      <4> HIDE DEF match, late
      <4>4. QED
        BY <3>2, <4>1, <4>2, <4>3 DEF Lies
    <3> HIDE DEF match, late
    <3>4. Chain(old, Append(g.matches, match), at, at + late.scan)
      <4>1. Chain(old, Append(g.matches, match), at, match.copyEnd)
        BY <1>2, <3>3, ChainAppend
      <4>2. QED
        BY <3>3, <4>1
    <3>5. Append(g.matches, match) \in Seq(MatchSet) /\ Append(g.matches, match) # << >>
      <4>1. g.matches \in Seq(MatchSet) /\ match \in MatchSet
        BY <1>3, <3>3
      <4>2. \A V : \A s \in Seq(V), x \in V : Append(s, x) \in Seq(V) /\ Append(s, x) # << >>
        BY SMTT(60)
      <4>3. QED
        BY <4>1, <4>2, Zenon
    <3>6. /\ h \in [scan : 0 .. l, pos : 0 .. Len(old), n : Nat,
                    last : [scan : 0 .. l, pos : 0 .. Len(old), offset : Int], matches : Seq(MatchSet)]
          /\ h.scan = m.scan /\ h.n = m.n /\ h.last = late /\ h.matches = Append(g.matches, match)
      BY <2>4, <3>1, <3>2, <3>5
    <3>7. h \in Scans(old, at, l)
      BY <2>2, <2>5, <3>2, <3>4, <3>5, <3>6 DEF Scans
    <3>8. QED
      BY <1>5, <2>2, <3>6, <3>7 DEF h, l, scan
  <2>8. QED
    BY <2>6, <2>7
<1>6. QED
  BY <1>4, <1>5

\* The matches of a block go from its start to its end.
LEMMA AnalyzeBlockIs ==
  ASSUME NEW S, NEW old \in Seq(S), NEW p \in 1 .. Len(old), NEW new \in Seq(S), new # << >>, NEW at \in Nat
  PROVE  Chain(old, AnalyzeBlock(old, NewPSA(old, p), new, at), at, at + Len(new))
<1> DEFINE l == Len(new)
           n == l + 1
           psa == NewPSA(old, p)
           hits == [i \in 0 .. l - 1 |-> SearchAll(psa, From(new, i))]
           V == Scans(old, at, l)
           v == [scan |-> 0, pos |-> 0, n |-> 0, last |-> [scan |-> 0, pos |-> 0, offset |-> 0], matches |-> << >>]
           turn == CHOOSE f : f = [k \in 0 .. l + 1 |-> IF k = 0 THEN v ELSE ScanOn(old, new, hits, at, f[k - 1])]
           step == [k \in 1 .. n |-> [g \in V |-> ScanOn(old, new, hits, at, g)]]
<1>1. l \in Nat /\ l >= 1 /\ n \in Nat
  OBVIOUS
<1>2. AnalyzeBlock(old, psa, new, at) = turn[n].matches
  BY Zenon DEF AnalyzeBlock
<1> HIDE DEF psa
<1>3. /\ hits \in [0 .. Len(new) - 1 -> [pos : 0 .. Len(old), n : Nat]]
      /\ \A i \in 0 .. Len(new) - 1 : hits[i].n <= Len(new) - i
  <2>1. ASSUME NEW i \in 0 .. l - 1
        PROVE  SearchAll(psa, From(new, i)) \in [pos : 0 .. Len(old), n : 0 .. l - i]
    <3>1. From(new, i) \in Seq(S) /\ Len(From(new, i)) = l - i
      BY FromSubSeq
    <3>2. SearchAll(psa, From(new, i)) \in [pos : 0 .. Len(old), n : 0 .. Len(From(new, i))]
      BY <3>1, SearchAllIs DEF psa
    <3>3. QED
      BY <3>1, <3>2
  <2>2. \A i \in 0 .. l - 1 : /\ SearchAll(psa, From(new, i)) \in [pos : 0 .. Len(old), n : Nat]
                             /\ SearchAll(psa, From(new, i)).n <= l - i
    BY <2>1
  <2>3. QED
    BY <2>2
<1> HIDE DEF hits
<1>4. v \in V
  <2>1. /\ v.scan = 0 /\ v.n = 0 /\ v.last.scan = 0 /\ v.last.pos = 0 /\ v.matches = << >>
        /\ v \in [scan : 0 .. l, pos : 0 .. Len(old), n : Nat,
                  last : [scan : 0 .. l, pos : 0 .. Len(old), offset : Int], matches : Seq(MatchSet)]
    BY <1>1
  <2>2. Chain(old, << >>, at, at + 0)
    BY ChainEmpty
  <2> HIDE DEF v
  <2>3. QED
    BY <1>1, <2>1, <2>2, SMTT(60) DEF Scans
<1>5. ASSUME NEW g \in V
      PROVE  /\ ScanOn(old, new, hits, at, g) \in V
             /\ \/ ScanOn(old, new, hits, at, g).scan = l
                \/ /\ g.scan # l
                   /\ ScanOn(old, new, hits, at, g).scan + ScanOn(old, new, hits, at, g).n > g.scan + g.n
  BY <1>3, ScanOnIs, Zenon
<1>6. /\ step \in [1 .. n -> [V -> V]]
      /\ \A k \in 1 .. n : \A g \in V : step[k][g] = ScanOn(old, new, hits, at, g)
  <2>1. \A g \in V : ScanOn(old, new, hits, at, g) \in V
    BY <1>5
  <2> HIDE DEF V, n
  <2>2. QED
    BY <2>1
<1> HIDE DEF step, V
<1>7. PICK f : RecursFromZero(f, V, n, v, step)
  <2> HIDE DEF n, v
  <2>1. QED
    BY <1>1, <1>4, <1>6, RecursionFromZero
<1>8. f \in [0 .. n -> V] /\ \A k \in 0 .. n : f[k] = IF k = 0 THEN v ELSE step[k][f[k - 1]]
  BY <1>7, Zenon DEF RecursFromZero
<1> HIDE DEF v
<1>9. ASSUME NEW k \in 0 .. n PROVE f[k] = IF k = 0 THEN v ELSE ScanOn(old, new, hits, at, f[k - 1])
  <2>1. k # 0 => k \in 1 .. n /\ k - 1 \in 0 .. n
    BY <1>1
  <2>2. k # 0 => f[k - 1] \in V
    BY <1>8, <2>1
  <2>3. k # 0 => step[k][f[k - 1]] = ScanOn(old, new, hits, at, f[k - 1])
    BY <1>6, <2>1, <2>2
  <2>4. QED
    BY <1>8, <2>3
<1>10. f = [k \in 0 .. n |-> IF k = 0 THEN v ELSE ScanOn(old, new, hits, at, f[k - 1])]
  <2>1. f = [k \in 0 .. n |-> f[k]]
    BY <1>8
  <2>2. [k \in 0 .. n |-> f[k]] = [k \in 0 .. n |-> IF k = 0 THEN v ELSE ScanOn(old, new, hits, at, f[k - 1])]
    BY <1>9, Zenon
  <2>3. QED
    BY <2>1, <2>2, Zenon
<1>11. turn = [k \in 0 .. n |-> IF k = 0 THEN v ELSE ScanOn(old, new, hits, at, turn[k - 1])]
  BY <1>10, Zenon
<1> HIDE DEF turn
<1>12. \A k \in 0 .. n : turn[k] = IF k = 0 THEN v ELSE ScanOn(old, new, hits, at, turn[k - 1])
  BY <1>11, Zenon
<1> DEFINE T == {k \in Int : turn[k] \in V /\ (turn[k].scan = l \/ turn[k].scan + turn[k].n >= k)}
<1>13. ASSUME NEW g \in V PROVE g.scan \in 0 .. l /\ g.n \in Nat /\ (g.scan = l \/ g.scan + g.n <= l)
  BY DEF V, Scans
<1>14. 0 <= n => 0 \in T
  <2>1. 0 \in 0 .. n
    BY <1>1
  <2>2. turn[0] = v
    BY <1>12, <2>1, Zenon
  <2>3. v.scan \in 0 .. l /\ v.n \in Nat
    BY <1>4, <1>13
  <2>4. v.scan + v.n >= 0
    BY <1>1, <2>3
  <2>5. QED
    BY <1>4, <2>2, <2>4
<1>15. ASSUME NEW k \in 0 .. n - 1, k \in T PROVE k + 1 \in T
  <2>1. k + 1 \in 0 .. n /\ k + 1 # 0 /\ (k + 1) - 1 = k /\ k + 1 \in Int
    BY <1>1
  <2>2. turn[k + 1] = ScanOn(old, new, hits, at, turn[(k + 1) - 1])
    BY <1>12, <2>1, Zenon
  <2>3. PICK g, h : g = turn[k] /\ h = turn[k + 1]
    OBVIOUS
  <2>4. h = ScanOn(old, new, hits, at, g) /\ g \in V /\ (g.scan = l \/ g.scan + g.n >= k)
    BY <1>15, <2>1, <2>2, <2>3
  <2>5. h \in V /\ (h.scan = l \/ (g.scan # l /\ h.scan + h.n > g.scan + g.n))
    BY <1>5, <2>4
  <2>6. g.scan \in 0 .. l /\ g.n \in Nat /\ h.scan \in 0 .. l /\ h.n \in Nat
    BY <1>13, <2>4, <2>5
  <2>7. h.scan = l \/ h.scan + h.n >= k + 1
    BY <1>1, <2>4, <2>5, <2>6, SMTT(60)
  <2>8. QED
    BY <2>1, <2>3, <2>5, <2>7
<1>16. n \in T
  <2>1. 0 \in Int /\ n \in Int /\ n \in 0 .. n
    BY <1>1
  <2> HIDE DEF T, n
  <2>2. 0 .. n \subseteq T
    BY <1>14, <1>15, <2>1, RangeInduction, Zenon
  <2>3. QED
    BY <2>1, <2>2
<1>17. PICK g : g = turn[n] /\ g \in V /\ (g.scan = l \/ g.scan + g.n >= n)
  BY <1>16
<1>18. g.scan = l
  BY <1>1, <1>13, <1>17
<1>19. Chain(old, g.matches, at, at + l)
  BY <1>17, <1>18 DEF V, Scans
<1>20. QED
  BY <1>2, <1>17, <1>19 DEF psa

-----------------------------------------------------------------------------
(* Control messages                                                        *)

\* A byte's difference to another gives it back.
LEMMA ModIs ==
  ASSUME NEW n \in Nat \ {0}, NEW r \in 0 .. n - 1
  PROVE  r % n = r /\ (r + n) % n = r /\ (r - n) % n = r
<1>1. ASSUME NEW x \in Int, NEW q \in {-1, 0, 1}, x = n * q + r PROVE x % n = r
  <2>1. x \div n \in Int /\ x % n \in 0 .. n - 1 /\ x = n * (x \div n) + (x % n)
    OBVIOUS
  <2>2. PICK d \in Int : d = x \div n
    BY <2>1
  <2>3. n * d + (x % n) = n * q + r
    BY <1>1, <2>1, <2>2
  <2>4. d = q
    <3>1. n * d - n * q = r - (x % n)
      <4>1. n * d \in Int /\ n * q \in Int
        BY <2>2
      <4>2. QED
        BY <2>1, <2>3, <4>1
    <3>2. r - (x % n) < n /\ r - (x % n) > -n
      BY <2>1
    <3>3. PICK e \in Int : d = q + e
      <4>1. d - q \in Int /\ d = q + (d - q)
        BY <2>2
      <4>2. QED
        BY <4>1
    <3>4. n * d = n * q + n * e /\ n * e \in Int
      BY <3>3
    <3>5. n * e < n /\ n * e > -n
      <4>1. n * q \in Int
        OBVIOUS
      <4>2. n * e = r - (x % n)
        BY <3>1, <3>4, <4>1
      <4>3. QED
        BY <3>2, <4>2
    <3>6. e >= 1 => n * e >= n
      <4>1. e >= 1 => \E h \in Nat : e = 1 + h
        <5>1. e >= 1 => e - 1 \in Nat /\ e = 1 + (e - 1)
          OBVIOUS
        <5>2. QED
          BY <5>1
      <4>2. ASSUME NEW h \in Nat, e = 1 + h PROVE n * e >= n
        <5>1. n * e = n + n * h /\ n * h \in Nat
          BY <4>2
        <5>2. QED
          BY <5>1
      <4>3. QED
        BY <4>1, <4>2
    <3>7. e <= -1 => n * e <= -n
      <4>1. e <= -1 => \E h \in Nat : e = -1 - h
        <5>1. e <= -1 => -1 - e \in Nat /\ e = -1 - (-1 - e)
          OBVIOUS
        <5>2. QED
          BY <5>1
      <4>2. ASSUME NEW h \in Nat, e = -1 - h PROVE n * e <= -n
        <5>1. n * e = -n - n * h /\ n * h \in Nat
          BY <4>2
        <5>2. QED
          BY <5>1
      <4>3. QED
        BY <4>1, <4>2
    <3>8. e = 0
      <4>1. ~(e >= 1) /\ ~(e <= -1)
        BY <3>4, <3>5, <3>6, <3>7
      <4>2. QED
        BY <4>1
    <3>9. QED
      BY <3>3, <3>8
  <2>5. n * q \in Int
    OBVIOUS
  <2>6. QED
    BY <2>1, <2>3, <2>4, <2>5
<1>2. n * 0 = 0 /\ n * 1 = n /\ n * (-1) = -n
  OBVIOUS
<1>3. r = n * 0 + r /\ r + n = n * 1 + r /\ r - n = n * (-1) + r
  BY <1>2
<1>4. r \in Int /\ r + n \in Int /\ r - n \in Int /\ 0 \in {-1, 0, 1} /\ 1 \in {-1, 0, 1} /\ -1 \in {-1, 0, 1}
  OBVIOUS
<1>5. QED
  BY <1>1, <1>3, <1>4

LEMMA ByteBack ==
  ASSUME NEW w \in Bytes, NEW o \in Bytes
  PROVE  (o + ((w - o) % Values)) % Values = w
<1>1. Values \in Nat \ {0} /\ w \in 0 .. Values - 1 /\ o \in 0 .. Values - 1
  BY ValuesAssumption DEF Bytes
<1>2. CASE w >= o
  <2>1. w - o \in 0 .. Values - 1
    BY <1>1, <1>2
  <2>2. (w - o) % Values = w - o /\ w % Values = w
    BY <1>1, <2>1, ModIs
  <2>3. o + (w - o) = w
    BY <1>1
  <2>4. QED
    BY <2>2, <2>3
<1>3. CASE ~(w >= o)
  <2>1. PICK r \in 0 .. Values - 1 : r - Values = w - o
    <3>1. w - o + Values \in 0 .. Values - 1 /\ (w - o + Values) - Values = w - o
      BY <1>1, <1>3
    <3>2. QED
      BY <3>1
  <2>2. (w - o) % Values = r /\ (w + Values) % Values = w
    BY <1>1, <2>1, ModIs
  <2>3. o + r = w + Values
    BY <1>1, <2>1
  <2>4. QED
    BY <2>2, <2>3
<1>4. QED
  BY <1>2, <1>3

\* Two parts of a sequence, the second from where the first ends.
LEMMA Glue ==
  ASSUME NEW S, NEW s \in Seq(S), NEW i \in 0 .. Len(s), NEW j \in i .. Len(s)
  PROVE  SubSeq(s, 1, i) \o SubSeq(s, i + 1, j) = SubSeq(s, 1, j)
<1> DEFINE a == SubSeq(s, 1, i)
           b == SubSeq(s, i + 1, j)
           c == SubSeq(s, 1, j)
<1>1. /\ a \in Seq(S) /\ Len(a) = i /\ \A k \in 1 .. i : a[k] = s[k]
      /\ b \in Seq(S) /\ Len(b) = j - i /\ \A k \in 1 .. j - i : b[k] = s[i + k]
      /\ c \in Seq(S) /\ Len(c) = j /\ \A k \in 1 .. j : c[k] = s[k]
  OBVIOUS
<1> HIDE DEF a, b, c
<1>2. /\ a \o b \in Seq(S) /\ Len(a \o b) = j
      /\ \A k \in 1 .. i : (a \o b)[k] = a[k]
      /\ \A k \in 1 .. j - i : (a \o b)[i + k] = b[k]
  <2>1. /\ a \o b \in Seq(S) /\ Len(a \o b) = Len(a) + Len(b)
        /\ \A k \in 1 .. Len(a) : (a \o b)[k] = a[k]
        /\ \A k \in 1 .. Len(b) : (a \o b)[Len(a) + k] = b[k]
    <3>1. a \in Seq(S) /\ b \in Seq(S)
      BY <1>1
    <3>2. QED
      BY ONLY <3>1, ConcatFacts
  <2>2. Len(a) = i /\ Len(b) = j - i /\ i + (j - i) = j
    BY <1>1
  <2>3. QED
    BY <2>1, <2>2
<1>3. ASSUME NEW k \in 1 .. j PROVE (a \o b)[k] = c[k]
  <2>1. CASE k \in 1 .. i
    BY <1>1, <1>2, <2>1
  <2>2. CASE k \notin 1 .. i
    <3>1. k - i \in 1 .. j - i /\ i + (k - i) = k
      BY <2>2
    <3>2. (a \o b)[i + (k - i)] = b[k - i] /\ b[k - i] = s[i + (k - i)]
      BY <1>1, <1>2, <3>1, SMTT(60)
    <3>3. QED
      BY <1>1, <3>1, <3>2, SMTT(60)
  <2>3. QED
    BY <2>1, <2>2
<1>4. a \o b = c
  BY <1>1, <1>2, <1>3, SameSequence
<1>5. QED
  BY <1>4 DEF a, b, c

\* No match of a chain goes on after its end.
LEMMA ChainWithin ==
  ASSUME NEW old, NEW a, NEW b, NEW s, Chain(old, s, a, b)
  PROVE  \A k \in 1 .. Len(s) : s[k].copyEnd <= b
<1> DEFINE n == Len(s)
           T == {k \in Int : \A j \in 1 .. k : s[j].copyEnd <= s[k].copyEnd}
<1>1. /\ s \in Seq(MatchSet) /\ n \in Nat
      /\ \A k \in 1 .. n : Lies(old, s[k]) /\ s[k].addNewStart = IF k = 1 THEN a ELSE s[k - 1].copyEnd
      /\ b = IF n = 0 THEN a ELSE s[n].copyEnd
  BY DEF Chain
<1>2. ASSUME NEW k \in 1 .. n
      PROVE  s[k].addNewStart \in Nat /\ s[k].addLength \in Nat /\ s[k].copyEnd \in Nat
             /\ s[k].addNewStart <= s[k].copyEnd
  <2>1. s[k] \in MatchSet /\ Lies(old, s[k])
    BY <1>1
  <2>2. QED
    BY <2>1 DEF MatchSet, Lies
<1> HIDE DEF n
<1>3. 1 <= n => 1 \in T
  <2>1. 1 <= n => 1 \in 1 .. n
    BY <1>1
  <2>2. \A j \in 1 .. 1 : j = 1
    OBVIOUS
  <2>3. 1 <= n => s[1].copyEnd <= s[1].copyEnd
    BY <1>2, <2>1
  <2>4. QED
    BY <2>2, <2>3
<1>4. ASSUME NEW k \in 1 .. n - 1, k \in T PROVE k + 1 \in T
  <2>1. k \in 1 .. n /\ k + 1 \in 1 .. n /\ k + 1 # 1 /\ (k + 1) - 1 = k /\ k + 1 \in Int
    BY <1>1
  <2>2. s[k + 1].addNewStart = s[k].copyEnd
    BY <1>1, <2>1
  <2>3. s[k].copyEnd \in Nat /\ s[k + 1].copyEnd \in Nat /\ s[k].copyEnd <= s[k + 1].copyEnd
    BY <1>2, <2>1, <2>2
  <2>4. ASSUME NEW j \in 1 .. k + 1 PROVE s[j].copyEnd <= s[k + 1].copyEnd
    <3>1. CASE j = k + 1
      BY <2>3, <3>1
    <3>2. CASE j \in 1 .. k
      <4>1. s[j].copyEnd <= s[k].copyEnd /\ j \in 1 .. n
        BY <1>1, <1>4, <3>2
      <4>2. s[j].copyEnd \in Nat
        BY <1>2, <4>1
      <4>3. QED
        BY <2>3, <4>1, <4>2
    <3>3. QED
      BY <2>1, <3>1, <3>2
  <2>5. QED
    BY <2>1, <2>4
<1>5. 1 .. n \subseteq T
  <2>1. 1 \in Int /\ n \in Int
    BY <1>1
  <2> HIDE DEF T
  <2>2. QED
    BY <1>3, <1>4, <2>1, RangeInduction, Zenon
<1>6. ASSUME NEW k \in 1 .. n PROVE s[k].copyEnd <= b
  <2>1. n \in 1 .. n /\ n # 0
    BY <1>1
  <2>2. n \in T
    BY <1>5, <2>1
  <2>3. s[k].copyEnd <= s[n].copyEnd
    BY <2>2
  <2>4. QED
    BY <1>1, <2>1, <2>3
<1>7. QED
  BY <1>6 DEF n

\* What a message adds to what its place in the old file has are the bytes of the new
\* one.
LEMMA AddIs ==
  ASSUME NEW old \in Seq(Bytes), NEW new \in Seq(Bytes), NEW m \in MatchSet, Lies(old, m), m.copyEnd <= Len(new),
         NEW add,
         \A l \in 1 .. m.addLength :
           add[l] = (At(new, m.addNewStart + l - 1) - At(old, m.addOldStart + l - 1)) % Values
  PROVE  \A l \in 1 .. m.addLength : (At(old, m.addOldStart + l - 1) + add[l]) % Values = new[m.addNewStart + l]
<1> TAKE l \in 1 .. m.addLength
<1> DEFINE x == m.addNewStart
           y == m.addOldStart
           n == m.addLength
<1>1. x \in Nat /\ y \in Nat /\ n \in Nat /\ x + n <= Len(new) /\ y + n <= Len(old)
  BY SMTT(60) DEF MatchSet, Lies
<1>2. (y + l - 1) + 1 = y + l /\ (x + l - 1) + 1 = x + l /\ y + l \in 1 .. Len(old) /\ x + l \in 1 .. Len(new)
  <2>1. Len(old) \in Nat /\ Len(new) \in Nat /\ l \in Nat /\ l >= 1 /\ l <= n
    BY <1>1, SMTT(60)
  <2> HIDE DEF x, y, n
  <2>2. QED
    BY <1>1, <2>1
<1>3. At(old, y + l - 1) = old[y + l] /\ At(new, x + l - 1) = new[x + l]
  BY <1>2, Zenon DEF At
<1>4. old[y + l] \in Bytes /\ new[x + l] \in Bytes
  BY <1>2
<1>5. add[l] = (new[x + l] - old[y + l]) % Values
  BY <1>3
<1>6. (old[y + l] + ((new[x + l] - old[y + l]) % Values)) % Values = new[x + l]
  BY <1>4, ByteBack
<1>7. QED
  BY <1>3, <1>5, <1>6, Zenon

LEMMA SubSeqIs ==
  ASSUME NEW S, NEW s \in Seq(S), NEW x \in Nat, NEW n \in Nat, x + n <= Len(s)
  PROVE  SubSeq(s, x + 1, x + n) = [l \in 1 .. n |-> s[x + l]]
<1> DEFINE u == SubSeq(s, x + 1, x + n)
<1>1. u \in Seq(S) /\ Len(u) = n /\ \A i \in 1 .. n : u[i] = s[x + i]
  BY SMTT(120)
<1> HIDE DEF u
<1>2. u = [l \in 1 .. n |-> s[x + l]]
  BY <1>1
<1>3. QED
  BY <1>2 DEF u

\* Applying the messages of a chain of matches that ends with the new file makes it.
LEMMA AppliedIs ==
  ASSUME NEW old \in Seq(Bytes), NEW new \in Seq(Bytes), NEW ms, Chain(old, ms, 0, Len(new))
  PROVE  Applied(old, Controls(old, new, ms)) = new
<1> DEFINE n == Len(ms)
           cs == Controls(old, new, ms)
           end(k) == IF k = 0 THEN 0 ELSE ms[k].copyEnd
           start(k) == IF k = n THEN IF n = 0 THEN 0 ELSE ms[n].addOldStart + ms[n].addLength
                       ELSE ms[k + 1].addOldStart
           f == [k \in 0 .. n |-> [out |-> SubSeq(new, 1, end(k)), at |-> start(k)]]
           e(g, k) == IF k = 0 THEN [out |-> << >>, at |-> 0] ELSE Apply(old, g[k - 1], cs[k])
           after == CHOOSE g : g = [k \in 0 .. Len(cs) |->
                                      IF k = 0 THEN [out |-> << >>, at |-> 0] ELSE Apply(old, g[k - 1], cs[k])]
<1>1. /\ ms \in Seq(MatchSet) /\ n \in Nat
      /\ \A k \in 1 .. n : Lies(old, ms[k]) /\ ms[k].addNewStart = IF k = 1 THEN 0 ELSE ms[k - 1].copyEnd
      /\ Len(new) = IF n = 0 THEN 0 ELSE ms[n].copyEnd
      /\ n # 0 => ms[1].addOldStart = 0
  BY DEF Chain
<1>2. Len(cs) = n /\ DOMAIN ms = 1 .. n
  <2>1. DOMAIN ms = 1 .. n
    BY <1>1
  <2>2. cs = [k \in 1 .. n |-> cs[k]]
    BY <2>1 DEF Controls
  <2> HIDE DEF cs, n
  <2>3. Len([k \in 1 .. n |-> cs[k]]) = n
    BY <1>1
  <2>4. QED
    BY <2>1, <2>2, <2>3
<1>3. ASSUME NEW k \in 1 .. n
      PROVE  /\ cs[k].add = [i \in 1 .. ms[k].addLength |->
                 (At(new, ms[k].addNewStart + i - 1) - At(old, ms[k].addOldStart + i - 1)) % Values]
             /\ cs[k].copy = SubSeq(new, ms[k].addNewStart + ms[k].addLength + 1, ms[k].copyEnd)
             /\ cs[k].seek = IF k = n THEN 0 ELSE ms[k + 1].addOldStart - (ms[k].addOldStart + ms[k].addLength)
  BY <1>2 DEF Controls, Slice
<1>4. \A k \in 1 .. n : ms[k].copyEnd <= Len(new)
  BY ChainWithin
<1> HIDE DEF cs, n
<1>5. ASSUME NEW k \in 1 .. n PROVE f[k] = Apply(old, f[k - 1], cs[k])
  <2> DEFINE m == ms[k]
             i == m.addNewStart
             j == m.addNewStart + m.addLength
             z == m.copyEnd
             c == cs[k]
             s == f[k - 1]
  <2>1. m \in MatchSet /\ Lies(old, m) /\ m.copyEnd <= Len(new)
    <3>1. k \in 1 .. Len(ms)
      BY DEF n
    <3>2. ms[k] \in MatchSet /\ Lies(old, ms[k]) /\ ms[k].copyEnd <= Len(new)
      BY <1>1, <1>4, <3>1
    <3>3. QED
      BY <3>2
  <2>2. /\ i \in Nat /\ m.addOldStart \in Nat /\ m.addLength \in Nat /\ z \in Nat
        /\ i <= j /\ j <= z /\ z <= Len(new)
    BY <2>1 DEF MatchSet, Lies
  <2>3. k - 1 \in 0 .. n /\ k \in 0 .. n /\ (k - 1) + 1 = k /\ k # 0 /\ (k = 1 <=> k - 1 = 0) /\ k - 1 # n
    <3>1. n \in Nat
      BY <1>1
    <3>2. QED
      BY <3>1
  <2>4. end(k - 1) = i /\ start(k - 1) = m.addOldStart
    <3>1. i = IF k = 1 THEN 0 ELSE ms[k - 1].copyEnd
      BY <1>1, SMTT(60)
    <3>2. QED
      BY <2>3, <3>1
  <2>5. s.out = SubSeq(new, 1, i) /\ s.at = m.addOldStart
    BY <2>3, <2>4
  <2>6. f[k].out = SubSeq(new, 1, z) /\ f[k].at = start(k) /\ f[k] = [out |-> SubSeq(new, 1, z), at |-> start(k)]
    BY <2>3
  <2>7. /\ c.add = [l \in 1 .. m.addLength |-> (At(new, m.addNewStart + l - 1) - At(old, m.addOldStart + l - 1)) % Values]
        /\ c.copy = SubSeq(new, j + 1, z)
        /\ c.seek = IF k = n THEN 0 ELSE ms[k + 1].addOldStart - (m.addOldStart + m.addLength)
    BY <1>3
  <2> HIDE DEF s, f, m, c
  <2>8. /\ DOMAIN c.add = 1 .. m.addLength /\ Len(c.add) = m.addLength
        /\ [l \in DOMAIN c.add |-> (At(old, m.addOldStart + l - 1) + c.add[l]) % Values] = SubSeq(new, i + 1, j)
    <3>1. /\ DOMAIN c.add = 1 .. m.addLength /\ Len(c.add) = m.addLength
          /\ \A l \in 1 .. m.addLength :
               c.add[l] = (At(new, m.addNewStart + l - 1) - At(old, m.addOldStart + l - 1)) % Values
      BY <2>2, <2>7
    <3>2. \A l \in 1 .. m.addLength : (At(old, m.addOldStart + l - 1) + c.add[l]) % Values = new[m.addNewStart + l]
      <4>1. old \in Seq(Bytes) /\ new \in Seq(Bytes)
        OBVIOUS
      <4>2. QED
        BY ONLY <2>1, <3>1, <4>1, AddIs, SMTT(60)
    <3>3. [l \in 1 .. m.addLength |-> (At(old, m.addOldStart + l - 1) + c.add[l]) % Values]
            = [l \in 1 .. m.addLength |-> new[i + l]]
      BY <3>2, Zenon
    <3>4. SubSeq(new, i + 1, j) = [l \in 1 .. m.addLength |-> new[i + l]]
      <4>1. i + m.addLength <= Len(new)
        BY <2>2
      <4> HIDE DEF i
      <4>2. SubSeq(new, i + 1, i + m.addLength) = [l \in 1 .. m.addLength |-> new[i + l]]
        BY <2>2, <4>1, SubSeqIs, SMTT(60)
      <4>3. QED
        BY <4>2 DEF i
    <3>5. QED
      BY <3>1, <3>3, <3>4, Zenon
  <2>9. Apply(old, s, c) = [out |-> s.out \o [l \in DOMAIN c.add |-> (At(old, s.at + l - 1) + c.add[l]) % Values] \o c.copy,
                            at |-> s.at + Len(c.add) + c.seek]
    BY DEF Apply
  <2>10. s.at + Len(c.add) + c.seek = start(k)
    <3>1. CASE k = n
      <4>1. start(k) = m.addOldStart + m.addLength
        BY <2>3, <3>1 DEF m
      <4>2. QED
        BY <2>2, <2>5, <2>7, <2>8, <3>1, <4>1, SMTT(60)
    <3>2. CASE k # n
      <4>1. k + 1 \in 1 .. n
        BY <1>1, <3>2
      <4>2. start(k) = ms[k + 1].addOldStart
        BY <3>2
      <4>3. ms[k + 1] \in MatchSet
        <5>1. k + 1 \in 1 .. Len(ms)
          BY <4>1 DEF n
        <5>2. QED
          BY <1>1, <5>1
      <4>4. ms[k + 1].addOldStart \in Nat
        BY <4>3 DEF MatchSet
      <4>5. QED
        BY <2>2, <2>5, <2>7, <2>8, <3>2, <4>2, <4>4, SMTT(60)
    <3>3. QED
      BY <3>1, <3>2
  <2>11. (SubSeq(new, 1, i) \o SubSeq(new, i + 1, j)) \o SubSeq(new, j + 1, z) = SubSeq(new, 1, z)
    <3>1. i \in 0 .. Len(new) /\ j \in i .. Len(new) /\ j \in 0 .. Len(new) /\ z \in j .. Len(new)
      BY <2>2, SMTT(60)
    <3> HIDE DEF i, j, z
    <3>2. SubSeq(new, 1, i) \o SubSeq(new, i + 1, j) = SubSeq(new, 1, j)
      BY <3>1, Glue
    <3>3. SubSeq(new, 1, j) \o SubSeq(new, j + 1, z) = SubSeq(new, 1, z)
      BY <3>1, Glue
    <3>4. QED
      BY <3>2, <3>3, Zenon
  <2> HIDE DEF i, j, z
  <2>12. Apply(old, s, c) = [out |-> SubSeq(new, 1, z), at |-> start(k)]
    BY <2>5, <2>7, <2>8, <2>9, <2>10, <2>11, ZenonT(60)
  <2>13. QED
    BY <2>6, <2>12 DEF s, c
<1>6. f[0] = [out |-> << >>, at |-> 0]
  <2>1. 0 \in 0 .. n /\ end(0) = 0 /\ SubSeq(new, 1, 0) = << >>
    BY <1>1
  <2>2. start(0) = 0
    BY <1>1
  <2>3. QED
    BY <2>1, <2>2
<1>7. f = [k \in 0 .. n |-> e(f, k)]
  <2>1. f = [k \in 0 .. n |-> f[k]]
    OBVIOUS
  <2>2. ASSUME NEW k \in 0 .. n PROVE f[k] = e(f, k)
    <3>1. k = 0 \/ k \in 1 .. n
      BY <1>1
    <3> HIDE DEF f
    <3>2. QED
      BY <1>5, <1>6, <3>1
  <2> HIDE DEF f, e
  <2>3. [k \in 0 .. n |-> f[k]] = [k \in 0 .. n |-> e(f, k)]
    BY <2>2, Zenon
  <2>4. QED
    BY <2>1, <2>3, Zenon
<1>8. after = CHOOSE g : g = [k \in 0 .. n |-> e(g, k)]
  BY <1>2
<1>9. Applied(old, cs) = after[n].out
  BY <1>2 DEF Applied
<1> HIDE DEF after, f
<1>10. after = [k \in 0 .. n |-> e(after, k)]
  BY <1>7, <1>8, Zenon
<1>11. \A k \in 0 .. n : after[k] = e(after, k)
  BY <1>10, Zenon
<1> DEFINE T == {k \in Int : after[k] = f[k]}
<1>12. 0 <= n => 0 \in T
  <2>1. 0 \in 0 .. n
    BY <1>1
  <2>2. after[0] = e(after, 0)
    BY <1>11, <2>1
  <2>3. QED
    BY <1>6, <2>2
<1>13. ASSUME NEW k \in 0 .. n - 1, k \in T PROVE k + 1 \in T
  <2>1. k + 1 \in 0 .. n /\ k + 1 \in 1 .. n /\ k + 1 # 0 /\ (k + 1) - 1 = k /\ k + 1 \in Int
    BY <1>1
  <2>2. after[k + 1] = Apply(old, after[(k + 1) - 1], cs[k + 1])
    BY <1>11, <2>1
  <2>3. f[k + 1] = Apply(old, f[(k + 1) - 1], cs[k + 1])
    BY <1>5, <2>1
  <2>4. after[k] = f[k]
    BY <1>13
  <2>5. after[k + 1] = f[k + 1]
    BY <2>1, <2>2, <2>3, <2>4, Zenon
  <2>6. QED
    BY <2>1, <2>5
<1>14. n \in T
  <2>1. 0 \in Int /\ n \in Int /\ n \in 0 .. n
    BY <1>1
  <2> HIDE DEF T
  <2>2. 0 .. n \subseteq T
    BY <1>12, <1>13, <2>1, RangeInduction, Zenon
  <2>3. QED
    BY <2>1, <2>2
<1>15. after[n].out = SubSeq(new, 1, end(n))
  <2>1. f[n].out = SubSeq(new, 1, end(n))
    BY <1>1 DEF f
  <2>2. QED
    BY <1>14, <2>1
<1>16. SubSeq(new, 1, end(n)) = new
  <2>1. end(n) = Len(new)
    BY <1>1
  <2>2. SubSeq(new, 1, Len(new)) = new
    OBVIOUS
  <2>3. QED
    BY <2>1, <2>2, Zenon
<1>17. QED
  BY <1>9, <1>15, <1>16 DEF cs

-----------------------------------------------------------------------------
(* Do                                                                      *)

\* Where block b of a case ends.
EndOf(c, b) == IF b = NumBlocks(c) THEN Len(c.new) ELSE b * BlockSize(c)

\* The blocks of a case are not empty and one after the other.
LEMMA BlocksAre ==
  ASSUME NEW c \in Cases
  PROVE  /\ c.old \in Seq(Bytes) /\ c.new \in Seq(Bytes)
         /\ Partitions(c) \in 1 .. Len(c.old)
         /\ BlockSize(c) \in Nat \ {0}
         /\ NumBlocks(c) \in Nat \ {0}
         /\ NumWorkers(c) \in Nat \ {0}
         /\ \A b \in 0 .. NumBlocks(c) : EndOf(c, b) \in 0 .. Len(c.new)
         /\ EndOf(c, 0) = 0
         /\ \A b \in 1 .. NumBlocks(c) :
              EndOf(c, b - 1) = (b - 1) * BlockSize(c) /\ EndOf(c, b - 1) < EndOf(c, b)
<1> DEFINE l == Len(c.new)
           p == Partitions(c)
           s == BlockSize(c)
           n == NumBlocks(c)
<1>1. /\ c.old \in Seq(Bytes) /\ c.new \in Seq(Bytes) /\ c.partitions \in Nat /\ c.old # << >> /\ l >= p
  BY FilesAssumption, CasesAssumption
<1>2. l \in Nat /\ Len(c.old) \in Nat /\ Len(c.old) >= 1
  BY <1>1
<1>3. p \in 1 .. Len(c.old)
  BY <1>1, <1>2 DEF Partitions
<1>4. s \in Nat \ {0}
  <2>1. p \in Nat \ {0}
    BY <1>3
  <2> HIDE DEF p, l
  <2>2. l \div p \in Nat /\ l < (l \div p) * p + p
    BY <1>2, <2>1, ChunkBounds
  <2>3. l \div p # 0
    <3>1. l \div p = 0 => (l \div p) * p = 0
      BY <2>1
    <3>2. QED
      BY <1>1, <1>2, <2>1, <2>2, <3>1
  <2>4. s = l \div p \/ s = BlockLen
    BY DEF BlockSize, l, p
  <2>5. QED
    BY <2>2, <2>3, <2>4, BlockLenAssumption
<1>5. l >= 1
  BY <1>1, <1>2, <1>3
<1>6. n = (l + s - 1) \div s
  BY DEF NumBlocks, Ceil
<1> HIDE DEF n, s, p, l
<1>7. n \in Nat /\ \A b \in Nat : b * s \in Nat /\ (b < n <=> b * s < l) /\ s * (b + 1) = b * s + s
  BY <1>2, <1>4, <1>6, BlockArithmetic
<1>8. n \in Nat \ {0}
  <2>1. 0 * s = 0
    BY <1>4
  <2>2. 0 < n
    <3>1. 0 \in Nat /\ 0 * s < l
      BY <1>2, <1>5, <2>1
    <3>2. QED
      BY <1>7, <3>1, Zenon
  <2>3. QED
    BY <1>7, <2>2
<1>9. NumWorkers(c) \in Nat \ {0}
  <2>1. PICK q : q = PerPartition * p
    OBVIOUS
  <2>2. q \in Nat /\ q >= 1
    <3>1. PICK e \in Nat : PerPartition = 1 + e
      <4>1. PerPartition - 1 \in Nat /\ PerPartition = 1 + (PerPartition - 1)
        BY PerPartitionAssumption
      <4>2. QED
        BY <4>1
    <3>2. p \in Nat /\ p >= 1
      BY <1>3
    <3>3. q = p + e * p /\ e * p \in Nat
      BY <2>1, <3>1, <3>2
    <3>4. QED
      BY <3>2, <3>3
  <2>3. NumWorkers(c) = IF q < n THEN q ELSE n
    BY <2>1 DEF NumWorkers, Lesser, p, n
  <2>4. QED
    BY <1>8, <2>2, <2>3
<1>10. \A b \in Nat : EndOf(c, b) = IF b = n THEN l ELSE b * s
  BY DEF EndOf, n, l, s
<1>11. ASSUME NEW b \in 0 .. n PROVE EndOf(c, b) \in 0 .. l
  <2>1. b \in Nat
    OBVIOUS
  <2>2. b < n => b * s < l /\ b * s \in Nat
    BY <1>7, <2>1
  <2>3. b = n \/ b < n
    BY <1>7
  <2>4. EndOf(c, b) = IF b = n THEN l ELSE b * s
    BY <1>10, <2>1
  <2>5. QED
    BY <1>2, <2>2, <2>3, <2>4
<1>12. EndOf(c, 0) = 0
  <2>1. 0 * s = 0
    BY <1>4
  <2>2. QED
    BY <1>8, <1>10, <2>1
<1>13. ASSUME NEW b \in 1 .. n
       PROVE  EndOf(c, b - 1) = (b - 1) * s /\ EndOf(c, b - 1) < EndOf(c, b)
  <2>1. b \in Nat /\ b - 1 \in Nat /\ b - 1 < n /\ (b - 1) + 1 = b
    BY <1>7
  <2>2. EndOf(c, b - 1) = (b - 1) * s
    BY <1>10, <2>1
  <2>3. (b - 1) * s < l /\ (b - 1) * s \in Nat /\ s * ((b - 1) + 1) = (b - 1) * s + s
    BY <1>7, <2>1
  <2>4. b * s = (b - 1) * s + s
    <3>1. s * b = b * s
      BY <1>4, <2>1
    <3>2. QED
      BY <2>1, <2>3, <3>1, Zenon
  <2>5. (b - 1) * s < b * s
    BY <1>4, <2>3, <2>4
  <2>6. EndOf(c, b) = l \/ EndOf(c, b) = b * s
    BY <1>10, <2>1
  <2>7. QED
    BY <2>2, <2>3, <2>5, <2>6
<1>14. QED
  BY <1>1, <1>3, <1>4, <1>8, <1>9, <1>11, <1>12, <1>13 DEF n, s, p, l

\* So are the matches the workers find in them.
LEMMA MatchesAre ==
  ASSUME NEW c \in Cases
  PROVE  /\ Matches(c) \in Seq(Seq(MatchSet))
         /\ Len(Matches(c)) = NumBlocks(c)
         /\ \A b \in 1 .. NumBlocks(c) : Chain(c.old, Matches(c)[b], EndOf(c, b - 1), EndOf(c, b))
<1> DEFINE n == NumBlocks(c)
           s == BlockSize(c)
           psa == NewPSA(c.old, Partitions(c))
           block(b) == Slice(c.new, (b - 1) * s, IF b = n THEN Len(c.new) ELSE b * s)
           ms == Matches(c)
<1>1. ms = [b \in 1 .. n |-> AnalyzeBlock(c.old, psa, block(b), (b - 1) * s)]
  BY Zenon DEF Matches
<1> HIDE DEF ms
<1>2. ASSUME NEW b \in 1 .. n PROVE Chain(c.old, ms[b], EndOf(c, b - 1), EndOf(c, b))
  <2>1. /\ c.old \in Seq(Bytes) /\ c.new \in Seq(Bytes) /\ Partitions(c) \in 1 .. Len(c.old)
        /\ n \in Nat /\ EndOf(c, b - 1) = (b - 1) * s /\ EndOf(c, b - 1) < EndOf(c, b)
    BY BlocksAre
  <2>2. EndOf(c, b - 1) \in 0 .. Len(c.new) /\ EndOf(c, b) \in 0 .. Len(c.new)
    <3>1. b - 1 \in 0 .. n /\ b \in 0 .. n
      BY <2>1
    <3>2. QED
      BY <3>1, BlocksAre, SMTT(60)
  <2>3. PICK x, y : x = EndOf(c, b - 1) /\ y = EndOf(c, b)
    OBVIOUS
  <2>4. block(b) = Slice(c.new, x, y)
    BY <2>1, <2>3, Zenon DEF EndOf
  <2>5. x \in 0 .. Len(c.new) /\ y \in x .. Len(c.new) /\ x < y /\ x \in Nat /\ y \in Nat
    BY <2>1, <2>2, <2>3
  <2>6. block(b) \in Seq(Bytes) /\ Len(block(b)) = y - x
    <3>1. c.new \in Seq(Bytes) /\ x \in 0 .. Len(c.new) /\ y \in x .. Len(c.new)
      BY <2>1, <2>5, Zenon
    <3> HIDE DEF block, n, s
    <3>2. Slice(c.new, x, y) \in Seq(Bytes) /\ Len(Slice(c.new, x, y)) = y - x
      BY ONLY <3>1, SliceSubSeq, Zenon
    <3>3. QED
      BY <2>4, <3>2, Zenon
  <2> HIDE DEF block, psa
  <2>7. block(b) # << >> /\ x + Len(block(b)) = y
    BY <2>5, <2>6
  <2>8. Chain(c.old, AnalyzeBlock(c.old, psa, block(b), x), x, x + Len(block(b)))
    BY <2>1, <2>5, <2>6, <2>7, AnalyzeBlockIs DEF psa
  <2>9. ms[b] = AnalyzeBlock(c.old, psa, block(b), x)
    BY <1>1, <2>1, <2>3
  <2>10. QED
    BY <2>3, <2>7, <2>8, <2>9, Zenon
<1>3. n \in Nat
  BY BlocksAre
<1>4. \A b \in 1 .. n : ms[b] \in Seq(MatchSet)
  BY <1>2 DEF Chain
<1>5. ms = [b \in 1 .. n |-> ms[b]]
  BY <1>1
<1> HIDE DEF n
<1>6. ms \in Seq(Seq(MatchSet)) /\ Len(ms) = n
  <2>1. [b \in 1 .. n |-> ms[b]] \in Seq(Seq(MatchSet)) /\ Len([b \in 1 .. n |-> ms[b]]) = n
    BY <1>3, <1>4
  <2>2. QED
    BY <1>5, <2>1
<1>7. QED
  BY <1>2, <1>6 DEF ms, n

\* All of them make a chain through the new file.
LEMMA AllMatchesAre ==
  ASSUME NEW c \in Cases
  PROVE  Chain(c.old, FlattenSeq(Matches(c)), 0, Len(c.new))
<1> DEFINE n == NumBlocks(c)
           ms == Matches(c)
           T == {b \in Int : Chain(c.old, Upto(ms, b), 0, EndOf(c, b))}
<1>1. /\ n \in Nat /\ ms \in Seq(Seq(MatchSet)) /\ Len(ms) = n /\ EndOf(c, 0) = 0
      /\ \A b \in 1 .. n : Chain(c.old, ms[b], EndOf(c, b - 1), EndOf(c, b))
  BY BlocksAre, MatchesAre
<1>2. EndOf(c, n) = Len(c.new)
  BY DEF EndOf
<1> HIDE DEF n, ms
<1>3. 0 <= n => 0 \in T
  BY <1>1, UptoNone, ChainEmpty
<1>4. ASSUME NEW b \in 0 .. n - 1, b \in T PROVE b + 1 \in T
  <2>1. b \in 0 .. Len(ms) - 1 /\ b + 1 \in 1 .. n /\ (b + 1) - 1 = b /\ b + 1 \in Int
    BY <1>1
  <2>2. Upto(ms, b + 1) = Upto(ms, b) \o ms[b + 1]
    BY <1>1, <2>1, UptoStep
  <2>3. Chain(c.old, ms[b + 1], EndOf(c, (b + 1) - 1), EndOf(c, b + 1))
    BY <1>1, <2>1
  <2>4. Chain(c.old, Upto(ms, b), 0, EndOf(c, b)) /\ Chain(c.old, ms[b + 1], EndOf(c, b), EndOf(c, b + 1))
    BY <1>4, <2>1, <2>3
  <2>5. Chain(c.old, Upto(ms, b) \o ms[b + 1], 0, EndOf(c, b + 1))
    BY <2>4, ChainConcat
  <2>6. QED
    BY <2>1, <2>2, <2>5
<1>5. n \in T
  <2>1. 0 \in Int /\ n \in Int /\ n \in 0 .. n
    BY <1>1
  <2> HIDE DEF T
  <2>2. 0 .. n \subseteq T
    BY <1>3, <1>4, <2>1, RangeInduction, Zenon
  <2>3. QED
    BY <2>1, <2>2
<1>6. Upto(ms, n) = FlattenSeq(ms)
  BY <1>1, UptoAll
<1>7. QED
  BY <1>2, <1>5, <1>6 DEF ms

\* What Do scans are the blocks of its case.
OfCase ==
  /\ case \in Cases
  /\ blocks = Matches(case)

LEMMA DiffSpecIsRing ==
  DiffSpec => RingSpec
<1>1. ASSUME DiffInit PROVE RingInit
  <2>1. case \in Cases /\ failing = case.fails /\ Start(Matches(case), NumWorkers(case))
    BY <1>1 DEF DiffInit
  <2>2. failing \in BOOLEAN
    BY <2>1, FilesAssumption
  <2>3. Matches(case) \in Seq(Seq(MatchSet)) /\ NumWorkers(case) \in Nat \ {0}
    BY <2>1, MatchesAre, BlocksAre
  <2>4. QED
    BY <2>1, <2>2, <2>3, EocAssumption, Zenon DEF RingInit
<1>2. [RingNext /\ UNCHANGED case]_<<ring, case>> => [RingNext]_ring
  OBVIOUS
<1>3. QED
  BY <1>1, <1>2, PTL DEF DiffSpec, RingSpec

LEMMA OfCaseHolds ==
  DiffSpec => []OfCase
<1>1. DiffInit => OfCase
  BY DEF DiffInit, Start, OfCase
<1>2. ASSUME OfCase, [RingNext /\ UNCHANGED case]_<<ring, case>> PROVE OfCase'
  <2>1. CASE UNCHANGED <<ring, case>>
    BY <1>2, <2>1 DEF OfCase, ring, given
  <2>2. CASE RingNext /\ UNCHANGED case
    <3>1. UNCHANGED blocks
      BY <2>2 DEF RingNext, DispatcherNext, WorkerNext, CollectorNext, WriterNext, TakeToken, GiveBlock, CloseWork,
         TakeBlock, SendMatch, LeaveRing, ReceiveMatch, Forward, Acknowledge, CloseMatches, WriteMatch, WriteLast,
         ring, given
    <3>2. QED
      BY <1>2, <2>2, <3>1 DEF OfCase
  <2>3. QED
    BY <1>2, <2>1, <2>2
<1>3. QED
  BY <1>1, <1>2, PTL DEF DiffSpec

\* Whatever the files, the partitions, the length of a block and the number of workers:
\* the messages of a Do that returned nil make the new file of the old one.
THEOREM DiffIsRightHolds == DiffSpec => []DiffIsRight
<1> DEFINE Nil == result = "nil" => written = Joined(Len(blocks))
<1>1. ASSUME OfCase, Nil PROVE DiffIsRight
  <2> SUFFICES ASSUME result = "nil"
               PROVE  Applied(case.old, Controls(case.old, case.new, written)) = case.new
    BY DEF DiffIsRight
  <2>1. case \in Cases /\ blocks = Matches(case) /\ written = Joined(Len(blocks))
    BY <1>1 DEF OfCase
  <2>2. /\ blocks \in Seq(Seq(MatchSet)) /\ case.old \in Seq(Bytes) /\ case.new \in Seq(Bytes)
        /\ Chain(case.old, FlattenSeq(blocks), 0, Len(case.new))
    BY <2>1, MatchesAre, BlocksAre, AllMatchesAre
  <2>3. written = FlattenSeq(blocks)
    BY <2>1, <2>2, UptoAll DEF Joined, Upto
  <2>4. QED
    BY <2>2, <2>3, AppliedIs
<1>2. DiffSpec => []Nil
  BY DiffSpecIsRing, AllWritten
<1> HIDE DEF Nil
<1>3. QED
  BY <1>1, <1>2, OfCaseHolds, PTL
===============================================================================
