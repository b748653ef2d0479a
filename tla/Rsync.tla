--------------------------------- MODULE Rsync ---------------------------------
(***************************************************************************)
(* ComputeDiff of wsync/algo.go: a window of one block slides over a new   *)
(* file and is looked up, by a rolling hash first, among the blocks of the *)
(* old build.  What is found becomes block ranges, the rest data.  The     *)
(* window and the data still to be sent share a buffer that wraps.         *)
(*                                                                         *)
(* A strong hash stands for the block it was computed from.  The pending   *)
(* data always ends where the window starts (data.head is sum.tail).       *)
(***************************************************************************)
EXTENDS Integers, SequencesExt

CONSTANTS
  BlockSize,   \* bytes in a block
  MaxDataOp,   \* bytes in a data operation
  Modulus      \* of the two halves of the weak hash

ASSUME RsyncAssumption ==
  BlockSize \in Nat \ {0} /\ MaxDataOp \in Nat \ {0} /\ Modulus \in Nat \ {0}

VARIABLES
  old,        \* the contents of the old build's files
  input,      \* what the reader of the new file has: [bytes, end]
  preferred,  \* the old file of the same path, 0 if none
  buffer,     \* what was read
  validTo,    \* where it ends
  window,     \* where the window starts ("sum.tail")
  pending,    \* where the data to be sent starts ("data.tail")
  rolling,    \* the weak hash: [on, b1, b2, pop]
  sent,       \* operations: the one kept for combining, and those sent
  diff        \* where ComputeDiff is: [at, n, last]

search == <<buffer, validTo, window, pending, rolling>>

BufLen == 2 * BlockSize + MaxDataOp

Least(a, b) == IF a < b THEN a ELSE b

-----------------------------------------------------------------------------
(* Signatures                                                                *)

SumOf(v) ==
  LET before[i \in 1 .. Len(v) + 1] == IF i = 1 THEN 0 ELSE before[i - 1] + v[i - 1]
  IN before[Len(v) + 1]

\* The weak hash of a block.
WeakHash(d) ==
  <<SumOf(d) % Modulus, SumOf([i \in 1 .. Len(d) |-> (Len(d) - i + 1) * d[i]]) % Modulus>>

NumBlocks(size) == IF size = 0 THEN 1 ELSE (size + BlockSize - 1) \div BlockSize

BlockOf(d, b) == SubSeq(d, b * BlockSize + 1, Least((b + 1) * BlockSize, Len(d)))

\* CreateSignature: the blocks of a file; an empty one has an empty block.
BlocksOf(d) == [i \in 1 .. NumBlocks(Len(d)) |-> BlockOf(d, i - 1)]

\* Blocks of full size, and the empty one, have short size zero.
ShortSize(d) == Len(d) % BlockSize

Position(f, b) == [file |-> f, block |-> b]

Earlier(p, q) == p.file < q.file \/ (p.file = q.file /\ p.block <= q.block)

First(S) == CHOOSE p \in S : \A q \in S : Earlier(p, q)

\* Mutant: the preferred file is not tried first.
FindAny(weak, d, short) ==
  LET found == {p \in UNION {{Position(f, b) : b \in 0 .. NumBlocks(Len(old[f])) - 1} : f \in DOMAIN old} :
                  LET block == BlockOf(old[p.file], p.block)
                  IN block = d /\ WeakHash(block) = weak /\ ShortSize(block) = short}
  IN IF d = << >> \/ found = {} THEN {} ELSE {First(found)}

\* The block with this weak hash, contents and short size that comes first in the
\* preferred file, else in the old build.
FindUniqueHash(weak, d, short) ==
  LET found == {p \in UNION {{Position(f, b) : b \in 0 .. NumBlocks(Len(old[f])) - 1} : f \in DOMAIN old} :
                  LET block == BlockOf(old[p.file], p.block)
                  IN block = d /\ WeakHash(block) = weak /\ ShortSize(block) = short}
      liked == {p \in found : p.file = preferred}
  IN IF d = << >> \/ found = {} THEN {} ELSE {First(IF liked # {} THEN liked ELSE found)}

-----------------------------------------------------------------------------
(* Operations                                                                *)

NoOp == [type |-> "none"]
Range1(p) == [type |-> "range", file |-> p.file, block |-> p.block, span |-> 1]
DataOp(d) == [type |-> "data", data |-> d]

\* Only the first operation may be empty.
Send(q, op) ==
  IF q.ops # << >> /\ op.type = "data" /\ op.data = << >> THEN q
  ELSE [q EXCEPT !.ops = Append(@, op)]

SendPrev(q) == IF q.prev = NoOp THEN q ELSE [Send(q, q.prev) EXCEPT !.prev = NoOp]

Adjoins(prev, op) ==
  prev # NoOp /\ prev.file = op.file /\ prev.block + prev.span = op.block

\* A range is kept, and combined with the one that was.
EnqueueRange(q, op) ==
  IF Adjoins(q.prev, op) THEN [q EXCEPT !.prev.span = @ + 1]
  ELSE [SendPrev(q) EXCEPT !.prev = op]

EnqueueData(q, d) == Send(SendPrev(q), DataOp(d))

\* ApplySingleFull: the bytes an operation stands for.
Bytes(op) ==
  IF op.type = "data" THEN op.data
  ELSE LET d    == old[op.file]
           last == op.block + op.span - 1
           tail == IF BlockSize * (last + 1) > Len(d) THEN Len(d) % BlockSize ELSE BlockSize
           size == BlockSize * (op.span - 1) + tail
       IN SubSeq(d, op.block * BlockSize + 1, Least(op.block * BlockSize + size, Len(d)))

Rebuilt(ops) == FlattenSeq([i \in DOMAIN ops |-> Bytes(ops[i])])
-----------------------------------------------------------------------------
(* ComputeDiff, one turn of its loop in two steps: reading and looking up    *)

Blank == 0

Ready == [at |-> "extend", n |-> 0, last |-> FALSE]

NewSearch ==
  /\ buffer = [i \in 0 .. BufLen - 1 |-> Blank]
  /\ validTo = 0
  /\ window = 0
  /\ pending = 0
  /\ rolling = [on |-> FALSE, b1 |-> 0, b2 |-> 0, pop |-> 0]

Slice(from, to) == [i \in 1 .. to - from |-> buffer[from + i - 1]]

\* The pending data is sent, and what is left of the window moves to the start.
Wrap ==
  LET l == validTo - window
  IN /\ buffer' = [i \in DOMAIN buffer |-> IF i < l THEN buffer[window + i] ELSE buffer[i]]
     /\ validTo' = l
     /\ window' = 0
     /\ pending' = 0
     /\ sent' = IF pending < window THEN EnqueueData(sent, Slice(pending, window)) ELSE sent

\* The window reaches past what was read: read another block.
Extend ==
  /\ diff.at = "extend"
  /\ IF window + BlockSize <= validTo
       THEN diff' = [diff EXCEPT !.at = "look"] /\ UNCHANGED <<buffer, validTo, window, pending, sent>>
       ELSE /\ diff' = [diff EXCEPT !.at = "read", !.n = 0]
            /\ IF validTo + BlockSize > BufLen
                 THEN Wrap
                 ELSE UNCHANGED <<buffer, validTo, window, pending, sent>>
  /\ UNCHANGED <<input, rolling>>

\* ReadAtLeast takes what there is, up to a block.
ReadSome ==
  LET k == Least(BlockSize - diff.n, Len(input.bytes))
  IN /\ diff.at = "read"
     /\ k > 0
     /\ buffer' = [i \in DOMAIN buffer |->
                     IF i \in validTo .. validTo + k - 1 THEN input.bytes[i - validTo + 1] ELSE buffer[i]]
     /\ validTo' = validTo + k
     /\ input' = [input EXCEPT !.bytes = SubSeq(@, k + 1, Len(@))]
     /\ diff' = [diff EXCEPT !.n = @ + k, !.at = IF diff.n + k = BlockSize THEN "look" ELSE "read"]
     /\ UNCHANGED <<window, pending, rolling, sent>>

\* The deferred call sends the range that is kept, and takes its outcome for that
\* of ComputeDiff.
End(q, outcome) ==
  /\ sent' = SendPrev(q)
  /\ diff' = [diff EXCEPT !.at = IF q.prev = NoOp THEN outcome ELSE "nil"]

ReadEnds ==
  /\ diff.at = "read"
  /\ input.bytes = << >>
  /\ \/ /\ input.end = "eof"
        /\ diff' = [diff EXCEPT !.at = "look", !.last = TRUE]
        /\ UNCHANGED sent
     \/ /\ input.end = "failed"
        /\ End(sent, "failed")
  /\ UNCHANGED <<input, search>>

WindowEnd == Least(window + BlockSize, validTo)

Current == Slice(window, WindowEnd)

\* Mutant: the value that leaves is taken as the one that enters.
RolledBack ==
  LET b1 == (rolling.b1 - rolling.pop + rolling.pop) % Modulus
  IN <<b1, (rolling.b2 - (WindowEnd - window) * rolling.pop + b1) % Modulus>>

\* The hash after sliding by one: one value leaves and one enters.
Rolled ==
  LET b1 == (rolling.b1 - rolling.pop + buffer[WindowEnd - 1]) % Modulus
  IN <<b1, (rolling.b2 - (WindowEnd - window) * rolling.pop + b1) % Modulus>>

Weak == IF rolling.on THEN Rolled ELSE WeakHash(Current)

\* A hash that did not change when sliding is not looked up again.
Found ==
  IF rolling.on /\ Rolled = <<rolling.b1, rolling.b2>> THEN {}
  ELSE FindUniqueHash(Weak, Current, IF diff.last THEN diff.n ELSE 0)

\* Pending data is sent before a range, or when there is enough.
Flushed ==
  IF pending < window /\ (Found # {} \/ window - pending >= MaxDataOp)
  THEN [sent |-> EnqueueData(sent, Slice(pending, window)), pending |-> window]
  ELSE [sent |-> sent, pending |-> pending]

LookFound ==
  /\ diff.at = "look"
  /\ \E p \in Found :
       LET q == EnqueueRange(Flushed.sent, Range1(p))
       IN IF diff.last
          THEN End(q, "nil")
          ELSE sent' = q /\ diff' = [diff EXCEPT !.at = "extend"]
  /\ window' = window + BlockSize
  /\ pending' = window + BlockSize
  /\ rolling' = [rolling EXCEPT !.on = FALSE]
  /\ UNCHANGED <<input, buffer, validTo>>

LookLast ==
  /\ diff.at = "look"
  /\ Found = {}
  /\ diff.last
  /\ End(EnqueueData(Flushed.sent, Slice(Flushed.pending, validTo)), "nil")
  /\ pending' = Flushed.pending
  /\ UNCHANGED <<input, buffer, validTo, window, rolling>>

LookSlide ==
  /\ diff.at = "look"
  /\ Found = {}
  /\ ~diff.last
  /\ sent' = Flushed.sent
  /\ pending' = Flushed.pending
  /\ rolling' = [on |-> TRUE, b1 |-> Weak[1], b2 |-> Weak[2], pop |-> buffer[window]]
  /\ window' = window + 1
  /\ diff' = [diff EXCEPT !.at = "extend"]
  /\ UNCHANGED <<input, buffer, validTo>>

ComputeDiff == Extend \/ ReadSome \/ ReadEnds \/ LookFound \/ LookLast \/ LookSlide

=============================================================================
