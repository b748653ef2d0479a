------------------------------- MODULE ScanRing -------------------------------
(***************************************************************************)
(* How bsdiff scans a new file (DiffContext.Do of bsdiff/diff.go): a       *)
(* dispatcher hands the blocks of the file to a ring of workers, each      *)
(* worker sends the matches it finds in a block into a channel of its own, *)
(* a collector goes round the same ring and forwards the matches, and Do   *)
(* itself writes them.  Dispatcher and collector share no index; what      *)
(* keeps them together is the channel "consumed" of every worker.          *)
(*                                                                         *)
(* What a match is does not matter here: the matches of every block are    *)
(* given.                                                                  *)
(***************************************************************************)
EXTENDS Integers, SequencesExt

CONSTANTS
  Capacity,   \* of a channel of matches (256 in the code)
  Eoc,        \* the match that says the block is over
  NoMatch     \* no match

ASSUME CapacityAssumption == Capacity \in Nat \ {0}

VARIABLES
  blocks,      \* the matches of every block, a sequence each
  size,        \* the number of workers
  failing,     \* whether writing a message may fail
  dispatcher,  \* [at, block, worker]: "take", "give" or "over", with what block
  work,        \* the worker's channel of blocks, of capacity 1
  closed,      \* whether the channels of blocks are closed
  left,        \* what the worker has left to send of its block
  leaving,     \* the workers that are gone
  found,       \* the worker's channel of matches
  consumed,    \* whether there is a token in the worker's channel "consumed"
  collector,   \* [at, block, worker, held]: "receive", "forward", "acknowledge"
               \* or "over", with what match
  matches,     \* the channel Do reads
  written,     \* the matches Do has taken
  result       \* what Do returned: "none", "nil" or "failed"

given == <<blocks, size, failing>>
dispatching == <<dispatcher, closed>>
working == <<left, leaving>>
writing == <<written, result>>
ring == <<given, dispatching, work, working, found, consumed, collector, matches, writing>>

Workers == 0 .. size - 1

Start(bs, n) ==
  /\ blocks = bs
  /\ size = n
  /\ dispatcher = [at |-> "take", block |-> 0, worker |-> 0]
  /\ work = [w \in 0 .. n - 1 |-> << >>]
  /\ closed = FALSE
  /\ left = [w \in 0 .. n - 1 |-> << >>]
  /\ leaving = {}
  /\ found = [w \in 0 .. n - 1 |-> << >>]
  /\ consumed = [w \in 0 .. n - 1 |-> TRUE]
  /\ collector = [at |-> "receive", block |-> 0, worker |-> 0, held |-> NoMatch]
  /\ matches = << >>
  /\ written = << >>
  /\ result = "none"

\* What a worker sends for block b.
Sent(b) == Append(blocks[b + 1], Eoc)

NextWorker(w) == IF w + 1 = size THEN 0 ELSE w + 1
-----------------------------------------------------------------------------
(* The dispatcher *)

\* A worker whose last block was consumed is next.
TakeToken ==
  LET w == dispatcher.worker IN
  /\ dispatcher.at = "take"
  /\ dispatcher.block < Len(blocks)
  /\ consumed[w]
  /\ consumed' = [consumed EXCEPT ![w] = FALSE]
  /\ dispatcher' = [dispatcher EXCEPT !.at = "give"]
  /\ UNCHANGED <<given, closed, work, working, found, collector, matches, writing>>

GiveBlock ==
  LET w == dispatcher.worker IN
  /\ dispatcher.at = "give"
  /\ work[w] = << >>
  /\ work' = [work EXCEPT ![w] = <<dispatcher.block>>]
  /\ dispatcher' = [at |-> "take", block |-> dispatcher.block + 1, worker |-> NextWorker(w)]
  /\ UNCHANGED <<given, closed, working, found, consumed, collector, matches, writing>>

CloseWork ==
  /\ dispatcher.at = "take"
  /\ dispatcher.block = Len(blocks)
  /\ closed' = TRUE
  /\ dispatcher' = [dispatcher EXCEPT !.at = "over"]
  /\ UNCHANGED <<given, work, working, found, consumed, collector, matches, writing>>
-----------------------------------------------------------------------------
(* A worker *)

TakeBlock(w) ==
  /\ left[w] = << >>
  /\ work[w] # << >>
  /\ left' = [left EXCEPT ![w] = Sent(Head(work[w]))]
  /\ work' = [work EXCEPT ![w] = << >>]
  /\ UNCHANGED <<given, dispatching, leaving, found, consumed, collector, matches, writing>>

SendMatch(w) ==
  /\ left[w] # << >>
  /\ Len(found[w]) < Capacity
  /\ found' = [found EXCEPT ![w] = Append(@, Head(left[w]))]
  /\ left' = [left EXCEPT ![w] = Tail(@)]
  /\ UNCHANGED <<given, dispatching, work, leaving, consumed, collector, matches, writing>>

LeaveRing(w) ==
  /\ closed
  /\ w \notin leaving
  /\ left[w] = << >>
  /\ work[w] = << >>
  /\ leaving' = leaving \cup {w}
  /\ UNCHANGED <<given, dispatching, work, left, found, consumed, collector, matches, writing>>
-----------------------------------------------------------------------------
(* The collector *)

\* Mutant: whichever worker has something is read.
ReceiveFromAny ==
  /\ collector.at = "receive"
  /\ collector.block < Len(blocks)
  /\ \E w \in Workers :
       /\ found[w] # << >>
       /\ found' = [found EXCEPT ![w] = Tail(@)]
       /\ collector' = IF Head(found[w]) = Eoc
                         THEN [collector EXCEPT !.at = "acknowledge", !.worker = w]
                         ELSE [collector EXCEPT !.at = "forward", !.held = Head(found[w])]
  /\ UNCHANGED <<given, dispatching, work, working, consumed, matches, writing>>

\* The next match of the worker, or the end of its block.
ReceiveMatch ==
  LET w == collector.worker IN
  /\ collector.at = "receive"
  /\ collector.block < Len(blocks)
  /\ found[w] # << >>
  /\ found' = [found EXCEPT ![w] = Tail(@)]
  /\ collector' = IF Head(found[w]) = Eoc
                    THEN [collector EXCEPT !.at = "acknowledge"]
                    ELSE [collector EXCEPT !.at = "forward", !.held = Head(found[w])]
  /\ UNCHANGED <<given, dispatching, work, working, consumed, matches, writing>>

Forward ==
  /\ collector.at = "forward"
  /\ Len(matches) < Capacity
  /\ matches' = Append(matches, collector.held)
  /\ collector' = [collector EXCEPT !.at = "receive", !.held = NoMatch]
  /\ UNCHANGED <<given, dispatching, work, working, found, consumed, writing>>

\* Mutant: the token is forgotten.
AcknowledgeNothing ==
  /\ collector.at = "acknowledge"
  /\ collector' = [collector EXCEPT !.at = "receive", !.block = @ + 1, !.worker = NextWorker(@)]
  /\ UNCHANGED <<given, dispatching, work, working, found, consumed, matches, writing>>

\* The token goes back, to the next worker.
Acknowledge ==
  LET w == collector.worker IN
  /\ collector.at = "acknowledge"
  /\ ~consumed[w]
  /\ consumed' = [consumed EXCEPT ![w] = TRUE]
  /\ collector' = [collector EXCEPT !.at = "receive", !.block = @ + 1, !.worker = NextWorker(@)]
  /\ UNCHANGED <<given, dispatching, work, working, found, matches, writing>>

CloseMatches ==
  /\ collector.at = "receive"
  /\ collector.block = Len(blocks)
  /\ collector' = [collector EXCEPT !.at = "over"]
  /\ UNCHANGED <<given, dispatching, work, working, found, consumed, matches, writing>>
-----------------------------------------------------------------------------
(* writeMessages *)

\* A match is taken and the one before it written.
WriteMatch ==
  /\ result = "none"
  /\ matches # << >>
  /\ matches' = Tail(matches)
  /\ written' = Append(written, Head(matches))
  /\ \/ UNCHANGED result
     \/ failing /\ written # << >> /\ result' = "failed"
  /\ UNCHANGED <<given, dispatching, work, working, found, consumed, collector>>

\* The last match and the end of the series are written.
WriteLast ==
  /\ result = "none"
  /\ matches = << >>
  /\ collector.at = "over"
  /\ \/ result' = "nil"
     \/ failing /\ result' = "failed"
  /\ UNCHANGED <<given, dispatching, work, working, found, consumed, collector, matches, written>>
-----------------------------------------------------------------------------
DispatcherNext == TakeToken \/ GiveBlock \/ CloseWork
WorkerNext(w) == TakeBlock(w) \/ SendMatch(w) \/ LeaveRing(w)
CollectorNext == ReceiveMatch \/ Forward \/ Acknowledge \/ CloseMatches
WriterNext == WriteMatch \/ WriteLast

AllGone == dispatcher.at = "over" /\ leaving = Workers /\ collector.at = "over"

\* A failed Do leaves whoever waits for room in a channel behind.
Left == result = "failed" \/ (result = "nil" /\ AllGone)

RingNext ==
  \/ DispatcherNext
  \/ \E w \in Workers : WorkerNext(w)
  \/ CollectorNext
  \/ WriterNext
  \/ Left /\ UNCHANGED ring

\* Any number of blocks with any matches, none of which is Eoc, and any number of
\* workers.
RingInit ==
  /\ failing \in BOOLEAN
  /\ \E V : Eoc \notin V /\ \E bs \in Seq(Seq(V)), n \in Nat \ {0} : Start(bs, n)

RingSpec == RingInit /\ [][RingNext]_ring
-----------------------------------------------------------------------------
(* Properties *)

\* All the matches of the first n blocks, in order.
Joined(n) == FlattenSeq([b \in 1 .. n |-> blocks[b]])

\* Matches are not handed on before the block is over: what Do has taken or may take,
\* and what is to come from the collector's block, are the matches of the blocks up
\* to it in their order, whatever the workers' speed.
InOrder ==
  LET all == written \o matches \o (IF collector.at = "forward" THEN <<collector.held>> ELSE << >>)
      upto == Joined(IF collector.block < Len(blocks) THEN collector.block + 1 ELSE Len(blocks))
  IN /\ Len(all) >= Len(Joined(collector.block))
     /\ Len(all) <= Len(upto)
     /\ all = SubSeq(upto, 1, Len(all))
=============================================================================
