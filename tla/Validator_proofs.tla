--------------------------- MODULE Validator_proofs ---------------------------
(***************************************************************************)
(* Proofs about Validator, for any signature, target, consumer, capacity,  *)
(* size of blocks and of aggregated wounds: no goroutine sends on the      *)
(* channel of wounds once it is closed; what Validate returns is true and, *)
(* when it returns nil, its consumer knows exactly what is wrong and where *)
(*                                                                         *)
(* The invariant follows the wounds: those between the worker and the      *)
(* consumer are all true, and as long as nothing failed and nothing was    *)
(* cancelled every step keeps, or covers by a larger one, each of them.    *)
(***************************************************************************)
EXTENDS Validator, SequenceFacts, SequenceTheorems

\* Nothing is on its way from a file's writer to the channel of wounds.
PipeIdle == pipe.out = << >> /\ relay = NoWound

\* The worker holds a writer open only in these places.
Between == {"none", "idle", "stat", "whole", "leaving", "gone"}

\* Why the channel may be closed: an error is in the worker's channel only once
\* the worker is gone, and what Validate waits for is such an error.
ClosedInv ==
  /\ worker \in Between => PipeIdle
  /\ workerErrs # << >> => worker = "gone"
  /\ WoundsClosed => worker = "gone"
  /\ main = "scan" => worker = "none"

LEMMA InitClosedInv == Init => ClosedInv
  BY DEF Init, ClosedInv, PipeIdle, Quiet, WoundsClosed

LEMMA MainClosedInv == ASSUME ClosedInv, Main PROVE ClosedInv'
<1> USE DEF ClosedInv, WoundsClosed, PipeIdle, Between, work, flow, errs
<1>1. CASE ScanEntry
  BY <1>1 DEF ScanEntry
<1>2. CASE StartWorker
  BY <1>2 DEF StartWorker
<1>3. CASE FeedFile
  BY <1>3 DEF FeedFile
<1>4. CASE WorkerErr
  BY <1>4 DEF WorkerErr
<1>5. CASE ConsumerErr
  BY <1>5 DEF ConsumerErr
<1>6. CASE AllFed
  BY <1>6 DEF AllFed
<1>7. CASE WaitForWorker
  BY <1>7 DEF WaitForWorker
<1>8. CASE WaitForConsumer
  BY <1>8 DEF WaitForConsumer
<1>9. QED
  BY <1>1, <1>2, <1>3, <1>4, <1>5, <1>6, <1>7, <1>8 DEF Main

\* A worker that is at work has not sent its error, and Validate still waits.
LEMMA WorkerClosedInv == ASSUME ClosedInv, Worker PROVE ClosedInv'
<1> USE DEF ClosedInv, WoundsClosed, PipeIdle, Between, others, scan, errs, flow
<1>1. CASE Stat
  BY <1>1 DEF Stat, Quiet
<1>2. CASE WoundWhole
  BY <1>2 DEF WoundWhole
<1>3. CASE ValidateBlock
  BY <1>3 DEF ValidateBlock
<1>4. CASE Copied
  BY <1>4 DEF Copied
<1>5. CASE WoundSize
  BY <1>5 DEF WoundSize
<1>6. CASE Flush
  BY <1>6 DEF Flush
<1>7. CASE ClosePipe
  BY <1>7 DEF ClosePipe
<1>8. CASE PipeDone
  BY <1>8 DEF PipeDone
<1>9. CASE NoMoreWork
  BY <1>9 DEF NoMoreWork
<1>10. CASE Leave
  BY <1>10 DEF Leave
<1>11. QED
  BY <1>1, <1>2, <1>3, <1>4, <1>5, <1>6, <1>7, <1>8, <1>9, <1>10 DEF Worker

LEMMA PipelineClosedInv == ASSUME ClosedInv, Pipeline PROVE ClosedInv'
<1> USE DEF ClosedInv, WoundsClosed, PipeIdle, Between, others, scan, errs, work
<1>1. CASE AggregatorSends
  BY <1>1 DEF AggregatorSends
<1>2. CASE RelaySends
  BY <1>2 DEF RelaySends
<1>3. QED
  BY <1>1, <1>2 DEF Pipeline

LEMMA ConsumerClosedInv == ASSUME ClosedInv, Consumer PROVE ClosedInv'
<1> USE DEF ClosedInv, WoundsClosed, PipeIdle, Between, untouched, scan, work
<1>1. CASE TakeWound
  BY <1>1 DEF TakeWound
<1>2. CASE ConsumerDone
  BY <1>2 DEF ConsumerDone
<1>3. CASE ThrowAway
  BY <1>3 DEF ThrowAway
<1>4. QED
  BY <1>1, <1>2, <1>3 DEF Consumer

LEMMA StepClosedInv == ClosedInv /\ [Next]_vars => ClosedInv'
<1> SUFFICES ASSUME ClosedInv, [Next]_vars PROVE ClosedInv'
  OBVIOUS
<1>1. CASE Cancel \/ Over \/ UNCHANGED vars
  BY <1>1 DEF Cancel, Over, vars, scan, work, flow, errs, ClosedInv, WoundsClosed, PipeIdle, Between
<1>2. QED
  BY <1>1, MainClosedInv, WorkerClosedInv, PipelineClosedInv, ConsumerClosedInv DEF Next

\* Validate closes the channel of wounds only when the worker is gone and the
\* aggregator and the relay have nothing left, whatever was cancelled or failed.
THEOREM NoSendOnClosedHolds == Spec => []NoSendOnClosed
<1>1. ClosedInv => NoSendOnClosed
  BY DEF ClosedInv, NoSendOnClosed, PipeIdle, Between
<1>2. QED
  BY <1>1, InitClosedInv, StepClosedInv, PTL DEF Spec
-----------------------------------------------------------------------------
(* What is where, and what has been said                                    *)

Wound == [kind : {"entry", "file", "closed"}, index : Nat, start : Nat, end : Nat]

\* Every wound between the worker and the consumer, or taken by the consumer.
Flow == consumer.got \cup Range(wounds) \cup {relay} \cup Range(pipe.out) \cup {pipe.last}

TypeInv ==
  /\ found \in Targets
  /\ consumer \in [kind : Consumers, state : {"doing", "returned"}, got : SUBSET Wound, total : Int]
  /\ ctx \in {"live", "done"}
  /\ main \in {"scan", "feed", "wait", "collect", "returned", "aborted"}
  /\ next \in Nat \ {0}
  /\ verdict \in {"nil", "wound", "failed"}
  /\ cancelled \in BOOLEAN
  /\ worker \in {"none", "idle", "stat", "whole", "copy", "resize", "flush", "close", "drain", "leaving", "gone"}
  /\ job \in [file : Nat, block : Nat]
  /\ failure \in {"nil", "failed"}
  /\ pipe \in [last : Wound \cup {NoWound}, out : Seq(Wound), closed : BOOLEAN]
  /\ relay \in Wound \cup {NoWound}
  /\ wounds \in Seq(Wound)
  /\ workerErrs \in {<< >>, <<"nil">>, <<"failed">>}
  /\ consumerErrs \in {<< >>, <<"nil">>, <<"wound">>, <<"failed">>}
  /\ bytesDone \in Int

\* The worker is at a file of the target that it can open.
Reading == {"copy", "resize", "flush", "close", "drain"}

PlaceInv ==
  /\ main = "scan" => worker = "none"
  /\ worker = "none" => job.file = 0
  /\ main \in {"scan", "aborted"} \/ (next <= Len(Expected) + 1 /\ job.file = next - 1)
  /\ main = "aborted" => worker = "none"
  /\ worker \in Reading \cup {"stat", "whole"} => job.file \in Files
  /\ worker = "stat" => job.block = 0
  /\ worker = "whole" => This.kind # "file"
  /\ worker \in Reading => This.kind = "file"
  /\ worker = "resize" => Len(This.data) # Len(Expected[job.file])
  /\ worker \in Reading \ {"copy"} => Rest < BlockSize
  /\ worker = "copy" => Rest >= 0
  /\ worker \notin Reading \ {"drain"} => pipe.last = NoWound
  /\ pipe.last # NoWound => pipe.last.kind = "file" /\ pipe.last.index = job.file
  /\ FeedClosed /\ ~cancelled => next \notin Files

\* Wounds are true.
SoundWound(w) ==
  /\ w.kind = "file" => w.index \in Files /\ ~SameFile(w.index)
  /\ w.kind = "entry" => w.index \in DOMAIN found.entries /\ found.entries[w.index] = "wounded"

Sound == \A w \in Flow : SoundWound(w)

\* Wounds may be lost from now on: the context is done or an error is known.
Lost == ctx = "done" \/ verdict # "nil" \/ consumerErrs \in {<<"wound">>, <<"failed">>}

VerdictInv ==
  /\ verdict # "nil" => main \notin {"scan", "feed"}
  /\ main = "aborted" => verdict # "nil"
  /\ cancelled => FeedClosed /\ (verdict # "nil" \/ ctx = "done")
  /\ worker \in {"leaving", "gone"} => failure # "nil" \/ FeedClosed \/ ~found.opens
  /\ ~found.opens => worker \in {"none", "gone"}
  /\ ~found.opens /\ main \notin {"scan", "aborted"} => workerErrs = <<"failed">> \/ verdict # "nil"
  /\ workerErrs = <<"nil">> => (failure = "nil" /\ found.opens) \/ verdict # "nil"
  /\ workerErrs = <<"failed">> => Failing
  /\ WoundsClosed => workerErrs = << >>
  /\ failure = "failed" => Failing /\ worker \in {"flush", "close", "drain", "leaving", "gone"}
  /\ WoundsClosed /\ failure # "nil" => verdict # "nil"
  /\ verdict = "failed" => Failing \/ main = "aborted"
  /\ consumerErrs = <<"failed">> => consumer.kind = "faulty"
  /\ consumerErrs = <<"wound">> \/ verdict = "wound" => consumer.kind = "guardian" /\ ~Intact
  /\ consumer.state = "doing" => consumerErrs = << >>
  /\ consumer.state = "returned" => Lost \/ (WoundsClosed /\ wounds = << >>)
  /\ main = "returned" => consumer.state = "returned" /\ consumerErrs = << >>
  /\ consumer.kind = "guardian" /\ consumer.got # {} => Lost

Bad == Lost \/ failure # "nil" \/ ~found.opens

-----------------------------------------------------------------------------
(* Nothing is left out                                                      *)

\* Among the wounds F one of this kind and index; one of file f from s to e.
Among(F, kind, i) == \E w \in F : w.kind = kind /\ w.index = i
Spanned(F, f, s, e) == \E w \in F : w.kind = "file" /\ w.index = f /\ w.start <= s /\ w.end >= e

EntriesReported ==
  \A i \in DOMAIN found.entries :
    main # "scan" \/ i < next =>
      /\ found.entries[i] # "error"
      /\ found.entries[i] = "wounded" => Among(Flow, "entry", i)

\* File f, when the worker is done with it.
Reported(F, f) ==
  /\ ~SameFile(f) => Among(F, "file", f)
  /\ \A i \in Corrupted(f) : Spanned(F, f, i - 1, i)

FilesReported ==
  \A f \in Files :
    main # "scan" /\ f < next /\ (f # job.file \/ worker \in {"idle", "leaving", "gone"}) => Reported(Flow, f)

\* The file the worker is at: blocks that differ among those it has validated,
\* and the size once it is compared.
Differs(b) == b >= NumBlocks(Expected[job.file]) \/ Block(Expected[job.file], b) # Block(This.data, b)
Validated(b) == b * BlockSize < Len(This.data) /\ (b < job.block \/ worker \in {"close", "drain"})
BlockEnd(f, b) == b * BlockSize + ComputeBlockSize(Len(Expected[f]), b)

BlocksReported ==
  worker \in Reading =>
    \A b \in Nat : Validated(b) /\ Differs(b) => Spanned(Flow, job.file, b * BlockSize, BlockEnd(job.file, b))

SizeReported ==
  worker \in {"flush", "close", "drain"} /\ Len(This.data) # Len(Expected[job.file]) =>
    Spanned(Flow, job.file, Len(This.data), Len(Expected[job.file]))

Complete == EntriesReported /\ FilesReported /\ BlocksReported /\ SizeReported

\* The progress: every file before the worker's counts in full, and so does the
\* worker's own once it has been copied or wounded as a whole.
ProgressInv ==
  /\ worker = "stat" => bytesDone = SizeBefore[job.file]
  /\ worker = "copy" => bytesDone = SizeBefore[job.file] + job.block * BlockSize
  /\ worker \notin {"stat", "copy"} /\ failure = "nil" => bytesDone = SizeBefore[job.file + 1]

ValidatorInv ==
  /\ TypeInv
  /\ ClosedInv
  /\ PlaceInv
  /\ Sound
  /\ VerdictInv
  /\ ~Bad => Complete
  /\ ProgressInv

-----------------------------------------------------------------------------
(* Facts about data                                                         *)

LEMMA SequenceShape ==
  ASSUME NEW s, IsSequence(s)
  PROVE  Len(s) \in Nat /\ DOMAIN s = 1 .. Len(s) /\ s \in Seq(Range(s))
  BY DEF IsSequence

LEMMA Shapes ==
  ASSUME TypeInv
  PROVE  /\ Len(Expected) \in Nat
         /\ Files = 1 .. Len(Expected)
         /\ \A f \in Files : Len(Expected[f]) \in Nat /\ DOMAIN Expected[f] = 1 .. Len(Expected[f])
         /\ \A f \in Files : found.files[f].kind = "file" =>
              Len(found.files[f].data) \in Nat /\ DOMAIN found.files[f].data = 1 .. Len(found.files[f].data)
         /\ Len(found.entries) \in Nat
         /\ DOMAIN found.entries = 1 .. Len(found.entries)
         /\ \A i \in DOMAIN found.entries : found.entries[i] \in {"ok", "wounded", "error"}
<1>1. found \in Targets
  BY DEF TypeInv
<1>2. IsSequence(Expected) /\ \A f \in Files : IsSequence(Expected[f])
  BY ExpectedAssumption DEF Files
<1>3. /\ found.entries \in Seq({"ok", "wounded", "error"})
      /\ \A f \in Files : found.files[f].kind = "file" => IsSequence(found.files[f].data)
  BY <1>1, TargetsAssumption DEF Files
<1>4. Len(Expected) \in Nat /\ Files = 1 .. Len(Expected)
  BY <1>2, SequenceShape DEF Files
<1>5. \A f \in Files : Len(Expected[f]) \in Nat /\ DOMAIN Expected[f] = 1 .. Len(Expected[f])
  BY <1>2, SequenceShape
<1>6. \A f \in Files : found.files[f].kind = "file" =>
        Len(found.files[f].data) \in Nat /\ DOMAIN found.files[f].data = 1 .. Len(found.files[f].data)
  BY <1>3, SequenceShape
<1>7. /\ Len(found.entries) \in Nat
      /\ DOMAIN found.entries = 1 .. Len(found.entries)
      /\ \A i \in DOMAIN found.entries : found.entries[i] \in {"ok", "wounded", "error"}
  <2> DEFINE t == found.entries
  <2>1. t \in Seq({"ok", "wounded", "error"})
    BY <1>3
  <2> HIDE DEF t
  <2>2. Len(t) \in Nat /\ DOMAIN t = 1 .. Len(t) /\ \A i \in DOMAIN t : t[i] \in {"ok", "wounded", "error"}
    BY <2>1
  <2>3. QED
    BY <2>2 DEF t
<1>8. QED
  BY <1>4, <1>5, <1>6, <1>7

\* What is in a sequence.
LEMMA RangeFacts ==
  /\ Range(<< >>) = {}
  /\ \A x : Range(<<x>>) = {x}
  /\ \A x, y : Range(<<x, y>>) = {x, y}
  BY DEF Range

LEMMA RangeAppend ==
  ASSUME NEW S, NEW s \in Seq(S), NEW x \in S
  PROVE  Range(Append(s, x)) = Range(s) \cup {x}
<1>1. /\ Len(s) \in Nat /\ DOMAIN s = 1 .. Len(s)
      /\ DOMAIN Append(s, x) = 1 .. Len(s) + 1
      /\ \A i \in 1 .. Len(s) : Append(s, x)[i] = s[i]
      /\ Append(s, x)[Len(s) + 1] = x
  OBVIOUS
<1>2. 1 .. Len(s) + 1 = (1 .. Len(s)) \cup {Len(s) + 1}
  BY <1>1
<1>3. QED
  BY <1>1, <1>2 DEF Range

LEMMA RangeHead ==
  ASSUME NEW S, NEW s \in Seq(S), s # << >>
  PROVE  /\ Head(s) \in S /\ Tail(s) \in Seq(S)
         /\ Range(s) = {Head(s)} \cup Range(Tail(s))
<1>1. /\ Len(s) \in Nat \ {0} /\ DOMAIN s = 1 .. Len(s)
      /\ Head(s) = s[1] /\ Head(s) \in S /\ Tail(s) \in Seq(S)
      /\ DOMAIN Tail(s) = 1 .. Len(s) - 1
      /\ \A i \in 1 .. Len(s) - 1 : Tail(s)[i] = s[i + 1]
  OBVIOUS
<1>2. Range(s) \subseteq {Head(s)} \cup Range(Tail(s))
  <2>1. ASSUME NEW i \in 1 .. Len(s), i # 1 PROVE s[i] \in Range(Tail(s))
    <3>1. i - 1 \in 1 .. Len(s) - 1 /\ (i - 1) + 1 = i
      BY <1>1, <2>1
    <3>2. Tail(s)[i - 1] = s[i]
      BY <1>1, <3>1
    <3>3. QED
      BY <1>1, <3>1, <3>2 DEF Range
  <2>2. QED
    BY <1>1, <2>1 DEF Range
<1>3. {Head(s)} \cup Range(Tail(s)) \subseteq Range(s)
  <2>1. \A i \in 1 .. Len(s) - 1 : i + 1 \in 1 .. Len(s)
    BY <1>1
  <2>2. 1 \in 1 .. Len(s)
    BY <1>1
  <2>3. QED
    BY <1>1, <2>1, <2>2 DEF Range
<1>4. QED
  BY <1>1, <1>2, <1>3

LEMMA RangeIn ==
  ASSUME NEW S, NEW s \in Seq(S)
  PROVE  Range(s) \subseteq S
  BY DEF Range
LEMMA NoWoundIs == NoWound.kind = "none" /\ NoWound \notin Wound
  BY DEF NoWound, Wound

\* G has, for every wound of F, one of the same kind and index that covers it.
Covers(v, w) == v.kind = w.kind /\ v.index = w.index /\ v.start <= w.start /\ v.end >= w.end
Telling(w) == w.kind \in {"file", "entry"}
Grows(F, G) == \A w \in F : Telling(w) => \E v \in G : Covers(v, w)

LEMMA GrowsSame ==
  ASSUME NEW F, NEW G, F \subseteq Wound \cup {NoWound}, \A w \in F : w \in G \/ ~Telling(w)
  PROVE  Grows(F, G)
<1> SUFFICES ASSUME NEW w \in F, Telling(w) PROVE \E v \in G : Covers(v, w)
  BY DEF Grows
<1>1. w \in Wound
  BY NoWoundIs DEF Telling
<1>2. w.start \in Nat /\ w.end \in Nat
  BY <1>1 DEF Wound
<1>3. Covers(w, w)
  BY <1>2 DEF Covers
<1>4. QED
  BY <1>3

LEMMA GrowsMore ==
  ASSUME NEW F, NEW G, NEW H, Grows(F, G), G \subseteq H
  PROVE  Grows(F, H)
  BY DEF Grows

LEMMA GrowsUnion ==
  ASSUME NEW F1, NEW F2, NEW G, Grows(F1, G), Grows(F2, G)
  PROVE  Grows(F1 \cup F2, G)
  BY DEF Grows

LEMMA AmongGrows ==
  ASSUME NEW F, NEW G, Grows(F, G), NEW i, NEW kind \in {"file", "entry"}, Among(F, kind, i)
  PROVE  Among(G, kind, i)
  BY DEF Grows, Among, Covers, Telling

LEMMA SpannedGrows ==
  ASSUME NEW F, NEW G, F \subseteq Wound \cup {NoWound}, G \subseteq Wound \cup {NoWound}, Grows(F, G),
         NEW f, NEW s \in Int, NEW e \in Int, Spanned(F, f, s, e)
  PROVE  Spanned(G, f, s, e)
<1>1. PICK w \in F : w.kind = "file" /\ w.index = f /\ w.start <= s /\ w.end >= e
  BY DEF Spanned
<1>2. PICK v \in G : Covers(v, w)
  BY <1>1 DEF Grows, Telling
<1>3. v.kind = "file" /\ v.index = f /\ v.start <= w.start /\ v.end >= w.end
  BY <1>1, <1>2 DEF Covers
<1>4. v \in Wound /\ w \in Wound
  BY <1>1, <1>3, NoWoundIs
<1>5. v.start \in Nat /\ v.end \in Nat /\ w.start \in Nat /\ w.end \in Nat
  BY <1>4 DEF Wound
<1>6. v.start <= s /\ v.end >= e
  BY <1>1, <1>3, <1>5
<1>7. QED
  BY <1>3, <1>6 DEF Spanned

LEMMA SpannedWithin ==
  ASSUME NEW F, F \subseteq Wound \cup {NoWound}, NEW f, NEW s \in Int, NEW e \in Int, Spanned(F, f, s, e),
         NEW t \in Int, NEW d \in Int, s <= t, d <= e
  PROVE  Spanned(F, f, t, d)
<1>1. PICK w \in F : w.kind = "file" /\ w.index = f /\ w.start <= s /\ w.end >= e
  BY DEF Spanned
<1>2. w \in Wound
  BY <1>1, NoWoundIs
<1>3. w.start \in Nat /\ w.end \in Nat
  BY <1>2 DEF Wound
<1>4. w.start <= t /\ w.end >= d
  BY <1>1, <1>3
<1>5. QED
  BY <1>1, <1>4 DEF Spanned

LEMMA SpannedAmong ==
  ASSUME NEW F, NEW f, NEW s, NEW e, Spanned(F, f, s, e)
  PROVE  Among(F, "file", f)
  BY DEF Spanned, Among
-----------------------------------------------------------------------------
(* The aggregator                                                           *)

\* Wounds of file f, or healthy blocks.
OfFile(v, f) == v \in Wound /\ (v.kind = "closed" \/ (v.kind = "file" /\ v.index = f))
Pipe == [last : Wound \cup {NoWound}, out : Seq(Wound), closed : BOOLEAN]
HeldOf(p, f) == p.last # NoWound => p.last.kind = "file" /\ p.last.index = f

\* What the aggregator lets go of and holds back covers what it held and was given,
\* and is of the same file.
AggregatesWell(p, w, f) ==
  /\ p \in Pipe
  /\ HeldOf(p, f)
  /\ \A v \in Range(p.out) : OfFile(v, f)
  /\ Grows({pipe.last, w}, Range(p.out) \cup {p.last})

LEMMA AggregateFacts ==
  ASSUME pipe \in Pipe, pipe.out = << >>, NEW f \in Nat, HeldOf(pipe, f),
         NEW w, OfFile(w, f), w.start <= w.end
  PROVE  AggregatesWell(Aggregate(w), w, f)
<1> DEFINE held == pipe.last
           merged == [held EXCEPT !.end = w.end]
           p == Aggregate(w)
<1>1. /\ pipe.last \in Wound \cup {NoWound} /\ pipe.closed \in BOOLEAN
      /\ w \in Wound /\ w.kind \in {"file", "closed"} /\ w.start \in Nat /\ w.end \in Nat
  BY DEF Pipe, OfFile, Wound
<1>2. /\ << >> \in Seq(Wound)
      /\ \A v \in Wound : <<v>> \in Seq(Wound)
      /\ \A u \in Wound, v \in Wound : <<u>> \o <<v>> = <<u, v>> /\ <<u, v>> \in Seq(Wound)
      /\ \A v \in Wound : << >> \o <<v>> = <<v>>
  <2> HIDE DEF held, merged, p
  <2>1. << >> \in Seq(Wound) /\ \A v \in Wound : <<v>> \in Seq(Wound)
    OBVIOUS
  <2>2. ASSUME NEW u \in Wound, NEW v \in Wound
        PROVE  <<u>> \o <<v>> = <<u, v>> /\ <<u, v>> \in Seq(Wound)
    <3>1. <<u>> \in Seq(Wound) /\ <<v>> \in Seq(Wound) /\ <<u, v>> \in Seq(Wound)
      OBVIOUS
    <3>2. /\ <<u>> \o <<v>> \in Seq(Wound) /\ Len(<<u>> \o <<v>>) = 2
          /\ (<<u>> \o <<v>>)[1] = u /\ (<<u>> \o <<v>>)[2] = v
      BY <3>1
    <3>3. Len(<<u, v>>) = 2 /\ <<u, v>>[1] = u /\ <<u, v>>[2] = v
      OBVIOUS
    <3>4. \A i \in 1 .. 2 : i = 1 \/ i = 2
      OBVIOUS
    <3>5. <<u>> \o <<v>> = <<u, v>>
      BY <3>1, <3>2, <3>3, <3>4, SameSequence
    <3>6. QED
      BY <3>1, <3>5
  <2>3. ASSUME NEW v \in Wound PROVE << >> \o <<v>> = <<v>>
    OBVIOUS
  <2>4. QED
    BY <2>1, <2>2, <2>3
<1>3. ASSUME held # NoWound
      PROVE  /\ held \in Wound /\ held.kind = "file" /\ held.index = f
             /\ held.start \in Nat /\ held.end \in Nat
             /\ merged \in Wound /\ merged.kind = "file" /\ merged.index = f
             /\ merged.start = held.start /\ merged.end = w.end
  <2>1. held \in Wound /\ held.kind = "file" /\ held.index = f
    BY <1>1, <1>3 DEF HeldOf
  <2>2. QED
    BY <1>1, <2>1 DEF Wound
<1>4. CASE w.kind = "file" /\ held = NoWound
  <2>1. p = [pipe EXCEPT !.last = w]
    BY <1>4 DEF Aggregate
  <2>2. p \in Pipe /\ p.out = << >> /\ p.last = w
    BY <1>1, <2>1 DEF Pipe
  <2>3. Grows({held, w}, Range(p.out) \cup {p.last})
    BY <1>1, <1>4, <2>2, GrowsSame, NoWoundIs DEF Telling
  <2>4. HeldOf(p, f)
    BY <1>4, <2>2 DEF HeldOf, OfFile
  <2> HIDE DEF p
  <2>5. AggregatesWell(p, w, f)
    BY <2>2, <2>3, <2>4, RangeFacts DEF AggregatesWell
  <2>6. QED
    BY <2>5 DEF p
<1>5. CASE w.kind = "file" /\ held # NoWound /\ held.end <= w.start /\ w.start >= held.start
  <2>1. p = IF Size(merged) >= MaxWoundSize
              THEN [pipe EXCEPT !.out = <<merged>>, !.last = NoWound]
              ELSE [pipe EXCEPT !.last = merged]
    BY <1>5 DEF Aggregate
  <2> HIDE DEF p
  <2>2. /\ p \in Pipe
        /\ \/ p.out = <<merged>> /\ p.last = NoWound
           \/ p.out = << >> /\ p.last = merged
    <3>1. CASE Size(merged) >= MaxWoundSize
      <4>1. p = [pipe EXCEPT !.out = <<merged>>, !.last = NoWound]
        BY <2>1, <3>1
      <4>2. <<merged>> \in Seq(Wound)
        BY <1>2, <1>3, <1>5
      <4> HIDE DEF merged
      <4>3. QED
        BY <4>1, <4>2 DEF Pipe
    <3>2. CASE ~(Size(merged) >= MaxWoundSize)
      <4>1. p = [pipe EXCEPT !.last = merged]
        BY <2>1, <3>2
      <4>2. merged \in Wound
        BY <1>3, <1>5
      <4> HIDE DEF merged
      <4>3. QED
        BY <4>1, <4>2 DEF Pipe
    <3>3. QED
      BY <3>1, <3>2
  <2>3. merged \in Range(p.out) \cup {p.last} /\ Range(p.out) \subseteq {merged}
    <3>1. CASE p.out = <<merged>>
      <4>1. Range(p.out) = {merged}
        BY <3>1, RangeFacts, Zenon
      <4>2. QED
        BY <4>1
    <3>2. CASE p.out = << >> /\ p.last = merged
      <4>1. Range(p.out) = {}
        BY <3>2, RangeFacts, Zenon
      <4>2. QED
        BY <3>2, <4>1
    <3>3. QED
      BY <2>2, <3>1, <3>2, Zenon
  <2>4. Covers(merged, held) /\ Covers(merged, w)
    <3>1. w.index = f
      BY <1>5 DEF OfFile
    <3>2. merged.kind = "file" /\ merged.index = f /\ merged.start = held.start /\ merged.end = w.end
      BY <1>3, <1>5
    <3>3. held.kind = "file" /\ held.index = f /\ held.start \in Nat /\ held.end \in Nat
      BY <1>3, <1>5
    <3>4. held.end <= w.end
      BY <1>1, <1>5, <3>3
    <3> HIDE DEF merged, held
    <3>5. QED
      BY <1>1, <1>5, <3>1, <3>2, <3>3, <3>4 DEF Covers
  <2>5. HeldOf(p, f)
    BY <1>3, <1>5, <2>2 DEF HeldOf
  <2>6. \A v \in Range(p.out) : OfFile(v, f)
    BY <1>3, <1>5, <2>3 DEF OfFile
  <2>7. Grows({held, w}, Range(p.out) \cup {p.last})
    <3> HIDE DEF merged, held
    <3>1. QED
      BY <2>3, <2>4 DEF Grows
  <2>8. AggregatesWell(p, w, f)
    BY <2>2, <2>5, <2>6, <2>7 DEF AggregatesWell
  <2>9. QED
    BY <2>8 DEF p
<1>6. CASE w.kind = "file" /\ held # NoWound /\ ~(held.end <= w.start /\ w.start >= held.start)
  <2>1. p = [pipe EXCEPT !.out = <<held>>, !.last = w]
    BY <1>6 DEF Aggregate
  <2>2. held \in Wound /\ <<held>> \in Seq(Wound)
    BY <1>2, <1>3, <1>6
  <2>3. p \in Pipe /\ p.out = <<held>> /\ p.last = w
    BY <1>1, <2>1, <2>2 DEF Pipe
  <2>4. Range(p.out) = {held}
    BY <2>3, RangeFacts
  <2>5. Grows({held, w}, Range(p.out) \cup {p.last})
    BY <1>1, <2>2, <2>3, <2>4, GrowsSame
  <2>6. HeldOf(p, f)
    BY <1>6, <2>3 DEF HeldOf, OfFile
  <2>7. OfFile(held, f)
    BY <1>3, <1>6 DEF OfFile
  <2> HIDE DEF p
  <2>8. AggregatesWell(p, w, f)
    BY <2>3, <2>4, <2>5, <2>6, <2>7 DEF AggregatesWell
  <2>9. QED
    BY <2>8 DEF p
<1>7. CASE w.kind # "file"
  <2>1. p = [pipe EXCEPT !.out = (IF held = NoWound THEN << >> ELSE <<held>>) \o <<w>>, !.last = NoWound]
    BY <1>7 DEF Aggregate
  <2>2. CASE held = NoWound
    <3>1. p = [pipe EXCEPT !.out = <<w>>, !.last = NoWound] /\ <<w>> \in Seq(Wound)
      BY <1>1, <1>2, <2>1, <2>2
    <3>2. p \in Pipe /\ p.out = <<w>> /\ p.last = NoWound
      BY <3>1 DEF Pipe
    <3>3. Range(p.out) = {w}
      BY <3>2, RangeFacts
    <3>4. Grows({held, w}, Range(p.out) \cup {p.last})
      BY <1>1, <2>2, <3>2, <3>3, GrowsSame
    <3> HIDE DEF p
    <3>5. AggregatesWell(p, w, f)
      BY <3>2, <3>3, <3>4 DEF AggregatesWell, HeldOf
    <3>6. QED
      BY <3>5 DEF p
  <2>3. CASE held # NoWound
    <3>1. held \in Wound
      BY <1>3, <2>3
    <3>2. p = [pipe EXCEPT !.out = <<held, w>>, !.last = NoWound] /\ <<held, w>> \in Seq(Wound)
      BY <1>1, <1>2, <2>1, <2>3, <3>1
    <3>3. p \in Pipe /\ p.out = <<held, w>> /\ p.last = NoWound
      BY <3>2 DEF Pipe
    <3>4. Range(p.out) = {held, w}
      BY <3>3, RangeFacts
    <3>5. Grows({held, w}, Range(p.out) \cup {p.last})
      BY <1>1, <3>1, <3>3, <3>4, GrowsSame
    <3>6. OfFile(held, f)
      BY <1>3, <2>3 DEF OfFile
    <3> HIDE DEF p
    <3>7. AggregatesWell(p, w, f)
      BY <3>3, <3>4, <3>5, <3>6 DEF AggregatesWell, HeldOf
    <3>8. QED
      BY <3>7 DEF p
  <2>4. QED
    BY <2>2, <2>3
<1>8. QED
  BY <1>4, <1>5, <1>6, <1>7
-----------------------------------------------------------------------------
(* Blocks                                                                   *)

\* Where the blocks of a file of the signature end.
LEMMA BlockSizes ==
  ASSUME TypeInv, NEW f \in Files, NEW b \in Nat
  PROVE  /\ b * BlockSize \in Nat
         /\ ComputeBlockSize(Len(Expected[f]), b) \in Nat
         /\ b < NumBlocks(Expected[f]) <=> b * BlockSize < Len(Expected[f])
         /\ b * BlockSize <= Len(Expected[f]) =>
              BlockEnd(f, b) = IF b * BlockSize + BlockSize > Len(Expected[f]) THEN Len(Expected[f])
                               ELSE b * BlockSize + BlockSize
<1> DEFINE l == Len(Expected[f])
           s == BlockSize
<1>1. s \in Nat \ {0} /\ l \in Nat
  BY SizeAssumption, Shapes
<1>2. /\ b * s \in Nat
      /\ s * (b + 1) = b * s + s
      /\ l % s \in 0 .. s - 1
      /\ b < (l + s - 1) \div s <=> b * s < l
      /\ b * s <= l /\ b * s + s > l => b * s + (l % s) = l
  <2> HIDE DEF l, s
  <2>1. QED
    BY <1>1, BlockArithmetic
<1>3. b < NumBlocks(Expected[f]) <=> b * s < l
  BY <1>2 DEF NumBlocks
<1>4. ComputeBlockSize(l, b) = IF b * s + s > l THEN l % s ELSE s
  BY <1>2 DEF ComputeBlockSize
<1>5. BlockEnd(f, b) = b * s + ComputeBlockSize(l, b)
  BY DEF BlockEnd
<1> HIDE DEF l, s
<1>6. ComputeBlockSize(l, b) \in Nat
  BY <1>1, <1>2, <1>4
<1>7. b * s <= l => BlockEnd(f, b) = IF b * s + s > l THEN l ELSE b * s + s
  BY <1>1, <1>2, <1>4, <1>5
<1>8. QED
  BY <1>2, <1>3, <1>6, <1>7 DEF l, s

\* What a block is made of.
LEMMA BlockBytes ==
  ASSUME NEW d, IsSequence(d), NEW b \in Nat, NEW i \in 1 .. Len(d),
         b * BlockSize < i, i <= b * BlockSize + BlockSize
  PROVE  Block(d, b)[i - b * BlockSize] = d[i]
<1> DEFINE s == BlockSize
           o == b * s
           l == Len(d)
           m == (b + 1) * s
           n == Min({m, l})
<1>1. s \in Nat \ {0} /\ l \in Nat /\ d \in Seq(Range(d)) /\ DOMAIN d = 1 .. l
  BY SizeAssumption, SequenceShape
<1>2. o \in Nat /\ m = o + s
  BY <1>1
<1> HIDE DEF o, s, m
<1>3. n \in Nat /\ n <= l /\ (n = l \/ n = m)
  <2>1. \E x \in {m, l} : \A y \in {m, l} : x <= y
    BY <1>1, <1>2
  <2>2. n \in {m, l} /\ \A y \in {m, l} : n <= y
    BY <2>1 DEF Min
  <2>3. QED
    BY <1>1, <1>2, <2>2
<1>4. Block(d, b) = SubSeq(d, o + 1, n)
  BY Zenon DEF Block, o, s, m
<1> HIDE DEF n
<1>5. i \in Nat /\ o < i /\ i <= o + s /\ i <= l
  BY <1>1 DEF o, s
<1>6. i <= n
  BY <1>2, <1>3, <1>5
<1>7. i - o \in 1 .. n - o
  BY <1>2, <1>3, <1>5, <1>6
<1>8. SubSeq(d, o + 1, n)[i - o] = d[(o + 1) + (i - o) - 1]
  <2> DEFINE k == i - o
  <2>1. k \in 1 .. n - (o + 1) + 1 /\ o + 1 \in Int /\ n \in Int
    BY <1>2, <1>3, <1>7
  <2>2. \A j \in o + 1 .. n : d[j] \in Range(d)
    <3>1. ASSUME NEW j \in o + 1 .. n PROVE j \in 1 .. l
      <4> HIDE DEF l
      <4>1. j \in Int /\ o + 1 <= j /\ j <= n
        BY <1>2, <1>3
      <4>2. QED
        BY <1>1, <1>2, <1>3, <4>1
    <3>2. QED
      BY <1>1, <3>1 DEF Range
  <2> HIDE DEF k
  <2>3. SubSeq(d, o + 1, n)[k] = d[(o + 1) + k - 1]
    BY <2>1, <2>2, SubSeqProperties, SMTT(60)
  <2>4. QED
    BY <2>3 DEF k
<1>9. (o + 1) + (i - o) - 1 = i
  BY <1>2, <1>5
<1>10. QED
  BY <1>4, <1>8, <1>9 DEF o, s

\* A byte that differs is in a block that differs.
LEMMA BlockOfByte ==
  ASSUME NEW i \in Nat \ {0}
  PROVE  \E b \in Nat : b * BlockSize \in Nat /\ b * BlockSize < i /\ i <= b * BlockSize + BlockSize
<1> DEFINE b == (i - 1) \div BlockSize
<1>1. i - 1 \in Nat /\ BlockSize \in Nat \ {0}
  BY SizeAssumption
<1>2. /\ b \in Nat /\ b * BlockSize \in Nat
      /\ b * BlockSize <= i - 1 /\ i - 1 < b * BlockSize + BlockSize
  BY <1>1, ChunkBounds
<1> HIDE DEF b
<1>3. b * BlockSize < i /\ i <= b * BlockSize + BlockSize
  BY <1>1, <1>2
<1>4. QED
  BY <1>2, <1>3
-----------------------------------------------------------------------------
(* The invariant's types                                                    *)

LEMMA NewWounds ==
  ASSUME TypeInv, PlaceInv
  PROVE  /\ EntryWound(next) \in Wound
         /\ job.file \in Files => FileWound(job.file, 0, Len(Expected[job.file])) \in Wound
         /\ worker \in Reading => Len(This.data) \in Nat
         /\ worker \in Reading => FileWound(job.file, Len(This.data), Len(Expected[job.file])) \in Wound
<1>1. next \in Nat /\ job.file \in Nat
  BY DEF TypeInv
<1>2. job.file \in Files => Len(Expected[job.file]) \in Nat
  BY Shapes
<1>3. worker \in Reading => job.file \in Files /\ Len(This.data) \in Nat
  BY Shapes DEF PlaceInv, This
<1>4. QED
  BY <1>1, <1>2, <1>3 DEF EntryWound, FileWound, Wound

\* The wound of the block the worker is at.
ThisBlock == ValidateAsWound(job.file, job.block, Block(This.data, job.block))

LEMMA ThisBlockIs ==
  ASSUME TypeInv, PlaceInv, worker \in Reading
  PROVE  /\ ThisBlock = IF Differs(job.block)
                          THEN FileWound(job.file, job.block * BlockSize, BlockEnd(job.file, job.block))
                          ELSE ClosedFile(job.file, job.block * BlockSize, BlockEnd(job.file, job.block))
         /\ OfFile(ThisBlock, job.file)
         /\ ThisBlock.start = job.block * BlockSize
         /\ ThisBlock.end = BlockEnd(job.file, job.block)
         /\ ThisBlock.start <= ThisBlock.end
         /\ ThisBlock.kind = IF Differs(job.block) THEN "file" ELSE "closed"
<1> DEFINE f == job.file
           b == job.block
           s == b * BlockSize
           e == BlockEnd(f, b)
<1>1. f \in Files /\ f \in Nat /\ b \in Nat
  BY DEF TypeInv, PlaceInv
<1>2. s \in Nat /\ ComputeBlockSize(Len(Expected[f]), b) \in Nat
  BY <1>1, BlockSizes
<1>3. e \in Nat /\ s <= e
  BY <1>2 DEF BlockEnd
<1>4. ThisBlock = IF Differs(b) THEN FileWound(f, s, e) ELSE ClosedFile(f, s, e)
  BY DEF ThisBlock, ValidateAsWound, Differs, BlockEnd
<1> HIDE DEF f, b, s, e
<1>5. FileWound(f, s, e) \in Wound /\ ClosedFile(f, s, e) \in Wound
  BY <1>1, <1>2, <1>3 DEF FileWound, ClosedFile, Wound
<1>6. CASE Differs(b)
  <2>1. ThisBlock = FileWound(f, s, e)
    BY <1>4, <1>6
  <2>2. /\ ThisBlock.kind = "file" /\ ThisBlock.index = f /\ ThisBlock.start = s /\ ThisBlock.end = e
    BY <2>1 DEF FileWound
  <2>3. QED
    BY <1>3, <1>5, <1>6, <2>1, <2>2 DEF OfFile, f, b, s, e
<1>7. CASE ~Differs(b)
  <2>1. ThisBlock = ClosedFile(f, s, e)
    BY <1>4, <1>7
  <2>2. /\ ThisBlock.kind = "closed" /\ ThisBlock.index = f /\ ThisBlock.start = s /\ ThisBlock.end = e
    BY <2>1 DEF ClosedFile
  <2>3. QED
    BY <1>3, <1>5, <1>7, <2>1, <2>2 DEF OfFile, f, b, s, e
<1>8. QED
  BY <1>6, <1>7

LEMMA OfferFacts ==
  ASSUME TypeInv, PlaceInv, worker \in Reading, Offer(ThisBlock)
  PROVE  /\ AggregatesWell(pipe', ThisBlock, job.file)
         /\ pipe.out = << >>
<1>1. pipe.out = << >> /\ pipe' = Aggregate(ThisBlock)
  BY DEF Offer
<1>2. pipe \in Pipe /\ HeldOf(pipe, job.file) /\ job.file \in Nat
  BY DEF TypeInv, PlaceInv, Pipe, HeldOf
<1>3. OfFile(ThisBlock, job.file) /\ ThisBlock.start <= ThisBlock.end
  BY ThisBlockIs
<1>4. AggregatesWell(Aggregate(ThisBlock), ThisBlock, job.file)
  BY <1>1, <1>2, <1>3, AggregateFacts
<1>5. QED
  BY <1>1, <1>4

LEMMA SendTypes ==
  ASSUME TypeInv, NEW w \in Wound, SendOrDrop(w) \/ Send(w)
  PROVE  wounds' \in Seq(Wound)
<1>1. wounds \in Seq(Wound) /\ Append(wounds, w) \in Seq(Wound)
  BY DEF TypeInv
<1>2. wounds' = Append(wounds, w) \/ wounds' = wounds
  BY DEF SendOrDrop, Send
<1>3. QED
  BY <1>1, <1>2

LEMMA QuietIs == Quiet \in Pipe /\ Quiet.out = << >> /\ Quiet.last = NoWound
  BY DEF Quiet, Pipe

LEMMA MainTypes == ASSUME TypeInv, PlaceInv, VerdictInv, ClosedInv, Main PROVE TypeInv'
<1>1. /\ EntryWound(next) \in Wound
      /\ next \in Nat /\ next + 1 \in Nat \ {0}
  BY NewWounds DEF TypeInv
<1>2. ASSUME workerErrs # << >> PROVE Head(workerErrs) \in {"nil", "failed"}
  BY <1>2 DEF TypeInv
<1>3. ASSUME consumerErrs # << >> PROVE Head(consumerErrs) \in {"nil", "wound", "failed"}
  BY <1>3 DEF TypeInv
<1> USE DEF work, flow, errs
<1>4. CASE ScanEntry
  <2>1. wounds' \in Seq(Wound)
    <3>1. Send(EntryWound(next)) \/ UNCHANGED wounds
      BY <1>4 DEF ScanEntry
    <3>2. QED
      BY <1>1, <3>1, SendTypes DEF TypeInv
  <2>2. QED
    BY <1>1, <1>4, <2>1 DEF ScanEntry, TypeInv
<1>5. CASE StartWorker
  BY <1>5 DEF StartWorker, TypeInv
<1>6. CASE FeedFile
  <2>1. job' \in [file : Nat, block : Nat]
    BY <1>1, <1>6 DEF FeedFile
  <2>2. QED
    BY <1>1, <1>6, <2>1 DEF FeedFile, TypeInv
<1>7. CASE WorkerErr
  <2>1. verdict' \in {"nil", "failed"} /\ workerErrs' = <<"nil">>
    BY <1>2, <1>7 DEF WorkerErr
  <2>2. QED
    BY <1>7, <2>1 DEF WorkerErr, TypeInv
<1>8. CASE ConsumerErr
  <2>1. verdict' \in {"nil", "wound", "failed"} /\ consumerErrs' = <<"nil">>
    BY <1>3, <1>8 DEF ConsumerErr
  <2>2. QED
    BY <1>8, <2>1 DEF ConsumerErr, TypeInv
<1>9. CASE AllFed
  BY <1>9 DEF AllFed, TypeInv
<1>10. CASE WaitForWorker
  <2>1. verdict' \in {"nil", "wound", "failed"} /\ workerErrs' = << >>
    BY <1>2, <1>10 DEF WaitForWorker, FirstOf, TypeInv
  <2>2. QED
    BY <1>10, <2>1 DEF WaitForWorker, TypeInv
<1>11. CASE WaitForConsumer
  <2>1. verdict' \in {"nil", "wound", "failed"} /\ consumerErrs' = << >>
    BY <1>3, <1>11 DEF WaitForConsumer, FirstOf, TypeInv
  <2>2. QED
    BY <1>11, <2>1 DEF WaitForConsumer, TypeInv
<1>12. QED
  BY <1>4, <1>5, <1>6, <1>7, <1>8, <1>9, <1>10, <1>11 DEF Main

LEMMA WorkerTypes == ASSUME TypeInv, PlaceInv, ClosedInv, VerdictInv, Worker PROVE TypeInv'
<1>1. /\ job.file \in Files => Len(Expected[job.file]) \in Nat
      /\ worker \in Reading => Len(This.data) \in Nat /\ job.file \in Files
      /\ job.file \in Nat /\ job.block \in Nat /\ bytesDone \in Int /\ BlockSize \in Nat
      /\ job.block * BlockSize \in Nat
  <2>1. job.block * BlockSize \in Nat
    BY SizeAssumption DEF TypeInv
  <2>2. QED
    BY <2>1, Shapes, NewWounds, SizeAssumption DEF TypeInv, PlaceInv
<1>2. worker \in Reading => Rest \in Int
  <2> DEFINE o == job.block * BlockSize
  <2>1. o \in Nat /\ Rest = Len(This.data) - o
    BY <1>1 DEF Rest
  <2> HIDE DEF o
  <2>2. QED
    BY <1>1, <2>1
<1> USE DEF others, scan, errs, flow
<1>3. CASE Stat
  <2>1. pipe' \in Pipe
    BY <1>3, QuietIs DEF Stat, TypeInv, Pipe
  <2>2. bytesDone' \in Int
    BY <1>1, <1>3 DEF Stat, PlaceInv
  <2>3. worker' \in {"whole", "copy", "leaving"} /\ failure' \in {"nil", "failed"}
    BY <1>3 DEF Stat, TypeInv
  <2>4. QED
    BY <1>3, <2>1, <2>2, <2>3 DEF Stat, TypeInv, Pipe
<1>4. CASE WoundWhole
  <2>1. wounds' \in Seq(Wound)
    BY <1>4, NewWounds, SendTypes DEF WoundWhole, PlaceInv
  <2>2. QED
    BY <1>4, <2>1 DEF WoundWhole, TypeInv
<1>5. CASE ValidateBlock
  <2>1. pipe' \in Pipe
    BY <1>5, OfferFacts DEF ValidateBlock, Reading, ThisBlock, AggregatesWell
  <2>2. job' \in [file : Nat, block : Nat] /\ bytesDone' \in Int
    BY <1>1, <1>5, SMTT(60) DEF ValidateBlock, TypeInv
  <2>3. QED
    BY <1>5, <2>1, <2>2 DEF ValidateBlock, TypeInv, Pipe
<1>6. CASE Copied
  <2>1. bytesDone' \in Int
    <3> DEFINE r == Rest
               l == Len(Expected[job.file])
               d == Len(This.data)
    <3>1. r \in Int /\ l \in Nat /\ d \in Nat /\ bytesDone \in Int
      BY <1>1, <1>2, <1>6 DEF Copied, Reading
    <3>2. bytesDone' = bytesDone + r \/ bytesDone' = bytesDone + r + l - d
      BY <1>6 DEF Copied
    <3> HIDE DEF r, l, d
    <3>3. QED
      BY <3>1, <3>2
  <2>2. worker' \in {"flush", "resize"} /\ failure' \in {"nil", "failed"}
    BY <1>6 DEF Copied, TypeInv
  <2>3. QED
    BY <1>6, <2>1, <2>2 DEF Copied, TypeInv
<1>7. CASE WoundSize
  <2>1. wounds' \in Seq(Wound)
    BY <1>7, NewWounds, SendTypes DEF WoundSize, Reading
  <2>2. QED
    BY <1>7, <2>1 DEF WoundSize, TypeInv
<1>8. CASE Flush
  <2>1. pipe' \in Pipe
    BY <1>8, OfferFacts DEF Flush, Reading, ThisBlock, AggregatesWell, TypeInv, Pipe
  <2>2. QED
    BY <1>8, <2>1 DEF Flush, TypeInv, Pipe
<1>9. CASE ClosePipe
  <2>1. pipe' \in Pipe
    <3>1. pipe \in Pipe
      BY DEF TypeInv, Pipe
    <3>2. (IF pipe.last = NoWound THEN << >> ELSE <<pipe.last>>) \in Seq(Wound)
      BY <3>1 DEF Pipe
    <3>3. QED
      BY <1>9, <3>1, <3>2 DEF ClosePipe, Pipe
  <2>2. QED
    BY <1>9, <2>1 DEF ClosePipe, TypeInv, Pipe
<1>10. CASE PipeDone
  <2>1. worker' \in {"idle", "leaving"}
    BY <1>10 DEF PipeDone
  <2>2. QED
    BY <1>10, <2>1 DEF PipeDone, TypeInv
<1>11. CASE NoMoreWork
  BY <1>11 DEF NoMoreWork, TypeInv
<1>12. CASE Leave
  <2>1. workerErrs = << >>
    BY <1>12 DEF Leave, ClosedInv
  <2>2. workerErrs' \in {<< >>, <<"nil">>, <<"failed">>}
    BY <1>12, <2>1 DEF Leave, TypeInv
  <2>3. QED
    BY <1>12, <2>2 DEF Leave, TypeInv
<1>13. QED
  BY <1>3, <1>4, <1>5, <1>6, <1>7, <1>8, <1>9, <1>10, <1>11, <1>12 DEF Worker

LEMMA OtherTypes ==
  ASSUME TypeInv, PlaceInv, ClosedInv, VerdictInv, Pipeline \/ Consumer \/ Cancel \/ UNCHANGED vars
  PROVE  TypeInv'
<1> USE DEF others, scan, errs, flow, work
<1>1. CASE AggregatorSends
  <2>1. Head(pipe.out) \in Wound /\ Tail(pipe.out) \in Seq(Wound)
    BY <1>1, RangeHead DEF AggregatorSends, TypeInv
  <2>2. pipe' \in Pipe
    BY <1>1, <2>1 DEF AggregatorSends, TypeInv, Pipe
  <2>3. QED
    BY <1>1, <2>1, <2>2 DEF AggregatorSends, TypeInv, Pipe
<1>2. CASE RelaySends
  <2>1. wounds' \in Seq(Wound)
    BY <1>2, SendTypes DEF RelaySends, TypeInv
  <2>2. QED
    BY <1>2, <2>1 DEF RelaySends, TypeInv
<1>3. ASSUME wounds # << >> PROVE Head(wounds) \in Wound /\ Tail(wounds) \in Seq(Wound)
  BY <1>3, RangeHead DEF TypeInv
<1>4. CASE TakeWound
  <2> DEFINE w == Head(wounds)
  <2>1. w \in Wound /\ wounds' \in Seq(Wound) /\ consumerErrs = << >>
    BY <1>3, <1>4 DEF TakeWound, VerdictInv
  <2>2. Size(w) \in Int
    BY <2>1 DEF Wound, Size
  <2> DEFINE hit == [consumer EXCEPT !.got = @ \cup {w}, !.total = @ + Size(w)]
  <2>3. /\ hit \in [kind : Consumers, state : {"doing", "returned"}, got : SUBSET Wound, total : Int]
        /\ [hit EXCEPT !.state = "returned"]
             \in [kind : Consumers, state : {"doing", "returned"}, got : SUBSET Wound, total : Int]
    <3> DEFINE z == Size(w)
               x == w
    <3>1. z \in Int /\ x \in Wound
      BY <2>1, <2>2
    <3>2. hit = [consumer EXCEPT !.got = @ \cup {x}, !.total = @ + z]
      OBVIOUS
    <3> HIDE DEF z, x
    <3>3. consumer.got \cup {x} \in SUBSET Wound /\ consumer.total + z \in Int
      BY <3>1 DEF TypeInv
    <3>4. hit = [consumer EXCEPT !.got = consumer.got \cup {x}, !.total = consumer.total + z]
      BY <3>2
    <3> HIDE DEF hit
    <3>5. hit \in [kind : Consumers, state : {"doing", "returned"}, got : SUBSET Wound, total : Int]
      BY <3>3, <3>4 DEF TypeInv
    <3>6. [hit EXCEPT !.state = "returned"]
             \in [kind : Consumers, state : {"doing", "returned"}, got : SUBSET Wound, total : Int]
      BY <3>5
    <3>7. QED
      BY <3>5, <3>6
  <2>4. \/ consumer' = consumer \/ consumer' = hit \/ consumer' = [hit EXCEPT !.state = "returned"]
    BY <1>4 DEF TakeWound
  <2>5. consumerErrs' \in {<< >>, <<"wound">>, <<"failed">>}
    BY <1>4, <2>1 DEF TakeWound, DoReturns
  <2> HIDE DEF hit
  <2>6. consumer' \in [kind : Consumers, state : {"doing", "returned"}, got : SUBSET Wound, total : Int]
    BY <2>3, <2>4 DEF TypeInv
  <2>7. UNCHANGED untouched
    BY <1>4 DEF TakeWound
  <2> HIDE DEF w
  <2>8. QED
    BY <2>1, <2>5, <2>6, <2>7 DEF TypeInv, untouched
<1>5. CASE ConsumerDone
  <2>1. consumerErrs' = <<"nil">>
    BY <1>5 DEF ConsumerDone, VerdictInv, DoReturns
  <2>2. consumer' \in [kind : Consumers, state : {"doing", "returned"}, got : SUBSET Wound, total : Int]
    BY <1>5 DEF ConsumerDone, TypeInv
  <2>3. UNCHANGED <<untouched, wounds>>
    BY <1>5 DEF ConsumerDone
  <2>4. QED
    BY <2>1, <2>2, <2>3 DEF TypeInv, untouched
<1>6. CASE ThrowAway
  BY <1>3, <1>6 DEF ThrowAway, TypeInv, untouched
<1>7. CASE Cancel
  BY <1>7 DEF Cancel, TypeInv
<1>8. CASE UNCHANGED vars
  BY <1>8 DEF vars, TypeInv
<1>9. QED
  BY <1>1, <1>2, <1>4, <1>5, <1>6, <1>7, <1>8 DEF Pipeline, Consumer
-----------------------------------------------------------------------------
(* Where Validate and the worker are                                        *)

LEMMA SameJob ==
  ASSUME UNCHANGED <<found, job>>
  PROVE  This' = This /\ Rest' = Rest
  BY DEF This, Rest

LEMMA MainPlace == ASSUME TypeInv, PlaceInv, VerdictInv, ClosedInv, Main PROVE PlaceInv'
<1>1. /\ Len(Expected) \in Nat /\ Files = 1 .. Len(Expected)
      /\ next \in Nat \ {0} /\ job.file \in Nat
  BY Shapes DEF TypeInv
<1> USE DEF FeedClosed, WoundsClosed, Reading, PlaceInv, work, flow, errs
<1>2. CASE ScanEntry
  BY <1>2, SameJob DEF ScanEntry
<1>3. CASE StartWorker
  BY <1>1, <1>3, SameJob DEF StartWorker, ClosedInv, VerdictInv
<1>4. CASE FeedFile
  BY <1>1, <1>4 DEF FeedFile
<1>5. CASE WorkerErr
  BY <1>5, SameJob DEF WorkerErr
<1>6. CASE ConsumerErr
  BY <1>6, SameJob DEF ConsumerErr
<1>7. CASE AllFed
  BY <1>7, SameJob DEF AllFed
<1>8. CASE WaitForWorker
  BY <1>8, SameJob DEF WaitForWorker
<1>9. CASE WaitForConsumer
  BY <1>9, SameJob DEF WaitForConsumer
<1>10. QED
  BY <1>2, <1>3, <1>4, <1>5, <1>6, <1>7, <1>8, <1>9 DEF Main

LEMMA WorkerPlace == ASSUME TypeInv, PlaceInv, VerdictInv, ClosedInv, Worker PROVE PlaceInv'
<1>1. /\ UNCHANGED <<found, main, next, cancelled>>
      /\ job.file \in Nat /\ job.block \in Nat
  BY DEF TypeInv, Worker, Stat, WoundWhole, ValidateBlock, Copied, WoundSize, Flush, ClosePipe,
         PipeDone, NoMoreWork, Leave, others, scan
<1>2. worker # "none"
  BY DEF Worker, Stat, WoundWhole, ValidateBlock, Copied, WoundSize, Flush, ClosePipe,
         PipeDone, NoMoreWork, Leave
<1> USE DEF FeedClosed, Reading, PlaceInv
<1>3. CASE Stat
  <2>1. UNCHANGED job /\ This' = This /\ Rest' = Rest
    BY <1>1, <1>3, SameJob DEF Stat
  <2>2. pipe.last = NoWound /\ pipe'.last = NoWound
    BY <1>3, QuietIs DEF Stat
  <2>3. This.kind = "file" => Rest >= 0
    <3>1. job.file \in Files /\ job.block = 0
      BY <1>3 DEF Stat
    <3>2. This.kind = "file" => Len(This.data) \in Nat
      BY <3>1, Shapes DEF This
    <3>3. job.block * BlockSize = 0
      BY <3>1, SizeAssumption
    <3>4. QED
      BY <3>2, <3>3 DEF Rest
  <2>4. \/ worker' = "whole" /\ This.kind # "file"
        \/ worker' = "copy" /\ This.kind = "file"
        \/ worker' = "leaving"
    BY <1>3 DEF Stat
  <2>5. worker = "stat"
    BY <1>3 DEF Stat
  <2>6. QED
    BY <1>1, <1>2, <2>1, <2>2, <2>3, <2>4, <2>5
<1>4. CASE WoundWhole
  <2>1. UNCHANGED <<job, pipe>> /\ This' = This /\ Rest' = Rest /\ worker = "whole" /\ worker' = "idle"
    BY <1>1, <1>4, SameJob DEF WoundWhole
  <2>2. QED
    BY <1>1, <2>1
<1>5. CASE ValidateBlock
  <2>1. worker = "copy" /\ worker' = "copy"
    BY <1>5 DEF ValidateBlock
  <2>2. job' = [job EXCEPT !.block = job.block + 1] /\ Rest >= BlockSize
    BY <1>5 DEF ValidateBlock
  <2>3. job'.file = job.file /\ job'.block = job.block + 1
    BY <2>2 DEF TypeInv
  <2>4. This' = This
    BY <1>1, <2>3 DEF This
  <2>5. Rest' >= 0
    <3> DEFINE l == Len(This.data)
               b == job.block
    <3>1. l \in Nat /\ b \in Nat /\ BlockSize \in Nat \ {0}
      BY <1>1, <2>1, NewWounds, SizeAssumption
    <3>2. Rest = l - b * BlockSize /\ Rest' = l - (b + 1) * BlockSize
      BY <2>3, <2>4 DEF Rest
    <3> HIDE DEF l, b
    <3>3. (b + 1) * BlockSize = b * BlockSize + BlockSize /\ b * BlockSize \in Nat
      BY <3>1
    <3>4. QED
      BY <2>2, <3>1, <3>2, <3>3
  <2>6. HeldOf(pipe', job.file)
    BY <1>5, <2>1, OfferFacts DEF ValidateBlock, ThisBlock, AggregatesWell
  <2>7. QED
    BY <1>1, <2>1, <2>3, <2>4, <2>5, <2>6 DEF HeldOf
<1>6. CASE Copied
  <2>1. UNCHANGED <<job, pipe>> /\ This' = This /\ Rest' = Rest /\ worker = "copy" /\ Rest < BlockSize
    BY <1>1, <1>6, SameJob DEF Copied, flow
  <2>2. worker' = "flush" \/ (worker' = "resize" /\ Len(This.data) # Len(Expected[job.file]))
    BY <1>6 DEF Copied
  <2>3. QED
    BY <1>1, <2>1, <2>2
<1>7. CASE WoundSize
  <2>1. UNCHANGED <<job, pipe>> /\ This' = This /\ Rest' = Rest /\ worker = "resize" /\ worker' = "flush"
    BY <1>1, <1>7, SameJob DEF WoundSize
  <2>2. QED
    BY <1>1, <2>1
<1>8. CASE Flush
  <2>1. UNCHANGED job /\ This' = This /\ Rest' = Rest /\ worker = "flush" /\ worker' = "close"
    BY <1>1, <1>8, SameJob DEF Flush
  <2>2. HeldOf(pipe', job.file)
    BY <1>8, <2>1, OfferFacts DEF Flush, ThisBlock, AggregatesWell, HeldOf
  <2>3. QED
    BY <1>1, <2>1, <2>2 DEF HeldOf
<1>9. CASE ClosePipe
  <2>1. UNCHANGED job /\ This' = This /\ Rest' = Rest /\ worker = "close" /\ worker' = "drain"
    BY <1>1, <1>9, SameJob DEF ClosePipe
  <2>2. pipe'.last = NoWound
    BY <1>9 DEF ClosePipe, TypeInv
  <2>3. QED
    BY <1>1, <2>1, <2>2
<1>10. CASE PipeDone
  <2>1. UNCHANGED <<job, pipe>> /\ This' = This /\ Rest' = Rest /\ worker = "drain"
        /\ worker' \in {"idle", "leaving"}
    BY <1>1, <1>10, SameJob DEF PipeDone, flow
  <2>2. QED
    BY <1>1, <2>1
<1>11. CASE NoMoreWork
  <2>1. UNCHANGED <<job, pipe>> /\ This' = This /\ Rest' = Rest /\ worker = "idle" /\ worker' = "leaving"
    BY <1>1, <1>11, SameJob DEF NoMoreWork, flow
  <2>2. QED
    BY <1>1, <2>1
<1>12. CASE Leave
  <2>1. UNCHANGED <<job, pipe>> /\ This' = This /\ Rest' = Rest /\ worker = "leaving" /\ worker' = "gone"
    BY <1>1, <1>12, SameJob DEF Leave, flow
  <2>2. QED
    BY <1>1, <2>1
<1>13. QED
  BY <1>3, <1>4, <1>5, <1>6, <1>7, <1>8, <1>9, <1>10, <1>11, <1>12 DEF Worker

LEMMA OtherPlace ==
  ASSUME TypeInv, PlaceInv, VerdictInv, ClosedInv, Pipeline \/ Consumer \/ Cancel \/ UNCHANGED vars
  PROVE  PlaceInv'
<1>1. /\ UNCHANGED <<found, main, next, cancelled, worker, job>>
      /\ pipe'.last = pipe.last
  BY DEF TypeInv, Pipeline, AggregatorSends, RelaySends, Consumer, TakeWound, ConsumerDone, ThrowAway,
         Cancel, vars, others, scan, work, flow, untouched
<1>2. This' = This /\ Rest' = Rest
  BY <1>1, SameJob
<1>3. QED
  BY <1>1, <1>2 DEF PlaceInv, FeedClosed
-----------------------------------------------------------------------------
(* The wounds on their way                                                  *)

LEMMA FlowTypes == ASSUME TypeInv PROVE Flow \subseteq Wound \cup {NoWound}
<1>1. /\ consumer.got \subseteq Wound
      /\ wounds \in Seq(Wound) /\ pipe.out \in Seq(Wound)
      /\ relay \in Wound \cup {NoWound} /\ pipe.last \in Wound \cup {NoWound}
  BY DEF TypeInv
<1>2. Range(wounds) \subseteq Wound /\ Range(pipe.out) \subseteq Wound
  BY <1>1, RangeIn
<1>3. QED
  BY <1>1, <1>2 DEF Flow

LEMMA FlowTypesNext == ASSUME TypeInv' PROVE Flow' \subseteq Wound \cup {NoWound}
<1>1. /\ consumer'.got \subseteq Wound
      /\ wounds' \in Seq(Wound) /\ pipe'.out \in Seq(Wound)
      /\ relay' \in Wound \cup {NoWound} /\ pipe'.last \in Wound \cup {NoWound}
  BY DEF TypeInv
<1>2. Range(wounds') \subseteq Wound /\ Range(pipe'.out) \subseteq Wound
  BY <1>1, RangeIn
<1>3. QED
  BY <1>1, <1>2 DEF Flow

\* A step that adds true wounds only leaves them all true.
LEMMA StaysSound ==
  ASSUME UNCHANGED found, Sound, NEW N, \A w \in N : SoundWound(w), Flow' \subseteq Flow \cup N
  PROVE  Sound'
  BY DEF Sound, SoundWound, SameFile

LEMMA StaysSoundOne ==
  ASSUME UNCHANGED found, Sound, NEW w, SoundWound(w), Flow' \subseteq Flow \cup {w}
  PROVE  Sound'
  BY DEF Sound, SoundWound, SameFile

LEMMA NoWoundSound == SoundWound(NoWound)
  BY DEF SoundWound, NoWound

\* What a send does.
LEMMA SendFlow ==
  ASSUME TypeInv, NEW w \in Wound, SendOrDrop(w), UNCHANGED <<consumer, relay, pipe>>
  PROVE  /\ Flow \subseteq Flow'
         /\ Flow' \subseteq Flow \cup {w}
         /\ ~cancelled => w \in Flow'
<1>1. wounds \in Seq(Wound)
  BY DEF TypeInv
<1>2. Range(Append(wounds, w)) = Range(wounds) \cup {w}
  BY <1>1, RangeAppend
<1>3. wounds' = Append(wounds, w) \/ (cancelled /\ wounds' = wounds)
  BY DEF SendOrDrop, Send
<1>4. CASE wounds' = Append(wounds, w)
  BY <1>2, <1>4 DEF Flow
<1>5. CASE cancelled /\ wounds' = wounds
  BY <1>5 DEF Flow
<1>6. QED
  BY <1>3, <1>4, <1>5

LEMMA ScanFlow ==
  ASSUME TypeInv, PlaceInv, Sound, ScanEntry
  PROVE  /\ Sound'
         /\ Grows(Flow, Flow')
         /\ found.entries[next] = "wounded" => Among(Flow', "entry", next)
<1>1. UNCHANGED <<found, consumer, relay, pipe>>
  BY DEF ScanEntry
<1>2. EntryWound(next) \in Wound
  BY NewWounds
<1>3. Flow \subseteq Wound \cup {NoWound}
  BY FlowTypes
<1>4. CASE found.entries[next] = "wounded"
  <2>1. SendOrDrop(EntryWound(next)) /\ Send(EntryWound(next)) /\ next \in DOMAIN found.entries
    BY <1>4 DEF ScanEntry, SendOrDrop
  <2>2. Flow \subseteq Flow' /\ Flow' \subseteq Flow \cup {EntryWound(next)}
    BY <1>1, <1>2, <2>1, SendFlow
  <2>3. EntryWound(next) \in Flow'
    <3>1. Range(Append(wounds, EntryWound(next))) = Range(wounds) \cup {EntryWound(next)}
      BY <1>2, RangeAppend DEF TypeInv
    <3>2. QED
      BY <1>1, <2>1, <3>1 DEF Send, Flow
  <2>4. SoundWound(EntryWound(next))
    BY <1>4, <2>1 DEF SoundWound, EntryWound
  <2>5. Sound'
    BY <1>1, <2>2, <2>4, StaysSoundOne
  <2>6. Grows(Flow, Flow')
    BY <1>3, <2>2, GrowsSame
  <2>7. Among(Flow', "entry", next)
    BY <2>3 DEF Among, EntryWound
  <2>8. QED
    BY <2>5, <2>6, <2>7
<1>5. CASE found.entries[next] # "wounded"
  <2>1. UNCHANGED wounds
    BY <1>5 DEF ScanEntry
  <2>2. Flow' = Flow
    BY <1>1, <2>1 DEF Flow
  <2>3. Sound'
    BY <1>1, <2>2, NoWoundSound, StaysSoundOne
  <2>4. Grows(Flow, Flow')
    BY <1>3, <2>2, GrowsSame
  <2>5. QED
    BY <1>5, <2>3, <2>4
<1>6. QED
  BY <1>4, <1>5

LEMMA WholeFlow ==
  ASSUME TypeInv, PlaceInv, Sound, WoundWhole
  PROVE  /\ Sound'
         /\ Grows(Flow, Flow')
         /\ ~cancelled => Spanned(Flow', job.file, 0, Len(Expected[job.file]))
<1> DEFINE l == Len(Expected[job.file])
           w == FileWound(job.file, 0, l)
<1>1. UNCHANGED <<found, consumer, relay, pipe>> /\ worker = "whole" /\ SendOrDrop(w)
  BY DEF WoundWhole, others
<1>2. job.file \in Files /\ This.kind # "file" /\ w \in Wound /\ l \in Nat
  BY <1>1, NewWounds, Shapes DEF PlaceInv
<1>3. Flow \subseteq Flow' /\ Flow' \subseteq Flow \cup {w} /\ (~cancelled => w \in Flow')
  <2> HIDE DEF w
  <2>1. QED
    BY <1>1, <1>2, SendFlow
<1>4. SoundWound(w)
  BY <1>2 DEF SoundWound, FileWound, SameFile, This
<1>5. Sound'
  BY <1>1, <1>3, <1>4, StaysSoundOne
<1>6. Grows(Flow, Flow')
  BY <1>3, FlowTypes, GrowsSame
<1>7. w.kind = "file" /\ w.index = job.file /\ w.start = 0 /\ w.end = l
  BY DEF FileWound
<1> HIDE DEF w, l
<1>8. ~cancelled => Spanned(Flow', job.file, 0, l)
  BY <1>2, <1>3, <1>7 DEF Spanned
<1>9. QED
  BY <1>5, <1>6, <1>8 DEF l

LEMMA SizeFlow ==
  ASSUME TypeInv, PlaceInv, Sound, WoundSize
  PROVE  /\ Sound'
         /\ Grows(Flow, Flow')
         /\ ~cancelled => Spanned(Flow', job.file, Len(This.data), Len(Expected[job.file]))
<1> DEFINE l == Len(Expected[job.file])
           d == Len(This.data)
           w == FileWound(job.file, d, l)
<1>1. UNCHANGED <<found, consumer, relay, pipe>> /\ worker = "resize" /\ SendOrDrop(w)
  BY DEF WoundSize, others
<1>2. job.file \in Files /\ This.kind = "file" /\ w \in Wound /\ l \in Nat /\ d \in Nat /\ d # l
  BY <1>1, NewWounds, Shapes DEF PlaceInv, Reading
<1>3. Flow \subseteq Flow' /\ Flow' \subseteq Flow \cup {w} /\ (~cancelled => w \in Flow')
  <2> HIDE DEF w
  <2>1. QED
    BY <1>1, <1>2, SendFlow
<1>4. SoundWound(w)
  <2>1. ~SameFile(job.file)
    BY <1>2 DEF SameFile, This
  <2>2. QED
    BY <1>2, <2>1 DEF SoundWound, FileWound
<1>5. Sound'
  BY <1>1, <1>3, <1>4, StaysSoundOne
<1>6. Grows(Flow, Flow')
  BY <1>3, FlowTypes, GrowsSame
<1>7. w.kind = "file" /\ w.index = job.file /\ w.start = d /\ w.end = l
  BY DEF FileWound
<1> HIDE DEF w, l, d
<1>8. ~cancelled => Spanned(Flow', job.file, d, l)
  BY <1>2, <1>3, <1>7 DEF Spanned
<1>9. QED
  BY <1>5, <1>6, <1>8 DEF l, d

\* A block of the file that is not the signature's tells that the file is not.
LEMMA DiffersSound ==
  ASSUME TypeInv, PlaceInv, worker \in Reading, job.block * BlockSize < Len(This.data), Differs(job.block)
  PROVE  ~SameFile(job.file)
<1>1. job.file \in Files /\ job.block \in Nat
  BY DEF TypeInv, PlaceInv
<1>2. job.block < NumBlocks(Expected[job.file]) <=> job.block * BlockSize < Len(Expected[job.file])
  BY <1>1, BlockSizes
<1>3. SUFFICES ASSUME This.data = Expected[job.file] PROVE FALSE
  BY DEF SameFile, This
<1>4. job.block < NumBlocks(Expected[job.file])
  BY <1>2, <1>3
<1>5. job.block >= NumBlocks(Expected[job.file])
  BY <1>3 DEF Differs
<1>6. Len(Expected[job.file]) \in Nat
  BY <1>1, Shapes
<1>7. NumBlocks(Expected[job.file]) \in Int
  BY <1>6, SizeAssumption DEF NumBlocks
<1>8. QED
  BY <1>1, <1>4, <1>5, <1>7

LEMMA BlockFlow ==
  ASSUME TypeInv, PlaceInv, Sound, worker \in Reading, job.block * BlockSize < Len(This.data),
         Offer(ThisBlock), UNCHANGED <<found, consumer, wounds, relay>>
  PROVE  /\ Sound'
         /\ Grows(Flow, Flow')
         /\ Differs(job.block) => Spanned(Flow', job.file, job.block * BlockSize, BlockEnd(job.file, job.block))
<1> DEFINE w == ThisBlock
           f == job.file
           s == job.block * BlockSize
           e == BlockEnd(job.file, job.block)
           G == Range(pipe'.out) \cup {pipe'.last}
           Rem == consumer.got \cup Range(wounds) \cup {relay}
<1>1. AggregatesWell(pipe', w, f) /\ pipe.out = << >>
  BY OfferFacts
<1>2. /\ OfFile(w, f) /\ w.start = s /\ w.end = e
      /\ Differs(job.block) => w.kind = "file"
  BY ThisBlockIs
<1>3. Flow = Rem \cup {pipe.last} /\ Flow' = Rem \cup G
  BY <1>1, RangeFacts DEF Flow
<1>4. Grows({pipe.last, w}, G) /\ (\A v \in Range(pipe'.out) : OfFile(v, f)) /\ HeldOf(pipe', f)
  BY <1>1 DEF AggregatesWell
<1>5. Flow \subseteq Wound \cup {NoWound} /\ G \subseteq Wound \cup {NoWound}
  <2>1. pipe' \in Pipe
    BY <1>1 DEF AggregatesWell
  <2>2. Range(pipe'.out) \subseteq Wound
    BY <2>1, RangeIn DEF Pipe
  <2>3. QED
    BY <2>1, <2>2, FlowTypes DEF Pipe
<1>6. f \in Files /\ (Differs(job.block) => ~SameFile(f))
  BY DiffersSound DEF PlaceInv
<1>7. Sound'
  <2>1. ASSUME NEW v \in G PROVE SoundWound(v)
    <3>1. v = NoWound \/ v.kind = "closed" \/ (v.kind = "file" /\ v.index = f)
      BY <1>4 DEF OfFile, HeldOf
    <3>2. CASE v = NoWound
      BY <3>2, NoWoundSound
    <3>3. CASE v.kind = "closed"
      BY <3>3 DEF SoundWound
    <3>4. CASE v.kind = "file" /\ v.index = f
      <4>1. ~SameFile(f)
        \* either the block is a wound or an earlier one of the same file was held back
        <5>1. CASE Differs(job.block)
          BY <1>6, <5>1
        <5>2. CASE ~Differs(job.block)
          <6>1. w.kind = "closed"
            BY <5>2, ThisBlockIs
          <6>2. pipe' = [pipe EXCEPT !.out = (IF pipe.last = NoWound THEN << >> ELSE <<pipe.last>>) \o <<w>>,
                                     !.last = NoWound]
            BY <6>1 DEF Offer, Aggregate
          <6>3. pipe.last # NoWound
            <7>1. ASSUME pipe.last = NoWound PROVE FALSE
              <8>1. pipe' = [pipe EXCEPT !.out = << >> \o <<w>>, !.last = NoWound]
                BY <6>2, <7>1
              <8>2. w \in Wound
                BY <1>2 DEF OfFile
              <8>3. << >> \o <<w>> = <<w>>
                BY <8>2
              <8>4. pipe'.out = <<w>> /\ pipe'.last = NoWound
                BY <8>1, <8>3 DEF TypeInv
              <8>5. G = {w, NoWound}
                BY <8>4, RangeFacts
              <8>6. QED
                BY <3>4, <6>1, <8>5 DEF NoWound
            <7>2. QED
              BY <7>1
          <6>4. pipe.last.kind = "file" /\ pipe.last.index = f
            BY <6>3 DEF PlaceInv
          <6>5. SoundWound(pipe.last)
            BY <1>3 DEF Sound
          <6>6. QED
            BY <6>4, <6>5 DEF SoundWound
        <5>3. QED
          BY <5>1, <5>2
      <4>2. QED
        BY <1>6, <3>4, <4>1 DEF SoundWound
    <3>5. QED
      BY <3>1, <3>2, <3>3, <3>4
  <2>2. Flow' \subseteq Flow \cup G
    BY <1>3
  <2> HIDE DEF G
  <2>3. QED
    BY <2>1, <2>2, StaysSound
<1>8. Grows(Flow, Flow')
  <2>1. Grows(Rem, Flow')
    BY <1>3, <1>5, GrowsSame
  <2>2. Grows({pipe.last}, Flow')
    BY <1>3, <1>4 DEF Grows
  <2>3. QED
    BY <1>3, <2>1, <2>2, GrowsUnion
<1>9. ASSUME Differs(job.block) PROVE Spanned(Flow', f, s, e)
  <2>1. w.kind = "file" /\ w.index = f /\ w \in Wound
    BY <1>2, <1>9 DEF OfFile
  <2>2. s \in Nat /\ e \in Nat
    BY <1>2, <2>1 DEF Wound
  <2>3. Spanned({w}, f, s, e)
    BY <1>2, <2>1, <2>2 DEF Spanned
  <2>4. Grows({w}, Flow') /\ Flow' \subseteq Wound \cup {NoWound} /\ {w} \subseteq Wound \cup {NoWound}
    BY <1>3, <1>4, <1>5, <2>1 DEF Grows
  <2> HIDE DEF w, f, s, e
  <2>5. QED
    BY <2>2, <2>3, <2>4, SpannedGrows
<1>10. QED
  BY <1>7, <1>8, <1>9
\* Steps that only move wounds on.
LEMMA MovesOn ==
  ASSUME TypeInv, Sound, UNCHANGED found,
         Flow' \subseteq Flow \cup {NoWound}, \A w \in Flow : w \in Flow' \/ ~Telling(w)
  PROVE  Sound' /\ Grows(Flow, Flow')
<1>1. Sound'
  BY NoWoundSound, StaysSoundOne
<1>2. Flow \subseteq Wound \cup {NoWound}
  BY FlowTypes
<1>3. QED
  BY <1>1, <1>2, GrowsSame

LEMMA NoWoundTellsNothing == ~Telling(NoWound)
  BY DEF Telling, NoWound

LEMMA PipelineFlow == ASSUME TypeInv, Sound, Pipeline PROVE Sound' /\ Grows(Flow, Flow')
<1> USE DEF others, scan, errs, work
<1>1. CASE AggregatorSends
  <2>1. /\ relay = NoWound /\ relay' = Head(pipe.out) /\ pipe.out # << >> /\ pipe.out \in Seq(Wound)
        /\ pipe'.out = Tail(pipe.out) /\ pipe'.last = pipe.last
        /\ UNCHANGED <<found, consumer, wounds>>
    BY <1>1 DEF AggregatorSends, TypeInv
  <2>2. Range(pipe.out) = {relay'} \cup Range(pipe'.out)
    BY <2>1, RangeHead
  <2>3. Flow' \subseteq Flow /\ Flow \subseteq Flow' \cup {NoWound}
    BY <2>1, <2>2 DEF Flow
  <2>4. QED
    BY <2>1, <2>3, MovesOn, NoWoundTellsNothing
<1>2. CASE RelaySends
  <2>1. /\ wounds \in Seq(Wound) /\ relay \in Wound /\ wounds' = Append(wounds, relay) /\ relay' = NoWound
        /\ UNCHANGED <<found, consumer, pipe>>
    BY <1>2 DEF RelaySends, Send, TypeInv
  <2>2. Range(wounds') = Range(wounds) \cup {relay}
    BY <2>1, RangeAppend
  <2>3. Flow' \subseteq Flow \cup {NoWound} /\ Flow \subseteq Flow'
    BY <2>1, <2>2 DEF Flow
  <2>4. QED
    BY <2>1, <2>3, MovesOn
<1>3. QED
  BY <1>1, <1>2 DEF Pipeline

LEMMA TakeFlow == ASSUME TypeInv, Sound, TakeWound PROVE Sound' /\ Grows(Flow, Flow')
<1> DEFINE w == Head(wounds)
<1>1. /\ wounds # << >> /\ wounds \in Seq(Wound) /\ wounds' = Tail(wounds)
      /\ UNCHANGED <<found, relay, pipe>>
  BY DEF TakeWound, untouched, TypeInv
<1>2. w \in Wound /\ Range(wounds) = {w} \cup Range(wounds')
  BY <1>1, RangeHead
<1>3. \/ w.kind = "closed" /\ consumer'.got = consumer.got
      \/ consumer'.got = consumer.got \cup {w}
  <2>1. DOMAIN consumer = {"kind", "state", "got", "total"}
    BY DEF TypeInv
  <2> DEFINE hit == [consumer EXCEPT !.got = @ \cup {w}, !.total = @ + Size(w)]
  <2>2. hit.got = consumer.got \cup {w} /\ [hit EXCEPT !.state = "returned"].got = consumer.got \cup {w}
    BY <2>1
  <2>3. \/ w.kind = "closed" /\ consumer' = consumer
        \/ consumer' = hit
        \/ consumer' = [hit EXCEPT !.state = "returned"]
    BY DEF TakeWound
  <2> HIDE DEF w, hit
  <2>4. QED
    BY <2>2, <2>3
<1> HIDE DEF w
<1>4. Flow' \subseteq Flow /\ \A v \in Flow : v \in Flow' \/ v = w
  BY <1>1, <1>2, <1>3 DEF Flow
<1>5. w \in Flow' \/ ~Telling(w)
  BY <1>3 DEF Telling, Flow
<1>6. QED
  BY <1>1, <1>4, <1>5, MovesOn

\* The steps that leave all wounds where they are.
LEMMA SameFlow ==
  ASSUME TypeInv, Sound, UNCHANGED <<found, flow>>, consumer'.got = consumer.got
  PROVE  Sound' /\ Flow' = Flow /\ Grows(Flow, Flow')
<1>1. Flow' = Flow
  BY DEF Flow, flow
<1>2. QED
  BY <1>1, MovesOn

LEMMA WorkerFlow ==
  ASSUME TypeInv, ClosedInv, PlaceInv, Sound, Worker
  PROVE  Sound' /\ Grows(Flow, Flow')
<1>0. UNCHANGED <<found, consumer>>
  BY DEF Worker, Stat, WoundWhole, ValidateBlock, Copied, WoundSize, Flush, ClosePipe,
         PipeDone, NoMoreWork, Leave, others
<1>1. CASE Stat
  <2>1. pipe.out = << >> /\ pipe.last = NoWound /\ UNCHANGED <<relay, wounds>>
    BY <1>1 DEF Stat, PlaceInv, ClosedInv, PipeIdle, Between, Reading
  <2>2. pipe' = pipe \/ (pipe'.out = << >> /\ pipe'.last = NoWound)
    BY <1>1, QuietIs DEF Stat
  <2>3. Flow' = Flow
    BY <1>0, <2>1, <2>2 DEF Flow
  <2>4. QED
    BY <1>0, <2>3, MovesOn
<1>2. CASE WoundWhole
  BY <1>2, WholeFlow
<1>3. CASE ValidateBlock
  <2>1. worker \in Reading /\ Offer(ThisBlock) /\ UNCHANGED <<relay, wounds>> /\ Rest >= BlockSize
    BY <1>3 DEF ValidateBlock, ThisBlock, Reading
  <2>2. job.block * BlockSize < Len(This.data)
    BY <2>1, NewWounds, SizeAssumption, SMTT(60) DEF Rest, TypeInv
  <2>3. QED
    BY <1>0, <2>1, <2>2, BlockFlow
<1>4. CASE Copied
  BY <1>0, <1>4, SameFlow DEF Copied
<1>5. CASE WoundSize
  BY <1>5, SizeFlow
<1>6. CASE Flush
  <2>1. worker \in Reading /\ UNCHANGED <<relay, wounds>>
    BY <1>6 DEF Flush, Reading
  <2>2. CASE Rest > 0 /\ Offer(ThisBlock)
    <3>1. job.block * BlockSize < Len(This.data)
      BY <2>1, <2>2, NewWounds, SizeAssumption DEF Rest, TypeInv
    <3>2. QED
      BY <1>0, <2>1, <2>2, <3>1, BlockFlow
  <2>3. CASE UNCHANGED pipe
    BY <1>0, <2>1, <2>3, SameFlow DEF flow
  <2>4. QED
    BY <1>6, <2>2, <2>3 DEF Flush, ThisBlock
<1>7. CASE ClosePipe
  <2>1. /\ pipe.out = << >> /\ UNCHANGED <<relay, wounds>>
        /\ pipe'.last = NoWound
        /\ pipe'.out = IF pipe.last = NoWound THEN << >> ELSE <<pipe.last>>
    BY <1>7 DEF ClosePipe, TypeInv
  <2>2. Flow' \subseteq Flow \cup {NoWound} /\ Flow \subseteq Flow' \cup {NoWound}
    <3>1. Range(pipe'.out) = IF pipe.last = NoWound THEN {} ELSE {pipe.last}
      BY <2>1, RangeFacts
    <3>2. QED
      BY <1>0, <2>1, <3>1, RangeFacts DEF Flow
  <2>3. QED
    BY <1>0, <2>2, MovesOn, NoWoundTellsNothing
<1>8. CASE PipeDone
  BY <1>0, <1>8, SameFlow DEF PipeDone
<1>9. CASE NoMoreWork
  BY <1>0, <1>9, SameFlow DEF NoMoreWork
<1>10. CASE Leave
  BY <1>0, <1>10, SameFlow DEF Leave
<1>11. QED
  BY <1>1, <1>2, <1>3, <1>4, <1>5, <1>6, <1>7, <1>8, <1>9, <1>10 DEF Worker

\* No step makes an untrue wound; while nothing failed and nothing was cancelled,
\* none loses one.
LEMMA FlowStep ==
  ASSUME TypeInv, ClosedInv, PlaceInv, Sound, VerdictInv, [Next]_vars
  PROVE  Sound' /\ (~Bad' => Grows(Flow, Flow'))
<1>1. CASE Main
  <2>1. CASE ScanEntry
    BY <2>1, ScanFlow
  <2>2. CASE ~ScanEntry
    <3>1. UNCHANGED <<found, consumer, flow>>
      BY <1>1, <2>2 DEF Main, StartWorker, FeedFile, WorkerErr, ConsumerErr, AllFed, WaitForWorker, WaitForConsumer
    <3>2. QED
      BY <3>1, SameFlow
  <2>3. QED
    BY <2>1, <2>2
<1>2. CASE Worker
  BY <1>2, WorkerFlow
<1>3. CASE Pipeline
  BY <1>3, PipelineFlow
<1>4. CASE TakeWound
  BY <1>4, TakeFlow
<1>5. CASE ConsumerDone
  <2>1. UNCHANGED <<found, flow>> /\ consumer'.got = consumer.got
    BY <1>5 DEF ConsumerDone, untouched, flow, TypeInv
  <2>2. QED
    BY <2>1, SameFlow
<1>6. CASE ThrowAway
  <2>1. /\ wounds # << >> /\ wounds \in Seq(Wound) /\ wounds' = Tail(wounds) /\ consumer.state = "returned"
        /\ UNCHANGED <<found, ctx, verdict, consumer, consumerErrs, relay, pipe>>
    BY <1>6 DEF ThrowAway, untouched, scan, TypeInv
  <2>2. Range(wounds') \subseteq Range(wounds)
    BY <2>1, RangeHead
  <2>3. Sound'
    BY <2>1, <2>2, NoWoundSound, StaysSoundOne DEF Flow
  <2>4. Bad'
    BY <2>1 DEF VerdictInv, Lost, Bad
  <2>5. QED
    BY <2>3, <2>4
<1>7. CASE Cancel \/ UNCHANGED vars
  <2>1. UNCHANGED <<found, flow, consumer>>
    BY <1>7 DEF Cancel, vars
  <2>2. QED
    BY <2>1, SameFlow
<1>8. QED
  BY <1>1, <1>2, <1>3, <1>4, <1>5, <1>6, <1>7 DEF Next, Consumer, Over
-----------------------------------------------------------------------------
(* Verdicts                                                                 *)

LEMMA SameTarget ==
  ASSUME UNCHANGED found
  PROVE  /\ Intact' <=> Intact
         /\ consumer'.kind = consumer.kind => (Failing' <=> Failing)
  BY DEF Intact, SameFile, Failing

\* A wound that is not a healthy block tells that the target is not intact.
LEMMA WoundTells ==
  ASSUME TypeInv, Sound, NEW w \in Flow, Telling(w)
  PROVE  ~Intact
  BY DEF Sound, SoundWound, Telling, Intact

LEMMA MainVerdict == ASSUME TypeInv, ClosedInv, PlaceInv, VerdictInv, Main PROVE VerdictInv' /\ (Bad => Bad')
<1>1. UNCHANGED <<found, consumer, ctx, failure>>
  BY DEF Main, ScanEntry, StartWorker, FeedFile, WorkerErr, ConsumerErr, AllFed, WaitForWorker, WaitForConsumer, work
<1>2. (Intact' <=> Intact) /\ (Failing' <=> Failing)
  BY <1>1, SameTarget
<1>3. /\ workerErrs \in {<< >>, <<"nil">>, <<"failed">>}
      /\ consumerErrs \in {<< >>, <<"nil">>, <<"wound">>, <<"failed">>}
  BY DEF TypeInv
<1>4. \A e : Head(<<e>>) = e /\ <<e>> # << >>
  OBVIOUS
<1> USE DEF VerdictInv, Lost, Bad, WoundsClosed, FeedClosed, work, errs, flow
<1>5. CASE ScanEntry
  BY <1>1, <1>2, <1>5 DEF ScanEntry, ClosedInv
<1>6. CASE StartWorker
  <2>1. /\ main = "scan" /\ main' = "feed" /\ worker = "none" /\ UNCHANGED <<verdict, cancelled, wounds, consumerErrs>>
        /\ \/ found.opens /\ worker' = "idle" /\ UNCHANGED workerErrs
           \/ ~found.opens /\ worker' = "gone" /\ workerErrs' = <<"failed">>
    BY <1>6 DEF StartWorker, ClosedInv
  <2>2. ~found.opens => Failing
    BY DEF Failing
  <2>3. QED
    BY <1>1, <1>2, <2>1, <2>2
<1>7. CASE FeedFile
  BY <1>1, <1>2, <1>7 DEF FeedFile
<1>8. CASE WorkerErr
  <2>1. verdict = "nil" /\ main = "feed" /\ worker = "gone"
    BY <1>8 DEF WorkerErr, ClosedInv
  <2>2. verdict' = "failed" /\ workerErrs' = <<"nil">> /\ Failing
    <3>1. workerErrs = <<"failed">>
      BY <1>3, <1>8, <2>1 DEF WorkerErr
    <3>2. QED
      BY <1>4, <1>8, <3>1 DEF WorkerErr
  <2>3. QED
    BY <1>1, <1>2, <1>8, <2>1, <2>2 DEF WorkerErr
<1>9. CASE ConsumerErr
  <2>1. verdict = "nil" /\ main = "feed" /\ main' = "wait" /\ cancelled' = TRUE /\ consumerErrs' = <<"nil">>
        /\ UNCHANGED <<worker, wounds, workerErrs>>
    BY <1>9 DEF ConsumerErr
  <2>2. consumer.state = "returned"
    BY <1>9 DEF ConsumerErr, TypeInv
  <2>3. \/ verdict' = "nil" /\ ctx = "done" /\ consumerErrs = <<"nil">>
        \/ verdict' = "wound" /\ consumerErrs = <<"wound">>
        \/ verdict' = "failed" /\ consumerErrs = <<"failed">>
    <3>1. CASE consumerErrs = <<"nil">>
      BY <1>4, <1>9, <2>1, <2>2, <3>1 DEF ConsumerErr
    <3>2. CASE consumerErrs = <<"wound">>
      BY <1>4, <1>9, <3>2 DEF ConsumerErr
    <3>3. CASE consumerErrs = <<"failed">>
      BY <1>4, <1>9, <3>3 DEF ConsumerErr
    <3>4. QED
      BY <1>3, <1>9, <3>1, <3>2, <3>3 DEF ConsumerErr
  <2>4. consumer.kind = "faulty" => Failing
    BY DEF Failing
  <2>5. QED
    BY <1>1, <1>2, <2>1, <2>2, <2>3, <2>4
<1>10. CASE AllFed
  BY <1>1, <1>2, <1>10 DEF AllFed
<1>11. CASE WaitForWorker
  <2>1. main = "wait" /\ main' = "collect" /\ workerErrs # << >> /\ workerErrs' = << >> /\ worker = "gone"
        /\ UNCHANGED <<cancelled, worker, wounds, consumerErrs>>
    BY <1>11 DEF WaitForWorker, ClosedInv
  <2>2. \/ verdict' = verdict /\ verdict # "nil"
        \/ verdict = "nil" /\ verdict' = "nil" /\ workerErrs = <<"nil">>
        \/ verdict = "nil" /\ verdict' = "failed" /\ workerErrs = <<"failed">>
    <3>1. CASE workerErrs = <<"nil">>
      BY <1>4, <1>11, <3>1 DEF WaitForWorker, FirstOf
    <3>2. CASE workerErrs = <<"failed">>
      BY <1>4, <1>11, <3>2 DEF WaitForWorker, FirstOf
    <3>3. QED
      BY <1>3, <2>1, <3>1, <3>2
  <2>3. QED
    BY <1>1, <1>2, <2>1, <2>2
<1>12. CASE WaitForConsumer
  <2>1. main = "collect" /\ main' = "returned" /\ consumerErrs # << >> /\ consumerErrs' = << >>
        /\ UNCHANGED <<cancelled, worker, wounds, workerErrs>>
    BY <1>12 DEF WaitForConsumer
  <2>2. consumer.state = "returned"
    BY <2>1 DEF TypeInv
  <2>3. \/ verdict' = verdict /\ verdict # "nil"
        \/ verdict = "nil" /\ verdict' = "nil" /\ consumerErrs = <<"nil">>
        \/ verdict = "nil" /\ verdict' = "wound" /\ consumerErrs = <<"wound">>
        \/ verdict = "nil" /\ verdict' = "failed" /\ consumerErrs = <<"failed">>
    <3>1. CASE consumerErrs = <<"nil">>
      BY <1>4, <1>12, <3>1 DEF WaitForConsumer, FirstOf
    <3>2. CASE consumerErrs = <<"wound">>
      BY <1>4, <1>12, <3>2 DEF WaitForConsumer, FirstOf
    <3>3. CASE consumerErrs = <<"failed">>
      BY <1>4, <1>12, <3>3, SMTT(60) DEF WaitForConsumer, FirstOf
    <3>4. QED
      BY <1>3, <2>1, <3>1, <3>2, <3>3
  <2>4. consumer.kind = "faulty" => Failing
    BY DEF Failing
  <2>5. QED
    BY <1>1, <1>2, <2>1, <2>2, <2>3, <2>4
<1>13. QED
  BY <1>5, <1>6, <1>7, <1>8, <1>9, <1>10, <1>11, <1>12 DEF Main

LEMMA WorkerVerdict == ASSUME TypeInv, ClosedInv, PlaceInv, VerdictInv, Worker PROVE VerdictInv' /\ (Bad => Bad')
<1>1. UNCHANGED <<found, consumer, ctx, main, verdict, cancelled, consumerErrs>>
  BY DEF Worker, Stat, WoundWhole, ValidateBlock, Copied, WoundSize, Flush, ClosePipe,
         PipeDone, NoMoreWork, Leave, others, scan, errs
<1>2. (Intact' <=> Intact) /\ (Failing' <=> Failing)
  BY <1>1, SameTarget
<1>3. worker \notin {"none", "gone"} /\ ~WoundsClosed /\ workerErrs = << >> /\ found.opens
  <2>1. worker \notin {"none", "gone"}
    BY DEF Worker, Stat, WoundWhole, ValidateBlock, Copied, WoundSize, Flush, ClosePipe,
           PipeDone, NoMoreWork, Leave
  <2>2. QED
    BY <2>1 DEF ClosedInv, VerdictInv
<1>4. (WoundsClosed' <=> WoundsClosed) /\ (FeedClosed' <=> FeedClosed)
  BY <1>1 DEF WoundsClosed, FeedClosed
<1>5. \A e : <<e>> # << >>
  OBVIOUS
<1> USE DEF VerdictInv, Lost, Bad, others, errs
<1>6. CASE Stat
  <2>1. /\ UNCHANGED <<workerErrs, wounds>> /\ worker = "stat"
        /\ \/ worker' = "whole" /\ UNCHANGED failure
           \/ worker' = "copy" /\ UNCHANGED failure
           \/ worker' = "leaving" /\ failure' = "failed" /\ ~found.hashes
    BY <1>6 DEF Stat
  <2>2. ~found.hashes => Failing
    BY DEF Failing
  <2>3. QED
    BY <1>1, <1>2, <1>3, <1>4, <1>5, <2>1, <2>2
<1>7. CASE Copied
  <2>1. /\ UNCHANGED <<workerErrs, wounds>> /\ worker = "copy"
        /\ \/ worker' = "flush" /\ UNCHANGED failure
           \/ worker' = "resize" /\ UNCHANGED failure
           \/ worker' = "flush" /\ failure' = "failed" /\ This.fails
    BY <1>7 DEF Copied, flow
  <2>2. This.fails => Failing
    BY <2>1 DEF Failing, This, PlaceInv, Reading
  <2>3. QED
    BY <1>1, <1>2, <1>3, <1>4, <1>5, <2>1, <2>2
<1>8. CASE PipeDone
  <2>1. UNCHANGED <<workerErrs, wounds, failure>> /\ worker = "drain"
        /\ \/ worker' = "idle" /\ failure = "nil"
           \/ worker' = "leaving" /\ failure # "nil"
    BY <1>8 DEF PipeDone, flow
  <2>2. QED
    BY <1>1, <1>2, <1>3, <1>4, <1>5, <2>1
<1>9. CASE NoMoreWork
  <2>1. UNCHANGED <<workerErrs, wounds, failure>> /\ worker = "idle" /\ worker' = "leaving" /\ FeedClosed
    BY <1>9 DEF NoMoreWork, flow
  <2>2. QED
    BY <1>1, <1>2, <1>3, <1>4, <1>5, <2>1
<1>10. CASE Leave
  <2>1. UNCHANGED <<wounds, failure>> /\ worker = "leaving" /\ worker' = "gone"
    BY <1>10 DEF Leave, flow
  <2>2. workerErrs' = << >> \/ workerErrs' = <<failure>>
    <3>1. workerErrs' = workerErrs \/ workerErrs' = Append(workerErrs, failure)
      BY <1>10 DEF Leave
    <3>2. Append(<< >>, failure) = <<failure>>
      OBVIOUS
    <3>3. QED
      BY <1>3, <3>1, <3>2
  <2>3. \/ workerErrs' = << >>
        \/ failure = "nil" /\ workerErrs' = <<"nil">>
        \/ failure = "failed" /\ workerErrs' = <<"failed">>
    BY <2>2 DEF TypeInv
  <2>4. <<"nil">> # <<"failed">> /\ << >> # <<"nil">> /\ << >> # <<"failed">>
    OBVIOUS
  <2>5. QED
    BY <1>1, <1>2, <1>3, <1>4, <2>1, <2>3, <2>4
<1>11. CASE WoundWhole \/ WoundSize
  <2>1. /\ UNCHANGED <<workerErrs, failure>> /\ worker \in {"whole", "resize"} /\ worker' \in {"idle", "flush"}
        /\ worker = "whole" => worker' = "idle"
        /\ worker = "resize" => worker' = "flush"
    BY <1>11 DEF WoundWhole, WoundSize
  <2>2. QED
    BY <1>1, <1>2, <1>3, <1>4, <1>5, <2>1
<1>12. CASE ValidateBlock \/ Flush \/ ClosePipe
  <2>1. /\ UNCHANGED <<workerErrs, failure, wounds>>
        /\ \/ worker = "copy" /\ worker' = "copy"
           \/ worker = "flush" /\ worker' = "close"
           \/ worker = "close" /\ worker' = "drain"
    BY <1>12 DEF ValidateBlock, Flush, ClosePipe
  <2>2. QED
    BY <1>1, <1>2, <1>3, <1>4, <1>5, <2>1
<1>13. QED
  BY <1>6, <1>7, <1>8, <1>9, <1>10, <1>11, <1>12 DEF Worker

LEMMA OtherVerdict ==
  ASSUME TypeInv, ClosedInv, PlaceInv, Sound, VerdictInv, Pipeline \/ Consumer \/ Cancel \/ UNCHANGED vars
  PROVE  VerdictInv' /\ (Bad => Bad')
<1>1. UNCHANGED <<found, main, verdict, cancelled, worker, failure, workerErrs>> /\ consumer'.kind = consumer.kind
  BY ZenonT(60) DEF Pipeline, AggregatorSends, RelaySends, Consumer, TakeWound, ConsumerDone, ThrowAway,
         Cancel, vars, others, scan, work, flow, untouched, errs, TypeInv
<1>2. (Intact' <=> Intact) /\ (Failing' <=> Failing)
  BY <1>1, SameTarget
<1>3. (WoundsClosed' <=> WoundsClosed) /\ (FeedClosed' <=> FeedClosed)
  BY <1>1 DEF WoundsClosed, FeedClosed
<1> USE DEF VerdictInv, Lost, Bad, others, errs, untouched
<1>4. CASE AggregatorSends
  BY <1>1, <1>2, <1>3, <1>4 DEF AggregatorSends
<1>5. CASE RelaySends
  <2>1. ~WoundsClosed /\ UNCHANGED <<consumer, ctx, consumerErrs>>
    BY <1>5 DEF RelaySends, ClosedInv, PipeIdle, Between
  <2>2. QED
    BY <1>1, <1>2, <1>3, <2>1
<1>6. CASE TakeWound
  <2> DEFINE w == Head(wounds)
             hit == [consumer EXCEPT !.got = @ \cup {w}, !.total = @ + Size(w)]
  <2>1. /\ wounds # << >> /\ wounds \in Seq(Wound) /\ consumer.state = "doing" /\ consumerErrs = << >>
        /\ UNCHANGED ctx
    BY <1>6 DEF TakeWound, TypeInv
  <2>2. w \in Flow /\ w \in Wound
    BY <2>1, RangeHead DEF Flow
  <2>3. w.kind # "closed" => ~Intact
    <3>1. w.kind # "closed" => Telling(w)
      BY <2>2 DEF Telling, Wound
    <3> HIDE DEF w
    <3>2. QED
      BY <2>2, <3>1, WoundTells
  <2>4. /\ hit.state = "doing" /\ [hit EXCEPT !.state = "returned"].state = "returned"
    BY <2>1 DEF TypeInv
  <2>5. \/ UNCHANGED <<consumer, consumerErrs>>
        \/ w.kind # "closed" /\ consumer.kind = "guardian" /\ consumer'.state = "returned"
             /\ consumerErrs' = Append(consumerErrs, "wound")
        \/ w.kind # "closed" /\ consumer.kind # "guardian" /\ consumer'.state = "doing" /\ UNCHANGED consumerErrs
        \/ w.kind # "closed" /\ consumer.kind = "faulty" /\ consumer'.state = "returned"
             /\ consumerErrs' = Append(consumerErrs, "failed")
    BY <1>6, <2>4 DEF TakeWound, DoReturns
  <2> HIDE DEF w, hit
  <2>6. Append(<< >>, "wound") = <<"wound">> /\ Append(<< >>, "failed") = <<"failed">>
    OBVIOUS
  <2>7. <<"wound">> # <<"failed">> /\ <<"wound">> # << >> /\ <<"failed">> # << >>
    OBVIOUS
  <2>8. main # "returned"
    BY <2>1
  <2>9. CASE UNCHANGED <<consumer, consumerErrs>>
    BY <1>1, <1>2, <1>3, <2>1, <2>8, <2>9
  <2>10. CASE w.kind # "closed" /\ consumer.kind = "guardian" /\ consumer'.state = "returned"
               /\ consumerErrs' = <<"wound">>
    BY <1>1, <1>2, <1>3, <2>1, <2>3, <2>7, <2>8, <2>10
  <2>11. CASE w.kind # "closed" /\ consumer.kind # "guardian" /\ consumer'.state = "doing" /\ UNCHANGED consumerErrs
    BY <1>1, <1>2, <1>3, <2>1, <2>8, <2>11
  <2>12. CASE w.kind # "closed" /\ consumer.kind = "faulty" /\ consumer'.state = "returned"
               /\ consumerErrs' = <<"failed">>
    BY <1>1, <1>2, <1>3, <2>1, <2>7, <2>8, <2>12
  <2>13. QED
    BY <2>1, <2>5, <2>6, <2>9, <2>10, <2>11, <2>12
<1>7. CASE ConsumerDone
  <2>1. /\ consumer.state = "doing" /\ consumerErrs = << >> /\ main # "returned"
        /\ consumer' = [consumer EXCEPT !.state = "returned"]
        /\ consumerErrs' = Append(consumerErrs, "nil")
        /\ UNCHANGED <<ctx, wounds>>
        /\ (wounds = << >> /\ WoundsClosed) \/ ctx = "done"
    BY <1>7 DEF ConsumerDone, DoReturns
  <2>2. consumerErrs' = <<"nil">> /\ consumer'.state = "returned" /\ consumer'.got = consumer.got
    BY <2>1 DEF TypeInv
  <2>3. <<"nil">> # <<"failed">> /\ <<"nil">> # <<"wound">>
    OBVIOUS
  <2>4. << >> # <<"failed">> /\ << >> # <<"wound">>
    OBVIOUS
  <2>5. QED
    BY <1>1, <1>2, <1>3, <2>1, <2>2, <2>3, <2>4
<1>8. CASE ThrowAway
  BY <1>1, <1>2, <1>3, <1>8 DEF ThrowAway
<1>9. CASE Cancel
  BY <1>1, <1>2, <1>3, <1>9 DEF Cancel, flow
<1>10. CASE UNCHANGED vars
  BY <1>1, <1>2, <1>3, <1>10 DEF vars, flow
<1>11. QED
  BY <1>4, <1>5, <1>6, <1>7, <1>8, <1>9, <1>10 DEF Pipeline, Consumer
-----------------------------------------------------------------------------
(* Nothing is left out                                                      *)

\* A step on which nothing failed: what was reported stays reported.
Reports ==
  /\ TypeInv /\ PlaceInv /\ VerdictInv /\ ClosedInv
  /\ UNCHANGED found
  /\ Flow \subseteq Wound \cup {NoWound}
  /\ Flow' \subseteq Wound \cup {NoWound}
  /\ Grows(Flow, Flow')

LEMMA SameBytes ==
  ASSUME UNCHANGED found, NEW f
  PROVE  (SameFile(f)' <=> SameFile(f)) /\ Corrupted(f)' = Corrupted(f)
  BY DEF SameFile, Corrupted

LEMMA ReportedStays ==
  ASSUME Reports, NEW f \in Files, Reported(Flow, f)
  PROVE  Reported(Flow, f)'
<1>1. ASSUME ~SameFile(f) PROVE Among(Flow', "file", f)
  BY <1>1, AmongGrows DEF Reported, Reports
<1>2. ASSUME NEW i \in Corrupted(f) PROVE Spanned(Flow', f, i - 1, i)
  <2>1. i \in Nat /\ i - 1 \in Int /\ i \in Int
    BY <1>2, Shapes DEF Corrupted, Reports
  <2>2. Spanned(Flow, f, i - 1, i)
    BY <1>2 DEF Reported
  <2>3. QED
    BY <2>1, <2>2, SpannedGrows DEF Reports
<1>3. (SameFile(f)' <=> SameFile(f)) /\ Corrupted(f)' = Corrupted(f)
  BY SameBytes DEF Reports
<1>4. QED
  BY <1>1, <1>2, <1>3 DEF Reported

\* The worker is done with a file it could read.
LEMMA DrainedReported ==
  ASSUME TypeInv, PlaceInv, worker = "drain", BlocksReported, SizeReported
  PROVE  Reported(Flow, job.file)
<1> DEFINE f == job.file
           E == Expected[f]
           D == This.data
<1>1. /\ f \in Files /\ This.kind = "file" /\ This = found.files[f]
      /\ Len(E) \in Nat /\ DOMAIN E = 1 .. Len(E)
      /\ Len(D) \in Nat /\ DOMAIN D = 1 .. Len(D)
  BY Shapes DEF PlaceInv, Reading, This
<1>2. IsSequence(E) /\ IsSequence(D)
  BY <1>1, ExpectedAssumption, TargetsAssumption DEF TypeInv, Files
<1>3. Len(D) # Len(E) => Spanned(Flow, f, Len(D), Len(E))
  BY DEF SizeReported
<1>4. ASSUME NEW b \in Nat, b * BlockSize < Len(D), Differs(b)
      PROVE  Spanned(Flow, f, b * BlockSize, BlockEnd(f, b))
  BY <1>4 DEF BlocksReported, Validated, Reading
<1>5. ASSUME NEW i \in 1 .. Len(E), i <= Len(D), D[i] # E[i]
      PROVE  Spanned(Flow, f, i - 1, i)
  <2>1. PICK b \in Nat : b * BlockSize \in Nat /\ b * BlockSize < i /\ i <= b * BlockSize + BlockSize
    <3>1. i \in Nat \ {0}
      BY <1>1
    <3>2. QED
      BY <3>1, BlockOfByte
  <2>2. Differs(b)
    <3>1. i \in 1 .. Len(E) /\ i \in 1 .. Len(D)
      BY <1>1, <1>5
    <3>2. Block(E, b)[i - b * BlockSize] = E[i] /\ Block(D, b)[i - b * BlockSize] = D[i]
      BY <1>2, <2>1, <3>1, BlockBytes
    <3>3. Block(E, b) # Block(D, b)
      BY <1>5, <3>2
    <3>4. QED
      BY <3>3 DEF Differs
  <2> DEFINE s == b * BlockSize
             e == BlockEnd(f, b)
             l == Len(E)
  <2>3. s < Len(D)
    BY <1>1, <1>5, <2>1
  <2>4. Spanned(Flow, f, s, e)
    BY <1>4, <2>2, <2>3
  <2>5. /\ s \in Nat /\ l \in Nat /\ BlockSize \in Nat
        /\ s <= l => e = IF s + BlockSize > l THEN l ELSE s + BlockSize
    BY <1>1, <2>1, BlockSizes, SizeAssumption
  <2> HIDE DEF s, e, l
  <2>6. s < i /\ i <= s + BlockSize /\ i \in Int /\ i <= l
    BY <1>1, <1>5, <2>1 DEF s, l
  <2>7. s <= i - 1 /\ i <= e /\ e \in Int
    BY <2>5, <2>6
  <2>8. Flow \subseteq Wound \cup {NoWound}
    BY FlowTypes
  <2>9. i - 1 \in Int
    BY <2>6
  <2>10. QED
    BY <2>4, <2>5, <2>6, <2>7, <2>8, <2>9, SpannedWithin
<1>6. ASSUME NEW i \in Corrupted(f) PROVE Spanned(Flow, f, i - 1, i)
  <2>1. i \in 1 .. Len(E) /\ (i \notin 1 .. Len(D) \/ D[i] # E[i])
    BY <1>1, <1>6 DEF Corrupted
  <2>2. CASE i <= Len(D)
    BY <1>1, <1>5, <2>1, <2>2
  <2>3. CASE i > Len(D)
    <3> DEFINE d == Len(D)
               l == Len(E)
    <3>1. d \in Nat /\ l \in Nat /\ i \in 1 .. l /\ i > d
      BY <1>1, <2>1, <2>3
    <3>2. d # l => Spanned(Flow, f, d, l)
      BY <1>3
    <3> HIDE DEF d, l
    <3>3. Spanned(Flow, f, d, l) /\ d <= i - 1 /\ i <= l /\ i - 1 \in Int /\ i \in Int
      BY <3>1, <3>2
    <3>4. QED
      BY <3>1, <3>3, FlowTypes, SpannedWithin
  <2>4. QED
    BY <1>1, <2>1, <2>2, <2>3
<1>7. ASSUME ~SameFile(f) PROVE Among(Flow, "file", f)
  <2>1. D # E
    BY <1>1, <1>7 DEF SameFile
  <2>2. CASE Len(D) # Len(E)
    BY <1>3, <2>2, SpannedAmong
  <2>3. CASE Len(D) = Len(E)
    <3>1. \E i \in 1 .. Len(E) : D[i] # E[i]
      <4>1. D \in Seq(Range(D) \cup Range(E)) /\ E \in Seq(Range(D) \cup Range(E))
        <5>1. D \in Seq(Range(D)) /\ E \in Seq(Range(E))
          BY <1>2, SequenceShape
        <5> DEFINE R == Range(D)
                   T == Range(E)
        <5>2. D \in Seq(R) /\ E \in Seq(T)
          BY <5>1
        <5> HIDE DEF R, T
        <5>3. D \in Seq(R \cup T) /\ E \in Seq(R \cup T)
          BY <5>2
        <5>4. QED
          BY <5>3 DEF R, T
      <4>2. QED
        BY <2>1, <2>3, <4>1, SameSequence
    <3>2. PICK i \in 1 .. Len(E) : D[i] # E[i]
      BY <3>1
    <3>3. Spanned(Flow, f, i - 1, i)
      BY <1>1, <1>5, <2>3, <3>2
    <3>4. QED
      BY <3>3, SpannedAmong
  <2>4. QED
    BY <2>2, <2>3
<1>8. QED
  BY <1>6, <1>7 DEF Reported
LEMMA EntriesStay ==
  ASSUME Reports, EntriesReported,
         \A i \in DOMAIN found.entries : main' # "scan" \/ i < next' =>
           \/ main # "scan" \/ i < next
           \/ found.entries[i] # "error" /\ (found.entries[i] = "wounded" => Among(Flow', "entry", i))
  PROVE  EntriesReported'
<1> SUFFICES ASSUME NEW i \in DOMAIN found.entries, main' # "scan" \/ i < next'
             PROVE  found.entries[i] # "error" /\ (found.entries[i] = "wounded" => Among(Flow', "entry", i))
  BY DEF EntriesReported, Reports
<1>1. CASE main # "scan" \/ i < next
  <2>1. found.entries[i] # "error" /\ (found.entries[i] = "wounded" => Among(Flow, "entry", i))
    BY <1>1 DEF EntriesReported
  <2>2. QED
    BY <2>1, AmongGrows DEF Reports
<1>2. CASE ~(main # "scan" \/ i < next)
  BY <1>2
<1>3. QED
  BY <1>1, <1>2

LEMMA FilesStay ==
  ASSUME Reports, FilesReported,
         \A f \in Files :
           main' # "scan" /\ f < next' /\ (f # job'.file \/ worker' \in {"idle", "leaving", "gone"}) =>
             \/ main # "scan" /\ f < next /\ (f # job.file \/ worker \in {"idle", "leaving", "gone"})
             \/ Reported(Flow, f)'
  PROVE  FilesReported'
<1> SUFFICES ASSUME NEW f \in Files, main' # "scan", f < next',
                    f # job'.file \/ worker' \in {"idle", "leaving", "gone"}
             PROVE  Reported(Flow, f)'
  BY DEF FilesReported
<1>1. CASE main # "scan" /\ f < next /\ (f # job.file \/ worker \in {"idle", "leaving", "gone"})
  <2>1. Reported(Flow, f)
    BY <1>1 DEF FilesReported
  <2>2. QED
    BY <2>1, ReportedStays
<1>2. CASE ~(main # "scan" /\ f < next /\ (f # job.file \/ worker \in {"idle", "leaving", "gone"}))
  BY <1>2
<1>3. QED
  BY <1>1, <1>2

LEMMA SameBlocks ==
  ASSUME UNCHANGED <<found, job>>
  PROVE  This' = This /\ \A b : Differs(b)' <=> Differs(b)
  BY DEF This, Differs

LEMMA BlockEndType ==
  ASSUME TypeInv, NEW f \in Files, NEW b \in Nat
  PROVE  b * BlockSize \in Int /\ BlockEnd(f, b) \in Int
<1>1. b * BlockSize \in Nat /\ ComputeBlockSize(Len(Expected[f]), b) \in Nat
  BY BlockSizes
<1>2. QED
  BY <1>1 DEF BlockEnd

LEMMA BlocksStay ==
  ASSUME Reports, BlocksReported, UNCHANGED job, worker' \in Reading => worker \in Reading,
         worker' \in {"close", "drain"} => worker \in {"close", "drain"}
  PROVE  BlocksReported'
<1> SUFFICES ASSUME worker' \in Reading, NEW b \in Nat, Validated(b)', Differs(b)'
             PROVE  Spanned(Flow', job.file, b * BlockSize, BlockEnd(job.file, b))
  BY DEF BlocksReported, BlockEnd
<1>1. This' = This /\ Differs(b)
  BY SameBlocks DEF Reports
<1>2. Validated(b)
  BY <1>1 DEF Validated
<1>3. Spanned(Flow, job.file, b * BlockSize, BlockEnd(job.file, b))
  BY <1>1, <1>2 DEF BlocksReported
<1>4. job.file \in Files /\ TypeInv
  BY DEF Reports, PlaceInv
<1>5. b * BlockSize \in Int /\ BlockEnd(job.file, b) \in Int
  BY <1>4, BlockEndType
<1>6. QED
  BY <1>3, <1>5, SpannedGrows DEF Reports

LEMMA SizeStays ==
  ASSUME Reports, SizeReported, UNCHANGED job,
         worker' \in {"flush", "close", "drain"} =>
           worker \in {"flush", "close", "drain"} \/ Len(This.data) = Len(Expected[job.file])
  PROVE  SizeReported'
<1>1. This' = This
  BY SameBlocks DEF Reports
<1> SUFFICES ASSUME worker' \in {"flush", "close", "drain"}, Len(This.data) # Len(Expected[job.file])
             PROVE  Spanned(Flow', job.file, Len(This.data), Len(Expected[job.file]))
  BY <1>1 DEF SizeReported
<1> DEFINE d == Len(This.data)
           l == Len(Expected[job.file])
<1>2. Spanned(Flow, job.file, d, l) /\ worker \in Reading
  BY DEF SizeReported, Reading
<1>3. d \in Int /\ l \in Int
  BY <1>2, NewWounds, Shapes DEF Reports, PlaceInv
<1> HIDE DEF d, l
<1>4. Spanned(Flow', job.file, d, l)
  BY <1>2, <1>3, SpannedGrows DEF Reports
<1>5. QED
  BY <1>4 DEF d, l

\* Steps on which the worker stays where it is, or gives up or ends its loop.
LEMMA CompleteStays ==
  ASSUME Reports, Complete, UNCHANGED <<job, next>>,
         main = "scan" => main' = "scan",
         worker' = worker \/ (worker' \notin Reading /\ worker \in {"idle", "leaving", "gone"})
  PROVE  Complete'
<1>1. EntriesReported'
  BY EntriesStay DEF Complete
<1>2. FilesReported'
  BY FilesStay DEF Complete, Reading
<1>3. BlocksReported'
  BY BlocksStay DEF Complete, Reading
<1>4. SizeReported'
  BY SizeStays DEF Complete, Reading
<1>5. QED
  BY <1>1, <1>2, <1>3, <1>4 DEF Complete

LEMMA MainComplete ==
  ASSUME Reports, Complete, Main, Sound, ~Bad' PROVE Complete'
<1> USE DEF work
<1>0. Len(found.entries) \in Nat /\ DOMAIN found.entries = 1 .. Len(found.entries) /\ Files = 1 .. Len(Expected)
      /\ Len(Expected) \in Nat /\ next \in Nat
  BY Shapes DEF Reports, TypeInv
<1>1. CASE ScanEntry
  <2>1. UNCHANGED <<job, worker>> /\ next \in DOMAIN found.entries /\ main = "scan"
    BY <1>1 DEF ScanEntry
  <2>2. found.entries[next] # "error" /\ main' = "scan" /\ next' = next + 1
    BY <1>1 DEF ScanEntry, Bad, Lost
  <2>3. found.entries[next] = "wounded" => Among(Flow', "entry", next)
    BY <1>1, ScanFlow DEF Reports
  <2>4. EntriesReported'
    <3>1. \A i \in DOMAIN found.entries : i < next + 1 => i < next \/ i = next
      BY <1>0
    <3>2. QED
      BY <2>2, <2>3, <3>1, EntriesStay DEF Complete
  <2>5. FilesReported'
    BY <2>2 DEF FilesReported
  <2>6. BlocksReported'
    BY <2>1, BlocksStay DEF Complete
  <2>7. SizeReported'
    BY <2>1, SizeStays DEF Complete
  <2>8. QED
    BY <2>4, <2>5, <2>6, <2>7 DEF Complete
<1>2. CASE StartWorker
  <2>1. main = "scan" /\ next > Len(found.entries) /\ next' = 1 /\ UNCHANGED job
        /\ worker' \notin Reading
    BY <1>2 DEF StartWorker, Reading
  <2>2. EntriesReported'
    <3>1. \A i \in DOMAIN found.entries : i < next
      BY <1>0, <2>1
    <3>2. QED
      BY <3>1, EntriesStay DEF Complete
  <2>3. FilesReported'
    <3>1. \A f \in Files : ~(f < 1)
      BY <1>0
    <3>2. QED
      BY <2>1, <3>1 DEF FilesReported
  <2>4. BlocksReported'
    BY <2>1 DEF BlocksReported
  <2>5. SizeReported'
    BY <2>1 DEF SizeReported, Reading
  <2>6. QED
    BY <2>2, <2>3, <2>4, <2>5 DEF Complete
<1>3. CASE FeedFile
  <2>1. main = "feed" /\ main' = "feed" /\ worker = "idle" /\ worker' = "stat" /\ next' = next + 1
        /\ job'.file = next
    BY <1>3 DEF FeedFile
  <2>2. EntriesReported'
    BY <2>1, EntriesStay DEF Complete
  <2>3. FilesReported'
    <3>1. \A f \in Files : f < next + 1 /\ f # next => f < next
      BY <1>0
    <3>2. QED
      BY <2>1, <3>1, FilesStay DEF Complete
  <2>4. QED
    BY <2>1, <2>2, <2>3 DEF Complete, BlocksReported, SizeReported, Reading
<1>4. CASE WorkerErr \/ ConsumerErr \/ AllFed \/ WaitForWorker \/ WaitForConsumer
  <2>1. UNCHANGED <<job, next, worker>> /\ main # "scan"
    BY <1>4 DEF WorkerErr, ConsumerErr, AllFed, WaitForWorker, WaitForConsumer
  <2>2. QED
    BY <2>1, CompleteStays
<1>5. QED
  BY <1>1, <1>2, <1>3, <1>4 DEF Main

LEMMA WorkerComplete ==
  ASSUME Reports, Complete, Worker, Sound, ~Bad, ~Bad' PROVE Complete'
<1>0. UNCHANGED <<found, consumer, main, next>>
  BY DEF Worker, Stat, WoundWhole, ValidateBlock, Copied, WoundSize, Flush, ClosePipe,
         PipeDone, NoMoreWork, Leave, others, scan
<1>1. EntriesReported'
  BY <1>0, EntriesStay DEF Complete
<1>2. failure = "nil" /\ failure' = "nil" /\ ~cancelled
  BY DEF Bad, Lost, Reports, VerdictInv
<1> USE DEF Reading
<1>3. CASE Stat
  <2>1. UNCHANGED job /\ worker = "stat" /\ worker' \in {"whole", "copy"}
    BY <1>2, <1>3 DEF Stat
  <2>2. FilesReported'
    BY <1>0, <2>1, FilesStay DEF Complete
  <2>3. BlocksReported'
    <3>1. job.block = 0
      BY <2>1 DEF Reports, PlaceInv
    <3>2. \A b \in Nat : ~Validated(b)'
      BY <2>1, <3>1 DEF Validated
    <3>3. QED
      BY <3>2 DEF BlocksReported
  <2>4. SizeReported'
    BY <2>1, SizeStays DEF Complete
  <2>5. QED
    BY <1>1, <2>2, <2>3, <2>4 DEF Complete
<1>4. CASE WoundWhole
  <2>1. UNCHANGED job /\ worker = "whole" /\ worker' = "idle"
    BY <1>4 DEF WoundWhole
  <2> DEFINE f == job.file
             l == Len(Expected[f])
  <2>2. f \in Files /\ This.kind # "file" /\ l \in Nat /\ DOMAIN Expected[f] = 1 .. l
    BY <2>1, Shapes DEF Reports, PlaceInv
  <2>3. Spanned(Flow', f, 0, l)
    BY <1>2, <1>4, WholeFlow DEF Reports
  <2>4. Reported(Flow, f)'
    <3>1. Among(Flow', "file", f)
      BY <2>3, SpannedAmong
    <3>2. ASSUME NEW i \in Corrupted(f) PROVE Spanned(Flow', f, i - 1, i)
      <4>1. i \in 1 .. l
        BY <2>2 DEF Corrupted
      <4>2. 0 <= i - 1 /\ i <= l /\ i - 1 \in Int /\ i \in Int
        BY <2>2, <4>1
      <4> HIDE DEF l, f
      <4>3. QED
        BY <2>2, <2>3, <4>2, SpannedWithin DEF Reports
    <3>3. (SameFile(f)' <=> SameFile(f)) /\ Corrupted(f)' = Corrupted(f)
      BY <2>1, SameBytes DEF Reports
    <3>4. Reported(Flow', f)
      BY <3>1, <3>2 DEF Reported
    <3>5. QED
      BY <2>1, <3>1, <3>2, <3>3 DEF Reported
  <2>5. FilesReported'
    <3>1. PICK g \in Files : g = f
      BY <2>2
    <3>2. Reported(Flow, g)'
      BY <2>1, <2>4, <3>1
    <3>3. QED
      BY <1>0, <2>1, <3>1, <3>2, FilesStay DEF Complete
  <2>6. QED
    BY <1>1, <2>1, <2>5 DEF Complete, BlocksReported, SizeReported
<1>5. CASE ValidateBlock
  <2>1. worker = "copy" /\ worker' = "copy" /\ job' = [job EXCEPT !.block = job.block + 1]
        /\ Offer(ThisBlock) /\ UNCHANGED <<wounds, relay>> /\ Rest >= BlockSize
    BY <1>5 DEF ValidateBlock, ThisBlock
  <2>2. job'.file = job.file /\ job'.block = job.block + 1 /\ job.block \in Nat
    BY <2>1 DEF Reports, TypeInv
  <2>3. FilesReported'
    BY <1>0, <2>1, <2>2, FilesStay DEF Complete
  <2>4. job.block * BlockSize < Len(This.data)
    <3>1. Len(This.data) \in Nat /\ BlockSize \in Nat \ {0} /\ job.block * BlockSize \in Nat
      BY <2>1, <2>2, NewWounds, SizeAssumption DEF Reports
    <3>2. QED
      BY <2>1, <3>1 DEF Rest
  <2>5. Differs(job.block) => Spanned(Flow', job.file, job.block * BlockSize, BlockEnd(job.file, job.block))
    BY <1>0, <2>1, <2>4, BlockFlow DEF Reports
  <2>6. BlocksReported'
    <3> SUFFICES ASSUME NEW b \in Nat, Validated(b)', Differs(b)'
                 PROVE  Spanned(Flow', job.file, b * BlockSize, BlockEnd(job.file, b))
      BY <2>1, <2>2 DEF BlocksReported, BlockEnd
    <3>1. This' = This /\ Differs(b)
      BY <1>0, <2>2 DEF This, Differs
    <3>2. b * BlockSize < Len(This.data) /\ b < job.block + 1
      BY <2>1, <2>2, <3>1 DEF Validated
    <3>3. CASE b = job.block
      BY <2>5, <3>1, <3>3
    <3>4. CASE b # job.block
      <4>1. b < job.block
        BY <2>2, <3>2, <3>4
      <4>2. Spanned(Flow, job.file, b * BlockSize, BlockEnd(job.file, b))
        BY <2>1, <3>1, <3>2, <4>1 DEF Complete, BlocksReported, Validated
      <4>3. job.file \in Files /\ TypeInv
        BY <2>1 DEF Reports, PlaceInv
      <4>4. b * BlockSize \in Int /\ BlockEnd(job.file, b) \in Int
        BY <4>3, BlockEndType
      <4>5. QED
        BY <4>2, <4>4, SpannedGrows DEF Reports
    <3>5. QED
      BY <3>3, <3>4
  <2>7. QED
    BY <1>1, <2>1, <2>3, <2>6 DEF Complete, SizeReported
<1>6. CASE Copied
  <2>1. UNCHANGED job /\ worker = "copy"
        /\ \/ worker' = "resize"
           \/ worker' = "flush" /\ Len(This.data) = Len(Expected[job.file])
    BY <1>2, <1>6 DEF Copied
  <2>2. FilesReported' /\ BlocksReported' /\ SizeReported'
    BY <1>0, <2>1, FilesStay, BlocksStay, SizeStays DEF Complete
  <2>3. QED
    BY <1>1, <2>2 DEF Complete
<1>7. CASE WoundSize
  <2>1. UNCHANGED job /\ worker = "resize" /\ worker' = "flush"
    BY <1>7 DEF WoundSize
  <2>2. FilesReported' /\ BlocksReported'
    BY <1>0, <2>1, FilesStay, BlocksStay DEF Complete
  <2>3. Spanned(Flow', job.file, Len(This.data), Len(Expected[job.file]))
    BY <1>2, <1>7, SizeFlow DEF Reports
  <2>4. SizeReported'
    <3>1. This' = This
      BY <1>0, <2>1, SameBlocks
    <3>2. QED
      BY <2>1, <2>3, <3>1 DEF SizeReported
  <2>5. QED
    BY <1>1, <2>2, <2>4 DEF Complete
<1>8. CASE Flush
  <2>1. UNCHANGED <<job, wounds, relay>> /\ worker = "flush" /\ worker' = "close"
    BY <1>8 DEF Flush
  <2>2. FilesReported' /\ SizeReported'
    BY <1>0, <2>1, FilesStay, SizeStays DEF Complete
  <2>3. BlocksReported'
    <3> SUFFICES ASSUME NEW b \in Nat, Validated(b)', Differs(b)'
                 PROVE  Spanned(Flow', job.file, b * BlockSize, BlockEnd(job.file, b))
      BY <2>1 DEF BlocksReported, BlockEnd
    <3> DEFINE d == Len(This.data)
               k == job.block
    <3>1. This' = This /\ Differs(b)
      BY <1>0, <2>1, SameBlocks
    <3>2. b * BlockSize < d
      BY <3>1 DEF Validated
    <3>3. /\ d \in Nat /\ BlockSize \in Nat \ {0} /\ k \in Nat
          /\ Rest = d - k * BlockSize /\ Rest < BlockSize
      BY <2>1, NewWounds, SizeAssumption DEF Reports, PlaceInv, Rest, TypeInv
    <3>4. CASE b < k
      <4>1. Spanned(Flow, job.file, b * BlockSize, BlockEnd(job.file, b))
        BY <2>1, <3>1, <3>2, <3>4 DEF Complete, BlocksReported, Validated
      <4>2. job.file \in Files /\ TypeInv
        BY <2>1 DEF Reports, PlaceInv
      <4>3. b * BlockSize \in Int /\ BlockEnd(job.file, b) \in Int
        BY <4>2, BlockEndType
      <4>4. QED
        BY <4>1, <4>3, SpannedGrows DEF Reports
    <3>5. CASE b = k
      <4>1. Rest > 0
        <5>1. k * BlockSize \in Nat
          BY <3>3
        <5> HIDE DEF d, k
        <5>2. QED
          BY <3>2, <3>3, <3>5, <5>1
      <4>2. Offer(ThisBlock)
        BY <1>8, <3>3, <4>1 DEF Flush, ThisBlock
      <4>3. Differs(k) => Spanned(Flow', job.file, k * BlockSize, BlockEnd(job.file, k))
        BY <1>0, <2>1, <3>2, <3>5, <4>2, BlockFlow DEF Reports
      <4>4. QED
        BY <3>1, <3>5, <4>3
    <3>6. CASE b > k
      <4> HIDE DEF d, k
      <4>1. PICK n \in Nat : b = (k + 1) + n
        <5>1. b - (k + 1) \in Nat /\ b = (k + 1) + (b - (k + 1))
          BY <3>3, <3>6
        <5>2. QED
          BY <5>1
      <4>2. b * BlockSize = k * BlockSize + BlockSize + n * BlockSize
        BY <3>3, <4>1
      <4>3. n * BlockSize \in Nat /\ k * BlockSize \in Nat
        BY <3>3
      <4>4. QED
        BY <3>2, <3>3, <4>2, <4>3
    <3>7. QED
      BY <3>3, <3>4, <3>5, <3>6
  <2>4. QED
    BY <1>1, <2>2, <2>3 DEF Complete
<1>9. CASE ClosePipe
  <2>1. UNCHANGED job /\ worker = "close" /\ worker' = "drain"
    BY <1>9 DEF ClosePipe
  <2>2. FilesReported' /\ BlocksReported' /\ SizeReported'
    BY <1>0, <2>1, FilesStay, BlocksStay, SizeStays DEF Complete
  <2>3. QED
    BY <1>1, <2>2 DEF Complete
<1>10. CASE PipeDone
  <2>1. UNCHANGED job /\ worker = "drain" /\ worker' = "idle"
    BY <1>2, <1>10 DEF PipeDone
  <2>2. job.file \in Files /\ Reported(Flow, job.file)
    BY <2>1, DrainedReported DEF Reports, Complete, PlaceInv
  <2>3. PICK g \in Files : g = job.file
    BY <2>2
  <2>4. Reported(Flow, g)'
    BY <2>2, <2>3, ReportedStays
  <2>5. FilesReported'
    BY <1>0, <2>1, <2>3, <2>4, FilesStay DEF Complete
  <2>6. QED
    BY <1>1, <2>1, <2>5 DEF Complete, BlocksReported, SizeReported
<1>11. CASE NoMoreWork \/ Leave
  <2>1. UNCHANGED job /\ worker \in {"idle", "leaving"} /\ worker' \in {"leaving", "gone"}
    BY <1>11 DEF NoMoreWork, Leave
  <2>2. QED
    BY <1>0, <2>1, CompleteStays
<1>12. QED
  BY <1>3, <1>4, <1>5, <1>6, <1>7, <1>8, <1>9, <1>10, <1>11 DEF Worker

LEMMA OtherComplete ==
  ASSUME Reports, Complete, Pipeline \/ Consumer \/ Cancel \/ UNCHANGED vars
  PROVE  Complete'
<1>1. UNCHANGED <<job, next, main, worker>>
  BY DEF Pipeline, AggregatorSends, RelaySends, Consumer, TakeWound, ConsumerDone, ThrowAway,
         Cancel, vars, others, scan, work, untouched
<1>2. QED
  BY <1>1, CompleteStays
-----------------------------------------------------------------------------
(* Progress                                                                 *)

LEMMA SizeBeforeIs ==
  /\ SizeBefore[1] = 0
  /\ \A f \in Files : SizeBefore[f + 1] = SizeBefore[f] + Len(Expected[f])
  /\ \A f \in Files \cup {0} : SizeBefore[f + 1] \in Int
<1> DEFINE n == Len(Expected)
           before == CHOOSE g : g = [f \in 1 .. Len(Expected) + 1 |->
                       IF f = 1 THEN 0 ELSE g[f - 1] + Len(Expected[f - 1])]
           step == [i \in 1 .. n + 1 |-> [x \in Int |-> IF i = 1 THEN 0 ELSE x + Len(Expected[i - 1])]]
<1>1. n \in Nat /\ n + 1 \in Nat /\ Files = 1 .. n /\ \A k \in 1 .. n : Len(Expected[k]) \in Nat
  <2>1. IsSequence(Expected) /\ \A f \in Files : IsSequence(Expected[f])
    BY ExpectedAssumption DEF Files
  <2>2. n \in Nat /\ Files = 1 .. n
    BY <2>1, SequenceShape DEF Files
  <2>3. QED
    BY <2>1, <2>2, SequenceShape
<1>2. step \in [1 .. n + 1 -> [Int -> Int]]
  <2>1. ASSUME NEW i \in 1 .. n + 1, NEW x \in Int, i # 1
        PROVE  x + Len(Expected[i - 1]) \in Int
    <3>1. i - 1 \in 1 .. n
      BY <1>1, <2>1
    <3>2. QED
      BY <1>1, <3>1
  <2>2. \A i \in 1 .. n + 1, x \in Int : (IF i = 1 THEN 0 ELSE x + Len(Expected[i - 1])) \in Int
    BY <2>1
  <2> HIDE DEF n
  <2>3. QED
    BY <2>2
<1>3. PICK g : Recurs(g, Int, n + 1, 0, step)
  <2>1. 0 \in Int
    OBVIOUS
  <2> HIDE DEF step, n
  <2>2. QED
    BY <1>1, <1>2, <2>1, RecursionExists
<1>4. g = [f \in 1 .. Len(Expected) + 1 |-> IF f = 1 THEN 0 ELSE g[f - 1] + Len(Expected[f - 1])]
  <2>1. g = [k \in 1 .. n + 1 |-> g[k]] /\ \A k \in 1 .. n + 1 : g[k] \in Int /\ g[k] = IF k = 1 THEN 0 ELSE step[k][g[k - 1]]
    <3> HIDE DEF step, n
    <3>1. QED
      BY <1>3 DEF Recurs
  <2>2. ASSUME NEW k \in 1 .. n + 1
        PROVE  g[k] = IF k = 1 THEN 0 ELSE g[k - 1] + Len(Expected[k - 1])
    <3>1. CASE k = 1
      BY <2>1, <3>1
    <3>2. CASE k # 1
      <4>1. k - 1 \in 1 .. n + 1
        BY <1>1, <3>2
      <4>2. g[k - 1] \in Int
        BY <2>1, <4>1
      <4>3. g[k] = step[k][g[k - 1]]
        BY <2>1, <3>2
      <4>4. QED
        BY <3>2, <4>2, <4>3
    <3>3. QED
      BY <3>1, <3>2
  <2> HIDE DEF step
  <2>3. QED
    BY <2>1, <2>2
<1>5. before = [f \in 1 .. Len(Expected) + 1 |-> IF f = 1 THEN 0 ELSE before[f - 1] + Len(Expected[f - 1])]
  BY <1>4
<1>6. SizeBefore = before
  BY DEF SizeBefore
<1> HIDE DEF before
<1>7. \A k \in 1 .. n + 1 : before[k] = IF k = 1 THEN 0 ELSE before[k - 1] + Len(Expected[k - 1])
  BY <1>5
<1>8. 1 \in 1 .. n + 1 /\ \A f \in 1 .. n : f + 1 \in 1 .. n + 1 /\ f + 1 # 1 /\ (f + 1) - 1 = f
  BY <1>1
<1>9. before[1] = 0 /\ \A f \in 1 .. n : before[f + 1] = before[f] + Len(Expected[f])
  BY <1>7, <1>8
<1>10. \A k \in 1 .. n + 1 : before[k] \in Int
  <2>1. \A i \in 2 .. n + 1 : before[i - 1] \in Int => before[i] \in Int
    <3>1. ASSUME NEW i \in 2 .. n + 1, before[i - 1] \in Int PROVE before[i] \in Int
      <4>1. i - 1 \in 1 .. n /\ (i - 1) + 1 = i
        BY <1>1
      <4>2. before[i] = before[i - 1] + Len(Expected[i - 1])
        BY <1>9, <4>1
      <4>3. QED
        BY <1>1, <3>1, <4>1, <4>2
    <3>2. QED
      BY <3>1
  <2> HIDE DEF n
  <2>2. n + 1 \in Nat /\ (n + 1 >= 1 => before[1] \in Int)
    BY <1>1, <1>9
  <2>3. QED
    BY <2>1, <2>2, RecursionType
<1>11. \A f \in Files \cup {0} : f + 1 \in 1 .. n + 1
  BY <1>1
<1>12. QED
  BY <1>1, <1>6, <1>9, <1>10, <1>11

LEMMA ProgressStep ==
  ASSUME TypeInv, ClosedInv, PlaceInv, VerdictInv, ProgressInv, [Next]_vars
  PROVE  ProgressInv'
<1>0. /\ job.file \in Files \cup {0} /\ job.block \in Nat /\ bytesDone \in Int /\ BlockSize \in Nat
      /\ job.block * BlockSize \in Nat
  <2>1. job.file \in Files \cup {0}
    <3>1. Files = 1 .. Len(Expected) /\ Len(Expected) \in Nat /\ job.file \in Nat /\ next \in Nat
      BY Shapes DEF TypeInv
    <3>2. CASE main \in {"scan", "aborted"}
      BY <3>2 DEF PlaceInv
    <3>3. CASE main \notin {"scan", "aborted"}
      BY <3>1, <3>3 DEF PlaceInv
    <3>4. QED
      BY <3>2, <3>3
  <2>2. job.block \in Nat /\ bytesDone \in Int /\ BlockSize \in Nat
    BY SizeAssumption DEF TypeInv
  <2>3. job.block * BlockSize \in Nat
    BY <2>2
  <2>4. QED
    BY <2>1, <2>2, <2>3
<1>1. CASE Main
  <2>1. CASE StartWorker
    <3>1. worker = "none" /\ failure = "nil" /\ worker' \in {"idle", "gone"} /\ UNCHANGED <<job, failure, bytesDone>>
      BY <2>1 DEF StartWorker, ClosedInv, VerdictInv, TypeInv
    <3>2. QED
      BY <3>1 DEF ProgressInv
  <2>2. CASE FeedFile
    <3>1. worker = "idle" /\ failure = "nil" /\ main = "feed" /\ worker' = "stat"
          /\ job' = [file |-> next, block |-> 0] /\ UNCHANGED <<bytesDone, failure>>
      BY <2>2 DEF FeedFile, work, VerdictInv, TypeInv
    <3>2. job'.file = job.file + 1
      BY <3>1 DEF PlaceInv, TypeInv
    <3>3. QED
      BY <3>1, <3>2 DEF ProgressInv
  <2>3. CASE ~StartWorker /\ ~FeedFile
    <3>1. UNCHANGED <<work, bytesDone>>
      BY <1>1, <2>3 DEF Main, ScanEntry, WorkerErr, ConsumerErr, AllFed, WaitForWorker, WaitForConsumer
    <3>2. QED
      BY <3>1 DEF ProgressInv, work
  <2>4. QED
    BY <2>1, <2>2, <2>3
<1>2. CASE Worker
  <2>1. CASE Stat
    <3>1. worker = "stat" /\ UNCHANGED job /\ job.file \in Files /\ job.block * BlockSize = 0
      BY <2>1, SizeAssumption DEF Stat, PlaceInv
    <3>2. SizeBefore[job.file + 1] = SizeBefore[job.file] + Len(Expected[job.file])
      BY <3>1, SizeBeforeIs
    <3>3. bytesDone = SizeBefore[job.file]
      BY <3>1 DEF ProgressInv
    <3>4. \/ worker' = "whole" /\ bytesDone' = bytesDone + Len(Expected[job.file])
          \/ worker' = "copy" /\ bytesDone' = bytesDone
          \/ worker' = "leaving" /\ failure' = "failed"
      BY <2>1 DEF Stat
    <3>5. QED
      BY <1>0, <3>1, <3>2, <3>3, <3>4 DEF ProgressInv
  <2>2. CASE ValidateBlock
    <3>1. worker = "copy" /\ worker' = "copy" /\ job'.file = job.file /\ job'.block = job.block + 1
          /\ bytesDone' = bytesDone + BlockSize
      BY <2>2 DEF ValidateBlock, TypeInv
    <3>2. bytesDone = SizeBefore[job.file] + job.block * BlockSize
      BY <3>1 DEF ProgressInv
    <3>3. (job.block + 1) * BlockSize = job.block * BlockSize + BlockSize
      BY <1>0
    <3>4. SizeBefore[job.file] \in Int
      <4>1. job.file \in Nat /\ job.file \in Files
        BY <3>1 DEF TypeInv, PlaceInv, Reading
      <4>2. SizeBefore[job.file + 1] \in Int /\ Len(Expected[job.file]) \in Nat
        BY <1>0, SizeBeforeIs, Shapes, <4>1
      <4>3. job.file - 1 \in Files \cup {0} /\ (job.file - 1) + 1 = job.file
        BY <4>1, Shapes
      <4>4. QED
        BY <4>3, SizeBeforeIs
    <3> DEFINE x == SizeBefore[job.file]
               y == job.block * BlockSize
    <3>5. bytesDone' = x + (job.block + 1) * BlockSize
      <4>1. bytesDone' = (x + y) + BlockSize /\ (job.block + 1) * BlockSize = y + BlockSize /\ x \in Int /\ y \in Nat
        BY <1>0, <3>1, <3>2, <3>3, <3>4
      <4> HIDE DEF x, y
      <4>2. QED
        BY <1>0, <4>1
    <3>6. QED
      BY <3>1, <3>5 DEF ProgressInv
  <2>3. CASE Copied
    <3>1. worker = "copy" /\ UNCHANGED job /\ job.file \in Files /\ worker' \in {"flush", "resize"}
      BY <2>3 DEF Copied, PlaceInv, Reading
    <3> DEFINE x == SizeBefore[job.file]
               z == SizeBefore[job.file + 1]
               y == job.block * BlockSize
               d == Len(This.data)
               l == Len(Expected[job.file])
    <3>2. z = x + l /\ bytesDone = x + y /\ Rest = d - y
      BY <3>1, SizeBeforeIs DEF ProgressInv, Rest
    <3>3. z \in Int /\ l \in Nat /\ d \in Nat /\ y \in Nat /\ x \in Int
      <4>1. job.file \in Nat
        BY DEF TypeInv
      <4>2. job.file - 1 \in Files \cup {0} /\ (job.file - 1) + 1 = job.file
        BY <3>1, <4>1, Shapes
      <4>3. QED
        BY <1>0, <3>1, <4>2, SizeBeforeIs, Shapes, NewWounds DEF Reading
    <3>4. failure' = "failed" \/ bytesDone' = bytesDone + Rest + l - d
      BY <2>3 DEF Copied
    <3>5. failure' = "nil" => bytesDone' = z
      <4> HIDE DEF x, z, y, d, l
      <4>1. QED
        BY <3>2, <3>3, <3>4
    <3>6. QED
      BY <3>1, <3>5 DEF ProgressInv
  <2>4. CASE ~Stat /\ ~ValidateBlock /\ ~Copied
    <3>1. UNCHANGED <<job, failure, bytesDone>> /\ worker \notin {"stat", "copy"} /\ worker' \notin {"stat", "copy"}
      BY <1>2, <2>4 DEF Worker, WoundWhole, WoundSize, Flush, ClosePipe, PipeDone, NoMoreWork, Leave
    <3>2. QED
      BY <3>1 DEF ProgressInv
  <2>5. QED
    BY <2>1, <2>2, <2>3, <2>4
<1>3. CASE Pipeline \/ Consumer \/ Cancel \/ UNCHANGED vars
  <2>1. UNCHANGED <<job, failure, bytesDone, worker>>
    BY <1>3 DEF Pipeline, AggregatorSends, RelaySends, Consumer, TakeWound, ConsumerDone, ThrowAway,
           Cancel, vars, work, untouched
  <2>2. QED
    BY <2>1 DEF ProgressInv
<1>4. QED
  BY <1>1, <1>2, <1>3 DEF Next, Over
-----------------------------------------------------------------------------
(* The invariant                                                            *)

LEMMA InitValidatorInv == Init => ValidatorInv
<1> SUFFICES ASSUME Init PROVE ValidatorInv
  OBVIOUS
<1>1. ClosedInv
  BY InitClosedInv
<1>2. /\ found \in Targets
      /\ consumer \in [kind : Consumers, state : {"doing"}, got : {{}}, total : {0}]
      /\ consumer.kind \in Consumers /\ consumer.state = "doing" /\ consumer.got = {}
      /\ consumer \in [kind : Consumers, state : {"doing", "returned"}, got : SUBSET Wound, total : Int]
  BY DEF Init
<1>3. TypeInv
  <2>1. pipe \in [last : Wound \cup {NoWound}, out : Seq(Wound), closed : BOOLEAN]
    BY QuietIs DEF Init, Pipe
  <2>2. job \in [file : Nat, block : Nat]
    BY DEF Init
  <2>3. wounds \in Seq(Wound)
    BY DEF Init
  <2>4. /\ workerErrs \in {<< >>, <<"nil">>, <<"failed">>}
        /\ consumerErrs \in {<< >>, <<"nil">>, <<"wound">>, <<"failed">>}
    BY Zenon DEF Init
  <2>5. /\ ctx = "live" /\ main = "scan" /\ next = 1 /\ verdict = "nil" /\ cancelled \in BOOLEAN
        /\ worker = "none" /\ failure = "nil" /\ relay = NoWound /\ bytesDone = 0
    BY DEF Init
  <2>6. QED
    BY <1>2, <2>1, <2>2, <2>3, <2>4, <2>5 DEF TypeInv
<1>4. pipe.out = << >> /\ pipe.last = NoWound /\ relay = NoWound /\ wounds = << >>
  BY DEF Init, Quiet
<1>5. Flow = {NoWound}
  BY <1>2, <1>4, RangeFacts DEF Flow
<1>6. Sound
  BY <1>5, NoWoundSound DEF Sound
<1>7. PlaceInv
  BY <1>4 DEF Init, PlaceInv, Reading, FeedClosed
<1>8. VerdictInv
  <2>1. << >> # <<"nil">> /\ << >> # <<"failed">> /\ << >> # <<"wound">>
    OBVIOUS
  <2>2. QED
    BY <1>2, <2>1 DEF Init, VerdictInv, FeedClosed, WoundsClosed
<1>9. Complete
  <2>1. \A i \in DOMAIN found.entries : ~(i < 1)
    BY <1>3, Shapes
  <2>2. QED
    BY <2>1 DEF Init, Complete, EntriesReported, FilesReported, BlocksReported, SizeReported, Reading
<1>10. ProgressInv
  BY SizeBeforeIs DEF Init, ProgressInv
<1>11. QED
  BY <1>1, <1>3, <1>6, <1>7, <1>8, <1>9, <1>10 DEF ValidatorInv

LEMMA StepValidatorInv == ValidatorInv /\ [Next]_vars => ValidatorInv'
<1> SUFFICES ASSUME ValidatorInv, [Next]_vars PROVE ValidatorInv'
  OBVIOUS
<1>1. TypeInv /\ ClosedInv /\ PlaceInv /\ Sound /\ VerdictInv /\ ProgressInv /\ (~Bad => Complete)
  BY DEF ValidatorInv
<1>2. Main \/ Worker \/ (Pipeline \/ Consumer \/ Cancel \/ UNCHANGED vars)
  BY DEF Next, Over
<1>3. TypeInv'
  BY <1>1, <1>2, MainTypes, WorkerTypes, OtherTypes
<1>4. ClosedInv'
  BY <1>1, StepClosedInv
<1>5. PlaceInv'
  BY <1>1, <1>2, MainPlace, WorkerPlace, OtherPlace
<1>6. VerdictInv' /\ (Bad => Bad')
  BY <1>1, <1>2, MainVerdict, WorkerVerdict, OtherVerdict
<1>7. Sound' /\ (~Bad' => Grows(Flow, Flow'))
  BY <1>1, FlowStep
<1>8. ASSUME ~Bad' PROVE Complete'
  <2>1. UNCHANGED found
    BY <1>2 DEF Main, ScanEntry, StartWorker, FeedFile, WorkerErr, ConsumerErr, AllFed, WaitForWorker, WaitForConsumer,
           Worker, Stat, WoundWhole, ValidateBlock, Copied, WoundSize, Flush, ClosePipe, PipeDone, NoMoreWork, Leave,
           Pipeline, AggregatorSends, RelaySends, Consumer, TakeWound, ConsumerDone, ThrowAway, Cancel,
           others, untouched, vars
  <2>2. Flow \subseteq Wound \cup {NoWound}
    BY <1>1, FlowTypes
  <2>3. Flow' \subseteq Wound \cup {NoWound}
    BY <1>3, FlowTypesNext
  <2>4. Reports
    BY <1>1, <1>7, <1>8, <2>1, <2>2, <2>3 DEF Reports
  <2>5. Complete /\ ~Bad
    BY <1>1, <1>6, <1>8
  <2>6. QED
    BY <1>1, <1>2, <1>8, <2>4, <2>5, MainComplete, WorkerComplete, OtherComplete
<1>9. ProgressInv'
  BY <1>1, ProgressStep
<1>10. QED
  BY <1>3, <1>4, <1>5, <1>6, <1>7, <1>8, <1>9 DEF ValidatorInv

\* The invariant holds in every state.
THEOREM ValidatorInvHolds == Spec => []ValidatorInv
  BY InitValidatorInv, StepValidatorInv, PTL DEF Spec
-----------------------------------------------------------------------------
(* What it is for                                                           *)

\* When Validate returned nil and was not cancelled, nothing is on its way.
LEMMA AllTaken ==
  ASSUME ValidatorInv, Ended, verdict = "nil", ctx = "live"
  PROVE  /\ Complete /\ worker = "gone" /\ main = "returned"
         /\ \A f \in Files : Reported(consumer.got, f)
         /\ \A i \in DOMAIN found.entries :
              found.entries[i] # "error" /\ (found.entries[i] = "wounded" => Among(consumer.got, "entry", i))
<1>1. TypeInv /\ ClosedInv /\ PlaceInv /\ VerdictInv /\ main = "returned"
  BY DEF ValidatorInv, Ended
<1>2. worker = "gone" /\ pipe.out = << >> /\ relay = NoWound /\ pipe.last = NoWound
  BY <1>1 DEF ClosedInv, PlaceInv, WoundsClosed, PipeIdle, Between, Reading
<1>3. ~Bad
  <2>1. consumerErrs = << >> /\ workerErrs = << >> /\ failure = "nil" /\ WoundsClosed
    BY <1>1 DEF VerdictInv, WoundsClosed
  <2>2. << >> # <<"wound">> /\ << >> # <<"failed">>
    OBVIOUS
  <2>3. ~Lost
    BY <2>1, <2>2 DEF Lost
  <2>4. found.opens
    BY <1>1, <2>1, <2>2 DEF VerdictInv
  <2>5. QED
    BY <2>1, <2>3, <2>4 DEF Bad
<1>4. Complete
  BY <1>3 DEF ValidatorInv
<1>5. wounds = << >>
  BY <1>1, <1>3 DEF VerdictInv, Bad
<1>6. Flow = consumer.got \cup {NoWound}
  BY <1>2, <1>5, RangeFacts DEF Flow
<1>7. ~cancelled
  BY <1>1, <1>3 DEF VerdictInv, Bad, Lost
<1>8. \A f \in Files : f < next
  <2>1. next \notin Files /\ next \in Nat \ {0} /\ Files = 1 .. Len(Expected) /\ Len(Expected) \in Nat
    BY <1>1, <1>7, Shapes DEF PlaceInv, FeedClosed, TypeInv
  <2>2. QED
    BY <2>1
<1>9. ASSUME NEW f \in Files PROVE Reported(consumer.got, f)
  <2>1. Reported(Flow, f)
    BY <1>1, <1>2, <1>4, <1>8 DEF Complete, FilesReported
  <2>2. QED
    BY <1>6, <2>1 DEF Reported, Among, Spanned, NoWound
<1>10. ASSUME NEW i \in DOMAIN found.entries
       PROVE  found.entries[i] # "error" /\ (found.entries[i] = "wounded" => Among(consumer.got, "entry", i))
  <2>1. found.entries[i] # "error" /\ (found.entries[i] = "wounded" => Among(Flow, "entry", i))
    BY <1>1, <1>4 DEF Complete, EntriesReported
  <2>2. QED
    BY <1>6, <2>1 DEF Among, NoWound
<1>11. QED
  BY <1>1, <1>2, <1>4, <1>9, <1>10

\* When Validate returns nil, its consumer has got wounds for exactly the entries
\* and files that are not right, and they cover every corrupted byte, whatever
\* the files, the blocks' size, the size at which wounds are let go of and the
\* order in which five goroutines run.
THEOREM AllReportedHolds == Spec => []AllReported
<1>1. ValidatorInv => AllReported
  <2> SUFFICES ASSUME ValidatorInv, Ended, verdict = "nil", ctx = "live"
               PROVE  /\ \A i \in DOMAIN found.entries : Wounded("entry", i) <=> found.entries[i] = "wounded"
                      /\ \A f \in Files : (Wounded("file", f) <=> ~SameFile(f)) /\ Corrupted(f) \subseteq Covered(f)
    BY DEF AllReported
  <2>1. TypeInv /\ Sound
    BY DEF ValidatorInv
  <2>2. \A w \in consumer.got : SoundWound(w) /\ w \in Wound
    BY <2>1 DEF Sound, Flow, TypeInv
  <2>3. ASSUME NEW i \in DOMAIN found.entries PROVE Wounded("entry", i) <=> found.entries[i] = "wounded"
    <3>1. found.entries[i] = "wounded" => Wounded("entry", i)
      BY AllTaken DEF Among, Wounded
    <3>2. Wounded("entry", i) => found.entries[i] = "wounded"
      BY <2>2 DEF Wounded, SoundWound
    <3>3. QED
      BY <3>1, <3>2
  <2>4. ASSUME NEW f \in Files PROVE (Wounded("file", f) <=> ~SameFile(f)) /\ Corrupted(f) \subseteq Covered(f)
    <3>1. Reported(consumer.got, f)
      BY AllTaken
    <3>2. ~SameFile(f) => Wounded("file", f)
      BY <3>1 DEF Reported, Among, Wounded
    <3>3. Wounded("file", f) => ~SameFile(f)
      BY <2>2 DEF Wounded, SoundWound
    <3>4. ASSUME NEW i \in Corrupted(f) PROVE i \in Covered(f)
      <4>1. i \in Nat
        BY <2>1, <3>4, Shapes DEF Corrupted
      <4>2. PICK w \in consumer.got : w.kind = "file" /\ w.index = f /\ w.start <= i - 1 /\ w.end >= i
        BY <3>1, <3>4 DEF Reported, Spanned
      <4>3. w.start \in Nat /\ w.end \in Nat
        BY <2>2 DEF Wound
      <4>4. i \in w.start + 1 .. w.end
        BY <4>1, <4>2, <4>3
      <4>5. QED
        BY <4>2, <4>4 DEF Covered
    <3>5. QED
      BY <3>2, <3>3, <3>4
  <2>5. QED
    BY <2>3, <2>4
<1>2. QED
  BY <1>1, ValidatorInvHolds, PTL

\* What Validate returns is true: a wound only if there is one, an error only if
\* something failed, and in FailFast mode nil only for an intact target, unless
\* the context was cancelled.
THEOREM TrueVerdictHolds == Spec => []TrueVerdict
<1>1. ValidatorInv => TrueVerdict
  <2> SUFFICES ASSUME ValidatorInv, Ended
               PROVE  /\ verdict = "wound" => consumer.kind = "guardian" /\ ~Intact
                      /\ verdict = "failed" => Failing
                      /\ verdict = "nil" /\ consumer.kind = "guardian" /\ ctx = "live" => Intact
    BY DEF TrueVerdict
  <2>1. TypeInv /\ VerdictInv /\ main = "returned"
    BY DEF ValidatorInv, Ended
  <2>2. (verdict = "wound" => consumer.kind = "guardian" /\ ~Intact) /\ (verdict = "failed" => Failing)
    BY <2>1 DEF VerdictInv
  <2>3. ASSUME verdict = "nil", consumer.kind = "guardian", ctx = "live" PROVE Intact
    <3>1. consumer.got = {}
      <4>1. consumerErrs = << >>
        BY <2>1 DEF VerdictInv
      <4>2. << >> # <<"wound">> /\ << >> # <<"failed">>
        OBVIOUS
      <4>3. ~Lost
        BY <2>3, <4>1, <4>2 DEF Lost
      <4>4. QED
        BY <2>1, <2>3, <4>3 DEF VerdictInv
    <3>2. \A f \in Files : SameFile(f)
      BY <2>3, <3>1, AllTaken DEF Reported, Among
    <3>3. \A i \in DOMAIN found.entries : found.entries[i] = "ok"
      BY <2>1, <2>3, <3>1, AllTaken, Shapes DEF Among
    <3>4. QED
      BY <3>2, <3>3 DEF Intact
  <2>4. QED
    BY <2>2, <2>3
<1>2. QED
  BY <1>1, ValidatorInvHolds, PTL

\* The progress of a complete scan adds up to the size of the container.
THEOREM ProgressAddsUpHolds == Spec => []ProgressAddsUp
<1>1. ValidatorInv => ProgressAddsUp
  <2> SUFFICES ASSUME ValidatorInv, main = "collect", verdict = "nil", ~cancelled
               PROVE  bytesDone = SizeOf
    BY DEF ProgressAddsUp
  <2>1. TypeInv /\ ClosedInv /\ PlaceInv /\ VerdictInv /\ ProgressInv
    BY DEF ValidatorInv
  <2>2. worker = "gone" /\ failure = "nil"
    BY <2>1 DEF ClosedInv, VerdictInv, WoundsClosed
  <2>3. next \notin Files /\ next <= Len(Expected) + 1 /\ job.file = next - 1
    BY <2>1 DEF PlaceInv, FeedClosed
  <2>4. next \in Nat \ {0} /\ Files = 1 .. Len(Expected) /\ Len(Expected) \in Nat
    BY <2>1, Shapes DEF TypeInv
  <2>5. job.file + 1 = Len(Expected) + 1
    BY <2>3, <2>4
  <2>6. bytesDone = SizeBefore[job.file + 1]
    BY <2>1, <2>2 DEF ProgressInv
  <2>7. QED
    BY <2>5, <2>6 DEF SizeOf
<1>2. QED
  BY <1>1, ValidatorInvHolds, PTL
=============================================================================
