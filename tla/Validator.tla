------------------------------ MODULE Validator ------------------------------
(***************************************************************************)
(* Validation of a target folder against a signature (pwr/validator.go):   *)
(* the goroutine that runs Validate scans directories and links and feeds  *)
(* file indices to a worker; the worker reads every file and hands each    *)
(* block's wound to an aggregator (pwr/wounds.go), whose output a relay    *)
(* (pwr/validatingpool.go) sends on to the wounds consumer.                *)
(*                                                                         *)
(* A file is a sequence of bytes, a hash is the block it stands for.       *)
(***************************************************************************)
EXTENDS Integers, SequencesExt

CONSTANTS
  Expected,      \* the contents of the signature's files
  Targets,       \* what may be found: [entries, files, opens, closes, hashes]
  Consumers,     \* which consumers: "guardian", "collector", "faulty"
  Cancellable,   \* whether the context may be cancelled
  BlockSize,     \* bytes in a block
  MaxWoundSize,  \* when the aggregator lets go of a wound
  Capacity       \* of the channel of wounds

\* A sequence, whatever it is made of.
IsSequence(s) == s \in Seq(Range(s))

ASSUME SizeAssumption == BlockSize \in Nat \ {0} /\ Capacity \in Nat \ {0}

ASSUME ExpectedAssumption ==
  IsSequence(Expected) /\ \A f \in DOMAIN Expected : IsSequence(Expected[f])

ASSUME TargetsAssumption ==
  \A t \in Targets :
    /\ t.entries \in Seq({"ok", "wounded", "error"})
    /\ \A f \in DOMAIN Expected : t.files[f].kind = "file" => IsSequence(t.files[f].data)

ASSUME ConsumersAssumption == Consumers \subseteq {"guardian", "collector", "faulty"}

VARIABLES
  found,     \* the target: whether each directory or link (entry) and file is
             \* there and can be read, whether the pool can be opened and closed
             \* and the signature has the hashes of its files
  consumer,  \* [kind, state, got, total]
  ctx,       \* the context, "live" or "done"
  main,      \* where Validate is
  next,      \* the entry or file Validate is at
  verdict,   \* the error it will return, "nil" if none
  cancelled, \* whether Validate told the worker to stop
  worker,    \* where the worker is
  job,       \* the file it is at, and how many of its blocks it has validated
  failure,   \* the worker's error
  pipe,      \* the aggregator: [last, out, closed]
  relay,     \* what the relay holds
  wounds,    \* the channel of wounds
  workerErrs, consumerErrs,  \* channels of one error
  bytesDone  \* progress reported

scan == <<main, next, verdict, cancelled>>
work == <<worker, job, failure>>
flow == <<pipe, relay, wounds>>
errs == <<workerErrs, consumerErrs>>
vars == <<found, consumer, ctx, scan, work, flow, errs, bytesDone>>

Files == DOMAIN Expected

NoWound == [kind |-> "none"]
EntryWound(i)         == [kind |-> "entry", index |-> i, start |-> 0, end |-> 0]
FileWound(f, s, e)    == [kind |-> "file", index |-> f, start |-> s, end |-> e]
ClosedFile(f, s, e)   == [kind |-> "closed", index |-> f, start |-> s, end |-> e]
Size(w) == w.end - w.start

Quiet == [last |-> NoWound, out |-> << >>, closed |-> FALSE]

Init ==
  /\ found \in Targets
  /\ consumer \in [kind : Consumers, state : {"doing"}, got : {{}}, total : {0}]
  /\ ctx = "live"
  /\ main = "scan"
  /\ next = 1
  /\ verdict = "nil"
  /\ cancelled = FALSE
  /\ worker = "none"
  /\ job = [file |-> 0, block |-> 0]
  /\ failure = "nil"
  /\ pipe = Quiet
  /\ relay = NoWound
  /\ wounds = << >>
  /\ workerErrs = << >>
  /\ consumerErrs = << >>
  /\ bytesDone = 0

\* Channels that Validate has closed.
FeedClosed   == main \in {"wait", "collect", "returned"}
WoundsClosed == main \in {"collect", "returned"}

Send(w) == Len(wounds) < Capacity /\ wounds' = Append(wounds, w)

\* The select of a whole-file or size wound: sent, or dropped once cancelled.
SendOrDrop(w) == Send(w) \/ (cancelled /\ UNCHANGED wounds)

-----------------------------------------------------------------------------
(* Validate                                                                 *)

\* A directory or link: one that is not what it should be is a wound, an error
\* other than "not found" ends Validate at once.
ScanEntry ==
  /\ main = "scan"
  /\ next \in DOMAIN found.entries
  /\ \/ /\ found.entries[next] = "ok"
        /\ next' = next + 1
        /\ UNCHANGED <<main, verdict, wounds>>
     \/ /\ found.entries[next] = "wounded"
        /\ Send(EntryWound(next))
        /\ next' = next + 1
        /\ UNCHANGED <<main, verdict>>
     \/ /\ found.entries[next] = "error"
        /\ main' = "aborted"
        /\ verdict' = "failed"
        /\ UNCHANGED <<next, wounds>>
  /\ UNCHANGED <<found, consumer, ctx, cancelled, work, pipe, relay, errs, bytesDone>>

StartWorker ==
  /\ main = "scan"
  /\ next > Len(found.entries)
  /\ main' = "feed"
  /\ next' = 1
  /\ IF found.opens
       THEN worker' = "idle" /\ UNCHANGED errs
       ELSE worker' = "gone" /\ workerErrs' = <<"failed">> /\ UNCHANGED consumerErrs
  /\ UNCHANGED <<found, consumer, ctx, verdict, cancelled, job, failure, flow, bytesDone>>

\* An unbuffered channel: the worker takes the index as Validate gives it.
FeedFile ==
  /\ main = "feed"
  /\ next \in Files
  /\ worker = "idle"
  /\ next' = next + 1
  /\ worker' = "stat"
  /\ job' = [file |-> next, block |-> 0]
  /\ UNCHANGED <<found, consumer, ctx, main, verdict, cancelled, failure, flow, errs, bytesDone>>

\* Mutant: the error is not put back for the wait that follows.
TakeWorkerErr ==
  /\ main = "feed"
  /\ next \in Files
  /\ workerErrs # << >>
  /\ verdict' = Head(workerErrs)
  /\ workerErrs' = << >>
  /\ cancelled' = TRUE
  /\ main' = "wait"
  /\ UNCHANGED <<found, consumer, ctx, next, work, flow, consumerErrs, bytesDone>>

\* An error stops the feeding; nil takes its place for the wait that follows.
WorkerErr ==
  /\ main = "feed"
  /\ next \in Files
  /\ workerErrs # << >>
  /\ verdict' = Head(workerErrs)
  /\ workerErrs' = <<"nil">>
  /\ cancelled' = TRUE
  /\ main' = "wait"
  /\ UNCHANGED <<found, consumer, ctx, next, work, flow, consumerErrs, bytesDone>>

ConsumerErr ==
  /\ main = "feed"
  /\ next \in Files
  /\ consumerErrs # << >>
  /\ verdict' = Head(consumerErrs)
  /\ consumerErrs' = <<"nil">>
  /\ cancelled' = TRUE
  /\ main' = "wait"
  /\ UNCHANGED <<found, consumer, ctx, next, work, flow, workerErrs, bytesDone>>

AllFed ==
  /\ main = "feed"
  /\ next \notin Files
  /\ main' = "wait"
  /\ UNCHANGED <<found, consumer, ctx, next, verdict, cancelled, work, flow, errs, bytesDone>>

FirstOf(e) == IF verdict = "nil" THEN e ELSE verdict

\* Mutant: the channel of wounds is closed without waiting for the worker.
WaitForNobody ==
  /\ main = "wait"
  /\ main' = "collect"
  /\ UNCHANGED <<found, consumer, ctx, next, verdict, cancelled, work, flow, errs, bytesDone>>

WaitForWorker ==
  /\ main = "wait"
  /\ workerErrs # << >>
  /\ verdict' = FirstOf(Head(workerErrs))
  /\ workerErrs' = << >>
  /\ main' = "collect"
  /\ UNCHANGED <<found, consumer, ctx, next, cancelled, work, flow, consumerErrs, bytesDone>>

WaitForConsumer ==
  /\ main = "collect"
  /\ consumerErrs # << >>
  /\ verdict' = FirstOf(Head(consumerErrs))
  /\ consumerErrs' = << >>
  /\ main' = "returned"
  /\ UNCHANGED <<found, consumer, ctx, next, cancelled, work, flow, workerErrs, bytesDone>>

Main ==
  \/ ScanEntry \/ StartWorker \/ FeedFile \/ WorkerErr \/ ConsumerErr \/ AllFed
  \/ WaitForWorker \/ WaitForConsumer

-----------------------------------------------------------------------------
(* The worker                                                               *)

others == <<found, consumer, ctx, scan, errs>>

This == found.files[job.file]

\* A block as the reader has it and as the signature has it: byte k of block b.
Block(bytes, b) == SubSeq(bytes, b * BlockSize + 1, Min({(b + 1) * BlockSize, Len(bytes)}))

NumBlocks(bytes) == (Len(bytes) + BlockSize - 1) \div BlockSize

\* ComputeBlockSize, past the end as well.
ComputeBlockSize(size, b) == IF BlockSize * (b + 1) > size THEN size % BlockSize ELSE BlockSize

ValidateAsWound(f, b, data) ==
  LET s == b * BlockSize
      e == s + ComputeBlockSize(Len(Expected[f]), b)
  IN IF b >= NumBlocks(Expected[f]) \/ Block(Expected[f], b) # data
       THEN FileWound(f, s, e)
       ELSE ClosedFile(f, s, e)

\* Mutant: a wound that is held back is forgotten when a block is healthy.
AggregateForgetting(w) ==
  IF w.kind = "file"
    THEN IF pipe.last = NoWound THEN [pipe EXCEPT !.last = w]
         ELSE [pipe EXCEPT !.last = [@ EXCEPT !.end = w.end]]
    ELSE [pipe EXCEPT !.out = <<w>>, !.last = NoWound]

\* AggregateWounds: file wounds that follow each other are merged; what is held
\* back goes out when the wound is big enough or another one comes.
Aggregate(w) ==
  LET held   == pipe.last
      merged == [held EXCEPT !.end = w.end]
  IN CASE w.kind = "file" /\ held = NoWound -> [pipe EXCEPT !.last = w]
       [] w.kind = "file" /\ held # NoWound /\ held.end <= w.start /\ w.start >= held.start ->
            IF Size(merged) >= MaxWoundSize
              THEN [pipe EXCEPT !.out = <<merged>>, !.last = NoWound]
              ELSE [pipe EXCEPT !.last = merged]
       [] w.kind = "file" /\ held # NoWound /\ ~(held.end <= w.start /\ w.start >= held.start) ->
            [pipe EXCEPT !.out = <<held>>, !.last = w]
       [] w.kind # "file" ->
            [pipe EXCEPT !.out = (IF held = NoWound THEN << >> ELSE <<held>>) \o <<w>>, !.last = NoWound]

\* The worker hands a wound to an aggregator that is ready for it.
Offer(w) == pipe.out = << >> /\ pipe' = Aggregate(w)

\* What is no regular file, or cannot be opened, is wounded as a whole; for any
\* other file a validating writer is opened, which needs the signature's hashes.
Stat ==
  /\ worker = "stat"
  /\ IF This.kind # "file"
       THEN worker' = "whole" /\ bytesDone' = bytesDone + Len(Expected[job.file])
            /\ UNCHANGED <<failure, pipe>>
       ELSE /\ pipe' = Quiet
            /\ IF found.hashes THEN worker' = "copy" /\ UNCHANGED failure
                               ELSE worker' = "leaving" /\ failure' = "failed"
            /\ UNCHANGED bytesDone
  /\ UNCHANGED <<others, job, relay, wounds>>

WoundWhole ==
  /\ worker = "whole"
  /\ SendOrDrop(FileWound(job.file, 0, Len(Expected[job.file])))
  /\ worker' = "idle"
  /\ UNCHANGED <<others, job, failure, pipe, relay, bytesDone>>

\* Bytes of the file the writer has not validated yet.
Rest == Len(This.data) - job.block * BlockSize

ValidateBlock ==
  /\ worker = "copy"
  /\ Rest >= BlockSize
  /\ Offer(ValidateAsWound(job.file, job.block, Block(This.data, job.block)))
  /\ job' = [job EXCEPT !.block = @ + 1]
  /\ bytesDone' = bytesDone + BlockSize
  /\ UNCHANGED <<others, worker, failure, relay, wounds>>

\* Mutant: no check of the size.
CopiedUnchecked ==
  /\ worker = "copy"
  /\ Rest < BlockSize
  /\ IF This.fails
       THEN worker' = "flush" /\ failure' = "failed" /\ bytesDone' = bytesDone + Rest
       ELSE /\ worker' = "flush"
            /\ bytesDone' = bytesDone + Rest + Len(Expected[job.file]) - Len(This.data)
            /\ UNCHANGED failure
  /\ UNCHANGED <<others, job, flow>>

\* Mutant: a file that is too short does not count as done.
CopiedLess ==
  /\ worker = "copy"
  /\ Rest < BlockSize
  /\ IF This.fails
       THEN worker' = "flush" /\ failure' = "failed" /\ bytesDone' = bytesDone + Rest
       ELSE /\ worker' = IF Len(This.data) = Len(Expected[job.file]) THEN "flush" ELSE "resize"
            /\ bytesDone' = bytesDone + Rest
            /\ UNCHANGED failure
  /\ UNCHANGED <<others, job, flow>>

\* io.Copy ends, at the end of the file or with an error; the bytes of the last,
\* shorter block stay in the drip writer.
Copied ==
  /\ worker = "copy"
  /\ Rest < BlockSize
  /\ IF This.fails
       THEN worker' = "flush" /\ failure' = "failed" /\ bytesDone' = bytesDone + Rest
       ELSE /\ worker' = IF Len(This.data) = Len(Expected[job.file]) THEN "flush" ELSE "resize"
            /\ bytesDone' = bytesDone + Rest + Len(Expected[job.file]) - Len(This.data)
            /\ UNCHANGED failure
  /\ UNCHANGED <<others, job, flow>>

\* A file of the wrong size: a wound that overtakes those in the aggregator.
WoundSize ==
  /\ worker = "resize"
  /\ SendOrDrop(FileWound(job.file, Len(This.data), Len(Expected[job.file])))
  /\ worker' = "flush"
  /\ UNCHANGED <<others, job, failure, pipe, relay, bytesDone>>

\* The drip writer's Close: the last block, if there is one, is validated.
Flush ==
  /\ worker = "flush"
  /\ \/ /\ Rest > 0
        /\ Offer(ValidateAsWound(job.file, job.block, Block(This.data, job.block)))
     \/ Rest <= 0 /\ UNCHANGED pipe
  /\ worker' = "close"
  /\ UNCHANGED <<others, job, failure, relay, wounds, bytesDone>>

\* onclose.BeforeClose: the aggregator's input is closed ...
ClosePipe ==
  /\ worker = "close"
  /\ pipe.out = << >>
  /\ pipe' = [pipe EXCEPT !.closed = TRUE, !.last = NoWound,
                          !.out = IF pipe.last = NoWound THEN << >> ELSE <<pipe.last>>]
  /\ worker' = "drain"
  /\ UNCHANGED <<others, job, failure, relay, wounds, bytesDone>>

\* ... and the worker waits until the relay has passed everything on.
PipeDone ==
  /\ worker = "drain"
  /\ pipe.out = << >>
  /\ relay = NoWound
  /\ worker' = IF failure = "nil" THEN "idle" ELSE "leaving"
  /\ UNCHANGED <<others, job, failure, flow, bytesDone>>

NoMoreWork ==
  /\ worker = "idle"
  /\ FeedClosed \/ cancelled
  /\ worker' = "leaving"
  /\ UNCHANGED <<others, job, failure, flow, bytesDone>>

\* The deferred Close of the target pool: when it fails, nothing is sent.
Leave ==
  /\ worker = "leaving"
  /\ worker' = "gone"
  /\ IF found.closes THEN workerErrs' = Append(workerErrs, failure) ELSE UNCHANGED workerErrs
  /\ UNCHANGED <<found, consumer, ctx, scan, job, failure, flow, consumerErrs, bytesDone>>

Worker ==
  \/ Stat \/ WoundWhole \/ ValidateBlock \/ Copied \/ WoundSize \/ Flush \/ ClosePipe
  \/ PipeDone \/ NoMoreWork \/ Leave

\* The aggregator's output is an unbuffered channel to the relay.
AggregatorSends ==
  /\ pipe.out # << >>
  /\ relay = NoWound
  /\ relay' = Head(pipe.out)
  /\ pipe' = [pipe EXCEPT !.out = Tail(@)]
  /\ UNCHANGED <<others, work, wounds, bytesDone>>

RelaySends ==
  /\ relay # NoWound
  /\ Send(relay)
  /\ relay' = NoWound
  /\ UNCHANGED <<others, work, pipe, bytesDone>>

Pipeline == AggregatorSends \/ RelaySends

-----------------------------------------------------------------------------
(* The consumer                                                             *)

untouched == <<found, ctx, scan, work, pipe, relay, workerErrs, bytesDone>>

\* Do returns e; the goroutine goes on to throw away wounds.
DoReturns(e) == consumerErrs' = Append(consumerErrs, e)

\* Healthy wounds only show progress.  A guardian returns with the first other
\* one, a writer or printer collects them (a faulty writer returns an error).
TakeWound ==
  /\ consumer.state = "doing"
  /\ wounds # << >>
  /\ wounds' = Tail(wounds)
  /\ LET w == Head(wounds)
         hit == [consumer EXCEPT !.got = @ \cup {w}, !.total = @ + Size(w)]
     IN \/ /\ w.kind = "closed"
           /\ UNCHANGED <<consumer, consumerErrs>>
        \/ /\ w.kind # "closed" /\ consumer.kind = "guardian"
           /\ consumer' = [hit EXCEPT !.state = "returned"]
           /\ DoReturns("wound")
        \/ /\ w.kind # "closed" /\ consumer.kind # "guardian"
           /\ consumer' = hit
           /\ UNCHANGED consumerErrs
        \/ /\ w.kind # "closed" /\ consumer.kind = "faulty"
           /\ consumer' = [hit EXCEPT !.state = "returned"]
           /\ DoReturns("failed")
  /\ UNCHANGED untouched

ConsumerDone ==
  /\ consumer.state = "doing"
  /\ \/ wounds = << >> /\ WoundsClosed
     \/ ctx = "done"
  /\ consumer' = [consumer EXCEPT !.state = "returned"]
  /\ DoReturns("nil")
  /\ UNCHANGED <<untouched, wounds>>

ThrowAway ==
  /\ consumer.state = "returned"
  /\ wounds # << >>
  /\ wounds' = Tail(wounds)
  /\ UNCHANGED <<untouched, consumer, consumerErrs>>

Consumer == TakeWound \/ ConsumerDone \/ ThrowAway

Cancel ==
  /\ Cancellable
  /\ ctx = "live"
  /\ main \notin {"returned", "aborted"}
  /\ ctx' = "done"
  /\ UNCHANGED <<found, consumer, scan, work, flow, errs, bytesDone>>

Over == main \in {"returned", "aborted"} /\ UNCHANGED vars

Next == Main \/ Worker \/ Pipeline \/ Consumer \/ Cancel \/ Over

Spec == Init /\ [][Next]_vars

\* Every goroutine that can run is run.
FairSpec ==
  Spec /\ WF_vars(Main) /\ WF_vars(Worker) /\ WF_vars(Pipeline) /\ WF_vars(Consumer)

-----------------------------------------------------------------------------
(* Properties                                                               *)

\* A send on a closed channel is a panic: once Validate closes the channel of
\* wounds, no goroutine has anything left to send on it.
NoSendOnClosed ==
  WoundsClosed => worker = "gone" /\ pipe.out = << >> /\ relay = NoWound

Ended == main = "returned"

SameFile(f) == found.files[f].kind = "file" /\ found.files[f].data = Expected[f]

Intact == (\A i \in DOMAIN found.entries : found.entries[i] = "ok") /\ (\A f \in Files : SameFile(f))

\* A failure of anything but the target's contents.
Failing ==
  ~found.opens \/ ~found.hashes \/ consumer.kind = "faulty"
    \/ \E f \in Files : found.files[f].kind = "file" /\ found.files[f].fails

\* What Validate returns is true: a wound only if there is one, an error only if
\* something failed, and in FailFast mode nil only for an intact target, unless
\* the context was cancelled.
TrueVerdict ==
  Ended =>
    /\ verdict = "wound" => consumer.kind = "guardian" /\ ~Intact
    /\ verdict = "failed" => Failing
    /\ verdict = "nil" /\ consumer.kind = "guardian" /\ ctx = "live" => Intact

Covered(f) == UNION {w.start + 1 .. w.end : w \in {v \in consumer.got : v.kind = "file" /\ v.index = f}}

\* Bytes of the signature's file f the target does not have.
Corrupted(f) ==
  {i \in DOMAIN Expected[f] :
     \/ found.files[f].kind # "file"
     \/ i \notin DOMAIN found.files[f].data
     \/ found.files[f].data[i] # Expected[f][i]}

Wounded(kind, i) == \E w \in consumer.got : w.kind = kind /\ w.index = i

\* When Validate returns nil, its consumer has got wounds for exactly the entries
\* and files that are not right, and they cover every corrupted byte.
AllReported ==
  Ended /\ verdict = "nil" /\ ctx = "live" =>
    /\ \A i \in DOMAIN found.entries : Wounded("entry", i) <=> found.entries[i] = "wounded"
    /\ \A f \in Files :
         /\ Wounded("file", f) <=> ~SameFile(f)
         /\ Corrupted(f) \subseteq Covered(f)

\* The bytes of the files before file f, and those of the container.
SizeBefore[f \in 1 .. Len(Expected) + 1] ==
  IF f = 1 THEN 0 ELSE SizeBefore[f - 1] + Len(Expected[f - 1])

SizeOf == SizeBefore[Len(Expected) + 1]

\* The progress of a complete scan adds up to the size of the container.
ProgressAddsUp ==
  main = "collect" /\ verdict = "nil" /\ ~cancelled => bytesDone = SizeOf

\* Validate returns, whatever fails and however the goroutines are scheduled.
Returns == <>(main \in {"returned", "aborted"})
=============================================================================
