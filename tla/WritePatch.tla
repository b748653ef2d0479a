------------------------------ MODULE WritePatch ------------------------------
(***************************************************************************)
(* Writing a patch and a signature (WritePatch of pwr/diff.go). Every file *)
(* of the new build is read once, by a copier (multiread) that hands each  *)
(* chunk to the differ (module Rsync) and then to the signer, through one  *)
(* pipe each.  The three are a task group (taskgroup): WritePatch goes on  *)
(* when all have succeeded, and returns when one has failed or the context *)
(* is done, while the others go on or stay where they are.                 *)
(***************************************************************************)
EXTENDS Rsync, FiniteSets

CONSTANTS
  Cases   \* [old, new, like, copy, fails, writes, cancels]: the old build's files,
          \* the new ones, the old file of the same path as each (0 if none), the
          \* bytes the copier reads at once, the new file that cannot be read to
          \* the end, whether writing the patch and the signature always works,
          \* whether the context may be cancelled

ASSUME CasesAssumption ==
  \A c \in Cases :
    /\ c.old \in Seq(Seq(Nat)) /\ c.new \in Seq(Seq(Nat))
    /\ c.like \in [DOMAIN c.new -> {0} \cup DOMAIN c.old]
    /\ c.copy \in Nat \ {0}

VARIABLES
  case,       \* the case
  main,       \* where WritePatch is: "file", "tasks" or "returned"
  result,     \* what it returned
  at,         \* the file it is at
  collected,  \* results it has of the file's tasks
  done,       \* the channel of the tasks' results
  copier,     \* [at, from, pos]: where the copier is, with what chunk
  signInput,  \* the signer's pipe
  signer,     \* [at, held]: where the signer is
  signature,  \* the blocks it has written, a sequence for each file
  patch,      \* the operations of the files before this one
  ctx         \* "live" or "done"

differ == <<input, search, sent, diff>>
signing == <<signInput, signer, signature>>
group == <<main, result, at, collected>>
vars == <<old, preferred, case, differ, group, done, copier, signing, patch, ctx>>

Over == [at |-> "over", n |-> 0, last |-> FALSE]
Closed == [bytes |-> << >>, end |-> "eof"]
Opened == [bytes |-> << >>, end |-> "open"]
NothingSent == [prev |-> NoOp, ops |-> << >>]

Init ==
  /\ case \in Cases
  /\ old = case.old
  /\ preferred = 0
  /\ NewSearch
  /\ input = Closed
  /\ sent = NothingSent
  /\ diff = Over
  /\ main = "file"
  /\ result = "none"
  /\ at = 0
  /\ collected = 0
  /\ done = << >>
  /\ copier = [at |-> "over", from |-> 0, pos |-> 0]
  /\ signInput = Closed
  /\ signer = [at |-> "over", held |-> << >>]
  /\ signature = << >>
  /\ patch = << >>
  /\ ctx = "live"

Source == case.new[at]

\* The bytes of the file that can be read.
Readable == IF at = case.fails THEN Len(Source) - 1 ELSE Len(Source)
-----------------------------------------------------------------------------
(* WritePatch *)

\* The file's header is written, its reader opened and the tasks are started.
StartFile ==
  /\ main = "file"
  /\ at < Len(case.new)
  /\ at' = at + 1
  /\ main' = "tasks"
  /\ preferred' = case.like[at + 1]
  /\ buffer' = buffer
  /\ validTo' = 0
  /\ window' = 0
  /\ pending' = 0
  /\ rolling' = [rolling EXCEPT !.on = FALSE]
  /\ input' = Opened
  /\ sent' = NothingSent
  /\ diff' = Ready
  /\ collected' = 0
  /\ copier' = [at |-> "read", from |-> 0, pos |-> 0]
  /\ signInput' = Opened
  /\ signer' = [at |-> "scan", held |-> << >>]
  /\ signature' = Append(signature, << >>)
  /\ UNCHANGED <<old, case, result, done, patch, ctx>>

\* The delimiter follows the operations once the three tasks have succeeded.
Collect ==
  /\ main = "tasks"
  /\ done # << >>
  /\ done' = Tail(done)
  /\ IF Head(done) # "nil"
       THEN main' = "returned" /\ result' = Head(done) /\ UNCHANGED <<collected, patch>>
       ELSE /\ collected' = collected + 1
            /\ UNCHANGED result
            /\ IF collected = 2
                 THEN main' = "file" /\ patch' = Append(patch, sent.ops)
                 ELSE UNCHANGED <<main, patch>>
  /\ UNCHANGED <<old, preferred, case, differ, at, copier, signing, ctx>>

CollectCancelled ==
  /\ main = "tasks"
  /\ ctx = "done"
  /\ main' = "returned"
  /\ result' = "cancelled"
  /\ UNCHANGED <<old, preferred, case, differ, at, collected, done, copier, signing, patch, ctx>>

Finish ==
  /\ main = "file"
  /\ at = Len(case.new)
  /\ main' = "returned"
  /\ result' = "nil"
  /\ UNCHANGED <<old, preferred, case, differ, at, collected, done, copier, signing, patch, ctx>>

Cancel ==
  /\ case.cancels
  /\ ctx = "live"
  /\ main # "returned"
  /\ ctx' = "done"
  /\ UNCHANGED <<old, preferred, case, differ, group, done, copier, signing, patch>>
-----------------------------------------------------------------------------
(* The tasks *)

\* The differ; its result goes to the channel with its last step.  Writing an
\* operation may fail, and will then fail again.
Differ ==
  /\ \/ ComputeDiff
     \/ /\ ~case.writes
        /\ diff.at \in {"extend", "look"}
        /\ diff' = [diff EXCEPT !.at = "failed"]
        /\ UNCHANGED <<input, search, sent>>
  /\ done' = IF diff'.at \in {"nil", "failed"} THEN Append(done, diff'.at) ELSE done
  /\ UNCHANGED <<old, preferred, case, group, copier, signing, patch, ctx>>

\* A chunk is written to the pipes in turn, each time until it was read.
CopyChunk ==
  /\ copier.at = "read"
  /\ copier.pos < Readable
  /\ copier' = [at |-> "to signer", from |-> copier.pos,
                 pos |-> Least(copier.pos + case.copy, Readable)]
  /\ input' = [input EXCEPT !.bytes = SubSeq(Source, copier.pos + 1, copier'.pos)]
  /\ UNCHANGED <<old, preferred, case, search, sent, diff, group, done, signing, patch, ctx>>

CopyToSigner ==
  /\ copier.at = "to signer"
  /\ input.bytes = << >>
  /\ signInput' = [signInput EXCEPT !.bytes = SubSeq(Source, copier.from + 1, copier.pos)]
  /\ copier' = [copier EXCEPT !.at = "signed"]
  /\ UNCHANGED <<old, preferred, case, differ, group, done, signer, signature, patch, ctx>>

ChunkCopied ==
  /\ copier.at = "signed"
  /\ signInput.bytes = << >>
  /\ copier' = [copier EXCEPT !.at = "read"]
  /\ UNCHANGED <<old, preferred, case, differ, group, done, signing, patch, ctx>>

ClosePipes(end) ==
  /\ input' = [input EXCEPT !.end = end]
  /\ signInput' = [signInput EXCEPT !.end = end]
  /\ copier' = [copier EXCEPT !.at = "over"]

\* Mutant: the pipes are closed as if the file had ended.
CopyFailsQuietly ==
  /\ copier.at = "read"
  /\ copier.pos = Readable
  /\ ClosePipes("eof")
  /\ done' = Append(done, "nil")
  /\ UNCHANGED <<old, preferred, case, search, sent, diff, group, signer, signature, patch, ctx>>

\* Mutant: the pipes of a file that was read to its end stay open.
CopyEndsOpen ==
  /\ copier.at = "read"
  /\ \/ /\ copier.pos = Len(Source)
        /\ copier' = [copier EXCEPT !.at = "over"]
        /\ done' = Append(done, "nil")
        /\ UNCHANGED <<input, signInput>>
     \/ /\ copier.pos = Readable
        /\ Readable < Len(Source)
        /\ ClosePipes("failed")
        /\ done' = Append(done, "failed")
  /\ UNCHANGED <<old, preferred, case, search, sent, diff, group, signer, signature, patch, ctx>>

\* The file ends or cannot be read, or (every so often) the context is done.
CopyEnds ==
  /\ copier.at = "read"
  /\ \/ /\ copier.pos = Len(Source)
        /\ ClosePipes("eof")
        /\ done' = Append(done, "nil")
     \/ /\ copier.pos = Readable
        /\ Readable < Len(Source)
        /\ ClosePipes("failed")
        /\ done' = Append(done, "failed")
     \/ /\ ctx = "done"
        /\ copier.pos > 0
        /\ ClosePipes("failed")
        /\ done' = Append(done, "cancelled")
  /\ UNCHANGED <<old, preferred, case, search, sent, diff, group, signer, signature, patch, ctx>>

Hashed(d) == LET n == Len(d) \div BlockSize IN [i \in 1..n |-> BlockOf(d, i - 1)]

SignatureWith(blocks) == [signature EXCEPT ![at] = @ \o blocks]

\* Full blocks are hashed as they come.
SignBlocks ==
  /\ signer.at = "scan"
  /\ signInput.bytes # << >>
  /\ LET d == signer.held \o signInput.bytes
     IN /\ signature' = SignatureWith(Hashed(d))
        /\ signer' = [signer EXCEPT !.held = SubSeq(d, Len(Hashed(d)) * BlockSize + 1, Len(d))]
  /\ signInput' = [signInput EXCEPT !.bytes = << >>]
  /\ UNCHANGED <<old, preferred, case, differ, group, done, copier, patch, ctx>>

\* What is left is a short block, and an empty file has an empty one.  A failed
\* read ends the signer after that, as does a write that fails or a cancellation.
SignEnds ==
  /\ signer.at = "scan"
  /\ \/ /\ signInput.bytes = << >>
        /\ signInput.end # "open"
        /\ signature' = SignatureWith(
             IF signer.held # << >> \/ (signature[at] = << >> /\ signInput.end = "eof")
             THEN <<signer.held>> ELSE << >>)
        /\ done' = Append(done, IF signInput.end = "eof" THEN "nil" ELSE "failed")
     \/ /\ ~case.writes
        /\ done' = Append(done, "failed")
        /\ UNCHANGED signature
     \/ /\ ctx = "done"
        /\ signature[at] # << >>
        /\ done' = Append(done, "cancelled")
        /\ UNCHANGED signature
  /\ signer' = [signer EXCEPT !.at = "over"]
  /\ UNCHANGED <<old, preferred, case, differ, group, copier, signInput, patch, ctx>>

Idle == main = "returned" /\ UNCHANGED vars

MainNext == StartFile \/ Collect \/ CollectCancelled \/ Finish
CopierNext == CopyChunk \/ CopyToSigner \/ ChunkCopied \/ CopyEnds
SignerNext == SignBlocks \/ SignEnds

Next == MainNext \/ Differ \/ CopierNext \/ SignerNext \/ Cancel \/ Idle

Spec == Init /\ [][Next]_vars

\* Every goroutine runs on.
FairSpec ==
  /\ Spec
  /\ WF_vars(MainNext)
  /\ WF_vars(Differ)
  /\ WF_vars(CopierNext)
  /\ WF_vars(SignerNext)
-----------------------------------------------------------------------------
(* Properties *)

\* diff.go: when WritePatch returns without an error, applying the operations of
\* every file to the old build gives the file, and the signature has its blocks,
\* although ComputeDiff may lose the error of a read.
PatchIsRight ==
  main = "returned" /\ result = "nil" =>
    /\ Len(patch) = Len(case.new)
    /\ \A f \in DOMAIN case.new :
         Rebuilt(patch[f]) = case.new[f] /\ signature[f] = BlocksOf(case.new[f])

\* algo.go: the hash that is rolled is the hash of the window, also after the
\* buffer has wrapped; only at the end, when the window shrinks, it is not.
RolledIsHash ==
  diff.at = "look" /\ rolling.on /\ ~diff.last => Rolled = WeakHash(Current)

\* hashes.go:98: a file that was not touched is one range over all of it,
\* whatever other files hold, if no block occurs in it twice.
Distinct(d) == Cardinality({BlocksOf(d)[i] : i \in DOMAIN BlocksOf(d)}) = Len(BlocksOf(d))

UntouchedIsOneRange ==
  \A f \in DOMAIN patch :
    LET d == case.new[f] IN
    d # << >> /\ case.like[f] # 0 /\ d = old[case.like[f]] /\ Distinct(d) =>
      patch[f] = <<[type |-> "range", file |-> case.like[f], block |-> 0, span |-> Len(BlocksOf(d))]>>

\* algo.go:28 says MaxDataOp is the most a data operation can hold.
DataBounded ==
  \A f \in DOMAIN patch : \A i \in DOMAIN patch[f] :
    patch[f][i].type = "data" => Len(patch[f][i].data) <= MaxDataOp

\* WritePatch returns, whatever fails and whoever is left behind.
Returns == <>(main = "returned")
=============================================================================
