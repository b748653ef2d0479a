------------------------------ MODULE SafeKeeper ------------------------------
(***************************************************************************)
(* A pool that lets nothing be read that differs from the signature        *)
(* (pwr/safekeeper.go): before a read, the block at the offset is read and *)
(* compared with its hash, once.  The signature is opened at the first     *)
(* block.                                                                  *)
(*                                                                         *)
(* A hash stands for the block it was computed from.                       *)
(***************************************************************************)
EXTENDS Integers, Sequences

CONSTANTS
  Signed,     \* the contents of the pool's files, by the signature
  Disk,       \* their contents on disk
  BlockSize   \* bytes in a block

ASSUME BlockAssumption == BlockSize \in Nat \ {0}

\* A byte is a number.
ASSUME FilesAssumption ==
  Disk \in Seq(Seq(Nat)) /\ Signed \in Seq(Seq(Nat)) /\ DOMAIN Signed = DOMAIN Disk

VARIABLES
  verdicts,   \* [file, block] pairs checked so far, each "valid" or "corrupt"
  signature   \* "closed", "open" or "failed"

Files == DOMAIN Disk

Smaller(a, b) == IF a < b THEN a ELSE b

\* What a reader finds at offset o when it asks for n bytes.
BytesAt(d, o, n) == SubSeq(d, o + 1, Smaller(o + n, Len(d)))

BlockOf(o) == o \div BlockSize

NumBlocks(size) == IF size = 0 THEN 1 ELSE (size + BlockSize - 1) \div BlockSize

\* The bytes of block b; of the blocks past the end, what the last one would have.
ComputeBlockSize(size, b) ==
  IF BlockSize * (b + 1) > size THEN size % BlockSize ELSE BlockSize

\* ValidateAsError on what is read of block b: as much as the signature has.
Judge(f, b) ==
  LET data == BytesAt(Disk[f], b * BlockSize, ComputeBlockSize(Len(Signed[f]), b))
  IN IF b < NumBlocks(Len(Signed[f])) /\ data = BytesAt(Signed[f], b * BlockSize, BlockSize)
     THEN "valid" ELSE "corrupt"

\* A read of that block finds nothing, although it should.
BlockMissing(f, b) ==
  /\ ComputeBlockSize(Len(Signed[f]), b) > 0
  /\ b * BlockSize >= Len(Disk[f])

Unchecked(f, o) == <<f, BlockOf(o)>> \notin DOMAIN verdicts

-----------------------------------------------------------------------------
(* validateBlock, by what it returns to a read of file f at offset o.  Only  *)
(* a verdict on what was read is kept.                                       *)

\* Mutant: the block counts as valid once it was looked at.
WithVerdictEarly(f, o) ==
  [c \in DOMAIN verdicts \cup {<<f, BlockOf(o)>>} |->
     IF c \in DOMAIN verdicts THEN verdicts[c] ELSE "valid"]

WithVerdict(f, o) ==
  [c \in DOMAIN verdicts \cup {<<f, BlockOf(o)>>} |->
     IF c \in DOMAIN verdicts THEN verdicts[c] ELSE Judge(f, BlockOf(o))]

\* The error of opening or reading the signature is kept.
SignatureFails(f, o) ==
  /\ Unchecked(f, o)
  /\ signature # "open"
  /\ signature' = "failed"
  /\ UNCHANGED verdicts

SignatureOpens(f, o) ==
  IF Unchecked(f, o) THEN signature # "failed" /\ signature' = "open" ELSE UNCHANGED signature

BlockEnds(f, o) ==
  /\ Unchecked(f, o)
  /\ SignatureOpens(f, o)
  /\ BlockMissing(f, BlockOf(o))
  /\ UNCHANGED verdicts

BlockFails(f, o) ==
  /\ Unchecked(f, o)
  /\ SignatureOpens(f, o)
  /\ UNCHANGED verdicts

BlockJudged(f, o, verdict) ==
  /\ SignatureOpens(f, o)
  /\ Unchecked(f, o) => ~BlockMissing(f, BlockOf(o))
  /\ WithVerdict(f, o)[<<f, BlockOf(o)>>] = verdict
  /\ verdicts' = WithVerdict(f, o)
=============================================================================
