-------------------------------- MODULE Rediff --------------------------------
(***************************************************************************)
(* The choice of the rediffer (analyzePatch of pwr/rediff/rediff.go): from *)
(* the operations of a patch, the old file each new file shall be diffed   *)
(* with, byte by byte.  The files with a mapping go to module Bsdiff; of   *)
(* the others the operations are copied.                                   *)
(***************************************************************************)
EXTENDS WritePatch

CONSTANTS
  RediffSizeLimit   \* the size of the largest file that is diffed

Ranges(ops) == {i \in DOMAIN ops : ops[i].type = "range"}

\* ComputeBlockSize
BlockSizeAt(size, b) == IF BlockSize * (b + 1) > size THEN size % BlockSize ELSE BlockSize

\* What a range counts for: the block that follows it is taken for its last one.
Counted(op) ==
  BlockSize * op.span - 1 + BlockSizeAt(Len(old[op.file]), op.block + op.span)

BytesReused(ops) ==
  [f \in {ops[i].file : i \in Ranges(ops)} |->
     MapThenSumSet(LAMBDA i : Counted(ops[i]), {i \in Ranges(ops) : ops[i].file = f})]

\* The orders a Go map may give the old files in.
Orders(ops) == SetToSeqs(DOMAIN BytesReused(ops))

\* Mutant: of files that are reused as much, the last one is taken.
BestLast(reused, order, samePath) ==
  FoldLeft(LAMBDA best, f : IF best = 0 \/ reused[f] >= reused[best] THEN f ELSE best, 0, order)

\* The file that is reused most, and among equals that of the same path.
Best(reused, order, samePath) ==
  FoldLeft(LAMBDA best, f :
             IF \/ best = 0
                \/ reused[f] > reused[best]
                \/ reused[f] = reused[best] /\ f = samePath
             THEN f ELSE best,
           0, order)

\* Where nothing is reused the file of the same path will do, unless it is empty.
Candidate(ops, order, samePath) ==
  IF order # << >> THEN Best(BytesReused(ops), order, samePath)
  ELSE IF samePath # 0 /\ old[samePath] # << >> THEN samePath ELSE 0

\* A new file that is one range was renamed or cut.
Transposed(ops) == Len(ops) = 1 /\ Ranges(ops) = {1}

\* analyzePatch: the old file that new file n is mapped to, 0 for none.
Mapping(n, order, forceMapAll) ==
  LET c == Candidate(patch[n], order, case.like[n])
  IN IF \/ ~forceMapAll /\ (case.new[n] = << >> \/ Transposed(patch[n]))
        \/ Len(case.new[n]) > RediffSizeLimit
        \/ c # 0 /\ Len(old[c]) > RediffSizeLimit
     THEN 0 ELSE c
-----------------------------------------------------------------------------
\* rediff.go:259: a file is never diffed with an empty one, which "bsdiff won't like"
\* (it has no suffixes to search); of files that are reused the code does not ask it,
\* but no empty file is ever reused.  rediff.go:244: in whatever order the map gives
\* the files, the one of the same path is taken if no other is counted for more.
\* rediff.go:238: a file that was not touched is not diffed.
MapsNaturally ==
  result = "nil" =>
    \A n \in DOMAIN patch : \A order \in Orders(patch[n]) : \A force \in BOOLEAN :
      LET m      == Mapping(n, order, force)
          like   == case.like[n]
          reused == BytesReused(patch[n])
      IN /\ m # 0 => old[m] # << >>
         /\ m # 0 /\ like \in DOMAIN reused /\ (\A f \in DOMAIN reused : reused[f] <= reused[like]) => m = like
         /\ like # 0 /\ case.new[n] = old[like] /\ Distinct(old[like]) /\ ~force => m = 0
=============================================================================
