--------------------------------- MODULE Genie ---------------------------------
(***************************************************************************)
(* The genie (analyzeFile of pwr/genie/genie.go): from the operations of a *)
(* patch, what each block of a new file is made of.  Its blocks are of a   *)
(* size of their own, and an operation is cut where they end.              *)
(***************************************************************************)
EXTENDS WritePatch

CONSTANTS
  BigBlockSizes   \* sizes of the blocks to explain

\* With no room in a block analyzeFile would not come to an end.
ASSUME BigBlocksAssumption == BigBlockSizes \subseteq Nat \ {0}

\* Origins: bytes of an old file, or fresh ones (file 0).
Fresh(n) == [file |-> 0, offset |-> 0, size |-> n]

OriginOf(op) ==
  IF op.type = "data" THEN Fresh(Len(op.data))
  ELSE [file |-> op.file, offset |-> op.block * BlockSize, size |-> op.span * BlockSize]

Total(origins) == SumOf([i \in DOMAIN origins |-> origins[i].size])

\* A block's composition goes to the listener, and the next one is begun.
OnComp(g) == [g EXCEPT !.told = Append(@, g.comp), !.comp = << >>]

AppendOrigin(g, o) == IF o.size = 0 THEN g ELSE [g EXCEPT !.comp = Append(@, o)]

\* Mutant: the rest of a range is taken from its start again.
RestFromStart(o, n) == [o EXCEPT !.size = @ - n]

\* What is left of an origin after its first n bytes.
RestOf(o, n) == [o EXCEPT !.size = @ - n, !.offset = IF o.file = 0 THEN 0 ELSE @ + n]

\* An origin that reaches past the end of the block is cut there.
Cut(g, big) ==
  LET room == big - Total(g.comp)
  IN IF g.left.size > room
     THEN [OnComp(AppendOrigin(g, [g.left EXCEPT !.size = room])) EXCEPT !.left = RestOf(@, room)]
     ELSE g

\* It is cut as long as it does; all cuts but the first take a byte or more.
Split(g, o, big) ==
  LET turn[k \in 0 .. o.size + 1] == IF k = 0 THEN [g EXCEPT !.left = o] ELSE Cut(turn[k - 1], big)
      last == turn[o.size + 1]
  IN AppendOrigin(last, last.left)

\* analyzeFile: what was told after k operations, and the block that is being filled.
Analyzed(ops, big) ==
  LET after[k \in 0 .. Len(ops)] ==
        IF k = 0 THEN [told |-> << >>, comp |-> << >>, left |-> Fresh(0)]
        ELSE Split(after[k - 1], OriginOf(ops[k]), big)
  IN after[Len(ops)]

\* The compositions of new file n.
Compositions(n, big) ==
  LET g == Analyzed(patch[n], big)
  IN IF g.comp # << >> /\ case.new[n] # << >> THEN OnComp(g).told ELSE g.told
-----------------------------------------------------------------------------
\* The bytes an origin stands for at an offset of the new file d; a range may reach
\* past the end of its file.
OriginBytes(o, d, pos) ==
  LET from == IF o.file = 0 THEN d ELSE old[o.file]
      off  == IF o.file = 0 THEN pos ELSE o.offset
  IN SubSeq(from, off + 1, Least(off + o.size, Len(from)))

\* genie.go:13: composition k tells of what block k of the new file is made: each but
\* the last is of the size of a block, and the bytes of all are those of the file.
\* Only the last may be too long, by less than a (small) block, for a short block at
\* the end of an old file counts in full; then even a block after the file's last one
\* may be told of.
ExplainsBlocks ==
  result = "nil" =>
    \A n \in DOMAIN patch : \A big \in BigBlockSizes :
      LET comps == Compositions(n, big)
          d     == case.new[n]
          all   == FlattenSeq(comps)
          start == [i \in DOMAIN all |-> Total(SubSeq(all, 1, i - 1))]
      IN /\ \A k \in 1 .. Len(comps) - 1 : Total(comps[k]) = big
         /\ \A i \in DOMAIN all :
              OriginBytes(all[i], d, start[i]) = SubSeq(d, start[i] + 1, Least(start[i] + all[i].size, Len(d)))
         /\ Total(all) \in Len(d) .. Len(d) + BlockSize - 1
=============================================================================
