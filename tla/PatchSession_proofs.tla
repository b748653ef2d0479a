-------------------------- MODULE PatchSession_proofs --------------------------
(***************************************************************************)
(* Proofs about PatchSession, for every patch, old build, place of a       *)
(* checkpoint, buffer and number of crashes.                               *)
(***************************************************************************)
EXTENDS PatchSession, SequenceFacts, FiniteSetTheorems

-----------------------------------------------------------------------------
(* The messages of a patch                                                  *)

LEMMA FilesAre == Files = 1 .. Len(Patch) /\ Len(Patch) \in Nat \ {0}
  BY PatchAssumption DEF Files

LEMMA PatchShape ==
  ASSUME NEW f \in Files
  PROVE  /\ Patch[f].kind \in {"rsync", "bsdiff"}
         /\ Patch[f].base \in {0} \cup DOMAIN Old
         /\ Patch[f].kind = "rsync" => Patch[f].ops \in Seq(SyncOps) /\ Len(Patch[f].ops) # 0
         /\ Patch[f].kind = "bsdiff" => Patch[f].ops \in Seq(Controls) /\ Patch[f].target \in DOMAIN Old
         /\ Len(Patch[f].ops) \in Nat
<1> DEFINE R == [kind : {"rsync"}, base : {0} \cup DOMAIN Old, target : Nat, ops : Seq(SyncOps) \ {<< >>}]
           B == [kind : {"bsdiff"}, base : {0} \cup DOMAIN Old, target : DOMAIN Old, ops : Seq(Controls)]
<1>1. Patch[f] \in R \/ Patch[f] \in B
  BY PatchAssumption DEF Files
<1>2. CASE Patch[f] \in R
  <2>1. Patch[f].kind = "rsync" /\ Patch[f].base \in {0} \cup DOMAIN Old
    BY <1>2
  <2>2. Patch[f].ops \in Seq(SyncOps) /\ Patch[f].ops # << >>
    BY <1>2
  <2> HIDE DEF R
  <2>3. Len(Patch[f].ops) \in Nat /\ Len(Patch[f].ops) # 0
    BY <2>2
  <2>4. QED
    BY <2>1, <2>2, <2>3
<1>3. CASE Patch[f] \in B
  <2>1. Patch[f].kind = "bsdiff" /\ Patch[f].base \in {0} \cup DOMAIN Old /\ Patch[f].target \in DOMAIN Old
    BY <1>3
  <2>2. Patch[f].ops \in Seq(Controls)
    BY <1>3
  <2> HIDE DEF B
  <2>3. Len(Patch[f].ops) \in Nat
    BY <2>2
  <2>4. QED
    BY <2>1, <2>2, <2>3
<1>4. QED
  BY <1>1, <1>2, <1>3

Headers == [type : {"header"}, file : Files]
Targets == [type : {"bsdiff"}, target : DOMAIN Old]
AnyMessage == Headers \cup Targets \cup SyncOps \cup Controls \cup {[type |-> "eof"], [type |-> "hey"]}

\* The messages of file f before its operations, after its header.
Opening(f) == IF Patch[f].kind = "bsdiff" THEN 2 ELSE 1

Ops(f) == Len(Patch[f].ops)

LEMMA MessagesAre ==
  ASSUME NEW f \in Files
  PROVE  /\ Messages(f) \in Seq(AnyMessage)
         /\ Len(Messages(f)) = IF Patch[f].kind = "bsdiff" THEN Ops(f) + 4 ELSE Ops(f) + 2
         /\ Messages(f)[1] = [type |-> "header", file |-> f]
         /\ \A j \in 1 .. Ops(f) : Messages(f)[Opening(f) + j] = Patch[f].ops[j]
         /\ Messages(f)[Len(Messages(f))] = [type |-> "hey"]
         /\ Patch[f].kind = "bsdiff" =>
              /\ Messages(f)[2] = [type |-> "bsdiff", target |-> Patch[f].target]
              /\ Messages(f)[Ops(f) + 3] = [type |-> "eof"]
<1> DEFINE ops == Patch[f].ops
           header == [type |-> "header", file |-> f]
           target == [type |-> "bsdiff", target |-> Patch[f].target]
           eof == [type |-> "eof"]
           hey == [type |-> "hey"]
<1>1. ops \in Seq(AnyMessage) /\ Len(ops) \in Nat
  BY PatchShape DEF AnyMessage
<1>2. header \in AnyMessage /\ eof \in AnyMessage /\ hey \in AnyMessage
  BY DEF AnyMessage, Headers
<1>3. CASE Patch[f].kind = "rsync"
  <2>1. Messages(f) = <<header>> \o << >> \o ops \o << >> \o <<hey>>
    BY <1>3 DEF Messages
  <2>2. Messages(f) = (<<header>> \o ops) \o <<hey>>
    <3> HIDE DEF header, ops, hey
    <3>1. QED
      BY <1>1, <1>2, <2>1
  <2> HIDE DEF header, ops, hey
  <2>3. /\ Messages(f) \in Seq(AnyMessage)
        /\ Len(Messages(f)) = Len(ops) + 2
        /\ Messages(f)[1] = header
        /\ \A j \in 1 .. Len(ops) : Messages(f)[1 + j] = ops[j]
        /\ Messages(f)[Len(ops) + 2] = hey
    BY <1>1, <1>2, <2>2
  <2>4. QED
    BY <1>3, <2>3 DEF header, ops, hey, Ops, Opening
<1>4. CASE Patch[f].kind = "bsdiff"
  <2>1. Messages(f) = <<header>> \o <<target>> \o ops \o <<eof>> \o <<hey>>
    BY <1>4 DEF Messages
  <2>2. target \in AnyMessage
    BY <1>4, PatchShape DEF AnyMessage, Targets
  <2> HIDE DEF header, ops, hey, eof, target
  <2> DEFINE start == <<header, target>> \o ops
             end == start \o <<eof>>
  <2>3. /\ start \in Seq(AnyMessage) /\ Len(start) = Len(ops) + 2
        /\ start[1] = header /\ start[2] = target
        /\ \A j \in 1 .. Len(ops) : start[2 + j] = ops[j]
    BY <1>1, <1>2, <2>2
  <2>4. /\ end \in Seq(AnyMessage) /\ Len(end) = Len(ops) + 3
        /\ \A j \in 1 .. Len(ops) + 2 : end[j] = start[j]
        /\ end[Len(ops) + 3] = eof
    <3> HIDE DEF start
    <3>1. QED
      BY <1>1, <1>2, <2>3
  <2>5. Messages(f) = end \o <<hey>>
    <3>1. <<header>> \o <<target>> = <<header, target>>
      <4> DEFINE l == <<header>>
                 r == <<target>>
      <4>1. l \in Seq(AnyMessage) /\ r \in Seq(AnyMessage) /\ Len(l) = 1 /\ Len(r) = 1 /\ l[1] = header /\ r[1] = target
        BY <1>2, <2>2
      <4>2. l \o r \in Seq(AnyMessage) /\ Len(l \o r) = 2 /\ (l \o r)[1] = header /\ (l \o r)[2] = target
        <5> HIDE DEF l, r
        <5>1. 1 \in 1 .. Len(l) /\ 1 \in 1 .. Len(r) /\ Len(l) + 1 = 2
          BY <4>1
        <5>2. QED
          BY <4>1, <5>1, ConcatFacts
      <4> DEFINE both == <<header, target>>
      <4>3. both \in Seq(AnyMessage) /\ Len(both) = 2 /\ both[1] = header /\ both[2] = target
        BY <1>2, <2>2
      <4>4. l \o r = both
        <5> HIDE DEF l, r, both
        <5>1. \A i \in 1 .. 2 : i = 1 \/ i = 2
          OBVIOUS
        <5>2. \A i \in 1 .. Len(l \o r) : (l \o r)[i] = both[i]
          BY <4>2, <4>3, <5>1
        <5>3. QED
          BY <4>2, <4>3, <5>2, SameSequence
      <4>5. QED
        BY <4>4
    <3>2. QED
      BY <2>1, <3>1, Zenon
  <2>6. /\ Messages(f) \in Seq(AnyMessage) /\ Len(Messages(f)) = Len(ops) + 4
        /\ \A j \in 1 .. Len(ops) + 3 : Messages(f)[j] = end[j]
        /\ Messages(f)[Len(ops) + 4] = hey
    <3> HIDE DEF end
    <3>1. QED
      BY <1>1, <1>2, <2>4, <2>5
  <2> HIDE DEF start, end
  <2>7. /\ Messages(f) \in Seq(AnyMessage)
        /\ Len(Messages(f)) = Len(ops) + 4
        /\ Messages(f)[1] = header
        /\ Messages(f)[2] = target
        /\ \A j \in 1 .. Len(ops) : Messages(f)[2 + j] = ops[j]
        /\ Messages(f)[Len(ops) + 3] = eof
        /\ Messages(f)[Len(ops) + 4] = hey
    <3>1. 1 \in 1 .. Len(ops) + 3 /\ 2 \in 1 .. Len(ops) + 3 /\ Len(ops) + 3 \in 1 .. Len(ops) + 3
      BY <1>1
    <3>2. \A j \in 1 .. Len(ops) : 2 + j \in 1 .. Len(ops) + 2 /\ 2 + j \in 1 .. Len(ops) + 3
      BY <1>1
    <3>3. 1 \in 1 .. Len(ops) + 2 /\ 2 \in 1 .. Len(ops) + 2
      BY <1>1
    <3>4. Messages(f)[1] = header /\ Messages(f)[2] = target /\ Messages(f)[Len(ops) + 3] = eof
      BY <2>3, <2>4, <2>6, <3>1, <3>3
    <3>5. \A j \in 1 .. Len(ops) : Messages(f)[2 + j] = ops[j]
      BY <2>3, <2>4, <2>6, <3>2
    <3>6. QED
      BY <2>6, <3>4, <3>5
  <2>8. QED
    BY <1>4, <2>7 DEF header, ops, hey, eof, target, Ops, Opening
<1>5. QED
  BY <1>3, <1>4, PatchShape

All == [f \in Files |-> Messages(f)]

\* Where the messages of file f start.
Start(f) == Len(Upto(All, f - 1))

LEMMA AllIs == All \in Seq(Seq(AnyMessage)) /\ Len(All) = Len(Patch)
<1>1. \A f \in 1 .. Len(Patch) : Messages(f) \in Seq(AnyMessage)
  BY FilesAre, MessagesAre
<1>2. All = [f \in 1 .. Len(Patch) |-> Messages(f)]
  BY FilesAre DEF All
<1>3. QED
  BY <1>1, <1>2, FilesAre

LEMMA PreambleIs ==
  ASSUME NEW f \in Files
  PROVE  Preamble[f] = Start(f) + Opening(f)
<1>1. \A g \in 1 .. f - 1 : g \in Files
  BY FilesAre
<1>2. [g \in 1 .. f - 1 |-> Messages(g)] = [g \in 1 .. f - 1 |-> All[g]]
  BY <1>1 DEF All
<1>3. QED
  BY <1>2 DEF Preamble, Start, Upto, Opening

LEMMA StartsAre ==
  /\ Start(1) = 0
  /\ \A f \in Files : Start(f) \in Nat /\ Start(f + 1) = Start(f) + Len(Messages(f))
  /\ Start(Len(Patch) + 1) = Len(Stream)
<1>1. Start(1) = 0
  BY UptoNone DEF Start
<1>2. ASSUME NEW f \in Files PROVE Start(f) \in Nat /\ Start(f + 1) = Start(f) + Len(Messages(f))
  <2>1. f - 1 \in 0 .. Len(All) - 1 /\ f - 1 \in 0 .. Len(All) /\ (f + 1) - 1 = (f - 1) + 1 /\ (f - 1) + 1 = f
    BY AllIs, FilesAre
  <2>2. Len(Upto(All, (f - 1) + 1)) = Len(Upto(All, f - 1)) + Len(All[(f - 1) + 1])
    BY <2>1, AllIs, UptoStep
  <2>3. Upto(All, f - 1) \in Seq(AnyMessage)
    BY <2>1, AllIs, UptoType
  <2>4. All[f] = Messages(f)
    BY DEF All
  <2>5. Len(Upto(All, f - 1)) \in Nat
    BY <2>3
  <2>6. QED
    BY <2>1, <2>2, <2>4, <2>5 DEF Start
<1>3. Start(Len(Patch) + 1) = Len(Stream)
  <2>1. (Len(Patch) + 1) - 1 = Len(All)
    BY AllIs, FilesAre
  <2>2. QED
    BY <2>1, AllIs, UptoAll DEF Start, Stream, All
<1>4. QED
  BY <1>1, <1>2, <1>3

LEMMA StreamAt ==
  ASSUME NEW f \in Files, NEW i \in 1 .. Len(Messages(f))
  PROVE  Start(f) + i \in 1 .. Len(Stream) /\ Stream[Start(f) + i] = Messages(f)[i]
<1>1. f - 1 \in 0 .. Len(All) - 1 /\ (f - 1) + 1 = f /\ All[f] = Messages(f)
  BY AllIs, FilesAre DEF All
<1>2. i \in 1 .. Len(All[(f - 1) + 1])
  BY <1>1
<1>3. /\ Len(Upto(All, f - 1)) + i \in 1 .. Len(FlattenSeq(All))
      /\ FlattenSeq(All)[Len(Upto(All, f - 1)) + i] = All[(f - 1) + 1][i]
  BY <1>1, <1>2, AllIs, FlattenAt, ZenonT(60)
<1>4. QED
  BY <1>1, <1>3 DEF Start, Stream, All

-----------------------------------------------------------------------------
(* What the operations amount to                                            *)

LEMMA UnitsType ==
  ASSUME NEW s \in Seq(Nat), NEW first \in Nat, NEW n \in Nat
  PROVE  Units(s, first, n) \in Seq(Nat)
<1> DEFINE last == IF first + n < Len(s) THEN first + n ELSE Len(s)
<1>1. last \in Nat /\ last <= Len(s) /\ first + 1 \in Nat /\ first + 1 >= 1
  OBVIOUS
<1>2. \A i \in first + 1 .. last : s[i] \in Nat
  OBVIOUS
<1>3. SubSeq(s, first + 1, last) \in Seq(Nat)
  <2> HIDE DEF last
  <2>1. QED
    BY <1>1, <1>2
<1>4. QED
  BY <1>3 DEF Units

LEMMA OldIs ==
  ASSUME NEW f \in DOMAIN Old
  PROVE  Old[f] \in Seq(Nat)
  BY OldAssumption

LEMMA DataType ==
  ASSUME NEW op \in SyncOps
  PROVE  Data(op) \in Seq(Nat) /\ op.type \in {"range", "data"}
<1>1. CASE op \in [type : {"range"}, file : DOMAIN Old, first : Nat, span : Nat]
  <2>1. op.type = "range" /\ op.file \in DOMAIN Old /\ op.first \in Nat /\ op.span \in Nat
    BY <1>1
  <2>2. Old[op.file] \in Seq(Nat)
    BY <2>1, OldIs
  <2>3. QED
    BY <2>1, <2>2, UnitsType DEF Data
<1>2. CASE op \in [type : {"data"}, data : Seq(Nat)]
  BY <1>2 DEF Data
<1>3. QED
  BY <1>1, <1>2 DEF SyncOps

LEMMA AddedType ==
  ASSUME NEW c \in Controls, NEW t \in DOMAIN Old, NEW at \in Nat
  PROVE  Added(c, t, at) \in Seq(Nat) /\ c.type = "ctrl" /\ SeekBy(c, at) \in Int
<1> DEFINE base == Units(Old[t], at, Len(c.add))
           sum == [i \in DOMAIN base |-> (base[i] + c.add[i]) % Values]
<1>1. c.add \in Seq(Nat) /\ c.copy \in Seq(Nat) /\ c.seek \in Int /\ c.type = "ctrl"
  BY DEF Controls
<1>2. Old[t] \in Seq(Nat) /\ Len(c.add) \in Nat
  BY <1>1, OldIs
<1>3. base \in Seq(Nat)
  BY <1>2, UnitsType
<1>4. Len(base) <= Len(c.add)
  <2> DEFINE last == IF at + Len(c.add) < Len(Old[t]) THEN at + Len(c.add) ELSE Len(Old[t])
  <2>1. last \in Nat /\ last <= Len(Old[t]) /\ last <= at + Len(c.add)
    BY <1>2
  <2>2. base = SubSeq(Old[t], at + 1, last)
    BY DEF Units
  <2>3. Len(base) <= Len(c.add)
    <3> HIDE DEF last, base
    <3>1. Len(SubSeq(Old[t], at + 1, last)) = IF at + 1 <= last THEN last - (at + 1) + 1 ELSE 0
      BY <1>2, <2>1
    <3>2. QED
      BY <1>2, <2>1, <2>2, <3>1
  <2>4. QED
    BY <2>3
<1>5. sum \in Seq(Nat)
  <2>1. \A i \in DOMAIN base : base[i] \in Nat /\ c.add[i] \in Nat
    <3> HIDE DEF base
    <3>1. QED
      BY <1>1, <1>3, <1>4, SMTT(60)
  <2>2. \A i \in DOMAIN base : (base[i] + c.add[i]) % Values \in Nat
    <3> HIDE DEF base
    <3>1. QED
      BY <2>1, ValuesAssumption
  <2>3. DOMAIN base = 1 .. Len(base) /\ Len(base) \in Nat
    <3> HIDE DEF base
    <3>1. QED
      BY <1>3
  <2> HIDE DEF base
  <2>4. QED
    BY <2>2, <2>3
<1>6. Added(c, t, at) = sum \o c.copy
  BY DEF Added
<1>7. Added(c, t, at) \in Seq(Nat)
  <2> HIDE DEF sum
  <2>1. QED
    BY <1>1, <1>5, <1>6
<1>8. SeekBy(c, at) \in Int
  BY <1>1, <1>2 DEF SeekBy
<1>9. QED
  BY <1>1, <1>7, <1>8

\* What a recursive definition over 1 .. n says.
LEMMA RecursiveIs ==
  ASSUME NEW n \in Nat, NEW g, NEW v, NEW ops, NEW plain,
         g = [k \in 1 .. n + 1 |-> IF k = 1 \/ plain THEN v ELSE g[k - 1] + Len(ops[k - 1].add) + ops[k - 1].seek]
  PROVE  \A k \in 1 .. n + 1 : g[k] = IF k = 1 \/ plain THEN v ELSE g[k - 1] + Len(ops[k - 1].add) + ops[k - 1].seek
<1> DEFINE e(k) == IF k = 1 \/ plain THEN v ELSE g[k - 1] + Len(ops[k - 1].add) + ops[k - 1].seek
<1>1. g = [k \in 1 .. n + 1 |-> e(k)]
  BY Zenon
<1> HIDE DEF e
<1>2. ASSUME NEW h, h = g, h = [k \in 1 .. n + 1 |-> e(k)] PROVE \A k \in 1 .. n + 1 : g[k] = e(k)
  BY <1>2
<1>3. \A k \in 1 .. n + 1 : g[k] = e(k)
  BY <1>1, <1>2
<1>4. QED
  BY <1>3, Zenon DEF e

LEMMA OldOffsetIs ==
  ASSUME NEW f \in Files, Patch[f].kind = "bsdiff"
  PROVE  /\ OldOffsetOf[f][1] = 0
         /\ \A k \in 1 .. Ops(f) : OldOffsetOf[f][k + 1] = SeekBy(Patch[f].ops[k], OldOffsetOf[f][k])
<1> DEFINE n == Ops(f)
           ops == Patch[f].ops
           at == CHOOSE g : g = [k \in 1 .. Len(ops) + 1 |->
                   IF k = 1 \/ Patch[f].kind = "rsync" THEN 0
                   ELSE g[k - 1] + Len(ops[k - 1].add) + ops[k - 1].seek]
           step == [i \in 1 .. n + 1 |-> [x \in Int |-> IF i = 1 THEN 0 ELSE x + Len(ops[i - 1].add) + ops[i - 1].seek]]
<1>1. n \in Nat /\ n + 1 \in Nat /\ \A k \in 1 .. n : Len(ops[k].add) \in Nat /\ ops[k].seek \in Int
  <2>1. n \in Nat /\ ops \in Seq(Controls)
    BY PatchShape DEF Ops
  <2>2. \A k \in 1 .. n : ops[k] \in Controls
    BY <2>1 DEF Ops
  <2>3. \A c \in Controls : Len(c.add) \in Nat /\ c.seek \in Int
    BY DEF Controls
  <2>4. QED
    BY <2>1, <2>2, <2>3
<1>2. step \in [1 .. n + 1 -> [Int -> Int]]
  <2>1. ASSUME NEW i \in 1 .. n + 1, NEW x \in Int, i # 1
        PROVE  x + Len(ops[i - 1].add) + ops[i - 1].seek \in Int
    <3>1. i - 1 \in 1 .. n
      BY <1>1, <2>1
    <3>2. QED
      BY <1>1, <3>1, SMTT(60)
  <2>2. \A i \in 1 .. n + 1, x \in Int :
          (IF i = 1 THEN 0 ELSE x + Len(ops[i - 1].add) + ops[i - 1].seek) \in Int
    BY <2>1
  <2> HIDE DEF ops, n
  <2>3. QED
    BY <2>2
<1>3. PICK g : Recurs(g, Int, n + 1, 0, step)
  <2>1. 0 \in Int
    OBVIOUS
  <2> HIDE DEF step, n
  <2>2. QED
    BY <1>1, <1>2, <2>1, RecursionExists
<1>4. g = [k \in 1 .. Len(ops) + 1 |-> IF k = 1 \/ Patch[f].kind = "rsync" THEN 0
                                       ELSE g[k - 1] + Len(ops[k - 1].add) + ops[k - 1].seek]
  <2>1. g = [k \in 1 .. n + 1 |-> g[k]] /\ \A k \in 1 .. n + 1 : g[k] \in Int /\ g[k] = IF k = 1 THEN 0 ELSE step[k][g[k - 1]]
    <3> HIDE DEF step, n
    <3>1. QED
      BY <1>3 DEF Recurs
  <2>2. ASSUME NEW k \in 1 .. n + 1
        PROVE  g[k] = IF k = 1 \/ Patch[f].kind = "rsync" THEN 0
                      ELSE g[k - 1] + Len(ops[k - 1].add) + ops[k - 1].seek
    <3>1. CASE k = 1
      BY <2>1, <3>1
    <3>2. CASE k # 1
      <4>1. k - 1 \in 1 .. n + 1
        BY <1>1, <3>2
      <4>2. g[k - 1] \in Int
        BY <2>1, <4>1
      <4>3. step[k][g[k - 1]] = g[k - 1] + Len(ops[k - 1].add) + ops[k - 1].seek
        BY <3>2, <4>2
      <4>4. QED
        BY <2>1, <3>2, <4>3
    <3>3. QED
      BY <3>1, <3>2
  <2>3. [k \in 1 .. n + 1 |-> g[k]] = [k \in 1 .. n + 1 |-> IF k = 1 \/ Patch[f].kind = "rsync" THEN 0
                                       ELSE g[k - 1] + Len(ops[k - 1].add) + ops[k - 1].seek]
    BY <2>2, Zenon
  <2>4. QED
    BY <2>1, <2>3, Zenon DEF Ops
<1>5. OldOffsetOf[f] = at
  BY DEF OldOffsetOf
<1>6. at = [k \in 1 .. n + 1 |-> IF k = 1 \/ Patch[f].kind = "rsync" THEN 0
                                 ELSE at[k - 1] + Len(ops[k - 1].add) + ops[k - 1].seek]
  BY <1>4, Zenon DEF Ops
<1>7. \A k \in 1 .. n + 1 : OldOffsetOf[f][k] =
        IF k = 1 \/ Patch[f].kind = "rsync" THEN 0
        ELSE OldOffsetOf[f][k - 1] + Len(ops[k - 1].add) + ops[k - 1].seek
  <2> HIDE DEF at, ops, n
  <2>1. n \in Nat
    BY <1>1
  <2>2. QED
    BY <1>5, <1>6, <2>1, RecursiveIs
<1>8. OldOffsetOf[f][1] = 0
  <2>1. 1 \in 1 .. n + 1
    BY <1>1
  <2> HIDE DEF n
  <2>2. QED
    BY <1>7, <2>1
<1>9. ASSUME NEW k \in 1 .. n PROVE OldOffsetOf[f][k + 1] = SeekBy(ops[k], OldOffsetOf[f][k])
  <2>1. k + 1 \in 1 .. n + 1 /\ k + 1 # 1 /\ (k + 1) - 1 = k
    BY <1>1
  <2> HIDE DEF n, ops
  <2>2. OldOffsetOf[f][k + 1] = OldOffsetOf[f][k] + Len(ops[k].add) + ops[k].seek
    BY <1>7, <2>1
  <2>3. QED
    BY <2>2 DEF SeekBy
<1>10. QED
  BY <1>8, <1>9

\* What each operation amounts to.
Piece(f, i) ==
  IF Patch[f].kind = "rsync" THEN Data(Patch[f].ops[i])
  ELSE Added(Patch[f].ops[i], Patch[f].target, OldOffsetOf[f][i])

Pieces(f) == [i \in 1 .. Ops(f) |-> Piece(f, i)]

LEMMA PiecesAre ==
  ASSUME NEW f \in Files
  PROVE  /\ Pieces(f) \in Seq(Seq(Nat))
         /\ Len(Pieces(f)) = Ops(f)
         /\ Ops(f) \in Nat
         /\ \A i \in 1 .. Ops(f) : Pieces(f)[i] = Piece(f, i)
         /\ \A i \in 1 .. Ops(f) : Patch[f].ops[i] \in IF Patch[f].kind = "rsync" THEN SyncOps ELSE Controls
<1>1. Ops(f) \in Nat
  BY PatchShape DEF Ops
<1>2. ASSUME NEW i \in 1 .. Ops(f)
      PROVE  /\ Patch[f].ops[i] \in IF Patch[f].kind = "rsync" THEN SyncOps ELSE Controls
             /\ Piece(f, i) \in Seq(Nat)
  <2>1. CASE Patch[f].kind = "rsync"
    <3>1. Patch[f].ops[i] \in SyncOps
      BY <2>1, PatchShape DEF Ops
    <3>2. QED
      BY <2>1, <3>1, DataType DEF Piece
  <2>2. CASE Patch[f].kind = "bsdiff"
    <3>1. Patch[f].ops[i] \in Controls /\ Patch[f].target \in DOMAIN Old
      BY <2>2, PatchShape DEF Ops
    <3>2. OldOffsetOf[f][i] \in Nat
      <4>1. i \in DOMAIN Patch[f].ops
        BY <2>2, PatchShape DEF Ops
      <4>2. QED
        BY <4>1, PatchAssumption
    <3>3. Added(Patch[f].ops[i], Patch[f].target, OldOffsetOf[f][i]) \in Seq(Nat)
      BY <3>1, <3>2, AddedType
    <3>4. QED
      BY <2>2, <3>1, <3>3 DEF Piece
  <2>3. QED
    BY <2>1, <2>2, PatchShape
<1>3. QED
  BY <1>1, <1>2, SMTT(60) DEF Pieces

LEMMA OutputIs ==
  ASSUME NEW f \in Files, NEW k \in 0 .. Ops(f)
  PROVE  OutputOf[f][k] = Upto(Pieces(f), k)
<1>1. k \in 0 .. Len(Patch[f].ops)
  BY DEF Ops
<1>2. [i \in 1 .. k |-> Piece(f, i)] = [i \in 1 .. k |-> Pieces(f)[i]]
  BY PiecesAre DEF Pieces
<1>3. OutputOf[f][k] = FlattenSeq([i \in 1 .. k |-> Piece(f, i)])
  BY <1>1 DEF OutputOf, Piece
<1>4. QED
  BY <1>2, <1>3 DEF Upto

LEMMA OutputFacts ==
  ASSUME NEW f \in Files
  PROVE  /\ OutputOf[f][0] = << >>
         /\ \A k \in 0 .. Ops(f) : OutputOf[f][k] \in Seq(Nat)
         /\ \A k \in 0 .. Ops(f) - 1 : OutputOf[f][k + 1] = OutputOf[f][k] \o Piece(f, k + 1)
         /\ \A k \in 1 .. Ops(f) : Piece(f, k) \in Seq(Nat)
         /\ NewFile[f] = OutputOf[f][Ops(f)]
         /\ NewFile[f] \in Seq(Nat)
         /\ \A k \in 0 .. Ops(f) : Continues(NewFile[f], OutputOf[f][k])
<1>1. 0 \in 0 .. Ops(f) /\ Ops(f) \in 0 .. Ops(f) /\ Ops(f) \in Nat
  BY PiecesAre
<1>2. OutputOf[f][0] = << >>
  BY <1>1, OutputIs, UptoNone
<1>3. ASSUME NEW k \in 0 .. Ops(f) PROVE OutputOf[f][k] \in Seq(Nat)
  BY OutputIs, PiecesAre, UptoType
<1>4. ASSUME NEW k \in 0 .. Ops(f) - 1 PROVE OutputOf[f][k + 1] = OutputOf[f][k] \o Piece(f, k + 1)
  <2>1. k \in 0 .. Len(Pieces(f)) - 1 /\ k + 1 \in 1 .. Ops(f) /\ k \in 0 .. Ops(f) /\ k + 1 \in 0 .. Ops(f)
    BY PiecesAre
  <2>2. Upto(Pieces(f), k + 1) = Upto(Pieces(f), k) \o Pieces(f)[k + 1]
    BY <2>1, PiecesAre, UptoStep
  <2>3. QED
    BY <2>1, <2>2, OutputIs, PiecesAre
<1>5. ASSUME NEW k \in 1 .. Ops(f) PROVE Piece(f, k) \in Seq(Nat)
  <2>1. Pieces(f)[k] \in Seq(Nat)
    BY PiecesAre
  <2>2. QED
    BY <2>1, PiecesAre
<1>6. NewFile[f] = OutputOf[f][Ops(f)]
  BY DEF NewFile, Ops
<1>7. ASSUME NEW k \in 0 .. Ops(f) PROVE Continues(NewFile[f], OutputOf[f][k])
  <2>1. Ops(f) \in k .. Len(Pieces(f)) /\ k \in 0 .. Len(Pieces(f))
    BY <1>1, PiecesAre
  <2>2. Continues(Upto(Pieces(f), Ops(f)), Upto(Pieces(f), k))
    BY <2>1, PiecesAre, UptoContinues
  <2>3. QED
    BY <1>1, <1>6, <2>2, OutputIs
<1>8. QED
  BY <1>1, <1>2, <1>3, <1>4, <1>5, <1>6, <1>7

\* An operation that covers an old file of the new one's size amounts to the file.
LEMMA FullFileIs ==
  ASSUME NEW f \in Files, Patch[f].kind = "rsync", FullFile(f, Patch[f].ops[1])
  PROVE  /\ Patch[f].ops[1].file \in DOMAIN Old
         /\ Old[Patch[f].ops[1].file] = NewFile[f]
<1> DEFINE op == Patch[f].ops[1]
<1>1. 1 \in 1 .. Ops(f) /\ 0 \in 0 .. Ops(f) - 1 /\ 1 \in 0 .. Ops(f)
  BY PatchShape DEF Ops
<1>2. op \in SyncOps
  BY <1>1, PiecesAre
<1>3. op.type = "range" /\ op.first = 0 /\ Len(Old[op.file]) = Len(NewFile[f]) /\ op.span = Len(NewFile[f])
  BY DEF FullFile
<1>4. op.file \in DOMAIN Old
  BY <1>2, <1>3 DEF SyncOps
<1>5. Old[op.file] \in Seq(Nat)
  BY <1>4, OldIs
<1>6. Data(op) = Old[op.file]
  <2>1. Data(op) = Units(Old[op.file], 0, Len(Old[op.file]))
    BY <1>3 DEF Data
  <2>2. Units(Old[op.file], 0, Len(Old[op.file])) = SubSeq(Old[op.file], 1, Len(Old[op.file]))
    BY <1>5 DEF Units
  <2>3. \A s \in Seq(Nat) : SubSeq(s, 1, Len(s)) = s
    OBVIOUS
  <2>4. QED
    BY <1>5, <2>1, <2>2, <2>3, Zenon
<1>7. OutputOf[f][0 + 1] = OutputOf[f][0] \o Piece(f, 0 + 1) /\ OutputOf[f][0] = << >>
  BY <1>1, OutputFacts
<1>8. OutputOf[f][1] = Old[op.file]
  BY <1>5, <1>6, <1>7 DEF Piece
<1>9. Continues(NewFile[f], Old[op.file]) /\ NewFile[f] \in Seq(Nat)
  BY <1>1, <1>8, OutputFacts
<1>10. \A i \in 1 .. Len(Old[op.file]) : Old[op.file][i] = NewFile[f][i]
  BY <1>9 DEF Continues
<1>11. Old[op.file] = NewFile[f]
  BY <1>3, <1>5, <1>9, <1>10, SameSequence
<1>12. QED
  BY <1>4, <1>11

-----------------------------------------------------------------------------
(* The overlay format: encoding                                             *)

Cells == [op : {"skip", "fresh", "unit", "hey"}, n : Nat]

\* The parts of the definition of Overlay.
Same(buf, base, at) == [i \in DOMAIN buf |-> at + i <= Len(base) /\ base[at + i] = buf[i]]

RunSet(buf, same, i) == {j \in i .. Len(buf) : \A k \in i .. j : same[k] = same[i]}

Starts(same, i) == i = 1 \/ same[i] # same[i - 1]

Head1(buf, same, i) ==
  IF Starts(same, i)
    THEN <<IF same[i] THEN Skip(Cardinality(RunSet(buf, same, i))) ELSE Fresh(Cardinality(RunSet(buf, same, i)))>>
    ELSE << >>

Part(buf, same, i) == Head1(buf, same, i) \o IF same[i] THEN << >> ELSE <<Unit(buf[i])>>

Parts(buf, base, at) == [i \in DOMAIN buf |-> Part(buf, Same(buf, base, at), i)]

LEMMA OverlayIs ==
  ASSUME NEW buf, NEW base, NEW at
  PROVE  Overlay(buf, base, at) = FlattenSeq(Parts(buf, base, at))
  BY Zenon DEF Overlay, Parts, Part, Head1, Starts, RunSet, Same

LEMMA CellsAre ==
  /\ \A n \in Nat : Skip(n) \in Cells /\ Fresh(n) \in Cells /\ Unit(n) \in Cells
  /\ Hey \in Cells
  BY DEF Cells, Skip, Fresh, Unit, Hey

LEMMA PartType ==
  ASSUME NEW buf \in Seq(Nat), NEW same, NEW i \in 1 .. Len(buf)
  PROVE  Part(buf, same, i) \in Seq(Cells) /\ Head1(buf, same, i) \in Seq(Cells)
<1>1. Cardinality(RunSet(buf, same, i)) \in Nat
  <2>1. IsFiniteSet(i .. Len(buf)) /\ RunSet(buf, same, i) \subseteq i .. Len(buf)
    BY FS_Interval DEF RunSet
  <2>2. IsFiniteSet(RunSet(buf, same, i))
    BY <2>1, FS_Subset
  <2>3. QED
    BY <2>2, FS_CardinalityType
<1>2. Head1(buf, same, i) \in Seq(Cells)
  BY <1>1, CellsAre DEF Head1
<1>3. (IF same[i] THEN << >> ELSE <<Unit(buf[i])>>) \in Seq(Cells)
  <2>1. buf[i] \in Nat
    OBVIOUS
  <2>2. Unit(buf[i]) \in Cells
    BY <2>1, CellsAre
  <2>3. QED
    BY <2>2
<1>4. QED
  BY <1>2, <1>3 DEF Part

LEMMA PartsType ==
  ASSUME NEW buf \in Seq(Nat), NEW base, NEW at
  PROVE  Parts(buf, base, at) \in Seq(Seq(Cells)) /\ Len(Parts(buf, base, at)) = Len(buf)
<1>1. \A i \in 1 .. Len(buf) : Part(buf, Same(buf, base, at), i) \in Seq(Cells)
  BY PartType
<1>2. Parts(buf, base, at) = [i \in 1 .. Len(buf) |-> Part(buf, Same(buf, base, at), i)]
  BY DEF Parts
<1>3. Len(buf) \in Nat
  OBVIOUS
<1>4. QED
  BY <1>1, <1>2, <1>3

LEMMA OverlayType ==
  ASSUME NEW buf \in Seq(Nat), NEW base, NEW at
  PROVE  Overlay(buf, base, at) \in Seq(Cells)
  BY PartsType, OverlayIs, FlattenType

-----------------------------------------------------------------------------
(* The inductive invariant: where a session is                              *)

Place == offset \div MsgLen

\* The reader is where a message starts unless a read just failed, and what the source
\* saved is behind it.
ReaderInv ==
  /\ ReaderTypeOK
  /\ source.pos = offset
  /\ session # "idle" => offset \in Boundary
  /\ WaitsForSource
  /\ saveState = "hasSourceCheckpoint" => sourceCheckpoint \in Nat /\ sourceCheckpoint <= offset

TypeInv ==
  /\ bowl \in {"fresh", "overlay"}
  /\ session \in {"idle", "running", "done"}
  /\ oldOffset \in Int
  /\ writer \in Writers
  /\ recorded \in [Files -> Records]
  /\ kept \in Saves \cup {NoCheckpoint}

\* File f is written by an entry writer, and k of its operations are over.
Applying(f, k) ==
  /\ f \in Files
  /\ f \notin Skipped
  /\ k \in 0 .. Ops(f)
  /\ Patch[f].kind = "rsync" => k # 0 /\ ~FullFile(f, Patch[f].ops[1])

\* A writer and an offset in the old file are where k operations of file f bring them.
InStep(f, k, w, o) ==
  /\ w.pos = Len(OutputOf[f][k])
  /\ Patch[f].kind = "bsdiff" => o = OldOffsetOf[f][k + 1]

AtHeader == pc = "header" /\ Place = Start(file)

AtSkip == pc = "skip" /\ file \in Skipped /\ Place > Start(file) /\ Place < Start(file + 1)

AtFirst == pc = "first" /\ file \notin Skipped /\ Patch[file].kind = "rsync" /\ Place = Start(file) + 1

AtBsdiff == pc = "bsdiff" /\ file \notin Skipped /\ Patch[file].kind = "bsdiff" /\ Place = Start(file) + 1

AtTail ==
  /\ pc = "tail"
  /\ file \notin Skipped
  /\ Patch[file].kind = "rsync"
  /\ FullFile(file, Patch[file].ops[1])
  /\ Place > Start(file) + 1
  /\ Place < Start(file + 1)

AtOp ==
  /\ pc \in {"top", "read"}
  /\ Applying(file, OpsBefore(file, offset))
  /\ InStep(file, OpsBefore(file, offset), writer, oldOffset)

AtSentinel ==
  /\ pc = "sentinel"
  /\ file \notin Skipped
  /\ Patch[file].kind = "bsdiff"
  /\ Place = Preamble[file] + Ops(file) + 1
  /\ writer.pos = Len(NewFile[file])

\* What is read next follows from where the reader is in the patch.
PlaceInv ==
  /\ session = "running" =>
       /\ file \in Files
       /\ AtHeader \/ AtSkip \/ AtFirst \/ AtBsdiff \/ AtTail \/ AtOp \/ AtSentinel
  /\ session = "done" => Place = Len(Stream)

\* The last checkpoint was made between two operations.
KeptInv ==
  kept # NoCheckpoint =>
    /\ CanResume(kept.message)
    /\ kept.message.offset \in Boundary
    /\ Applying(kept.file, OpsBefore(kept.file, kept.message.offset))
    /\ InStep(kept.file, OpsBefore(kept.file, kept.message.offset), kept.writer, kept.oldOffset)

ControlInv == ReaderInv /\ TypeInv /\ PlaceInv /\ KeptInv

LEMMA StreamType == Stream \in Seq(AnyMessage) /\ Len(Stream) \in Nat
  BY AllIs, FlattenType DEF Stream, All

\* A number of bytes at a boundary is a number of messages.
LEMMA BoundaryIs ==
  ASSUME NEW o \in Boundary
  PROVE  /\ o \in Nat
         /\ o \div MsgLen \in 0 .. Len(Stream)
         /\ o = MsgLen * (o \div MsgLen)
<1>1. PICK i \in 0 .. Len(Stream) : o = 2 * i
  BY StreamAssumption DEF MsgLen
<1>2. i \in Nat
  BY StreamType
<1>3. o \div 2 = i
  BY <1>1, <1>2
<1>4. QED
  BY <1>1, <1>2, <1>3 DEF MsgLen

LEMMA PlacesAre ==
  ASSUME NEW i \in 0 .. Len(Stream)
  PROVE  MsgLen * i \in Boundary /\ (MsgLen * i) \div MsgLen = i
<1>1. i \in Nat
  BY StreamType
<1>2. (2 * i) \div 2 = i
  BY <1>1
<1>3. QED
  BY <1>2, StreamAssumption DEF MsgLen

\* A message that is read is the next one, and keeps the reader in order.
LEMMA ReadFacts ==
  ASSUME ReaderInv, session # "idle", ReadMessage
  PROVE  /\ ReaderInv'
         /\ offset' \in Boundary
         /\ Place \in 0 .. Len(Stream) - 1
         /\ Place' = Place + 1
         /\ Message = Stream[Place + 1]
<1>1. PICK b \in Boundary : EndsAt(b) /\ Advance(b - source.pos)
  BY DEF ReadMessage
<1>2. offset \in Nat /\ Place \in 0 .. Len(Stream) /\ offset = 2 * Place /\ source.pos = offset
  BY BoundaryIs DEF ReaderInv, Place, MsgLen
<1>3. b \in Nat /\ b \div MsgLen \in 0 .. Len(Stream) /\ b = 2 * (b \div MsgLen)
  BY BoundaryIs DEF MsgLen
<1> DEFINE i == b \div MsgLen
<1>4. i > Place
  <2> HIDE DEF i
  <2>1. source.pos < b
    BY <1>1 DEF EndsAt
  <2>2. QED
    BY <1>2, <1>3, <2>1 DEF i
<1>5. Place + 1 \in 0 .. Len(Stream) /\ i \in Nat /\ i <= Len(Stream) /\ Place \in Nat
  BY <1>2, <1>3, <1>4, StreamType
<1>6. 2 * (Place + 1) \in Boundary
  BY <1>5, PlacesAre DEF MsgLen
<1>7. i = Place + 1 /\ b = offset + 2
  <2>1. 2 * (Place + 1) <= source.pos \/ b <= 2 * (Place + 1)
    BY <1>1, <1>6 DEF EndsAt
  <2> HIDE DEF i
  <2>2. QED
    BY <1>2, <1>3, <1>4, <1>5, <2>1 DEF i
<1>8. b - source.pos = 2
  BY <1>2, <1>7
<1>9. offset' = offset + 2 /\ offset' \in Nat /\ offset' = b
  <2>1. offset' = offset + (b - source.pos)
    BY <1>1 DEF Advance
  <2>2. QED
    BY <1>2, <1>7, <1>8, <2>1
<1>10. Place' = Place + 1
  BY <1>7, <1>9 DEF Place
<1>11. ReaderInv'
  <2>1. CASE source' = [source EXCEPT !.pos = @ + 2] /\ UNCHANGED <<saveState, sourceCheckpoint>>
    BY <1>2, <1>9, <2>1 DEF ReaderInv, ReaderTypeOK, WaitsForSource
  <2>2. CASE /\ source.wants
             /\ source' = [pos |-> source.pos + 2, wants |-> FALSE]
             /\ sourceCheckpoint' \in source.pos .. source.pos + 2
             /\ saveState' = "hasSourceCheckpoint"
    BY <1>2, <1>9, <2>2 DEF ReaderInv, ReaderTypeOK, WaitsForSource
  <2>3. QED
    BY <1>1, <1>8, <2>1, <2>2 DEF Advance
<1>12. Message = Stream[Place + 1]
  BY <1>2 DEF Message, Place
<1>13. QED
  BY <1>5, <1>9, <1>10, <1>11, <1>12

-----------------------------------------------------------------------------
(* The message that comes next                                              *)

\* A file whose bsdiff header looks like an end marker is not skipped to its end.
SkipsWhole ==
  \A f \in Skipped \cap Files : Patch[f].kind = "bsdiff" => Patch[f].target # EndMarker

LEMMA FileSpan ==
  ASSUME NEW f \in Files
  PROVE  /\ Start(f) \in Nat
         /\ Start(f + 1) = Start(f) + Len(Messages(f))
         /\ Start(f + 1) <= Len(Stream)
         /\ Len(Messages(f)) \in Nat
         /\ Len(Messages(f)) = Opening(f) + Ops(f) + Opening(f)
         /\ Opening(f) \in {1, 2}
         /\ Ops(f) \in Nat
         /\ Len(Messages(f)) >= 3
<1>1. Len(Messages(f)) \in Nat /\ Ops(f) \in Nat
  BY MessagesAre, PiecesAre
<1>2. Len(Messages(f)) = Opening(f) + Ops(f) + Opening(f) /\ Opening(f) \in {1, 2}
  <2>1. Len(Messages(f)) = IF Patch[f].kind = "bsdiff" THEN Ops(f) + 4 ELSE Ops(f) + 2
    BY MessagesAre, Zenon
  <2>2. QED
    BY <1>1, <2>1 DEF Opening
<1>3. Len(Messages(f)) >= 3
  <2>1. Patch[f].kind = "rsync" => Ops(f) # 0
    BY PatchShape DEF Ops
  <2>2. QED
    BY <1>1, <1>2, <2>1, PatchShape DEF Opening
<1>4. Start(f) \in Nat /\ Start(f + 1) = Start(f) + Len(Messages(f))
  BY StartsAre
<1>5. Len(Messages(f)) \in 1 .. Len(Messages(f))
  BY <1>1, <1>3
<1>6. Start(f) + Len(Messages(f)) \in 1 .. Len(Stream)
  BY <1>5, StreamAt
<1>7. Start(f + 1) <= Len(Stream)
  BY <1>4, <1>6
<1>8. QED
  BY <1>1, <1>2, <1>3, <1>4, <1>7

LEMMA Inside ==
  ASSUME NEW f \in Files, Place \in Nat, Place >= Start(f), Place < Start(f + 1)
  PROVE  /\ Place - Start(f) + 1 \in 1 .. Len(Messages(f))
         /\ Stream[Place + 1] = Messages(f)[Place - Start(f) + 1]
<1> DEFINE i == Place - Start(f) + 1
<1>1. i \in 1 .. Len(Messages(f)) /\ Start(f) + i = Place + 1
  BY FileSpan, SMTT(60)
<1>2. Stream[Start(f) + i] = Messages(f)[i]
  <2> HIDE DEF i
  <2>1. QED
    BY <1>1, StreamAt
<1>3. QED
  BY <1>1, <1>2

\* Which messages are what, by their numbers.
LEMMA OpMessage ==
  ASSUME NEW f \in Files, NEW i \in 1 .. Len(Messages(f)), i > Opening(f), i <= Opening(f) + Ops(f)
  PROVE  /\ i - Opening(f) \in 1 .. Ops(f)
         /\ Messages(f)[i] = Patch[f].ops[i - Opening(f)]
         /\ Messages(f)[i].type \in IF Patch[f].kind = "rsync" THEN {"range", "data"} ELSE {"ctrl"}
<1>1. i - Opening(f) \in 1 .. Ops(f) /\ Opening(f) + (i - Opening(f)) = i
  BY FileSpan, SMTT(60)
<1>2. Messages(f)[i] = Patch[f].ops[i - Opening(f)]
  <2>1. \A j \in 1 .. Ops(f) : Messages(f)[Opening(f) + j] = Patch[f].ops[j]
    BY MessagesAre, Zenon
  <2>2. QED
    BY <1>1, <2>1
<1>3. Patch[f].ops[i - Opening(f)] \in IF Patch[f].kind = "rsync" THEN SyncOps ELSE Controls
  BY <1>1, PiecesAre
<1>4. \A c \in Controls : c.type = "ctrl"
  BY DEF Controls
<1>5. QED
  BY <1>1, <1>2, <1>3, <1>4, DataType

LEMMA EndMessage ==
  ASSUME NEW f \in Files, NEW i \in 1 .. Len(Messages(f))
  PROVE  /\ IsEnd(Messages(f)[i]) <=> i = Len(Messages(f))
         /\ f \in Skipped /\ SkipsWhole => (ReadsAsEnd(Messages(f)[i]) <=> i = Len(Messages(f)))
<1>1. Len(Messages(f)) = Opening(f) + Ops(f) + Opening(f) /\ Opening(f) \in {1, 2} /\ Ops(f) \in Nat
  BY FileSpan
<1>2. /\ Messages(f)[1] = [type |-> "header", file |-> f]
      /\ Messages(f)[Len(Messages(f))] = [type |-> "hey"]
      /\ Patch[f].kind = "bsdiff" =>
           /\ Messages(f)[2] = [type |-> "bsdiff", target |-> Patch[f].target]
           /\ Messages(f)[Ops(f) + 3] = [type |-> "eof"]
  BY MessagesAre, Zenon
<1> DEFINE m == Messages(f)[i]
<1>3. CASE i = 1
  <2>1. m.type = "header" /\ i # Len(Messages(f))
    BY <1>1, <1>2, <1>3, FileSpan
  <2>2. QED
    BY <2>1 DEF IsEnd, ReadsAsEnd
<1>4. CASE i = 2 /\ Patch[f].kind = "bsdiff"
  <2>1. m.type = "bsdiff" /\ m.target = Patch[f].target
    BY <1>2, <1>4
  <2>2. i # Len(Messages(f))
    BY <1>1, <1>4 DEF Opening
  <2>3. f \in Skipped /\ SkipsWhole => Patch[f].target # EndMarker
    BY <1>4 DEF SkipsWhole
  <2>4. QED
    BY <2>1, <2>2, <2>3 DEF IsEnd, ReadsAsEnd
<1>5. CASE i > Opening(f) /\ i <= Opening(f) + Ops(f)
  <2>1. m.type \in {"range", "data", "ctrl"}
    BY <1>5, OpMessage
  <2>2. i # Len(Messages(f))
    BY <1>1, <1>5
  <2>3. QED
    BY <2>1, <2>2 DEF IsEnd, ReadsAsEnd
<1>6. CASE i = Len(Messages(f))
  <2>1. m.type = "hey"
    BY <1>2, <1>6
  <2>2. QED
    BY <1>6, <2>1 DEF IsEnd, ReadsAsEnd
<1>7. CASE i = Ops(f) + 3 /\ Patch[f].kind = "bsdiff"
  <2>1. m.type = "eof"
    BY <1>2, <1>7
  <2>2. i # Len(Messages(f))
    BY <1>1, <1>7 DEF Opening
  <2>3. QED
    BY <2>1, <2>2 DEF IsEnd, ReadsAsEnd
<1>8. QED
  BY <1>1, <1>3, <1>4, <1>5, <1>6, <1>7, PatchShape DEF Opening

-----------------------------------------------------------------------------
(* Every step keeps the session where its patch says                        *)

LEMMA KeptSame == ASSUME KeptInv, UNCHANGED kept PROVE KeptInv'
  BY DEF KeptInv

LEMMA PlaceIs ==
  ASSUME ReaderInv, session # "idle"
  PROVE  Place \in Nat /\ Place <= Len(Stream) /\ offset = MsgLen * Place
  BY BoundaryIs, StreamType DEF ReaderInv, Place

LEMMA OpsBeforeIs ==
  ASSUME ReaderInv, session # "idle", file \in Files
  PROVE  OpsBefore(file, offset) = Place - Start(file) - Opening(file)
  BY PlaceIs, PreambleIs, FileSpan, SMTT(60) DEF OpsBefore, Place

\* The last message of a file leads to the next one, or to the end.
LEMMA NextFilePlace ==
  ASSUME file \in Files, session = "running", NextFile, Place' = Start(file + 1)
  PROVE  session' \in {"running", "done"} /\ PlaceInv'
<1>1. CASE file = Len(Patch)
  <2>1. session' = "done" /\ Place' = Len(Stream)
    BY <1>1, StartsAre DEF NextFile
  <2>2. QED
    BY <2>1 DEF PlaceInv
<1>2. CASE file # Len(Patch)
  <2>1. file' = file + 1 /\ file + 1 \in Files
    BY <1>2, FilesAre DEF NextFile
  <2>2. session' = "running" /\ pc' = "header"
    BY <1>2 DEF NextFile
  <2>3. AtHeader'
    BY <2>1, <2>2 DEF AtHeader, Start
  <2>4. QED
    BY <2>1, <2>2, <2>3 DEF PlaceInv
<1>3. QED
  BY <1>1, <1>2

LEMMA InitControl == Init => ControlInv
<1> SUFFICES ASSUME Init PROVE ControlInv
  OBVIOUS
<1>1. ReaderInv
  BY BoundaryAssumption DEF Init, NewReadContext, ReaderInv, ReaderTypeOK, WaitsForSource
<1>2. writer \in Writers /\ recorded \in [Files -> Records]
  BY DEF Init, NoWriter, Unrecorded, Writers, Records
<1>3. TypeInv
  BY <1>2, BowlsAssumption DEF Init, TypeInv
<1>4. QED
  BY <1>1, <1>3 DEF Init, ControlInv, PlaceInv, KeptInv

LEMMA StartControl == ASSUME ControlInv, StartSession, UNCHANGED bowl PROVE ControlInv'
<1> USE DEF ControlInv
<1>1. ReaderInv'
  BY BoundaryAssumption DEF StartSession, Rewind, ReaderInv, ReaderTypeOK, WaitsForSource
<1>2. writer' \in Writers /\ recorded' \in [Files -> Records]
  BY DEF StartSession, NoWriter, Unrecorded, Writers, Records
<1>3. TypeInv'
  BY <1>2 DEF StartSession, TypeInv
<1>4. file' = 1 /\ 1 \in Files /\ session' = "running" /\ pc' = "header"
  BY FilesAre DEF StartSession
<1>5. Place' = 0
  BY DEF StartSession, Rewind, Place, MsgLen
<1>6. AtHeader'
  BY <1>4, <1>5, StartsAre DEF AtHeader, Start
<1>7. PlaceInv'
  BY <1>4, <1>6 DEF PlaceInv
<1>8. KeptInv'
  BY KeptSame DEF StartSession
<1>9. QED
  BY <1>1, <1>3, <1>7, <1>8

LEMMA ResumeControl == ASSUME ControlInv, ResumeSession, UNCHANGED bowl PROVE ControlInv'
<1> USE DEF ControlInv
<1>1. kept \in Saves /\ CanResume(kept.message)
  BY DEF ResumeSession, KeptInv, TypeInv
<1>2. /\ kept.message \in Checkpoints /\ kept.file \in Files /\ kept.oldOffset \in Int
      /\ kept.writer \in Writers /\ kept.recorded \in [Files -> Records]
  BY <1>1 DEF Saves
<1>3. Resume(kept.message) /\ session' = "running"
  BY <1>1 DEF ResumeSession
<1>4. PICK s \in 0 .. kept.message.source :
        /\ source' = [pos |-> s + (kept.message.offset - s), wants |-> FALSE]
        /\ offset' = kept.message.offset
        /\ saveState' = "idle"
        /\ sourceCheckpoint' = NoCheckpoint
  BY <1>3 DEF Resume
<1>5. kept.message.offset \in Nat /\ kept.message.source \in Nat /\ kept.message.offset \in Boundary
  BY <1>1, <1>2 DEF Checkpoints, KeptInv, ResumeSession
<1>6. s + (kept.message.offset - s) = kept.message.offset
  BY <1>4, <1>5
<1>7. ReaderInv'
  BY <1>4, <1>5, <1>6 DEF ReaderInv, ReaderTypeOK, WaitsForSource
<1>8. TypeInv'
  BY <1>2, <1>3 DEF ResumeSession, TypeInv
<1>9. pc' = "top" /\ file' = kept.file /\ oldOffset' = kept.oldOffset /\ writer' = kept.writer
  BY DEF ResumeSession
<1>10. AtOp'
  <2>1. /\ Applying(kept.file, OpsBefore(kept.file, kept.message.offset))
        /\ InStep(kept.file, OpsBefore(kept.file, kept.message.offset), kept.writer, kept.oldOffset)
    BY DEF KeptInv, ResumeSession
  <2>2. QED
    BY <1>4, <1>9, <2>1 DEF AtOp
<1>11. PlaceInv'
  BY <1>2, <1>3, <1>9, <1>10 DEF PlaceInv
<1>12. KeptInv'
  BY KeptSame DEF ResumeSession
<1>13. QED
  BY <1>7, <1>8, <1>11, <1>12

LEMMA CrashControl == ASSUME ControlInv, Crash PROVE ControlInv'
<1>1. ReaderInv'
  <2>1. CASE UNCHANGED reader
    BY <2>1 DEF ControlInv, Crash, reader, ReaderInv, ReaderTypeOK, WaitsForSource
  <2>2. CASE ReadPart
    <3>1. PICK b \in Boundary : \E n \in 1 .. b - source.pos - 1 : Advance(n)
      BY <2>2 DEF ReadPart
    <3> PICK n \in 1 .. b - source.pos - 1 : Advance(n)
      BY <3>1
    <3>2. n \in Nat /\ source.pos = offset /\ offset \in Nat
      BY BoundaryAssumption, <3>1 DEF ControlInv, ReaderInv, ReaderTypeOK
    <3>3. offset' = offset + n /\ session' = "idle"
      BY DEF Advance, Crash
    <3>4. CASE source' = [source EXCEPT !.pos = @ + n] /\ UNCHANGED <<saveState, sourceCheckpoint>>
      BY <3>2, <3>3, <3>4 DEF ControlInv, ReaderInv, ReaderTypeOK, WaitsForSource
    <3>5. CASE /\ source' = [pos |-> source.pos + n, wants |-> FALSE]
               /\ sourceCheckpoint' \in source.pos .. source.pos + n
               /\ saveState' = "hasSourceCheckpoint"
      BY <3>2, <3>3, <3>5 DEF ReaderInv, ReaderTypeOK, WaitsForSource
    <3>6. QED
      BY <3>4, <3>5 DEF Advance
  <2>3. QED
    BY <2>1, <2>2 DEF Crash
<1>2. TypeInv'
  BY DEF ControlInv, Crash, TypeInv
<1>3. PlaceInv'
  BY DEF Crash, PlaceInv
<1>4. KeptInv'
  BY KeptSame DEF ControlInv, Crash
<1>5. QED
  BY <1>1, <1>2, <1>3, <1>4 DEF ControlInv

LEMMA SameControl == ASSUME ControlInv, UNCHANGED vars PROVE ControlInv'
<1>1. ReaderInv' /\ TypeInv' /\ KeptInv'
  BY KeptSame DEF ControlInv, vars, local, reader, ReaderInv, ReaderTypeOK, WaitsForSource, TypeInv
<1>2. PlaceInv'
  BY DEF ControlInv, vars, local, reader, PlaceInv, AtHeader, AtSkip, AtFirst, AtBsdiff, AtTail, AtOp, AtSentinel,
         Place, Start, Applying, InStep, OpsBefore
<1>3. QED
  BY <1>1, <1>2 DEF ControlInv

\* Reading messages leaves the bowl, the record and the checkpoint alone.
LEMMA GoesOn ==
  ASSUME ControlInv, ReaderInv', PlaceInv', UNCHANGED <<bowl, kept>>,
         session' \in {"running", "done"}, oldOffset' \in Int, writer' \in Writers,
         recorded' \in [Files -> Records]
  PROVE  ControlInv'
<1>1. TypeInv'
  BY DEF ControlInv, TypeInv
<1>2. QED
  BY <1>1, KeptSame DEF ControlInv

\* Reading a message that is not the file's last one, from the right place.
LEMMA ReadInside ==
  ASSUME ControlInv, ReadMessage, session = "running", Place >= Start(file), Place < Start(file + 1)
  PROVE  /\ ReaderInv'
         /\ file \in Files
         /\ Place \in Nat
         /\ Place' = Place + 1
         /\ Place - Start(file) + 1 \in 1 .. Len(Messages(file))
         /\ Message = Messages(file)[Place - Start(file) + 1]
<1>1. ReaderInv' /\ Place' = Place + 1 /\ Message = Stream[Place + 1] /\ Place \in Nat
  BY ReadFacts, PlaceIs DEF ControlInv
<1>2. file \in Files
  BY DEF ControlInv, PlaceInv
<1>3. QED
  BY <1>1, <1>2, Inside

LEMMA HeaderControl == ASSUME ControlInv, ReadHeader, UNCHANGED bowl PROVE ControlInv'
<1>1. file \in Files /\ Place = Start(file) /\ session = "running" /\ ReadMessage
  BY DEF ReadHeader, Reading, ControlInv, PlaceInv, AtHeader, AtSkip, AtFirst, AtBsdiff, AtTail, AtOp, AtSentinel
<1>2. Place >= Start(file) /\ Place < Start(file + 1) /\ Place - Start(file) + 1 = 1
  BY <1>1, FileSpan
<1>3. /\ ReaderInv' /\ Place \in Nat /\ Place' = Place + 1
      /\ Message = Messages(file)[1]
  BY <1>1, <1>2, ReadInside
<1>4. Messages(file)[1] = [type |-> "header", file |-> file]
  BY <1>1, MessagesAre, Zenon
<1>5. Message.type = "header" /\ Message.file = file
  BY <1>3, <1>4
<1>6. /\ pc' = IF file \in Skipped THEN "skip" ELSE IF Patch[file].kind = "rsync" THEN "first" ELSE "bsdiff"
      /\ session' = "running" /\ file' = file
  BY <1>1, <1>5 DEF ReadHeader, Goto
<1>7. Start(file)' = Start(file) /\ Start(file + 1)' = Start(file + 1)
  BY <1>6 DEF Start
<1>8. AtSkip' \/ AtFirst' \/ AtBsdiff'
  BY <1>1, <1>3, <1>6, <1>7, FileSpan, PatchShape DEF AtSkip, AtFirst, AtBsdiff
<1>9. PlaceInv'
  BY <1>1, <1>6, <1>8 DEF PlaceInv
<1>10. QED
  BY <1>3, <1>6, <1>9, GoesOn DEF ReadHeader, ControlInv, TypeInv

LEMMA SkipControl == ASSUME ControlInv, SkipsWhole, SkipMessage, UNCHANGED bowl PROVE ControlInv'
<1>1. file \in Files /\ AtSkip /\ session = "running" /\ ReadMessage
  BY DEF SkipMessage, Reading, ControlInv, PlaceInv, AtHeader, AtSkip, AtFirst, AtBsdiff, AtTail, AtOp, AtSentinel
<1>2. Place >= Start(file) /\ Place < Start(file + 1)
  BY <1>1, FileSpan, PlaceIs DEF AtSkip, ControlInv
<1>3. /\ ReaderInv' /\ Place \in Nat /\ Place' = Place + 1
      /\ Place - Start(file) + 1 \in 1 .. Len(Messages(file))
      /\ Message = Messages(file)[Place - Start(file) + 1]
  BY <1>1, <1>2, ReadInside
<1>4. ReadsAsEnd(Message) <=> Place - Start(file) + 1 = Len(Messages(file))
  BY <1>1, <1>3, EndMessage DEF AtSkip
<1>5. session' \in {"running", "done"} /\ PlaceInv'
  <2>1. CASE ReadsAsEnd(Message)
    <3>1. NextFile
      BY <2>1 DEF SkipMessage
    <3>2. Place' = Start(file + 1)
      BY <1>1, <1>3, <1>4, <2>1, FileSpan, SMTT(60)
    <3>3. QED
      BY <1>1, <3>1, <3>2, NextFilePlace
  <2>2. CASE ~ReadsAsEnd(Message)
    <3>1. pc' = "skip" /\ session' = "running" /\ file' = file
      BY <1>1, <2>2 DEF SkipMessage, Goto
    <3>2. Place' > Start(file) /\ Place' < Start(file + 1)
      BY <1>1, <1>3, <1>4, <2>2, FileSpan, SMTT(60) DEF AtSkip
    <3>3. AtSkip'
      BY <1>1, <3>1, <3>2 DEF AtSkip, Start
    <3>4. QED
      BY <1>1, <3>1, <3>3 DEF PlaceInv
  <2>3. QED
    BY <2>1, <2>2
<1>6. QED
  BY <1>3, <1>5, GoesOn DEF SkipMessage, ControlInv, TypeInv

\* The first operation of an rsync series.
LEMMA FirstOp ==
  ASSUME ControlInv, ReadMessage, Reading("first")
  PROVE  /\ file \in Files /\ AtFirst /\ session = "running"
         /\ ReaderInv' /\ Place' = Start(file) + 2
         /\ Message = Patch[file].ops[1]
         /\ Message \in SyncOps
<1>1. file \in Files /\ AtFirst /\ session = "running"
  BY DEF Reading, ControlInv, PlaceInv, AtHeader, AtSkip, AtFirst, AtBsdiff, AtTail, AtOp, AtSentinel
<1>2. Start(file) \in Nat /\ Place >= Start(file) /\ Place < Start(file + 1) /\ Place - Start(file) + 1 = 2
  BY <1>1, FileSpan DEF AtFirst
<1>3. ReaderInv' /\ Place \in Nat /\ Place' = Place + 1 /\ 2 \in 1 .. Len(Messages(file)) /\ Message = Messages(file)[2]
  BY <1>1, <1>2, ReadInside
<1>4. Opening(file) = 1 /\ Ops(file) # 0 /\ Ops(file) \in Nat
  BY <1>1, PatchShape DEF AtFirst, Opening, Ops
<1>5. Messages(file)[2] = Patch[file].ops[2 - Opening(file)] /\ 2 - Opening(file) \in 1 .. Ops(file)
  BY <1>1, <1>3, <1>4, OpMessage
<1>6. Message = Patch[file].ops[1] /\ 1 \in 1 .. Ops(file)
  BY <1>3, <1>4, <1>5
<1>7. Message \in SyncOps
  BY <1>1, <1>6, PiecesAre DEF AtFirst
<1>8. Place' = Start(file) + 2
  BY <1>1, <1>2, <1>3 DEF AtFirst
<1>9. QED
  BY <1>1, <1>3, <1>6, <1>7, <1>8

LEMMA TranspositionControl == ASSUME ControlInv, ReadTransposition, UNCHANGED bowl PROVE ControlInv'
<1>1. /\ file \in Files /\ AtFirst /\ session = "running"
      /\ ReaderInv' /\ Place' = Start(file) + 2
      /\ Message = Patch[file].ops[1] /\ Message \in SyncOps
      /\ FullFile(file, Message)
  BY FirstOp DEF ReadTransposition
<1>2. pc' = "tail" /\ session' = "running" /\ file' = file
  BY <1>1 DEF ReadTransposition, Goto
<1>3. AtTail'
  BY <1>1, <1>2, FileSpan DEF AtTail, AtFirst, Start
<1>4. recorded' \in [Files -> Records]
  <2>1. Message.file \in Nat
    <3>1. Message.type = "range"
      BY <1>1 DEF FullFile
    <3>2. Message.file \in DOMAIN Old
      BY <1>1, <3>1 DEF SyncOps
    <3>3. QED
      BY <3>2, OldAssumption
  <2>2. [how |-> "transposition", from |-> Message.file] \in Records
    BY <2>1 DEF Records
  <2>3. recorded \in [Files -> Records]
    BY DEF ControlInv, TypeInv
  <2>4. CASE recorded' = recorded
    BY <2>3, <2>4
  <2>5. CASE recorded' = [recorded EXCEPT ![file] = [how |-> "transposition", from |-> Message.file]]
    BY <2>2, <2>3, <2>5
  <2>6. QED
    BY <2>4, <2>5 DEF ReadTransposition
<1>5. PlaceInv'
  BY <1>1, <1>2, <1>3 DEF PlaceInv
<1>6. QED
  BY <1>1, <1>2, <1>4, <1>5, GoesOn DEF ReadTransposition, ControlInv, TypeInv

LEMMA TailControl == ASSUME ControlInv, ReadTail, UNCHANGED bowl PROVE ControlInv'
<1>1. file \in Files /\ AtTail /\ session = "running" /\ ReadMessage
  BY DEF ReadTail, Reading, ControlInv, PlaceInv, AtHeader, AtSkip, AtFirst, AtBsdiff, AtTail, AtOp, AtSentinel
<1>2. Place >= Start(file) /\ Place < Start(file + 1)
  BY <1>1, FileSpan, PlaceIs DEF AtTail, ControlInv
<1>3. /\ ReaderInv' /\ Place \in Nat /\ Place' = Place + 1
      /\ Place - Start(file) + 1 \in 1 .. Len(Messages(file))
      /\ Message = Messages(file)[Place - Start(file) + 1]
  BY <1>1, <1>2, ReadInside
<1>4. IsEnd(Message) <=> Place - Start(file) + 1 = Len(Messages(file))
  BY <1>1, <1>3, EndMessage
<1>5. session' \in {"running", "done"} /\ PlaceInv'
  <2>1. CASE IsEnd(Message)
    <3>1. NextFile
      BY <2>1 DEF ReadTail
    <3>2. Place' = Start(file + 1)
      BY <1>1, <1>3, <1>4, <2>1, FileSpan, SMTT(60)
    <3>3. QED
      BY <1>1, <3>1, <3>2, NextFilePlace
  <2>2. CASE ~IsEnd(Message)
    <3>1. pc' = "tail" /\ session' = "running" /\ file' = file
      BY <1>1, <2>2 DEF ReadTail, Goto
    <3>2. Place' > Start(file) + 1 /\ Place' < Start(file + 1)
      BY <1>1, <1>3, <1>4, <2>2, FileSpan, SMTT(60) DEF AtTail
    <3>3. AtTail'
      BY <1>1, <3>1, <3>2 DEF AtTail, Start
    <3>4. QED
      BY <1>1, <3>1, <3>3 DEF PlaceInv
  <2>3. QED
    BY <2>1, <2>2
<1>6. QED
  BY <1>3, <1>5, GoesOn DEF ReadTail, ControlInv, TypeInv

-----------------------------------------------------------------------------
(* Entry writers                                                            *)

\* What processing n buffered units leaves of a writer, and writes.
LEMMA ProcessedIs ==
  ASSUME NEW f, NEW w \in Writers, NEW n \in 0 .. Len(w.buf)
  PROVE  LET step == Processed(f, w, n)
         IN /\ step.writer \in Writers
            /\ step.cells = Overlay(SubSeq(w.buf, 1, n), Old[Patch[f].base], w.read)
            /\ step.cells \in Seq(Cells)
            /\ step.writer.pos = w.pos
            /\ step.writer.buf = SubSeq(w.buf, n + 1, Len(w.buf))
            /\ step.writer.read = w.read + n
            /\ step.writer.over = w.over + Len(step.cells)
<1> DEFINE cells == Overlay(SubSeq(w.buf, 1, n), Old[Patch[f].base], w.read)
           rest == SubSeq(w.buf, n + 1, Len(w.buf))
           next == [w EXCEPT !.buf = SubSeq(@, n + 1, Len(@)), !.read = @ + n, !.over = @ + Len(cells)]
<1>1. w.pos \in Nat /\ w.buf \in Seq(Nat) /\ w.read \in Nat /\ w.over \in Nat /\ w = [pos |-> w.pos, buf |-> w.buf, read |-> w.read, over |-> w.over]
  BY DEF Writers
<1>2. SubSeq(w.buf, 1, n) \in Seq(Nat)
  <2>1. \A i \in 1 .. n : w.buf[i] \in Nat
    BY <1>1, SMTT(60)
  <2>2. QED
    BY <1>1, <2>1, SMTT(60)
<1>3. rest \in Seq(Nat)
  <2>1. \A i \in n + 1 .. Len(w.buf) : w.buf[i] \in Nat
    BY <1>1, SMTT(60)
  <2>2. n + 1 \in Int /\ Len(w.buf) \in Int
    BY <1>1
  <2>3. QED
    BY <1>1, <2>1, <2>2
<1>4. cells \in Seq(Cells) /\ Len(cells) \in Nat
  <2>1. cells \in Seq(Cells)
    BY <1>2, OverlayType
  <2> HIDE DEF cells
  <2>2. QED
    BY <2>1
<1>5. Processed(f, w, n) = [writer |-> next, cells |-> cells]
  BY DEF Processed
<1>6. next = [pos |-> w.pos, buf |-> rest, read |-> w.read + n, over |-> w.over + Len(cells)]
  <2> HIDE DEF cells, rest
  <2>1. next = [w EXCEPT !.buf = rest, !.read = w.read + n, !.over = w.over + Len(cells)]
    BY <1>1 DEF rest
  <2> HIDE DEF next
  <2>2. QED
    BY <1>1, <2>1
<1>7. next \in Writers
  <2> HIDE DEF cells, rest, next
  <2>1. w.read + n \in Nat /\ w.over + Len(cells) \in Nat
    BY <1>1, <1>4
  <2>2. QED
    BY <1>1, <1>3, <1>6, <2>1 DEF Writers
<1>8. QED
  <2> HIDE DEF cells, rest, next
  <2>1. Processed(f, w, n).writer = next /\ Processed(f, w, n).cells = cells
    BY <1>5
  <2>2. next.pos = w.pos /\ next.buf = rest /\ next.read = w.read + n /\ next.over = w.over + Len(cells)
    BY <1>6
  <2>3. QED
    BY <1>4, <1>7, <2>1, <2>2 DEF cells, rest

LEMMA FlushedIs ==
  ASSUME NEW f, NEW w \in Writers
  PROVE  LET step == Flushed(f, w)
         IN /\ step.writer \in Writers
            /\ step.cells = Overlay(w.buf, Old[Patch[f].base], w.read)
            /\ step.cells \in Seq(Cells)
            /\ step.writer.pos = w.pos
            /\ step.writer.buf = << >>
            /\ step.writer.read = w.read + Len(w.buf)
            /\ step.writer.over = w.over + Len(step.cells)
<1>1. w.buf \in Seq(Nat) /\ Len(w.buf) \in 0 .. Len(w.buf)
  BY DEF Writers
<1>2. SubSeq(w.buf, 1, Len(w.buf)) = w.buf /\ SubSeq(w.buf, Len(w.buf) + 1, Len(w.buf)) = << >>
  BY <1>1
<1>3. QED
  BY <1>1, <1>2, ProcessedIs, ZenonT(60) DEF Flushed

\* What does not fit in the buffer is a whole number of buffers, and not all.
LEMMA OverflowIs ==
  ASSUME NEW w \in Writers
  PROVE  /\ Overflow(w) \in 0 .. Len(w.buf)
         /\ Len(w.buf) - Overflow(w) <= BufSize
<1>1. Len(w.buf) \in Nat
  BY DEF Writers
<1>2. CASE ~(Len(w.buf) > BufSize)
  <2>1. Overflow(w) = 0
    BY <1>2, Zenon DEF Overflow
  <2>2. BufSize \in Nat
    BY BufSizeAssumption
  <2>3. QED
    BY <1>1, <1>2, <2>1, <2>2
<1>3. CASE Len(w.buf) > BufSize
  <2> DEFINE x == Len(w.buf) - 1
             q == x \div BufSize
  <2>1. x \in Nat /\ BufSize \in Nat /\ BufSize > 0
    BY <1>1, <1>3, BufSizeAssumption
  <2>2. q \in Nat /\ q * BufSize <= x /\ x < q * BufSize + BufSize /\ q * BufSize \in Nat
    <3> HIDE DEF x
    <3>1. x = BufSize * (x \div BufSize) + (x % BufSize) /\ x % BufSize \in 0 .. BufSize - 1 /\ x \div BufSize \in Nat
      BY <2>1
    <3> HIDE DEF q
    <3>2. x = BufSize * q + (x % BufSize) /\ q \in Nat
      BY <3>1 DEF q
    <3>3. BufSize * q = q * BufSize /\ q * BufSize \in Nat
      BY <2>1, <3>2
    <3>4. x % BufSize \in Nat /\ x % BufSize < BufSize
      BY <2>1, <3>1
    <3>5. QED
      BY <2>1, <3>2, <3>3, <3>4
  <2>3. Overflow(w) = q * BufSize
    BY <1>3 DEF Overflow
  <2> DEFINE p == q * BufSize
  <2>4. p \in Nat /\ p <= x /\ x < p + BufSize /\ Overflow(w) = p
    BY <2>2, <2>3
  <2> HIDE DEF p, q
  <2>5. QED
    BY <1>1, <2>1, <2>4
<1>4. QED
  BY <1>2, <1>3

LEMMA NoWriterIs ==
  /\ NoWriter \in Writers
  /\ NoWriter.pos = 0 /\ NoWriter.buf = << >> /\ NoWriter.read = 0 /\ NoWriter.over = 0
  BY DEF NoWriter, Writers

\* A writer that got the units d.
Longer(w, d) == [w EXCEPT !.pos = @ + Len(d), !.buf = IF Overlaid(file) THEN @ \o d ELSE @]

LEMMA LongerIs ==
  ASSUME NEW w \in Writers, NEW d \in Seq(Nat)
  PROVE  /\ Longer(w, d) \in Writers
         /\ Longer(w, d).pos = w.pos + Len(d)
         /\ Longer(w, d).buf = IF Overlaid(file) THEN w.buf \o d ELSE w.buf
         /\ Longer(w, d).read = w.read
         /\ Longer(w, d).over = w.over
<1>1. w.pos \in Nat /\ w.buf \in Seq(Nat) /\ w.read \in Nat /\ w.over \in Nat /\ w = [pos |-> w.pos, buf |-> w.buf, read |-> w.read, over |-> w.over]
  BY DEF Writers
<1>2. w.pos + Len(d) \in Nat /\ w.buf \o d \in Seq(Nat)
  BY <1>1
<1> DEFINE buf == IF Overlaid(file) THEN w.buf \o d ELSE w.buf
<1>3. buf \in Seq(Nat)
  BY <1>1, <1>2
<1>4. Longer(w, d) = [w EXCEPT !.pos = w.pos + Len(d), !.buf = buf]
  BY <1>1 DEF Longer
<1> HIDE DEF buf
<1>5. Longer(w, d) = [pos |-> w.pos + Len(d), buf |-> buf, read |-> w.read, over |-> w.over]
  BY <1>1, <1>4
<1>6. Longer(w, d) \in Writers
  BY <1>1, <1>2, <1>3, <1>5 DEF Writers
<1>7. QED
  BY <1>5, <1>6 DEF buf

LEMMA WriteIs ==
  ASSUME NEW w \in Writers, NEW d \in Seq(Nat), Write(w, d)
  PROVE  /\ writer' \in Writers
         /\ writer'.pos = w.pos + Len(d)
         /\ Overlaid(file) =>
              /\ writer' = Processed(file, Longer(w, d), Overflow(Longer(w, d))).writer
              /\ disk' = [disk EXCEPT ![file] =
                            WriteAt(@, w.over, Processed(file, Longer(w, d), Overflow(Longer(w, d))).cells)]
         /\ ~Overlaid(file) =>
              /\ writer' = Longer(w, d)
              /\ disk' = [disk EXCEPT ![file] = WriteAt(@, w.pos, d)]
<1>1. CASE Overlaid(file)
  <2>1. /\ writer' = Processed(file, Longer(w, d), Overflow(Longer(w, d))).writer
        /\ disk' = [disk EXCEPT ![file] =
                      WriteAt(@, w.over, Processed(file, Longer(w, d), Overflow(Longer(w, d))).cells)]
    BY <1>1, Zenon DEF Write, Longer, WriterPos
  <2>2. writer' \in Writers /\ writer'.pos = Longer(w, d).pos
    <3> DEFINE l == Longer(w, d)
    <3>1. l \in Writers
      BY LongerIs
    <3> HIDE DEF l
    <3>2. Overflow(l) \in 0 .. Len(l.buf)
      BY <3>1, OverflowIs
    <3>3. Processed(file, l, Overflow(l)).writer \in Writers /\ Processed(file, l, Overflow(l)).writer.pos = l.pos
      BY <3>1, <3>2, ProcessedIs, ZenonT(60)
    <3>4. QED
      BY <2>1, <3>3 DEF l
  <2>3. QED
    BY <1>1, <2>1, <2>2, LongerIs
<1>2. CASE ~Overlaid(file)
  <2>1. /\ writer' = [writer |-> Longer(w, d), cells |-> d].writer
        /\ disk' = [disk EXCEPT ![file] = WriteAt(@, w.pos, [writer |-> Longer(w, d), cells |-> d].cells)]
    BY <1>2, Zenon DEF Write, Longer, WriterPos
  <2>2. writer' = Longer(w, d) /\ disk' = [disk EXCEPT ![file] = WriteAt(@, w.pos, d)]
    BY <2>1
  <2>3. QED
    BY <1>2, <2>2, LongerIs
<1>3. QED
  BY <1>1, <1>2

-----------------------------------------------------------------------------
(* The steps of a file's operations                                         *)

\* k operations of the file are over, and one is read.
LEMMA NextOp ==
  ASSUME ControlInv, ReadMessage, session = "running", AtOp
  PROVE  LET k == OpsBefore(file, offset)
         IN /\ ReaderInv' /\ file \in Files /\ k \in 0 .. Ops(file)
            /\ Place = Start(file) + Opening(file) + k
            /\ Place' = Place + 1
            /\ k = Ops(file) => /\ ~(Message.type \in {"range", "data", "ctrl"})
                                /\ IsEnd(Message) <=> Patch[file].kind = "rsync"
                                /\ Message.type = "eof" <=> Patch[file].kind = "bsdiff"
            /\ k # Ops(file) => /\ Message = Patch[file].ops[k + 1]
                                /\ Message \in IF Patch[file].kind = "rsync" THEN SyncOps ELSE Controls
                                /\ ~IsEnd(Message)
                                /\ Message.type # "eof"
                                /\ k + 1 \in 0 .. Ops(file)
<1> DEFINE k == OpsBefore(file, offset)
           i == Opening(file) + k + 1
<1>1. file \in Files /\ Applying(file, k) /\ ReaderInv
  BY DEF ControlInv, PlaceInv, AtOp
<1>2. k \in 0 .. Ops(file) /\ k = Place - Start(file) - Opening(file) /\ Place \in Nat
  BY <1>1, OpsBeforeIs, PlaceIs DEF Applying
<1>3. Start(file) \in Nat /\ Opening(file) \in {1, 2} /\ Ops(file) \in Nat
  BY <1>1, FileSpan
<1> HIDE DEF k
<1>4. Place = Start(file) + Opening(file) + k /\ Place >= Start(file) /\ Place < Start(file + 1)
  BY <1>1, <1>2, <1>3, FileSpan, SMTT(60)
<1>5. Place - Start(file) + 1 = i
  BY <1>2, <1>3, <1>4
<1>6. ReaderInv' /\ Place' = Place + 1 /\ i \in 1 .. Len(Messages(file)) /\ Message = Messages(file)[i]
  BY <1>4, <1>5, ReadInside
<1>7. ASSUME k = Ops(file)
      PROVE  /\ ~(Message.type \in {"range", "data", "ctrl"})
             /\ IsEnd(Message) <=> Patch[file].kind = "rsync"
             /\ Message.type = "eof" <=> Patch[file].kind = "bsdiff"
  <2>1. CASE Patch[file].kind = "rsync"
    <3>1. i = Len(Messages(file))
      BY <1>1, <1>3, <1>7, <2>1, FileSpan DEF Opening
    <3>2. Messages(file)[Len(Messages(file))] = [type |-> "hey"]
      BY <1>1, MessagesAre, Zenon
    <3>3. Message.type = "hey"
      BY <1>6, <3>1, <3>2
    <3>4. QED
      BY <2>1, <3>3 DEF IsEnd
  <2>2. CASE Patch[file].kind = "bsdiff"
    <3>1. i = Ops(file) + 3
      BY <1>3, <1>7, <2>2 DEF Opening
    <3>2. Messages(file)[Ops(file) + 3] = [type |-> "eof"]
      BY <1>1, <2>2, MessagesAre, Zenon
    <3>3. Message.type = "eof"
      BY <1>6, <3>1, <3>2
    <3>4. QED
      BY <2>2, <3>3 DEF IsEnd
  <2>3. QED
    BY <1>1, <2>1, <2>2, PatchShape
<1>8. ASSUME k # Ops(file)
      PROVE  /\ Message = Patch[file].ops[k + 1]
             /\ Message \in IF Patch[file].kind = "rsync" THEN SyncOps ELSE Controls
             /\ ~IsEnd(Message)
             /\ Message.type # "eof"
             /\ k + 1 \in 0 .. Ops(file)
  <2>1. i > Opening(file) /\ i <= Opening(file) + Ops(file) /\ i - Opening(file) = k + 1 /\ k + 1 \in 1 .. Ops(file)
    BY <1>2, <1>3, <1>8
  <2> HIDE DEF i
  <2>2. /\ Messages(file)[i] = Patch[file].ops[k + 1]
        /\ Messages(file)[i].type \in IF Patch[file].kind = "rsync" THEN {"range", "data"} ELSE {"ctrl"}
    BY <1>1, <1>6, <2>1, OpMessage
  <2>3. Patch[file].ops[k + 1] \in IF Patch[file].kind = "rsync" THEN SyncOps ELSE Controls
    BY <1>1, <2>1, PiecesAre
  <2>4. Message.type \in {"range", "data", "ctrl"}
    BY <1>6, <2>2
  <2>5. QED
    BY <1>6, <2>1, <2>2, <2>3, <2>4 DEF IsEnd
<1>9. QED
  BY <1>1, <1>2, <1>4, <1>6, <1>7, <1>8 DEF k

\* After k operations the writer has what they amount to, after one more what that
\* amounts to too.
LEMMA OneMore ==
  ASSUME NEW f \in Files, NEW k \in 0 .. Ops(f) - 1, NEW p, p = Len(OutputOf[f][k])
  PROVE  p + Len(Piece(f, k + 1)) = Len(OutputOf[f][k + 1])
<1>1. k \in 0 .. Ops(f) /\ k + 1 \in 1 .. Ops(f)
  BY FileSpan
<1>2. OutputOf[f][k] \in Seq(Nat) /\ Piece(f, k + 1) \in Seq(Nat)
  BY <1>1, OutputFacts
<1>3. OutputOf[f][k + 1] = OutputOf[f][k] \o Piece(f, k + 1)
  BY OutputFacts
<1>4. QED
  BY <1>2, <1>3

\* Where the session is once k operations are over.
LEMMA AtOpNext ==
  ASSUME ReaderInv', file \in Files, UNCHANGED file, pc' \in {"top", "read"}, NEW k \in 0 .. Ops(file),
         Place' = Start(file) + Opening(file) + k,
         Applying(file, k),
         writer'.pos = Len(OutputOf[file][k]),
         Patch[file].kind = "bsdiff" => oldOffset' = OldOffsetOf[file][k + 1]
  PROVE  AtOp'
<1>1. OpsBefore(file, offset)' = k
  <2>1. OpsBefore(file, offset)' = Place' - Preamble[file]
    BY DEF OpsBefore, Place
  <2>2. QED
    BY <2>1, PreambleIs, FileSpan, SMTT(60)
<1>2. QED
  BY <1>1 DEF AtOp, InStep, Applying

LEMMA MarkedIs ==
  ASSUME TypeInv, NEW f \in Files
  PROVE  Marked(f) \in [Files -> Records]
<1>1. [how |-> IF Overlaid(f) THEN "overlay" ELSE "move", from |-> 0] \in Records
  BY DEF Records
<1>2. QED
  BY <1>1 DEF Marked, TypeInv

LEMMA FirstControl == ASSUME ControlInv, ReadFirst, UNCHANGED bowl PROVE ControlInv'
<1>1. /\ file \in Files /\ AtFirst /\ session = "running"
      /\ ReaderInv' /\ Place' = Start(file) + 2
      /\ Message = Patch[file].ops[1] /\ Message \in SyncOps
      /\ ~FullFile(file, Message)
  BY FirstOp DEF ReadFirst
<1>2. Message.type \in {"range", "data"} /\ Data(Message) \in Seq(Nat)
  BY <1>1, DataType
<1>3. Write(NoWriter, Data(Message)) /\ pc' = "top" /\ session' = "running" /\ file' = file
  BY <1>1, <1>2 DEF ReadFirst, Goto
<1>4. writer' \in Writers /\ writer'.pos = 0 + Len(Data(Message))
  BY <1>2, <1>3, NoWriterIs, WriteIs
<1>5. Opening(file) = 1 /\ Ops(file) # 0 /\ Ops(file) \in Nat /\ Patch[file].kind = "rsync"
  BY <1>1, PatchShape DEF AtFirst, Opening, Ops
<1>6. 0 \in 0 .. Ops(file) - 1 /\ 1 \in 0 .. Ops(file) /\ 0 + 1 = 1
  BY <1>5
<1>7. writer'.pos = Len(OutputOf[file][1])
  <2>1. OutputOf[file][0] = << >>
    BY <1>1, OutputFacts
  <2>2. 0 = Len(OutputOf[file][0])
    BY <2>1
  <2>3. 0 + Len(Piece(file, 0 + 1)) = Len(OutputOf[file][0 + 1])
    BY <1>1, <1>6, <2>2, OneMore
  <2>4. Piece(file, 1) = Data(Message)
    BY <1>1, <1>5 DEF Piece
  <2>5. QED
    BY <1>4, <1>6, <2>3, <2>4
<1>8. Applying(file, 1)
  BY <1>1, <1>6 DEF Applying, AtFirst
<1>9. Place' = Start(file) + Opening(file) + 1
  BY <1>1, <1>5, FileSpan
<1>10. AtOp'
  BY <1>1, <1>3, <1>5, <1>6, <1>7, <1>8, <1>9, AtOpNext
<1>11. PlaceInv'
  BY <1>1, <1>3, <1>10 DEF PlaceInv
<1>12. recorded' \in [Files -> Records]
  BY <1>1, MarkedIs DEF ReadFirst, ControlInv
<1>13. QED
  BY <1>1, <1>3, <1>4, <1>11, <1>12, GoesOn DEF ReadFirst, ControlInv, TypeInv

LEMMA BsdiffControl == ASSUME ControlInv, ReadBsdiffHeader, UNCHANGED bowl PROVE ControlInv'
<1>1. file \in Files /\ AtBsdiff /\ session = "running" /\ ReadMessage
  BY DEF ReadBsdiffHeader, Reading, ControlInv, PlaceInv, AtHeader, AtSkip, AtFirst, AtBsdiff, AtTail, AtOp, AtSentinel
<1>2. Place >= Start(file) /\ Place < Start(file + 1)
  BY <1>1, FileSpan DEF AtBsdiff
<1>3. ReaderInv' /\ Place' = Place + 1
  BY <1>1, <1>2, ReadInside
<1>4. pc' = "top" /\ session' = "running" /\ file' = file /\ writer' = NoWriter /\ oldOffset' = 0
  BY <1>1 DEF ReadBsdiffHeader, Goto
<1>5. Opening(file) = 2 /\ Ops(file) \in Nat /\ Patch[file].kind = "bsdiff" /\ 0 \in 0 .. Ops(file)
  BY <1>1, FileSpan DEF AtBsdiff, Opening
<1>6. writer'.pos = Len(OutputOf[file][0])
  <2>1. OutputOf[file][0] = << >>
    BY <1>1, OutputFacts
  <2>2. QED
    BY <1>4, <2>1, NoWriterIs
<1>7. Applying(file, 0)
  BY <1>1, <1>5 DEF Applying, AtBsdiff
<1>8. Place' = Start(file) + Opening(file) + 0
  BY <1>1, <1>3, <1>5, FileSpan, SMTT(60) DEF AtBsdiff
<1>9. oldOffset' = OldOffsetOf[file][0 + 1]
  BY <1>1, <1>4, <1>5, OldOffsetIs
<1>10. AtOp'
  BY <1>1, <1>3, <1>4, <1>5, <1>6, <1>7, <1>8, <1>9, AtOpNext
<1>11. PlaceInv'
  BY <1>1, <1>4, <1>10 DEF PlaceInv
<1>12. recorded' \in [Files -> Records]
  BY <1>1, MarkedIs DEF ReadBsdiffHeader, ControlInv
<1>13. QED
  BY <1>3, <1>4, <1>11, <1>12, NoWriterIs, GoesOn DEF ReadBsdiffHeader

LEMMA AtTop ==
  ASSUME ControlInv, Reading("top")
  PROVE  AtOp /\ file \in Files /\ session = "running"
  BY DEF Reading, ControlInv, PlaceInv, AtHeader, AtSkip, AtFirst, AtBsdiff, AtTail, AtOp, AtSentinel

LEMMA AtRead ==
  ASSUME ControlInv, Reading("read")
  PROVE  AtOp /\ file \in Files /\ session = "running"
  BY DEF Reading, ControlInv, PlaceInv, AtHeader, AtSkip, AtFirst, AtBsdiff, AtTail, AtOp, AtSentinel

LEMMA GoOnControl == ASSUME ControlInv, GoOn, UNCHANGED bowl PROVE ControlInv'
<1>1. AtOp /\ file \in Files /\ session = "running"
  BY AtTop DEF GoOn
<1>2. UNCHANGED <<reader, file, writer, oldOffset, session>> /\ pc' = "read"
  BY DEF GoOn, Goto
<1>3. ReaderInv'
  BY <1>2 DEF ControlInv, reader, ReaderInv, ReaderTypeOK, WaitsForSource
<1>4. PlaceInv'
  BY <1>1, <1>2 DEF PlaceInv, AtOp, OpsBefore, reader
<1>5. QED
  BY <1>1, <1>2, <1>3, <1>4, GoesOn DEF GoOn, ControlInv, TypeInv

LEMMA AskControl == ASSUME ControlInv, AskSave, UNCHANGED bowl PROVE ControlInv'
<1>1. AtOp /\ file \in Files /\ session = "running"
  BY AtTop DEF AskSave
<1>2. UNCHANGED <<offset, file, writer, oldOffset, session>> /\ pc' = "read"
  BY DEF AskSave, WantSave, Goto
<1>3. ReaderInv'
  BY <1>2 DEF AskSave, WantSave, ControlInv, ReaderInv, ReaderTypeOK, WaitsForSource
<1>4. PlaceInv'
  BY <1>1, <1>2 DEF PlaceInv, AtOp, OpsBefore
<1>5. QED
  BY <1>1, <1>2, <1>3, <1>4, GoesOn DEF AskSave, ControlInv, TypeInv

\* Saving flushes an overlay writer.
LEMMA SavedWriterIs ==
  ASSUME TypeInv
  PROVE  /\ SavedWriter.writer \in Writers
         /\ SavedWriter.writer.pos = writer.pos
<1>1. writer \in Writers
  BY DEF TypeInv
<1>2. CASE Overlaid(file)
  BY <1>1, <1>2, FlushedIs DEF SavedWriter
<1>3. CASE ~Overlaid(file)
  BY <1>1, <1>3 DEF SavedWriter
<1>4. QED
  BY <1>2, <1>3

LEMMA EmptiedIs ==
  ASSUME NEW w \in Writers
  PROVE  LET e == [w EXCEPT !.buf = << >>]
         IN e \in Writers /\ e.pos = w.pos /\ e.buf = << >> /\ e.read = w.read /\ e.over = w.over
<1>1. << >> \in Seq(Nat)
  OBVIOUS
<1>2. QED
  BY <1>1 DEF Writers

\* What is kept is what the session is at, with an empty buffer.
LEMMA SaveIs ==
  ASSUME ControlInv, SaveCheckpoint
  PROVE  /\ kept' \in Saves
         /\ kept' # NoCheckpoint
         /\ kept'.message = Checkpoint /\ kept'.file = file /\ kept'.oldOffset = oldOffset
         /\ kept'.recorded = recorded
         /\ kept'.writer = [SavedWriter.writer EXCEPT !.buf = << >>]
         /\ kept'.writer \in Writers
         /\ kept'.writer.pos = writer.pos
         /\ Checkpoint \in Checkpoints /\ CanResume(Checkpoint) /\ Checkpoint.offset = offset /\ offset \in Boundary
<1>1. file \in Files
  BY AtTop DEF SaveCheckpoint
<1>4. writer' = SavedWriter.writer /\ writer' \in Writers /\ writer'.pos = writer.pos
  BY SavedWriterIs DEF SaveCheckpoint, ControlInv
<1>5. Checkpoint \in Checkpoints /\ CanResume(Checkpoint) /\ Checkpoint.offset = offset /\ offset \in Boundary
  BY DEF SaveCheckpoint, Reading, PopCheckpoint, HasCheckpoint, ControlInv, ReaderInv, ReaderTypeOK, Checkpoint, Checkpoints,
         CanResume
<1> DEFINE w == [writer' EXCEPT !.buf = << >>]
<1>6. w \in Writers /\ w.pos = writer.pos
  BY <1>4, EmptiedIs
<1>7. kept' = [message |-> Checkpoint, file |-> file, oldOffset |-> oldOffset, writer |-> w, recorded |-> recorded]
  BY DEF SaveCheckpoint
<1>8. w = [SavedWriter.writer EXCEPT !.buf = << >>]
  BY <1>4
<1> HIDE DEF w
<1>9. kept' \in Saves
  BY <1>1, <1>5, <1>6, <1>7 DEF Saves, ControlInv, TypeInv
<1>10. QED
  BY <1>5, <1>6, <1>7, <1>8, <1>9, KeptAssumption

LEMMA SaveControl == ASSUME ControlInv, SaveCheckpoint, UNCHANGED bowl PROVE ControlInv'
<1>1. AtOp /\ file \in Files /\ session = "running"
  BY AtTop DEF SaveCheckpoint
<1>2. UNCHANGED <<offset, source, file, oldOffset>> /\ pc' = "read" /\ session' \in {"running", "idle"}
  BY DEF SaveCheckpoint, PopCheckpoint
<1>3. ReaderInv'
  BY <1>1, <1>2 DEF SaveCheckpoint, PopCheckpoint, HasCheckpoint, ControlInv, ReaderInv, ReaderTypeOK, WaitsForSource
<1>4. writer' = SavedWriter.writer /\ writer' \in Writers /\ writer'.pos = writer.pos
  BY SavedWriterIs DEF SaveCheckpoint, ControlInv
<1>5. TypeInv'
  BY <1>2, <1>4, SaveIs DEF SaveCheckpoint, ControlInv, TypeInv
<1>6. PlaceInv'
  BY <1>1, <1>2, <1>4 DEF PlaceInv, AtOp, OpsBefore, InStep
<1>7. KeptInv'
  <2>1. Applying(file, OpsBefore(file, offset)) /\ InStep(file, OpsBefore(file, offset), kept'.writer, oldOffset)
    BY <1>1, SaveIs DEF AtOp, InStep
  <2>2. QED
    BY <2>1, SaveIs DEF KeptInv
<1>8. QED
  BY <1>3, <1>5, <1>6, <1>7 DEF ControlInv

LEMMA OpControl == ASSUME ControlInv, ReadOp, UNCHANGED bowl PROVE ControlInv'
<1> DEFINE k == OpsBefore(file, offset)
<1>1. AtOp /\ file \in Files /\ session = "running" /\ ReadMessage /\ Patch[file].kind = "rsync" /\ ReaderInv
  BY AtRead DEF ReadOp, ControlInv
<1>2. /\ ReaderInv' /\ k \in 0 .. Ops(file)
      /\ Place = Start(file) + Opening(file) + k
      /\ Place' = Place + 1
      /\ k = Ops(file) => IsEnd(Message)
      /\ k # Ops(file) => /\ Message = Patch[file].ops[k + 1]
                          /\ Message \in SyncOps
                          /\ ~IsEnd(Message)
                          /\ k + 1 \in 0 .. Ops(file)
  BY <1>1, NextOp
<1>3. Applying(file, k) /\ writer.pos = Len(OutputOf[file][k])
  BY <1>1 DEF AtOp, InStep
<1> HIDE DEF k
<1>4. Opening(file) = 1 /\ Ops(file) \in Nat /\ Start(file) \in Nat /\ Start(file + 1) = Start(file) + Ops(file) + 2
  BY <1>1, FileSpan, SMTT(60) DEF Opening
<1>5. session' \in {"running", "done"} /\ writer' \in Writers /\ PlaceInv'
  <2>1. CASE k = Ops(file)
    <3>1. NextFile /\ UNCHANGED writer
      BY <1>2, <2>1 DEF ReadOp, IsEnd
    <3>2. Place' = Start(file + 1)
      BY <1>2, <1>4, <2>1
    <3>3. QED
      BY <1>1, <3>1, <3>2, NextFilePlace DEF ControlInv, TypeInv
  <2>2. CASE k # Ops(file)
    <3>1. Message.type \in {"range", "data"} /\ Data(Message) \in Seq(Nat)
      BY <1>2, <2>2, DataType
    <3>2. Write(writer, Data(Message)) /\ pc' = "top" /\ session' = "running" /\ file' = file
      BY <1>1, <1>2, <2>2, <3>1 DEF ReadOp, Goto
    <3>3. writer' \in Writers /\ writer'.pos = writer.pos + Len(Data(Message))
      BY <3>1, <3>2, WriteIs DEF ControlInv, TypeInv
    <3>4. k \in 0 .. Ops(file) - 1 /\ k + 1 \in 0 .. Ops(file) /\ k + 1 # 0
      BY <1>2, <1>4, <2>2
    <3>5. Piece(file, k + 1) = Data(Message)
      BY <1>1, <1>2, <2>2 DEF Piece
    <3>6. writer'.pos = Len(OutputOf[file][k + 1])
      BY <1>1, <1>3, <3>3, <3>4, <3>5, OneMore
    <3>7. Applying(file, k + 1)
      BY <1>3, <3>4 DEF Applying
    <3>8. Place' = Start(file) + Opening(file) + (k + 1)
      BY <1>2, <1>4
    <3>9. AtOp'
      BY <1>1, <1>2, <3>2, <3>4, <3>6, <3>7, <3>8, AtOpNext
    <3>10. QED
      BY <1>1, <3>2, <3>3, <3>9 DEF PlaceInv
  <2>3. QED
    BY <2>1, <2>2
<1>6. QED
  BY <1>2, <1>5, GoesOn DEF ReadOp, ControlInv, TypeInv

LEMMA ControlControl == ASSUME ControlInv, ReadControl, UNCHANGED bowl PROVE ControlInv'
<1> DEFINE k == OpsBefore(file, offset)
<1>1. AtOp /\ file \in Files /\ session = "running" /\ ReadMessage /\ Patch[file].kind = "bsdiff"
  BY AtRead DEF ReadControl
<1>2. /\ ReaderInv' /\ k \in 0 .. Ops(file)
      /\ Place = Start(file) + Opening(file) + k
      /\ Place' = Place + 1
      /\ k = Ops(file) => Message.type = "eof"
      /\ k # Ops(file) => /\ Message = Patch[file].ops[k + 1]
                          /\ Message \in Controls
                          /\ Message.type # "eof"
                          /\ k + 1 \in 0 .. Ops(file)
  BY <1>1, NextOp
<1>3. Applying(file, k) /\ writer.pos = Len(OutputOf[file][k]) /\ oldOffset = OldOffsetOf[file][k + 1]
  BY <1>1 DEF AtOp, InStep
<1> HIDE DEF k
<1>4. Opening(file) = 2 /\ Ops(file) \in Nat /\ Start(file) \in Nat
  BY <1>1, FileSpan DEF Opening
<1>5. session' = "running" /\ writer' \in Writers /\ oldOffset' \in Int /\ PlaceInv'
  <2>1. CASE k = Ops(file)
    <3>1. pc' = "sentinel" /\ session' = "running" /\ file' = file /\ UNCHANGED <<writer, oldOffset>>
      BY <1>1, <1>2, <2>1 DEF ReadControl, Goto
    <3>2. Place' = Preamble[file] + Ops(file) + 1
      BY <1>1, <1>2, <1>4, <2>1, PreambleIs
    <3>3. writer.pos = Len(NewFile[file])
      BY <1>1, <1>3, <2>1, OutputFacts
    <3>4. AtSentinel'
      BY <1>1, <1>3, <3>1, <3>2, <3>3 DEF AtSentinel, Applying
    <3>5. QED
      BY <1>1, <3>1, <3>4 DEF PlaceInv, ControlInv, TypeInv
  <2>2. CASE k # Ops(file)
    <3>1. k \in 0 .. Ops(file) - 1 /\ k + 1 \in 0 .. Ops(file) /\ k + 1 \in 1 .. Ops(file)
      BY <1>2, <1>4, <2>2
    <3>2. OldOffsetOf[file][k + 1] \in Nat /\ Patch[file].target \in DOMAIN Old
      <4>1. k + 1 \in DOMAIN Patch[file].ops
        BY <1>1, <3>1, PatchShape DEF Ops
      <4>2. QED
        BY <1>1, <4>1, PatchAssumption, PatchShape
    <3> DEFINE d == Added(Message, Patch[file].target, oldOffset)
    <3>3. d \in Seq(Nat) /\ Message.type = "ctrl" /\ SeekBy(Message, oldOffset) \in Int
      BY <1>2, <1>3, <2>2, <3>2, AddedType
    <3>4. Write(writer, d) /\ oldOffset' = SeekBy(Message, oldOffset) /\ pc' = "top" /\ session' = "running" /\ file' = file
      BY <1>1, <3>3 DEF ReadControl, Goto
    <3>5. Piece(file, k + 1) = d
      BY <1>1, <1>2, <1>3, <2>2 DEF Piece
    <3> HIDE DEF d
    <3>6. writer' \in Writers /\ writer'.pos = writer.pos + Len(d)
      BY <3>3, <3>4, WriteIs DEF ControlInv, TypeInv
    <3>7. writer'.pos = Len(OutputOf[file][k + 1])
      BY <1>1, <1>3, <3>1, <3>5, <3>6, OneMore
    <3>8. oldOffset' = OldOffsetOf[file][(k + 1) + 1]
      BY <1>1, <1>2, <1>3, <2>2, <3>1, <3>4, OldOffsetIs
    <3>9. Applying(file, k + 1)
      BY <1>1, <1>3, <3>1 DEF Applying
    <3>10. Place' = Start(file) + Opening(file) + (k + 1)
      BY <1>2, <1>4
    <3>11. AtOp'
      BY <1>1, <1>2, <3>1, <3>4, <3>7, <3>8, <3>9, <3>10, AtOpNext
    <3>12. QED
      BY <1>1, <3>3, <3>4, <3>6, <3>11 DEF PlaceInv
  <2>3. QED
    BY <2>1, <2>2
<1>6. QED
  BY <1>2, <1>5, GoesOn DEF ReadControl, ControlInv, TypeInv

\* The end marker is where it should be, and the file has its size.
LEMMA SentinelGood ==
  ASSUME ControlInv, ReadMessage, Reading("sentinel")
  PROVE  /\ file \in Files /\ AtSentinel /\ session = "running"
         /\ ReaderInv' /\ Place' = Start(file + 1)
         /\ IsEnd(Message) /\ writer.pos = Len(NewFile[file])
<1>1. file \in Files /\ AtSentinel /\ session = "running"
  BY DEF Reading, ControlInv, PlaceInv, AtHeader, AtSkip, AtFirst, AtBsdiff, AtTail, AtOp, AtSentinel
<1>2. Opening(file) = 2 /\ Ops(file) \in Nat /\ Start(file) \in Nat /\ Start(file + 1) = Start(file) + Ops(file) + 4
      /\ Len(Messages(file)) = Ops(file) + 4
  BY <1>1, FileSpan, SMTT(60) DEF Opening, AtSentinel
<1>3. Place = Start(file) + Ops(file) + 3
  BY <1>1, <1>2, PreambleIs, SMTT(60) DEF AtSentinel
<1>4. Place >= Start(file) /\ Place < Start(file + 1) /\ Place - Start(file) + 1 = Len(Messages(file))
  BY <1>2, <1>3, SMTT(60)
<1>5. /\ ReaderInv' /\ Place' = Place + 1
      /\ Len(Messages(file)) \in 1 .. Len(Messages(file)) /\ Message = Messages(file)[Len(Messages(file))]
  BY <1>1, <1>4, ReadInside
<1>6. IsEnd(Message)
  BY <1>1, <1>5, EndMessage
<1>7. Place' = Start(file + 1)
  BY <1>2, <1>3, <1>5
<1>8. QED
  BY <1>1, <1>5, <1>6, <1>7 DEF AtSentinel

LEMMA SentinelControl == ASSUME ControlInv, ReadSentinel, UNCHANGED bowl PROVE ControlInv'
<1>1. /\ file \in Files /\ session = "running" /\ ReaderInv' /\ Place' = Start(file + 1)
      /\ IsEnd(Message) /\ writer.pos = Len(NewFile[file])
  BY SentinelGood DEF ReadSentinel
<1>2. NextFile
  BY <1>1 DEF ReadSentinel
<1>3. session' \in {"running", "done"} /\ PlaceInv'
  BY <1>1, <1>2, NextFilePlace
<1>4. QED
  BY <1>1, <1>3, GoesOn DEF ReadSentinel, ControlInv, TypeInv

LEMMA NextControl == ASSUME ControlInv, SkipsWhole, [Next]_vars PROVE ControlInv'
<1>1. CASE Proceed
  BY <1>1, StartControl, ResumeControl, HeaderControl, SkipControl, TranspositionControl, TailControl, FirstControl,
     BsdiffControl, GoOnControl, AskControl, SaveControl, OpControl, ControlControl, SentinelControl DEF Proceed
<1>2. CASE Crash
  BY <1>2, CrashControl
<1>3. CASE Over \/ UNCHANGED vars
  BY <1>3, SameControl DEF Over
<1>4. QED
  BY <1>1, <1>2, <1>3 DEF Next

\* A session is always where its patch says, and never fails.
THEOREM ControlHolds == ASSUME SkipsWhole PROVE Spec => []ControlInv
  BY InitControl, NextControl, PTL DEF Spec

-----------------------------------------------------------------------------
(* Sessions implement a resumable job                                       *)

\* While a session runs there are messages left.
LEMMA RunningBelow ==
  ControlInv => (session = "running" => Place < Len(Stream))
<1> SUFFICES ASSUME ControlInv, session = "running" PROVE Place < Len(Stream)
  OBVIOUS
<1>1. file \in Files /\ Place \in Nat
  BY PlaceIs DEF ControlInv, PlaceInv
<1>2. /\ Start(file) \in Nat /\ Start(file + 1) = Start(file) + Len(Messages(file)) /\ Start(file + 1) <= Len(Stream)
      /\ Len(Messages(file)) \in Nat /\ Len(Messages(file)) >= 3 /\ Opening(file) \in {1, 2} /\ Ops(file) \in Nat
      /\ Len(Messages(file)) = Opening(file) + Ops(file) + Opening(file)
  BY <1>1, FileSpan
<1>3. Len(Stream) \in Nat
  BY StreamType
<1>4. CASE AtHeader \/ AtSkip \/ AtFirst \/ AtBsdiff \/ AtTail
  BY <1>1, <1>2, <1>3, <1>4 DEF AtHeader, AtSkip, AtFirst, AtBsdiff, AtTail
<1>5. CASE AtOp
  <2>1. OpsBefore(file, offset) \in 0 .. Ops(file) /\ OpsBefore(file, offset) = Place - Start(file) - Opening(file)
    BY <1>1, <1>5, OpsBeforeIs DEF AtOp, Applying, ControlInv
  <2>2. QED
    BY <1>1, <1>2, <1>3, <2>1, SMTT(60)
<1>6. CASE AtSentinel
  <2>1. Place = Start(file) + Opening(file) + Ops(file) + 1 /\ Opening(file) = 2
    BY <1>1, <1>6, PreambleIs DEF AtSentinel, Opening
  <2>2. QED
    BY <1>1, <1>2, <1>3, <2>1, SMTT(60)
<1>7. QED
  BY <1>4, <1>5, <1>6 DEF ControlInv, PlaceInv

LEMMA JobIs ==
  ASSUME ControlInv
  PROVE  /\ source.pos \div MsgLen = Place
         /\ SavedMessages \in Nat
         /\ session = "done" => Place = Len(Stream)
<1>1. source.pos \div MsgLen = Place
  BY DEF ControlInv, ReaderInv, Place
<1>2. SavedMessages \in Nat
  BY BoundaryIs, StreamType DEF SavedMessages, ControlInv, KeptInv
<1>3. QED
  BY <1>1, <1>2 DEF ControlInv, PlaceInv

\* A message read is a step of the job.
LEMMA ReadIsStep ==
  ASSUME ControlInv, ControlInv', session = "running", ReadMessage, UNCHANGED kept, session' # "idle"
  PROVE  Job!Step
<1>1. /\ source.pos \div MsgLen = Place /\ (source.pos \div MsgLen)' = Place'
      /\ session' \in {"running", "done"} /\ SavedMessages' = SavedMessages
  BY DEF ControlInv, ReaderInv, Place, TypeInv, SavedMessages
<1>2. Place \in Nat /\ Place < Len(Stream) /\ Place' = Place + 1
  BY ReadFacts, StreamType DEF ControlInv
<1>3. session' = "done" => Place' = Len(Stream)
  BY DEF ControlInv, PlaceInv
<1>4. (ControlInv => (session = "running" => Place < Len(Stream)))'
  BY RunningBelow, PTL
<1>5. session' = "running" => Place' < Len(Stream)
  BY <1>4
<1>6. session' = IF Place' = Len(Stream) THEN "done" ELSE "running"
  BY <1>1, <1>2, <1>3, <1>5, StreamType
<1>7. QED
  BY <1>1, <1>2, <1>6 DEF Job!Step

LEMMA StepIsJobs ==
  ASSUME ControlInv, ControlInv', [Next]_vars
  PROVE  [Job!Next]_(Job!vars)
<1>1. /\ source.pos \div MsgLen = Place /\ (source.pos \div MsgLen)' = Place'
      /\ source.pos = offset /\ source'.pos = offset'
      /\ session \in {"idle", "running", "done"} /\ session' \in {"idle", "running", "done"}
  BY DEF ControlInv, ReaderInv, Place, TypeInv
<1>2. CASE StartSession
  <2>1. session = "idle" /\ session' = "running" /\ offset' = 0 /\ kept = NoCheckpoint /\ kept' = kept
    BY <1>2 DEF StartSession, Rewind
  <2>2. SavedMessages = 0 /\ SavedMessages' = 0 /\ Place' = 0
    BY <2>1 DEF SavedMessages, Place, MsgLen
  <2>3. Job!Start
    BY <1>1, <2>1, <2>2 DEF Job!Start
  <2>4. QED
    BY <2>3 DEF Job!Next
<1>3. CASE ResumeSession
  <2>1. session = "idle" /\ session' = "running" /\ kept # NoCheckpoint /\ kept' = kept /\ Resume(kept.message)
    BY <1>1, <1>3 DEF ResumeSession
  <2>2. offset' = kept.message.offset
    BY <2>1 DEF Resume
  <2>3. SavedMessages' = SavedMessages /\ Place' = SavedMessages
    BY <2>1, <2>2 DEF SavedMessages, Place
  <2>4. Job!Start
    BY <1>1, <2>1, <2>3 DEF Job!Start
  <2>5. QED
    BY <2>4 DEF Job!Next
<1>4. CASE \/ ReadHeader \/ SkipMessage \/ ReadTransposition \/ ReadTail \/ ReadFirst \/ ReadBsdiffHeader
           \/ ReadOp \/ ReadControl \/ ReadSentinel
  <2>1. session = "running" /\ ReadMessage /\ kept' = kept
    BY <1>4 DEF ReadHeader, SkipMessage, ReadTransposition, ReadTail, ReadFirst, ReadBsdiffHeader, ReadOp,
                ReadControl, ReadSentinel, Reading
  <2>2. NextFile \/ Fail \/ session' = session
    BY <1>4 DEF ReadHeader, SkipMessage, ReadTransposition, ReadTail, ReadFirst, ReadBsdiffHeader, ReadOp,
                ReadControl, ReadSentinel, Goto
  <2>3. session' # "idle"
    BY <2>1, <2>2 DEF NextFile, Fail
  <2>4. QED
    BY <2>1, <2>3, ReadIsStep DEF Job!Next
<1>5. CASE GoOn \/ AskSave
  <2>1. offset' = offset /\ kept' = kept /\ session' = session
    BY <1>5 DEF GoOn, AskSave, WantSave, reader, Goto
  <2>2. SavedMessages' = SavedMessages /\ Place' = Place
    BY <2>1 DEF SavedMessages, Place
  <2>3. QED
    BY <1>1, <2>1, <2>2 DEF Job!vars
<1>6. CASE SaveCheckpoint
  <2>1. session = "running" /\ offset' = offset /\ session' \in {"idle", "running"}
    BY <1>6 DEF SaveCheckpoint, PopCheckpoint, Reading
  <2>2. kept'.message = Checkpoint /\ kept' # NoCheckpoint
    BY <1>6, SaveIs
  <2>3. SavedMessages' = Place /\ Place' = Place
    BY <2>1, <2>2 DEF SavedMessages, Place, Checkpoint
  <2>4. Job!Save
    BY <1>1, <2>1, <2>3 DEF Job!Save
  <2>5. QED
    BY <2>4 DEF Job!Next
<1>7. CASE Crash
  <2>1. session = "running" /\ session' = "idle" /\ kept' = kept
    BY <1>7 DEF Crash
  <2>2. SavedMessages' = SavedMessages
    BY <2>1 DEF SavedMessages
  <2>3. Job!Crash
    BY <1>1, <2>1, <2>2 DEF Job!Crash
  <2>4. QED
    BY <2>3 DEF Job!Next
<1>8. CASE Over \/ UNCHANGED vars
  BY <1>8 DEF Over, vars, local, reader, Job!vars, SavedMessages
<1>9. QED
  BY <1>2, <1>3, <1>4, <1>5, <1>6, <1>7, <1>8 DEF Next, Proceed

\* A session is a resumable computation: it goes through the messages of the patch
\* in order, and after a stop or a crash, however many there are and wherever the
\* source and the patcher saved, goes on from the last checkpoint.
THEOREM ResumableHolds == ASSUME SkipsWhole PROVE Spec => Resumable
<1>1. Init => Job!Init
  BY DEF Init, Job!Init, SavedMessages
<1>2. ControlInv /\ ControlInv' /\ [Next]_vars => [Job!Next]_(Job!vars)
  BY StepIsJobs
<1>3. QED
  BY <1>1, <1>2, ControlHolds, PTL DEF Spec, Resumable, Job!Spec

-----------------------------------------------------------------------------
(* Sessions use the message reader as it has to be used                     *)

Broken == offset \notin Boundary

Popped == IF kept = NoCheckpoint THEN NoCheckpoint ELSE kept.message

\* A read that fails ends inside a message.
LEMMA ReadPartIs ==
  ASSUME ReaderInv, session # "idle", ReadPart
  PROVE  ~Broken /\ Broken'
<1>1. PICK b \in Boundary : EndsAt(b) /\ \E n \in 1 .. b - source.pos - 1 : Advance(n)
  BY DEF ReadPart
<1>2. PICK n \in 1 .. b - source.pos - 1 : Advance(n)
  BY <1>1
<1>3. b \in Nat /\ source.pos = offset /\ offset \in Nat
  BY BoundaryAssumption DEF ReaderInv, ReaderTypeOK
<1>4. offset' = offset + n /\ offset < offset' /\ offset' < b
  BY <1>2, <1>3 DEF Advance
<1>5. \A c \in Boundary : c <= offset \/ b <= c
  BY <1>1, <1>3 DEF EndsAt
<1>6. offset' \notin Boundary
  BY <1>3, <1>4, <1>5, BoundaryAssumption
<1>7. QED
  BY <1>6 DEF Broken, ReaderInv

LEMMA StepIsClients ==
  ASSUME ControlInv, ControlInv', [Next]_vars
  PROVE  [Client!Next]_(Client!vars)
<1> USE DEF Broken, Popped
<1>1. UNCHANGED <<offset, saveState, sourceCheckpoint, source, kept>> => UNCHANGED Client!vars
  BY DEF Client!vars, Client!reader
<1>2. ReaderInv /\ ReaderInv'
  BY DEF ControlInv
<1>3. CASE StartSession
  <2>1. Rewind /\ kept = NoCheckpoint /\ kept' = kept
    BY <1>3 DEF StartSession
  <2>2. Client!Rewind /\ ~Broken'
    BY <2>1, BoundaryAssumption DEF Rewind, Client!Rewind
  <2>3. Client!Restart
    BY <2>1, <2>2 DEF Client!Restart
  <2>4. QED
    BY <2>3 DEF Client!Next
<1>4. CASE ResumeSession
  <2>1. kept # NoCheckpoint /\ kept' = kept /\ session' # "failed"
    BY <1>4 DEF ResumeSession, ControlInv, TypeInv
  <2>2. Resume(kept.message)
    BY <1>4, <2>1 DEF ResumeSession
  <2>3. kept.message # NoCheckpoint
    BY <2>1, NoCheckpointAssumption DEF ControlInv, TypeInv, Saves, Checkpoints
  <2>4. Client!Resume(kept.message) /\ offset' = kept.message.offset
    BY <2>2 DEF Resume, Client!Resume
  <2>5. ~Broken'
    BY <2>1, <2>4 DEF ControlInv, KeptInv
  <2>6. Client!Restart
    BY <2>1, <2>3, <2>4, <2>5 DEF Client!Restart
  <2>7. QED
    BY <2>6 DEF Client!Next
<1>5. CASE \/ ReadHeader \/ SkipMessage \/ ReadTransposition \/ ReadTail \/ ReadFirst \/ ReadBsdiffHeader
           \/ ReadOp \/ ReadControl \/ ReadSentinel
  <2>1. session = "running" /\ ReadMessage /\ kept' = kept
    BY <1>5 DEF ReadHeader, SkipMessage, ReadTransposition, ReadTail, ReadFirst, ReadBsdiffHeader, ReadOp,
                ReadControl, ReadSentinel, Reading
  <2>2. ~Broken /\ ~Broken'
    BY <1>2, <2>1, ReadFacts DEF ReaderInv
  <2>3. Client!ReadMessage
    BY <2>1 DEF ReadMessage, EndsAt, Advance, Client!ReadMessage, Client!EndsAt, Client!Advance
  <2>4. Client!Read
    BY <2>1, <2>2, <2>3 DEF Client!Read
  <2>5. QED
    BY <2>4 DEF Client!Next
<1>6. CASE GoOn
  BY <1>1, <1>6 DEF GoOn, reader
<1>7. CASE AskSave
  <2>1. session = "running" /\ WantSave /\ kept' = kept /\ offset' = offset
    BY <1>7 DEF AskSave, Reading, WantSave
  <2>2. ~Broken /\ ~Broken'
    BY <1>2, <2>1 DEF ReaderInv
  <2>3. Client!Ask
    BY <2>1, <2>2 DEF WantSave, Client!WantSave, Client!Ask
  <2>4. QED
    BY <2>3 DEF Client!Next
<1>8. CASE SaveCheckpoint
  <2>1. session = "running" /\ PopCheckpoint /\ offset' = offset
    BY <1>8 DEF SaveCheckpoint, PopCheckpoint, Reading
  <2>2. ~Broken /\ ~Broken'
    BY <1>2, <2>1 DEF ReaderInv
  <2>3. Popped' = Checkpoint
    BY <1>8, SaveIs
  <2>4. Client!PopCheckpoint /\ Popped' = Client!Checkpoint
    BY <2>1, <2>3 DEF PopCheckpoint, HasCheckpoint, Checkpoint, Client!PopCheckpoint, Client!HasCheckpoint, Client!Checkpoint
  <2>5. Client!Pop
    BY <2>2, <2>4 DEF Client!Pop
  <2>6. QED
    BY <2>5 DEF Client!Next
<1>9. CASE Crash
  <2>1. session = "running" /\ kept' = kept /\ (UNCHANGED reader \/ ReadPart)
    BY <1>9 DEF Crash
  <2>2. CASE UNCHANGED reader
    BY <1>1, <2>1, <2>2 DEF reader
  <2>3. CASE ReadPart
    <3>1. ~Broken /\ Broken'
      BY <1>2, <2>1, <2>3, ReadPartIs
    <3>2. Client!ReadPart
      BY <2>3 DEF ReadPart, EndsAt, Advance, Client!ReadPart, Client!EndsAt, Client!Advance
    <3>3. Client!FailRead
      BY <2>1, <3>1, <3>2 DEF Client!FailRead
    <3>4. QED
      BY <3>3 DEF Client!Next
  <2>4. QED
    BY <2>1, <2>2, <2>3
<1>10. CASE Over \/ UNCHANGED vars
  BY <1>1, <1>10 DEF Over, vars, local, reader
<1>11. QED
  BY <1>3, <1>4, <1>5, <1>6, <1>7, <1>8, <1>9, <1>10 DEF Next, Proceed

\* Sessions read messages, ask for checkpoints and come back to the last one only in
\* ways that module WireClient allows the user of a ReadContext, failed reads included.
THEOREM ReadsAsClientHolds == ASSUME SkipsWhole PROVE Spec => ReadsAsClient
<1>1. Init => Client!Init
  BY BoundaryAssumption DEF Init, NewReadContext, Client!Init, Client!NewReadContext
<1>2. ControlInv /\ ControlInv' /\ [Next]_vars => [Client!Next]_(Client!vars)
  BY StepIsClients
<1>3. QED
  BY <1>1, <1>2, ControlHolds, PTL DEF Spec, ReadsAsClient, Client!Spec

\* The reader's count is where its source is, whatever was saved inside a read, failed
\* or resumed, and a session that goes on is between two messages.
THEOREM ReaderInStepHolds == ASSUME SkipsWhole PROVE Spec => []ReaderInStep
<1>1. ControlInv => ReaderInStep
  BY DEF ControlInv, ReaderInv, ReaderInStep
<1>2. QED
  BY <1>1, ControlHolds, PTL

\* A session never waits for a checkpoint its source was not asked for.
THEOREM NeverWaitsInVain == ASSUME SkipsWhole PROVE Spec => []WaitsForSource
<1>1. ControlInv => WaitsForSource
  BY DEF ControlInv, ReaderInv
<1>2. QED
  BY <1>1, ControlHolds, PTL

-----------------------------------------------------------------------------
(* What the files hold                                                      *)

-----------------------------------------------------------------------------
(* The overlay format: decoding                                             *)

Positive == Nat \ {0}

\* g says what the decoder makes of the cells of s from every place on.
Decodes(g, s, base) == \A i \in Positive, at \in Nat : g[i][at] = Decoded(g, s, base, i, at)

LEMMA DecodedAhead ==
  ASSUME NEW s \in Seq(Cells), NEW base, NEW i \in Positive, NEW at \in Nat, NEW g, NEW h,
         \A j \in Positive : j > i => h[j] = g[j]
  PROVE  Decoded(h, s, base, i, at) = Decoded(g, s, base, i, at)
<1>1. CASE i > Len(s)
  BY <1>1 DEF Decoded
<1>2. CASE ~(i > Len(s))
  <2>1. i \in 1 .. Len(s)
    BY <1>2 DEF Positive
  <2>2. s[i] \in Cells
    BY <2>1
  <2>3. s[i].n \in Nat
    BY <2>2 DEF Cells
  <2>4. /\ i + 1 \in Positive /\ i + 1 > i
        /\ i + 1 + s[i].n \in Positive /\ i + 1 + s[i].n > i
    BY <2>1, <2>3 DEF Positive
  <2>5. h[i + 1] = g[i + 1] /\ h[i + 1 + s[i].n] = g[i + 1 + s[i].n]
    BY <2>4
  <2>6. QED
    BY <2>5 DEF Decoded
<1>3. QED
  BY <1>1, <1>2

Solves(g, s, base) == g = [i \in Positive |-> [at \in Nat |-> Decoded(g, s, base, i, at)]]

\* The recursion of Patched has a solution: the places of s are filled from the end.
LEMMA DecodedExists ==
  ASSUME NEW s \in Seq(Cells), NEW base
  PROVE  \E g : Solves(g, s, base)
<1> DEFINE Table(g) == g = [i \in Positive |-> [at \in Nat |-> g[i][at]]]
           From(g, m) == \A i \in Positive : i > Len(s) - m => \A at \in Nat : g[i][at] = Decoded(g, s, base, i, at)
           T == {m \in Nat : \E g : Table(g) /\ From(g, m)}
<1>1. 0 \in T
  <2> DEFINE g == [i \in Positive |-> [at \in Nat |-> Corrupt]]
  <2>1. \A i \in Positive, at \in Nat : g[i][at] = Corrupt
    OBVIOUS
  <2>2. Table(g)
    BY <2>1
  <2>3. ASSUME NEW i \in Positive, i > Len(s) - 0, NEW at \in Nat PROVE g[i][at] = Decoded(g, s, base, i, at)
    <3>1. i > Len(s)
      BY <2>3
    <3> HIDE DEF g
    <3>2. QED
      BY <2>1, <3>1 DEF Decoded
  <2> HIDE DEF g
  <2>4. From(g, 0)
    BY <2>3
  <2>5. QED
    BY <2>2, <2>4
<1>2. ASSUME NEW m \in Nat, m \in T PROVE m + 1 \in T
  <2>1. PICK g : Table(g) /\ From(g, m)
    BY <1>2
  <2> DEFINE p == Len(s) - m
             h == [i \in Positive |-> IF i = p THEN [at \in Nat |-> Decoded(g, s, base, p, at)] ELSE g[i]]
  <2>2. p \in Int /\ Len(s) - (m + 1) = p - 1 /\ p = Len(s) - m /\ \A i \in Positive : i \in Int
    BY DEF Positive
  <2>3. \A i \in Positive : i # p => h[i] = g[i]
    OBVIOUS
  <2>4. p \in Positive => h[p] = [at \in Nat |-> Decoded(g, s, base, p, at)]
    OBVIOUS
  <2>5. h = [i \in Positive |-> h[i]]
    OBVIOUS
  <2> HIDE DEF h
  <2>6. Table(h)
    <3>1. \A i \in Positive : h[i] = [at \in Nat |-> h[i][at]]
      <4>1. \A i \in Positive : g[i] = [at \in Nat |-> g[i][at]]
        <5>1. ASSUME NEW f, f = g, f = [i \in Positive |-> [at \in Nat |-> g[i][at]]]
              PROVE  \A i \in Positive : g[i] = [at \in Nat |-> g[i][at]]
          BY <5>1
        <5>2. QED
          BY <2>1, <5>1, Zenon
      <4>2. QED
        BY <2>3, <2>4, <4>1
    <3>2. [i \in Positive |-> h[i]] = [i \in Positive |-> [at \in Nat |-> h[i][at]]]
      BY <3>1, Zenon
    <3>3. QED
      BY <2>5, <3>2, Zenon
  <2>7. From(h, m + 1)
    <3> SUFFICES ASSUME NEW i \in Positive, i > Len(s) - (m + 1), NEW at \in Nat
                 PROVE  h[i][at] = Decoded(h, s, base, i, at)
      OBVIOUS
    <3>0. i >= p
      <4> HIDE DEF p
      <4>1. QED
        BY <2>2
    <3>1. \A j \in Positive : j > i => h[j] = g[j]
      <4>1. \A j \in Positive : j > i => j # p
        <5> HIDE DEF p
        <5>1. QED
          BY <2>2, <3>0
      <4>2. QED
        BY <2>3, <4>1
    <3>2. Decoded(h, s, base, i, at) = Decoded(g, s, base, i, at)
      BY <3>1, DecodedAhead
    <3>3. CASE i = p
      <4>1. h[p][at] = Decoded(g, s, base, p, at)
        BY <2>4, <3>3
      <4>2. QED
        BY <3>2, <3>3, <4>1, Zenon
    <3>4. CASE i # p
      <4>1. i > p
        <5> HIDE DEF p
        <5>1. QED
          BY <2>2, <3>0, <3>4
      <4>2. g[i][at] = Decoded(g, s, base, i, at)
        BY <2>1, <4>1
      <4>3. QED
        BY <2>3, <3>2, <3>4, <4>2, Zenon
    <3>5. QED
      BY <3>3, <3>4
  <2>8. m + 1 \in Nat
    OBVIOUS
  <2> HIDE DEF Table, From
  <2>9. QED
    BY <2>6, <2>7, <2>8
<1>3. Len(s) \in T
  <2> HIDE DEF T
  <2>1. QED
    BY <1>1, <1>2, SetInduction
<1>4. PICK g : Table(g) /\ From(g, Len(s))
  BY <1>3
<1>5. \A i \in Positive : i > Len(s) - Len(s)
  BY DEF Positive
<1>6. \A i \in Positive : \A at \in Nat : g[i][at] = Decoded(g, s, base, i, at)
  BY <1>4, <1>5, Zenon
<1>7. [i \in Positive |-> [at \in Nat |-> g[i][at]]] = [i \in Positive |-> [at \in Nat |-> Decoded(g, s, base, i, at)]]
  BY <1>6, Zenon
<1>8. g = [i \in Positive |-> [at \in Nat |-> Decoded(g, s, base, i, at)]]
  BY <1>4, <1>7, Zenon
<1>9. QED
  BY <1>8, Zenon DEF Solves

LEMMA PatchedIs ==
  ASSUME NEW s \in Seq(Cells), NEW base
  PROVE  \E g : Decodes(g, s, base) /\ Patched(s, base) = g[1][0]
<1> DEFINE run == CHOOSE g : Solves(g, s, base)
<1>1. Solves(run, s, base)
  BY DecodedExists, Zenon
<1>2. Patched(s, base) = run[1][0]
  BY DEF Patched, Positive, Solves
<1> HIDE DEF run
<1>3. ASSUME NEW f, f = run, f = [i \in Positive |-> [at \in Nat |-> Decoded(run, s, base, i, at)]]
      PROVE  Decodes(run, s, base)
  BY <1>3 DEF Decodes
<1>4. QED
  BY <1>1, <1>2, <1>3, Zenon DEF Solves

\* What the decoder gives consists of these.
Given(s) == Nat \cup {"corrupt"} \cup {s[j].n : j \in Nat}

LEMMA NatGiven ==
  ASSUME NEW s, NEW t \in Seq(Nat)
  PROVE  t \in Seq(Given(s))
<1>1. Nat \subseteq Given(s)
  BY DEF Given
<1>2. QED
  BY <1>1

LEMMA DecodedType ==
  ASSUME NEW s \in Seq(Cells), NEW base \in Seq(Nat), NEW g, Decodes(g, s, base)
  PROVE  \A i \in Positive, at \in Nat : g[i][at] \in Seq(Given(s))
<1> DEFINE T == {m \in Nat : \A i \in Positive : i > Len(s) - m => \A at \in Nat : g[i][at] \in Seq(Given(s))}
<1>1. Corrupt \in Seq(Given(s)) /\ << >> \in Seq(Given(s))
  <2>1. "corrupt" \in Given(s)
    BY DEF Given
  <2>2. QED
    BY <2>1 DEF Corrupt
<1>2. 0 \in T
  <2>1. ASSUME NEW i \in Positive, i > Len(s) - 0, NEW at \in Nat PROVE g[i][at] \in Seq(Given(s))
    <3>1. i > Len(s)
      BY <2>1
    <3>2. QED
      BY <1>1, <3>1 DEF Decodes, Decoded
  <2>2. QED
    BY <2>1
<1>3. ASSUME NEW m \in Nat, m \in T PROVE m + 1 \in T
  <2>1. ASSUME NEW i \in Positive, i > Len(s) - (m + 1), NEW at \in Nat PROVE g[i][at] \in Seq(Given(s))
    <3>1. \A j \in Positive : j > i => \A a \in Nat : g[j][a] \in Seq(Given(s))
      <4>1. \A j \in Positive : j > i => j > Len(s) - m
        BY <2>1 DEF Positive
      <4>2. QED
        BY <1>3, <4>1
    <3>2. g[i][at] = Decoded(g, s, base, i, at)
      BY DEF Decodes
    <3>3. CASE i > Len(s)
      BY <1>1, <3>2, <3>3 DEF Decoded
    <3>4. CASE ~(i > Len(s))
      <4>1. i \in 1 .. Len(s) /\ s[i] \in Cells
        BY <3>4 DEF Positive
      <4>2. s[i].n \in Nat /\ s[i].op \in {"skip", "fresh", "unit", "hey"}
        BY <4>1 DEF Cells
      <4>3. /\ i + 1 \in Positive /\ i + 1 > i
            /\ i + 1 + s[i].n \in Positive /\ i + 1 + s[i].n > i
            /\ at + s[i].n \in Nat
        BY <4>1, <4>2, SMTT(60) DEF Positive
      <4> DEFINE next == g[i + 1][at + s[i].n]
                 later == g[i + 1 + s[i].n][at + s[i].n]
                 units == Units(base, at, s[i].n)
                 fresh == [j \in 1 .. s[i].n |-> s[i + j].n]
      <4>4. next \in Seq(Given(s)) /\ later \in Seq(Given(s))
        BY <3>1, <4>3
      <4>5. units \in Seq(Given(s))
        BY <4>2, UnitsType, NatGiven
      <4>6. fresh \in Seq(Given(s))
        <5>1. \A j \in 1 .. s[i].n : s[i + j].n \in Given(s)
          <6>1. \A j \in 1 .. s[i].n : i + j \in Nat
            BY <4>1, <4>2
          <6>2. QED
            BY <6>1 DEF Given
        <5>2. \A f, S : \A n \in Nat : (\A j \in 1 .. n : f[j] \in S) => [j \in 1 .. n |-> f[j]] \in Seq(S)
          OBVIOUS
        <5>3. fresh = [j \in 1 .. s[i].n |-> fresh[j]] /\ \A j \in 1 .. s[i].n : fresh[j] \in Given(s)
          BY <5>1
        <5> HIDE DEF fresh
        <5>4. [j \in 1 .. s[i].n |-> fresh[j]] \in Seq(Given(s))
          BY <4>2, <5>2, <5>3
        <5>5. QED
          BY <5>3, <5>4, Zenon
      <4>7. g[i][at] \in {Corrupt, << >>, units \o next, fresh \o later}
        BY <3>2, <4>2 DEF Decoded
      <4> HIDE DEF next, later, units, fresh
      <4>8. units \o next \in Seq(Given(s)) /\ fresh \o later \in Seq(Given(s))
        BY <4>4, <4>5, <4>6
      <4>9. QED
        BY <1>1, <4>7, <4>8
    <3>5. QED
      BY <3>3, <3>4
  <2>2. QED
    BY <2>1
<1>4. Nat \subseteq T
  <2> HIDE DEF T
  <2>1. QED
    BY <1>2, <1>3, SetInduction
<1>5. ASSUME NEW i \in Positive, NEW at \in Nat PROVE g[i][at] \in Seq(Given(s))
  <2>1. Len(s) \in Nat /\ i > Len(s) - Len(s)
    BY DEF Positive
  <2>3. Len(s) \in T
    <3> HIDE DEF T
    <3>1. QED
      BY <1>4, <2>1
  <2>2. QED
    BY <2>1, <2>3
<1>6. QED
  BY <1>5

\* A set of numbers that has a bound has a greatest one.
LEMMA GreatestNumber ==
  ASSUME NEW m \in Int, NEW n \in Int, NEW T, T \subseteq m .. n, T # {}
  PROVE  \E x \in T : \A y \in T : y <= x
<1> DEFINE U == {n - y : y \in T}
<1>1. U \subseteq Nat /\ U # {}
  OBVIOUS
<1>2. PICK u \in U : \A v \in U : u <= v
  BY <1>1, LeastNumber
<1>3. PICK x \in T : u = n - x
  BY <1>2
<1>4. \A y \in T : n - y \in U
  OBVIOUS
<1>5. \A y \in T : n - x <= n - y
  BY <1>2, <1>3, <1>4
<1>6. \A y \in T : y <= x
  BY <1>3, <1>5
<1>7. QED
  BY <1>6

\* The units from i to e are a run of the same kind.
Run(buf, same, i, e) ==
  /\ e \in i .. Len(buf)
  /\ \A k \in i .. e : same[k] = same[i]
  /\ Cardinality(RunSet(buf, same, i)) = e - i + 1
  /\ \A k \in i + 1 .. e : ~Starts(same, k)
  /\ e < Len(buf) => Starts(same, e + 1)

LEMMA RunExists ==
  ASSUME NEW buf \in Seq(Nat), NEW same, NEW i \in 1 .. Len(buf)
  PROVE  \E e : Run(buf, same, i, e)
<1> DEFINE R == RunSet(buf, same, i)
<1>1. i \in R /\ R \subseteq i .. Len(buf) /\ i \in Int /\ Len(buf) \in Int
  BY DEF RunSet
<1>2. PICK e \in R : \A y \in R : y <= e
  <2> HIDE DEF R
  <2>1. QED
    BY <1>1, GreatestNumber
<1>3. e \in i .. Len(buf) /\ \A k \in i .. e : same[k] = same[i]
  BY DEF RunSet
<1>4. R = i .. e
  <2>1. ASSUME NEW j \in i .. e PROVE j \in R
    BY <1>3 DEF RunSet
  <2>2. ASSUME NEW j \in R PROVE j \in i .. e
    BY <1>1, <1>2
  <2>3. QED
    BY <2>1, <2>2
<1>5. Cardinality(R) = e - i + 1
  <2>1. e \in Int /\ i <= e
    BY <1>1, <1>3
  <2>2. Cardinality(i .. e) = e - i + 1
    BY <1>1, <2>1, FS_Interval
  <2>3. QED
    BY <1>4, <2>2
<1>6. ASSUME NEW k \in i + 1 .. e PROVE ~Starts(same, k)
  <2>1. k \in i .. e /\ k - 1 \in i .. e /\ k # 1
    BY <1>3
  <2>2. same[k] = same[i] /\ same[k - 1] = same[i]
    BY <1>3, <2>1
  <2>3. QED
    BY <2>1, <2>2 DEF Starts
<1>7. ASSUME e < Len(buf) PROVE Starts(same, e + 1)
  <2>1. e + 1 \in i .. Len(buf) /\ e + 1 \notin i .. e /\ (e + 1) - 1 = e /\ e \in i .. e
    BY <1>3, <1>7
  <2>2. e + 1 \notin R
    BY <1>4, <2>1
  <2>3. PICK k \in i .. e + 1 : same[k] # same[i]
    BY <2>1, <2>2 DEF RunSet
  <2>4. k = e + 1
    BY <1>3, <2>3
  <2>5. same[e] = same[i]
    BY <1>3, <2>1
  <2>6. QED
    BY <2>1, <2>3, <2>4, <2>5 DEF Starts
<1>8. QED
  BY <1>3, <1>5, <1>6, <1>7 DEF Run

LEMMA PartIs ==
  ASSUME NEW buf \in Seq(Nat), NEW same, NEW i \in 1 .. Len(buf)
  PROVE  /\ Starts(same, i) /\ same[i] =>
              /\ Len(Part(buf, same, i)) = 1
              /\ Part(buf, same, i)[1] = Skip(Cardinality(RunSet(buf, same, i)))
         /\ Starts(same, i) /\ ~same[i] =>
              /\ Len(Part(buf, same, i)) = 2
              /\ Part(buf, same, i)[1] = Fresh(Cardinality(RunSet(buf, same, i)))
              /\ Part(buf, same, i)[2] = Unit(buf[i])
         /\ ~Starts(same, i) /\ same[i] => Len(Part(buf, same, i)) = 0
         /\ ~Starts(same, i) /\ ~same[i] =>
              /\ Len(Part(buf, same, i)) = 1
              /\ Part(buf, same, i)[1] = Unit(buf[i])
<1> DEFINE h == Head1(buf, same, i)
           t == IF same[i] THEN << >> ELSE <<Unit(buf[i])>>
           c == Cardinality(RunSet(buf, same, i))
<1>1. h \in Seq(Cells) /\ t \in Seq(Cells)
  <2>1. buf[i] \in Nat
    OBVIOUS
  <2>2. Unit(buf[i]) \in Cells
    BY <2>1, CellsAre
  <2>3. QED
    BY <2>2, PartType
<1>2. Starts(same, i) => Len(h) = 1 /\ h[1] = IF same[i] THEN Skip(c) ELSE Fresh(c)
  BY DEF Head1
<1>3. ~Starts(same, i) => Len(h) = 0
  BY DEF Head1
<1>4. IF same[i] THEN Len(t) = 0 ELSE Len(t) = 1 /\ t[1] = Unit(buf[i])
  OBVIOUS
<1>5. Part(buf, same, i) = h \o t
  BY DEF Part
<1> HIDE DEF h, t, c
<1>6. /\ Len(h \o t) = Len(h) + Len(t)
      /\ \A j \in 1 .. Len(h) : (h \o t)[j] = h[j]
      /\ \A j \in 1 .. Len(t) : (h \o t)[Len(h) + j] = t[j]
  BY <1>1, ConcatFacts
<1>7. QED
  BY <1>2, <1>3, <1>4, <1>5, <1>6, SMTT(60) DEF c

\* The cells of a run of an overlay, which come after l other ones.
LEMMA RunCells ==
  ASSUME NEW buf \in Seq(Nat), NEW base, NEW at, NEW i \in 1 .. Len(buf), NEW e,
         Starts(Same(buf, base, at), i), Run(buf, Same(buf, base, at), i, e)
  PROVE  LET P == Parts(buf, base, at)
             O == Overlay(buf, base, at)
             l == Len(Upto(P, i - 1))
             n == e - i + 1
         IN /\ l \in Nat /\ e \in 1 .. Len(buf) /\ l + 1 \in 1 .. Len(O)
            /\ Same(buf, base, at)[i] => O[l + 1] = Skip(n) /\ Len(Upto(P, e)) = l + 1
            /\ ~Same(buf, base, at)[i] =>
                 /\ O[l + 1] = Fresh(n)
                 /\ Len(Upto(P, e)) = l + 1 + n
                 /\ \A j \in 1 .. n : l + 1 + j \in 1 .. Len(O) /\ O[l + 1 + j] = Unit(buf[i + j - 1])
<1> DEFINE P == Parts(buf, base, at)
           same == Same(buf, base, at)
           O == Overlay(buf, base, at)
           l == Len(Upto(P, i - 1))
           n == e - i + 1
           len(k) == IF same[i] THEN l + 1 ELSE l + 1 + (k - i + 1)
<1>1. P \in Seq(Seq(Cells)) /\ Len(P) = Len(buf) /\ O = FlattenSeq(P)
  BY PartsType, OverlayIs
<1>2. \A k \in 1 .. Len(buf) : P[k] = Part(buf, same, k)
  BY DEF Parts
<1>3. /\ e \in i .. Len(buf) /\ Len(buf) \in Nat
      /\ \A k \in i .. e : same[k] = same[i]
      /\ Cardinality(RunSet(buf, same, i)) = n
      /\ \A k \in i + 1 .. e : ~Starts(same, k)
      /\ Starts(same, i)
  BY DEF Run
<1> HIDE DEF P, same, O
<1>4. e \in 1 .. Len(buf) /\ i - 1 \in 0 .. Len(P) /\ i - 1 \in 0 .. Len(P) - 1 /\ (i - 1) + 1 = i
  BY <1>1, <1>3
<1>5. l \in Nat
  <2>1. Upto(P, i - 1) \in Seq(Cells)
    BY <1>1, <1>4, UptoType
  <2>2. QED
    BY <2>1
<1> HIDE DEF l
<1>6. \A k \in 0 .. Len(P) - 1 : Len(Upto(P, k + 1)) = Len(Upto(P, k)) + Len(P[k + 1])
  BY <1>1, UptoStep
<1>7. \A k \in i + 1 .. e : Len(P[k]) = (IF same[i] THEN 0 ELSE 1) /\ (~same[i] => P[k][1] = Unit(buf[k]))
  <2> SUFFICES ASSUME NEW k \in i + 1 .. e
               PROVE  Len(P[k]) = (IF same[i] THEN 0 ELSE 1) /\ (~same[i] => P[k][1] = Unit(buf[k]))
    OBVIOUS
  <2>1. k \in 1 .. Len(buf) /\ k \in i .. e
    BY <1>3
  <2>2. P[k] = Part(buf, same, k) /\ same[k] = same[i] /\ ~Starts(same, k)
    BY <1>2, <1>3, <2>1
  <2>3. QED
    BY <2>1, <2>2, PartIs
<1>8. /\ same[i] => Len(P[i]) = 1 /\ P[i][1] = Skip(n)
      /\ ~same[i] => Len(P[i]) = 2 /\ P[i][1] = Fresh(n) /\ P[i][2] = Unit(buf[i])
  BY <1>2, <1>3, PartIs
<1>9. i .. e \subseteq {k \in Int : Len(Upto(P, k)) = len(k)}
  <2> DEFINE T == {k \in Int : Len(Upto(P, k)) = len(k)}
  <2>1. i \in T
    <3>1. Len(Upto(P, (i - 1) + 1)) = l + Len(P[(i - 1) + 1])
      BY <1>4, <1>6 DEF l
    <3>2. Len(Upto(P, i)) = l + Len(P[i])
      BY <1>4, <3>1
    <3>3. i \in Int /\ i - i + 1 = 1
      OBVIOUS
    <3>4. Len(Upto(P, i)) = len(i)
      <4>1. CASE same[i]
        <5>1. Len(Upto(P, i)) = l + 1
          BY <1>8, <3>2, <4>1
        <5>2. len(i) = l + 1
          BY <4>1
        <5>3. QED
          BY <5>1, <5>2
      <4>2. CASE ~same[i]
        <5>1. Len(Upto(P, i)) = l + 2
          BY <1>8, <3>2, <4>2
        <5>2. len(i) = l + 1 + (i - i + 1)
          BY <4>2
        <5>3. QED
          BY <1>5, <3>3, <5>1, <5>2
      <4>3. QED
        BY <4>1, <4>2
    <3>5. QED
      BY <3>3, <3>4
  <2>2. ASSUME NEW k \in i .. e - 1, k \in T PROVE k + 1 \in T
    <3>1. k \in 0 .. Len(P) - 1 /\ k + 1 \in i + 1 .. e
      BY <1>1, <1>3
    <3>2. Len(Upto(P, k + 1)) = Len(Upto(P, k)) + Len(P[k + 1])
      BY <1>6, <3>1
    <3>3. Len(Upto(P, k)) = len(k) /\ k \in Int /\ i \in Int
      BY <2>2
    <3>4. Len(Upto(P, k + 1)) = len(k + 1)
      <4>1. CASE same[i]
        <5>1. Len(Upto(P, k + 1)) = (l + 1) + 0
          BY <1>7, <3>1, <3>2, <3>3, <4>1
        <5>2. len(k + 1) = l + 1
          BY <4>1
        <5>3. QED
          BY <1>5, <5>1, <5>2
      <4>2. CASE ~same[i]
        <5>1. Len(Upto(P, k + 1)) = (l + 1 + (k - i + 1)) + 1
          BY <1>7, <3>1, <3>2, <3>3, <4>2
        <5>2. len(k + 1) = l + 1 + ((k + 1) - i + 1)
          BY <4>2
        <5>3. QED
          BY <1>5, <3>3, <5>1, <5>2
      <4>3. QED
        BY <4>1, <4>2
    <3>5. k + 1 \in Int
      BY <3>3
    <3>6. QED
      BY <3>4, <3>5
  <2>3. i \in Int /\ e \in Int
    BY <1>3
  <2> HIDE DEF T
  <2>4. i .. e \subseteq T
    BY <2>1, <2>2, <2>3, RangeInduction
  <2>5. QED
    BY <2>4 DEF T
<1>10. \A k \in 0 .. Len(P) - 1 : \A j \in 1 .. Len(P[k + 1]) :
         /\ Len(Upto(P, k)) + j \in 1 .. Len(O)
         /\ O[Len(Upto(P, k)) + j] = P[k + 1][j]
  BY <1>1, FlattenAt
<1>11. \A j \in 1 .. Len(P[i]) : l + j \in 1 .. Len(O) /\ O[l + j] = P[i][j]
  BY <1>4, <1>10 DEF l
<1>12. Len(Upto(P, e)) = len(e)
  BY <1>3, <1>9
<1>13. ASSUME ~same[i], NEW j \in 1 .. n
       PROVE  l + 1 + j \in 1 .. Len(O) /\ O[l + 1 + j] = Unit(buf[i + j - 1])
  <2>1. CASE j = 1
    <3>1. 2 \in 1 .. Len(P[i]) /\ l + 1 + j = l + 2 /\ i + j - 1 = i
      BY <1>5, <1>8, <1>13, <2>1
    <3>2. QED
      BY <1>8, <1>11, <1>13, <3>1
  <2>2. CASE j # 1
    <3> DEFINE k == i + j - 1
    <3>1. k \in i + 1 .. e /\ k - 1 \in i .. e /\ k - 1 \in 0 .. Len(P) - 1 /\ (k - 1) + 1 = k
      BY <1>1, <1>3, <2>2
    <3>2. Len(Upto(P, k - 1)) = len(k - 1)
      <4> HIDE DEF k
      <4>1. QED
        BY <1>9, <3>1
    <3>3. len(k - 1) = l + 1 + ((k - 1) - i + 1)
      BY <1>13
    <3>4. Len(Upto(P, k - 1)) = l + j
      BY <1>3, <1>5, <3>2, <3>3
    <3>5. Len(P[k]) = 1 /\ P[k][1] = Unit(buf[k])
      <4> HIDE DEF k
      <4>1. QED
        BY <1>7, <1>13, <3>1
    <3> HIDE DEF k
    <3>6. 1 \in 1 .. Len(P[(k - 1) + 1])
      BY <3>1, <3>5
    <3>7. /\ Len(Upto(P, k - 1)) + 1 \in 1 .. Len(O)
          /\ O[Len(Upto(P, k - 1)) + 1] = P[(k - 1) + 1][1]
      BY <1>10, <3>1, <3>6
    <3>8. l + j + 1 = l + 1 + j
      BY <1>3, <1>5
    <3>9. QED
      BY <3>1, <3>4, <3>5, <3>7, <3>8 DEF k
  <2>3. QED
    BY <2>1, <2>2
<1>14. l + 1 \in 1 .. Len(O) /\ O[l + 1] = P[i][1]
  <2>1. 1 \in 1 .. Len(P[i])
    BY <1>8
  <2>2. QED
    BY <1>11, <2>1
<1>15. QED
  BY <1>4, <1>5, <1>8, <1>12, <1>13, <1>14 DEF P, same, O, l

LEMMA SubSeqIs ==
  ASSUME NEW S, NEW s \in Seq(S), NEW m \in 1 .. Len(s) + 1, NEW n \in m - 1 .. Len(s)
  PROVE  /\ SubSeq(s, m, n) \in Seq(S)
         /\ Len(SubSeq(s, m, n)) = n - m + 1
         /\ \A j \in 1 .. n - m + 1 : SubSeq(s, m, n)[j] = s[m + j - 1]
<1>1. \A j \in m .. n : s[j] \in S
  OBVIOUS
<1>2. m \in Int /\ n \in Int
  OBVIOUS
<1>3. SubSeq(s, m, n) \in Seq(S)
  BY <1>1, <1>2
<1>4. Len(SubSeq(s, m, n)) = n - m + 1
  BY <1>2
<1>5. \A j \in 1 .. n - m + 1 : SubSeq(s, m, n)[j] = s[m + j - 1]
  BY <1>2
<1>6. QED
  BY <1>3, <1>4, <1>5

LEMMA SubSeqJoin ==
  ASSUME NEW S, NEW s \in Seq(S), NEW m \in 1 .. Len(s), NEW n \in m .. Len(s)
  PROVE  SubSeq(s, m, n) \o SubSeq(s, n + 1, Len(s)) = SubSeq(s, m, Len(s))
<1> DEFINE a == SubSeq(s, m, n)
           b == SubSeq(s, n + 1, Len(s))
           c == SubSeq(s, m, Len(s))
<1>1. /\ m \in 1 .. Len(s) + 1 /\ n \in m - 1 .. Len(s) /\ n + 1 \in 1 .. Len(s) + 1
      /\ Len(s) \in (n + 1) - 1 .. Len(s) /\ Len(s) \in m - 1 .. Len(s)
  OBVIOUS
<1>2. a \in Seq(S) /\ Len(a) = n - m + 1 /\ \A j \in 1 .. n - m + 1 : a[j] = s[m + j - 1]
  BY <1>1, SubSeqIs
<1>3. b \in Seq(S) /\ Len(b) = Len(s) - n /\ \A j \in 1 .. Len(s) - n : b[j] = s[n + j]
  <2>1. Len(s) - (n + 1) + 1 = Len(s) - n /\ \A j \in 1 .. Len(s) - n : (n + 1) + j - 1 = n + j
    OBVIOUS
  <2>2. b \in Seq(S) /\ Len(b) = Len(s) - (n + 1) + 1 /\ \A j \in 1 .. Len(s) - (n + 1) + 1 : b[j] = s[(n + 1) + j - 1]
    BY <1>1, SubSeqIs
  <2>3. QED
    BY <2>1, <2>2
<1>4. c \in Seq(S) /\ Len(c) = Len(s) - m + 1 /\ \A j \in 1 .. Len(s) - m + 1 : c[j] = s[m + j - 1]
  BY <1>1, SubSeqIs
<1> HIDE DEF a, b, c
<1>5. a \o b \in Seq(S) /\ Len(a \o b) = Len(c)
  <2>1. a \o b \in Seq(S) /\ Len(a \o b) = Len(a) + Len(b)
    BY <1>2, <1>3, ConcatFacts
  <2>2. m \in Int /\ n \in Int /\ Len(s) \in Int
    OBVIOUS
  <2>3. (n - m + 1) + (Len(s) - n) = Len(s) - m + 1
    BY <2>2
  <2>4. QED
    BY <1>2, <1>3, <1>4, <2>1, <2>3
<1>6. \A j \in 1 .. Len(a \o b) : (a \o b)[j] = c[j]
  <2> SUFFICES ASSUME NEW j \in 1 .. Len(a \o b) PROVE (a \o b)[j] = c[j]
    OBVIOUS
  <2>1. CASE j <= Len(a)
    BY <1>2, <1>3, <1>4, <1>5, <2>1
  <2>2. CASE j > Len(a)
    <3>1. (a \o b)[j] = b[j - Len(a)]
      BY <1>2, <1>3, <1>5, <2>2, SMTT(60)
    <3>2. j - Len(a) \in 1 .. Len(s) - n /\ n + (j - Len(a)) = m + j - 1
      BY <1>2, <1>4, <1>5, <2>2
    <3>3. QED
      BY <1>3, <1>4, <1>5, <3>1, <3>2
  <2>3. QED
    BY <1>2, <2>1, <2>2
<1>7. a \o b = c
  BY <1>4, <1>5, <1>6, SameSequence
<1>8. QED
  BY <1>7 DEF a, b, c

\* s has the cells of c after its first p ones.
HasAt(s, p, c) == p + Len(c) <= Len(s) /\ \A j \in 1 .. Len(c) : s[p + j] = c[j]

\* Decoding the cells of the units from i to e gives these units.
Gives(g, p, buf, base, at, i, e) ==
  g[p + Len(Upto(Parts(buf, base, at), i - 1)) + 1][at + (i - 1)] =
    SubSeq(buf, i, e) \o g[p + Len(Upto(Parts(buf, base, at), e)) + 1][at + e]

LEMMA RunDecoded ==
  ASSUME NEW buf \in Seq(Nat), NEW base \in Seq(Nat), NEW at \in Nat, NEW i \in 1 .. Len(buf), NEW e,
         Starts(Same(buf, base, at), i), Run(buf, Same(buf, base, at), i, e),
         NEW s \in Seq(Cells), NEW p \in Nat, HasAt(s, p, Overlay(buf, base, at)), NEW g, Decodes(g, s, base)
  PROVE  Gives(g, p, buf, base, at, i, e)
<1> DEFINE P == Parts(buf, base, at)
           same == Same(buf, base, at)
           O == Overlay(buf, base, at)
           l == Len(Upto(P, i - 1))
           n == e - i + 1
           q == p + l + 1
           a == at + (i - 1)
           run == SubSeq(buf, i, e)
<1>1. /\ l \in Nat /\ e \in 1 .. Len(buf) /\ l + 1 \in 1 .. Len(O)
      /\ same[i] => O[l + 1] = Skip(n) /\ Len(Upto(P, e)) = l + 1
      /\ ~same[i] =>
           /\ O[l + 1] = Fresh(n)
           /\ Len(Upto(P, e)) = l + 1 + n
           /\ \A j \in 1 .. n : l + 1 + j \in 1 .. Len(O) /\ O[l + 1 + j] = Unit(buf[i + j - 1])
  BY RunCells
<1>2. e \in i .. Len(buf) /\ \A k \in i .. e : same[k] = same[i]
  BY DEF Run
<1>3. \A k \in 1 .. Len(buf) : same[k] = (at + k <= Len(base) /\ base[at + k] = buf[k])
  BY SMTT(60) DEF Same
<1>4. \A j \in 1 .. Len(O) : p + j \in 1 .. Len(s) /\ s[p + j] = O[j]
  BY SMTT(60) DEF HasAt
<1> HIDE DEF P, same, O, l
<1>5. q \in Positive /\ ~(q > Len(s)) /\ s[q] = O[l + 1] /\ a \in Nat
  <2>1. p + (l + 1) \in 1 .. Len(s) /\ s[p + (l + 1)] = O[l + 1]
    BY <1>1, <1>4
  <2>2. p + (l + 1) = q
    BY <1>1
  <2>3. QED
    BY <2>1, <2>2, SMTT(60) DEF Positive
<1>6. a + n = at + e /\ n \in Nat \ {0}
  BY <1>2
<1>7. run \in Seq(Nat) /\ Len(run) = n /\ \A j \in 1 .. n : run[j] = buf[i + j - 1]
  <2>1. i \in 1 .. Len(buf) + 1 /\ e \in i - 1 .. Len(buf)
    BY <1>2
  <2>2. QED
    BY <2>1, SubSeqIs, ZenonT(60)
<1>8. g[q][a] = Decoded(g, s, base, q, a)
  BY <1>5 DEF Decodes
<1> HIDE DEF q, a, n, run
<1>9. CASE same[i]
  <2>1. s[q].op = "skip" /\ s[q].n = n
    BY <1>1, <1>5, <1>9, SMTT(60) DEF Skip
  <2>2. g[q][a] = Units(base, a, n) \o g[q + 1][a + n]
    BY <1>5, <1>8, <2>1 DEF Decoded
  <2>3. \A k \in i .. e : at + k <= Len(base) /\ base[at + k] = buf[k]
    <3> SUFFICES ASSUME NEW k \in i .. e PROVE at + k <= Len(base) /\ base[at + k] = buf[k]
      OBVIOUS
    <3>1. k \in 1 .. Len(buf)
      BY <1>2
    <3>2. same[k]
      BY <1>2, <1>9
    <3>3. QED
      BY <1>3, <3>1, <3>2
  <2>4. at + e <= Len(base) /\ e \in Nat /\ i \in Nat /\ i >= 1 /\ e >= i
    BY <1>2, <2>3
  <2>5. Units(base, a, n) = SubSeq(base, at + i, at + e)
    <3>1. a + 1 = at + i
      BY DEF a
    <3>2. (IF a + n < Len(base) THEN a + n ELSE Len(base)) = at + e
      <4>1. Len(base) \in Nat
        OBVIOUS
      <4>2. CASE a + n < Len(base)
        BY <1>6, <4>2
      <4>3. CASE ~(a + n < Len(base))
        <5>1. Len(base) = at + e
          BY <1>6, <2>4, <4>1, <4>3
        <5>2. QED
          BY <4>3, <5>1
      <4>4. QED
        BY <4>2, <4>3
    <3>3. QED
      BY <3>1, <3>2 DEF Units
  <2>6. SubSeq(base, at + i, at + e) = run
    <3> DEFINE t == SubSeq(base, at + i, at + e)
    <3>1. at + i \in 1 .. Len(base) + 1 /\ at + e \in (at + i) - 1 .. Len(base) /\ (at + e) - (at + i) + 1 = n
      BY <2>4 DEF n
    <3>2. t \in Seq(Nat) /\ Len(t) = (at + e) - (at + i) + 1
          /\ \A j \in 1 .. (at + e) - (at + i) + 1 : t[j] = base[(at + i) + j - 1]
      BY <3>1, SubSeqIs, ZenonT(60)
    <3>3. \A j \in 1 .. n : t[j] = base[(at + i) + j - 1]
      BY <3>1, <3>2
    <3>4. ASSUME NEW j \in 1 .. n PROVE base[(at + i) + j - 1] = buf[i + j - 1]
      <4>1. i + j - 1 \in i .. e /\ (at + i) + j - 1 = at + (i + j - 1)
        BY <2>4 DEF n
      <4>2. QED
        BY <2>3, <4>1
    <3> HIDE DEF t
    <3>5. t = run
      <4>1. t \in Seq(Nat) /\ run \in Seq(Nat) /\ Len(t) = Len(run)
        BY <1>7, <3>1, <3>2
      <4>2. \A j \in 1 .. n : t[j] = run[j]
        BY <1>7, <3>3, <3>4, Zenon
      <4>3. \A j \in 1 .. Len(t) : t[j] = run[j]
        BY <1>7, <4>1, <4>2, Zenon
      <4>4. QED
        BY <4>1, <4>3, SameSequence, Zenon
    <3>6. QED
      BY <3>5 DEF t
  <2>7. q + 1 = p + Len(Upto(P, e)) + 1
    <3>1. Len(Upto(P, e)) = l + 1
      BY <1>1, <1>9
    <3>2. p + l + 1 + 1 = p + (l + 1) + 1
      BY <1>1
    <3>3. QED
      BY <3>1, <3>2 DEF q
  <2>8. QED
    BY <1>6, <2>2, <2>5, <2>6, <2>7 DEF q, a, l, run, P, Gives
<1>10. CASE ~same[i]
  <2>1. s[q].op = "fresh" /\ s[q].n = n
    BY <1>1, <1>5, <1>10, SMTT(60) DEF Fresh
  <2>2. g[q][a] = [j \in 1 .. n |-> s[q + j].n] \o g[q + 1 + n][a + n]
    BY <1>5, <1>8, <2>1 DEF Decoded
  <2>3. \A j \in 1 .. n : s[q + j].n = run[j]
    <3> SUFFICES ASSUME NEW j \in 1 .. n PROVE s[q + j].n = run[j]
      OBVIOUS
    <3>1. l + 1 + j \in 1 .. Len(O) /\ O[l + 1 + j] = Unit(buf[i + j - 1])
      BY <1>1, <1>10
    <3>2. s[p + (l + 1 + j)] = Unit(buf[i + j - 1])
      BY <1>4, <3>1
    <3>3. p + (l + 1 + j) = q + j
      BY <1>1, <1>6 DEF q
    <3>4. s[q + j].n = buf[i + j - 1]
      BY <3>2, <3>3 DEF Unit
    <3>5. QED
      BY <1>7, <3>4
  <2>4. [j \in 1 .. n |-> s[q + j].n] = run
    <3>1. [j \in 1 .. n |-> s[q + j].n] = [j \in 1 .. n |-> run[j]]
      BY <2>3
    <3>2. [j \in 1 .. n |-> run[j]] = run
      BY <1>7
    <3>3. QED
      BY <3>1, <3>2
  <2>5. q + 1 + n = p + Len(Upto(P, e)) + 1
    <3>1. Len(Upto(P, e)) = l + 1 + n
      BY <1>1, <1>10
    <3>2. p + l + 1 + 1 + n = p + (l + 1 + n) + 1
      BY <1>1, <1>6
    <3>3. QED
      BY <3>1, <3>2 DEF q
  <2>6. QED
    BY <1>6, <2>2, <2>4, <2>5 DEF q, a, l, run, P, Gives
<1>11. QED
  BY <1>9, <1>10

\* Decoding what units are encoded to gives them back.
LEMMA OverlayDecoded ==
  ASSUME NEW buf \in Seq(Nat), NEW base \in Seq(Nat), NEW at \in Nat,
         NEW s \in Seq(Cells), NEW p \in Nat, HasAt(s, p, Overlay(buf, base, at)), NEW g, Decodes(g, s, base)
  PROVE  g[p + 1][at] = buf \o g[p + Len(Overlay(buf, base, at)) + 1][at + Len(buf)]
<1> DEFINE P == Parts(buf, base, at)
           same == Same(buf, base, at)
           len == Len(buf)
           rest == g[p + Len(Overlay(buf, base, at)) + 1][at + len]
           from(i) == g[p + Len(Upto(P, i - 1)) + 1][at + (i - 1)]
           Good(i) == from(i) = SubSeq(buf, i, len) \o rest
           T == {m \in Nat : \A i \in 1 .. len + 1 : i > len + 1 - m /\ (i = len + 1 \/ Starts(same, i)) => Good(i)}
<1>1. len \in Nat /\ P \in Seq(Seq(Cells)) /\ Len(P) = len /\ Overlay(buf, base, at) = Upto(P, len)
  BY PartsType, OverlayIs, UptoAll
<1>2. rest \in Seq(Given(s))
  <2>1. Len(Overlay(buf, base, at)) \in Nat
    BY OverlayType
  <2>2. p + Len(Overlay(buf, base, at)) + 1 \in Positive /\ at + len \in Nat
    BY <1>1, <2>1 DEF Positive
  <2>3. QED
    BY <2>2, DecodedType
<1>3. 0 \in T
  <2>1. \A i \in 1 .. len + 1 : ~(i > len + 1 - 0)
    BY <1>1
  <2> HIDE DEF Good
  <2>2. QED
    BY <2>1
<1>4. ASSUME NEW m \in Nat, m \in T PROVE m + 1 \in T
  <2>1. ASSUME NEW i \in 1 .. len + 1, i > len + 1 - (m + 1), i = len + 1 \/ Starts(same, i) PROVE Good(i)
    <3>1. \A j \in 1 .. len + 1 : j > i /\ (j = len + 1 \/ Starts(same, j)) => Good(j)
      <4>1. \A j \in 1 .. len + 1 : j > i => j > len + 1 - m
        BY <1>1, <2>1
      <4> HIDE DEF Good
      <4>2. QED
        BY <1>4, <4>1
    <3>2. CASE i = len + 1
      <4>1. i - 1 = len /\ from(i) = rest
        BY <1>1, <3>2
      <4>2. SubSeq(buf, i, len) = << >>
        BY <3>2
      <4> HIDE DEF rest, from
      <4>3. << >> \o rest = rest
        BY <1>2
      <4>4. QED
        BY <4>1, <4>2, <4>3
    <3>3. CASE i # len + 1
      <4>1. i \in 1 .. len /\ Starts(same, i)
        BY <1>1, <2>1, <3>3, SMTT(60)
      <4>2. PICK e : Run(buf, same, i, e)
        BY <4>1, RunExists
      <4>3. e \in i .. len /\ (e < len => Starts(same, e + 1))
        BY <4>2 DEF Run
      <4>4. e + 1 \in 1 .. len + 1 /\ e + 1 > i /\ (e + 1 = len + 1 \/ Starts(same, e + 1)) /\ (e + 1) - 1 = e
        <5>1. e \in Int /\ i \in Int /\ e >= i /\ e <= len /\ i >= 1
          BY <1>1, <4>1, <4>3
        <5>2. e + 1 \in 1 .. len + 1 /\ e + 1 > i /\ (e + 1) - 1 = e
          BY <1>1, <5>1
        <5>3. e = len \/ e < len
          BY <1>1, <5>1
        <5>4. QED
          BY <4>3, <5>2, <5>3
      <4>5. Good(e + 1)
        <5> HIDE DEF Good
        <5>1. QED
          BY <3>1, <4>4
      <4>6. from(i) = SubSeq(buf, i, e) \o g[p + Len(Upto(P, e)) + 1][at + e]
        <5>1. i \in 1 .. Len(buf) /\ Starts(Same(buf, base, at), i) /\ Run(buf, Same(buf, base, at), i, e)
          BY <4>1, <4>2
        <5>2. Gives(g, p, buf, base, at, i, e)
          BY <5>1, RunDecoded
        <5>3. QED
          BY <5>2 DEF Gives
      <4>7. from(e + 1) = g[p + Len(Upto(P, e)) + 1][at + e]
        BY <4>4
      <4> DEFINE a == SubSeq(buf, i, e)
                 b == SubSeq(buf, e + 1, len)
                 c == SubSeq(buf, i, len)
      <4>8. a \o b = c
        BY <4>1, <4>3, SubSeqJoin
      <4>9. a \in Seq(Given(s)) /\ b \in Seq(Given(s))
        <5>1. i \in 1 .. len + 1 /\ e \in i - 1 .. len /\ e + 1 \in 1 .. len + 1 /\ len \in (e + 1) - 1 .. len
          BY <1>1, <4>1, <4>3
        <5>2. a \in Seq(Nat) /\ b \in Seq(Nat)
          BY <5>1, SubSeqIs
        <5>3. QED
          BY <5>2, NatGiven
      <4>10. from(i) = a \o (b \o rest)
        <5>1. from(e + 1) = b \o rest
          BY <4>5
        <5> HIDE DEF from, rest, a, b
        <5>2. from(i) = a \o from(e + 1)
          BY <4>6, <4>7 DEF a
        <5>3. QED
          BY <5>1, <5>2
      <4> HIDE DEF a, b, c, rest, from
      <4>11. (a \o b) \o rest = a \o (b \o rest)
        BY <1>2, <4>9, SMTT(60)
      <4>12. from(i) = c \o rest
        BY <4>8, <4>10, <4>11
      <4>13. QED
        BY <4>12 DEF c, rest, from
    <3>4. QED
      BY <3>2, <3>3
  <2> HIDE DEF Good
  <2>2. QED
    BY <2>1
<1>5. len + 1 \in T
  <2>1. len + 1 \in Nat
    BY <1>1
  <2> HIDE DEF T
  <2>2. QED
    BY <1>3, <1>4, <2>1, SetInduction
<1>6. Good(1)
  <2>1. 1 \in 1 .. len + 1 /\ 1 > len + 1 - (len + 1) /\ Starts(same, 1)
    BY <1>1 DEF Starts
  <2> HIDE DEF Good
  <2>2. QED
    BY <1>5, <2>1
<1>7. from(1) = g[p + 1][at]
  <2>1. Upto(P, 1 - 1) = << >>
    BY UptoNone
  <2>2. Len(Upto(P, 1 - 1)) = 0
    BY <2>1
  <2>3. p + 0 + 1 = p + 1 /\ at + (1 - 1) = at
    OBVIOUS
  <2>4. QED
    BY <2>2, <2>3
<1>8. SubSeq(buf, 1, len) = buf
  OBVIOUS
<1> HIDE DEF from
<1>9. QED
  BY <1>6, <1>7, <1>8

\* However the cells of s go on after those of c, decoding comes past them with the
\* units of out.
Takes(c, base, out) ==
  \A s \in Seq(Cells) : \A g :
    Decodes(g, s, base) /\ HasAt(s, 0, c) => g[1][0] = out \o g[Len(c) + 1][Len(out)]

LEMMA TakesNothing ==
  ASSUME NEW base \in Seq(Nat)
  PROVE  Takes(<< >>, base, << >>)
<1> SUFFICES ASSUME NEW s \in Seq(Cells), NEW g, Decodes(g, s, base)
             PROVE  g[1][0] = << >> \o g[Len(<< >>) + 1][Len(<< >>)]
  BY DEF Takes
<1>1. 1 \in Positive /\ 0 \in Nat
  BY DEF Positive
<1>2. g[1][0] \in Seq(Given(s))
  BY <1>1, DecodedType
<1> DEFINE x == g[1][0]
<1>3. x = << >> \o x
  <2> HIDE DEF x
  <2>1. QED
    BY <1>2 DEF x
<1>4. Len(<< >>) = 0
  OBVIOUS
<1>5. QED
  BY <1>3, <1>4

LEMMA TakesMore ==
  ASSUME NEW base \in Seq(Nat), NEW c \in Seq(Cells), NEW out \in Seq(Nat), NEW buf \in Seq(Nat),
         Takes(c, base, out)
  PROVE  Takes(c \o Overlay(buf, base, Len(out)), base, out \o buf)
<1> DEFINE O == Overlay(buf, base, Len(out))
<1>1. O \in Seq(Cells)
  BY OverlayType
<1> SUFFICES ASSUME NEW s \in Seq(Cells), NEW g, Decodes(g, s, base), HasAt(s, 0, c \o O)
             PROVE  g[1][0] = (out \o buf) \o g[Len(c \o O) + 1][Len(out \o buf)]
  BY DEF Takes
<1> HIDE DEF O
<1>2. /\ Len(c \o O) = Len(c) + Len(O) /\ Len(c) \in Nat /\ Len(O) \in Nat
      /\ \A j \in 1 .. Len(c) : (c \o O)[j] = c[j]
      /\ \A j \in 1 .. Len(O) : (c \o O)[Len(c) + j] = O[j]
  BY <1>1, ConcatFacts
<1>3. Len(out \o buf) = Len(out) + Len(buf) /\ Len(out) \in Nat /\ Len(buf) \in Nat
  BY ConcatFacts
<1>4. /\ Len(c) + Len(O) <= Len(s)
      /\ \A j \in 1 .. Len(c) + Len(O) : s[j] = (c \o O)[j]
  <2>1. \A j \in 1 .. Len(c) + Len(O) : 0 + j = j
    OBVIOUS
  <2>2. 0 + (Len(c) + Len(O)) = Len(c) + Len(O)
    BY <1>2
  <2>3. QED
    BY <1>2, <2>1, <2>2 DEF HasAt
<1>5. HasAt(s, 0, c)
  <2>1. \A j \in 1 .. Len(c) : 0 + j = j /\ j \in 1 .. Len(c) + Len(O)
    BY <1>2
  <2>2. 0 + Len(c) <= Len(s)
    BY <1>2, <1>4
  <2>3. QED
    BY <1>2, <1>4, <2>1, <2>2 DEF HasAt
<1>6. HasAt(s, Len(c), O)
  <2>1. \A j \in 1 .. Len(O) : Len(c) + j \in 1 .. Len(c) + Len(O)
    BY <1>2
  <2>2. QED
    BY <1>2, <1>4, <2>1 DEF HasAt
<1>7. g[1][0] = out \o g[Len(c) + 1][Len(out)]
  BY <1>5 DEF Takes
<1>8. g[Len(c) + 1][Len(out)] = buf \o g[Len(c) + Len(O) + 1][Len(out) + Len(buf)]
  BY <1>2, <1>3, <1>6, OverlayDecoded, SMTT(60) DEF O
<1> DEFINE rest == g[Len(c) + Len(O) + 1][Len(out) + Len(buf)]
<1>9. rest \in Seq(Given(s))
  <2>1. Len(c) + Len(O) + 1 \in Positive /\ Len(out) + Len(buf) \in Nat
    BY <1>2, <1>3 DEF Positive
  <2>2. QED
    BY <2>1, DecodedType
<1>10. out \in Seq(Given(s)) /\ buf \in Seq(Given(s))
  BY NatGiven
<1>11. g[Len(c \o O) + 1][Len(out \o buf)] = rest
  BY <1>2, <1>3
<1>12. g[1][0] = out \o (buf \o rest)
  BY <1>7, <1>8
<1> HIDE DEF rest
<1>13. (out \o buf) \o rest = out \o (buf \o rest)
  <2>1. PICK S : S = Given(s)
    OBVIOUS
  <2>2. out \in Seq(S) /\ buf \in Seq(S) /\ rest \in Seq(S)
    BY <1>9, <1>10, <2>1, Zenon
  <2>3. QED
    BY <2>2, SMTT(60)
<1>14. QED
  BY <1>11, <1>12, <1>13

\* With the end marker after the cells, decoding is over.
LEMMA TakesAll ==
  ASSUME NEW base \in Seq(Nat), NEW c \in Seq(Cells), NEW out \in Seq(Nat), Takes(c, base, out),
         NEW s \in Seq(Cells), HasAt(s, 0, c), Len(c) < Len(s), s[Len(c) + 1] = Hey
  PROVE  Patched(s, base) = out
<1>1. PICK g : Decodes(g, s, base) /\ Patched(s, base) = g[1][0]
  BY PatchedIs
<1>2. g[1][0] = out \o g[Len(c) + 1][Len(out)]
  BY <1>1 DEF Takes
<1>3. Len(c) + 1 \in Positive /\ Len(out) \in Nat /\ ~(Len(c) + 1 > Len(s))
  BY DEF Positive
<1>4. g[Len(c) + 1][Len(out)] = Decoded(g, s, base, Len(c) + 1, Len(out))
  BY <1>1, <1>3 DEF Decodes
<1>5. s[Len(c) + 1].op = "hey"
  BY DEF Hey
<1>6. g[Len(c) + 1][Len(out)] = << >>
  BY <1>3, <1>4, <1>5 DEF Decoded
<1>7. out \o << >> = out
  OBVIOUS
<1>8. QED
  BY <1>1, <1>2, <1>6, <1>7

-----------------------------------------------------------------------------
(* What files hold of what their writers got                                *)

LEMMA SplitSeq ==
  ASSUME NEW S, NEW s \in Seq(S), NEW n \in 0 .. Len(s)
  PROVE  /\ SubSeq(s, 1, n) \in Seq(S)
         /\ SubSeq(s, n + 1, Len(s)) \in Seq(S)
         /\ SubSeq(s, 1, n) \o SubSeq(s, n + 1, Len(s)) = s
         /\ Len(SubSeq(s, 1, n)) = n
<1>1. 1 \in 1 .. Len(s) + 1 /\ n \in 1 - 1 .. Len(s) /\ n + 1 \in 1 .. Len(s) + 1 /\ Len(s) \in (n + 1) - 1 .. Len(s)
  OBVIOUS
<1>2. SubSeq(s, 1, n) \in Seq(S) /\ SubSeq(s, n + 1, Len(s)) \in Seq(S)
  BY <1>1, SubSeqIs
<1>3. Len(SubSeq(s, 1, n)) = n
  OBVIOUS
<1>4. SubSeq(s, 1, Len(s)) = s
  OBVIOUS
<1>5. CASE n = 0
  <2>1. SubSeq(s, 1, 0) = << >> /\ 0 + 1 = 1
    OBVIOUS
  <2>2. << >> \o s = s
    BY SMTT(60)
  <2>3. QED
    BY <1>2, <1>3, <1>4, <1>5, <2>1, <2>2
<1>6. CASE n # 0
  <2>1. 1 \in 1 .. Len(s) /\ n \in 1 .. Len(s)
    BY <1>6
  <2>2. SubSeq(s, 1, n) \o SubSeq(s, n + 1, Len(s)) = SubSeq(s, 1, Len(s))
    BY <2>1, SubSeqJoin
  <2>3. QED
    BY <1>2, <1>3, <1>4, <2>2
<1>7. QED
  BY <1>5, <1>6

\* Writing after what a file starts with.
LEMMA WriteAtIs ==
  ASSUME NEW S, NEW c \in Seq(S), NEW p \in Seq(S), HasAt(c, 0, p), NEW d \in Seq(S)
  PROVE  LET w == WriteAt(c, Len(p), d)
         IN /\ w \in Seq(S)
            /\ Len(w) = IF Len(p) + Len(d) > Len(c) THEN Len(p) + Len(d) ELSE Len(c)
            /\ HasAt(w, 0, p \o d)
            /\ HasAt(w, 0, p)
            /\ \A i \in 1 .. Len(p) : w[i] = c[i]
            /\ \A i \in 1 .. Len(d) : w[Len(p) + i] = d[i]
<1> DEFINE pos == Len(p)
           len == IF pos + Len(d) > Len(c) THEN pos + Len(d) ELSE Len(c)
           e(i) == IF i > pos /\ i <= pos + Len(d) THEN d[i - pos] ELSE IF i <= Len(c) THEN c[i] ELSE Hole
           w == WriteAt(c, pos, d)
<1>1. pos \in Nat /\ Len(d) \in Nat /\ Len(c) \in Nat /\ pos <= Len(c)
  BY DEF HasAt
<1>2. len \in Nat /\ (len = pos + Len(d) \/ len = Len(c)) /\ len >= pos + Len(d) /\ len >= Len(c)
  BY <1>1
<1>3. w = [i \in 1 .. len |-> e(i)]
  BY DEF WriteAt
<1>4. \A i \in 1 .. len : e(i) \in S
  <2> SUFFICES ASSUME NEW i \in 1 .. len PROVE e(i) \in S
    OBVIOUS
  <2>1. CASE i > pos /\ i <= pos + Len(d)
    <3>1. i - pos \in 1 .. Len(d)
      BY <1>1, <1>2, <2>1
    <3>2. d[i - pos] \in S
      BY <3>1
    <3>3. QED
      BY <2>1, <3>2
  <2>2. CASE ~(i > pos /\ i <= pos + Len(d))
    <3>1. i \in 1 .. Len(c)
      BY <1>1, <1>2, <2>2
    <3>2. c[i] \in S /\ i <= Len(c)
      BY <3>1
    <3>3. QED
      BY <2>2, <3>2
  <2>3. QED
    BY <2>1, <2>2
<1>5. w \in Seq(S) /\ Len(w) = len /\ \A i \in 1 .. len : w[i] = e(i)
  <2> HIDE DEF w, len, e
  <2>1. QED
    BY <1>2, <1>3, <1>4
<1>6. \A i \in 1 .. pos : i \in 1 .. len /\ e(i) = c[i]
  BY <1>1, <1>2
<1>7. \A i \in 1 .. Len(d) : pos + i \in 1 .. len /\ e(pos + i) = d[i]
  <2> SUFFICES ASSUME NEW i \in 1 .. Len(d) PROVE pos + i \in 1 .. len /\ e(pos + i) = d[i]
    OBVIOUS
  <2>1. pos + i \in 1 .. len /\ pos + i > pos /\ pos + i <= pos + Len(d) /\ (pos + i) - pos = i
    <3> HIDE DEF pos, len
    <3>1. QED
      BY <1>1, <1>2
  <2>2. QED
    BY <2>1
<1> HIDE DEF e, w
<1>8. \A i \in 1 .. pos : w[i] = c[i]
  BY <1>5, <1>6
<1>9. \A i \in 1 .. Len(d) : w[pos + i] = d[i]
  BY <1>5, <1>7
<1>10. \A i \in 1 .. pos : 0 + i = i /\ c[i] = p[i]
  <2>1. \A i \in 1 .. pos : 0 + i = i
    BY <1>1
  <2>2. QED
    BY <2>1 DEF HasAt
<1>11. HasAt(w, 0, p)
  <2>1. 0 + pos <= Len(w)
    BY <1>1, <1>2, <1>5
  <2>2. QED
    BY <1>8, <1>10, <2>1 DEF HasAt
<1>12. HasAt(w, 0, p \o d)
  <2>1. Len(p \o d) = pos + Len(d)
    BY ConcatFacts
  <2>2. 0 + Len(p \o d) <= Len(w)
    BY <1>1, <1>2, <1>5, <2>1
  <2>3. ASSUME NEW j \in 1 .. Len(p \o d) PROVE w[0 + j] = (p \o d)[j]
    <3>1. 0 + j = j /\ j \in Int
      BY <1>1, <2>1
    <3>2. CASE j <= pos
      <4>1. j \in 1 .. pos
        BY <1>1, <3>1, <3>2, <2>1
      <4>2. (p \o d)[j] = p[j]
        BY <4>1, ConcatFacts
      <4>3. QED
        BY <1>8, <1>10, <3>1, <4>1, <4>2
    <3>3. CASE j > pos
      <4>1. j - pos \in 1 .. Len(d) /\ pos + (j - pos) = j
        BY <1>1, <2>1, <3>1, <3>3
      <4>2. (p \o d)[pos + (j - pos)] = d[j - pos]
        BY <4>1, ConcatFacts
      <4>3. QED
        BY <1>9, <3>1, <4>1, <4>2
    <3>4. QED
      BY <1>1, <3>1, <3>2, <3>3
  <2>4. QED
    BY <2>2, <2>3 DEF HasAt
<1>13. QED
  BY <1>5, <1>8, <1>9, <1>11, <1>12 DEF w

\* These facts, for the sequences in question: the provers find them quicker.
LEMMA NatAssoc == \A s, t, u \in Seq(Nat) : (s \o t) \o u = s \o (t \o u)
  BY SMTT(60)

LEMMA CellsConcat ==
  \A s, t \in Seq(Cells) :
    /\ s \o t \in Seq(Cells)
    /\ Len(s \o t) = Len(s) + Len(t)
    /\ \A i \in 1 .. Len(s) : (s \o t)[i] = s[i]
    /\ \A i \in 1 .. Len(t) : (s \o t)[Len(s) + i] = t[i]
  BY ConcatFacts

\* What writing d after the start p of c makes of it.
Written(S, c, p, d) ==
  LET w == WriteAt(c, Len(p), d)
  IN /\ w \in Seq(S)
     /\ Len(w) = IF Len(p) + Len(d) > Len(c) THEN Len(p) + Len(d) ELSE Len(c)
     /\ HasAt(w, 0, p \o d)
     /\ HasAt(w, 0, p)
     /\ \A i \in 1 .. Len(p) : w[i] = c[i]
     /\ \A i \in 1 .. Len(d) : w[Len(p) + i] = d[i]

LEMMA CellsWritten ==
  \A c, p, d \in Seq(Cells) : HasAt(c, 0, p) => Written(Cells, c, p, d)
  BY WriteAtIs DEF Written

LEMMA NatWritten ==
  \A c, p, d \in Seq(Nat) : HasAt(c, 0, p) => Written(Nat, c, p, d)
  BY WriteAtIs DEF Written

\* Whether the bowl b overlays file f, and the old file it compares it with.
Overlays(b, f) == b = "overlay" /\ Patch[f].base # 0

Base(f) == Old[Patch[f].base]

PosOf(b, f, w) == IF Overlays(b, f) THEN w.over ELSE w.pos

\* With what its writer w buffers, the cells c hold the units of out.
Held(b, f, w, c, out) ==
  IF Overlays(b, f)
    THEN \E p \in Seq(Cells), part \in Seq(Nat) :
           /\ Len(p) = w.over
           /\ HasAt(c, 0, p)
           /\ Takes(p, Base(f), part)
           /\ Len(part) = w.read
           /\ out = part \o w.buf
    ELSE w.buf = << >> /\ w.pos = Len(out) /\ HasAt(c, 0, out)

LEMMA BaseIs ==
  ASSUME NEW b, NEW f \in Files, Overlays(b, f)
  PROVE  Base(f) \in Seq(Nat)
<1>1. Patch[f].base \in DOMAIN Old
  BY PatchShape DEF Overlays
<1>2. QED
  BY <1>1, OldIs DEF Base

\* Holding something goes on while what is before the writer's place stays.
LEMMA HeldStays ==
  ASSUME NEW b, NEW f, NEW w \in Writers, NEW c, NEW d, NEW out \in Seq(Nat), Held(b, f, w, c, out),
         PosOf(b, f, w) <= Len(d), \A i \in 1 .. PosOf(b, f, w) : d[i] = c[i]
  PROVE  Held(b, f, w, d, out)
<1>1. ASSUME NEW S, NEW p \in Seq(S), HasAt(c, 0, p), Len(p) = PosOf(b, f, w) PROVE HasAt(d, 0, p)
  <2>1. 0 + Len(p) = Len(p) /\ \A i \in 1 .. Len(p) : 0 + i = i
    OBVIOUS
  <2>2. QED
    BY <1>1, <2>1 DEF HasAt
<1>2. CASE Overlays(b, f)
  BY <1>1, <1>2, Zenon DEF Held, PosOf
<1>3. CASE ~Overlays(b, f)
  BY <1>1, <1>3, Zenon DEF Held, PosOf
<1>4. QED
  BY <1>2, <1>3

\* What it means: the cells decode to what the writer got, but for what it buffers.
LEMMA HeldIs ==
  ASSUME NEW f \in Files, NEW w \in Writers, NEW c \in Seq(IF Overlays(bowl, f) THEN Cells ELSE Nat),
         NEW out \in Seq(Nat), Held(bowl, f, w, c, out)
  PROVE  WriterPos(f, w) <= Len(c) /\ Prefix(f, w, c) = out
<1>1. CASE Overlays(bowl, f)
  <2>1. PICK p \in Seq(Cells), part \in Seq(Nat) :
          /\ Len(p) = w.over
          /\ HasAt(c, 0, p)
          /\ Takes(p, Base(f), part)
          /\ Len(part) = w.read
          /\ out = part \o w.buf
    BY <1>1 DEF Held
  <2>2. c \in Seq(Cells) /\ Base(f) \in Seq(Nat)
    BY <1>1, BaseIs
  <2> DEFINE n == Len(p)
             start == SubSeq(c, 1, n)
             s == start \o <<Hey>>
  <2>3. n \in 0 .. Len(c) /\ \A i \in 1 .. n : c[i] = p[i]
    <3>1. 0 + Len(p) = Len(p) /\ \A i \in 1 .. Len(p) : 0 + i = i
      OBVIOUS
    <3>2. QED
      BY <2>1, <2>2, <3>1 DEF HasAt
  <2>4. start \in Seq(Cells) /\ Len(start) = n
    BY <2>2, <2>3, SplitSeq
  <2>5. \A i \in 1 .. n : start[i] = p[i]
    <3>1. 1 \in 1 .. Len(c) + 1 /\ n \in 1 - 1 .. Len(c) /\ n - 1 + 1 = n /\ \A i \in 1 .. n : 1 + i - 1 = i
      BY <2>2, <2>3
    <3>2. \A j \in 1 .. n - 1 + 1 : SubSeq(c, 1, n)[j] = c[1 + j - 1]
      BY <2>2, <3>1, SubSeqIs
    <3> HIDE DEF start, n
    <3>3. QED
      BY <2>3, <3>1, <3>2 DEF start
  <2>6. start = p
    <3> HIDE DEF start
    <3>1. QED
      BY <2>4, <2>5, SameSequence
  <2>7. Hey \in Cells
    BY CellsAre
  <2> DEFINE e == <<Hey>>
  <2>8. e \in Seq(Cells) /\ Len(e) = 1 /\ e[1] = Hey
    BY <2>7
  <2>9. s = p \o e
    BY <2>6
  <2> HIDE DEF e, start, s
  <2>10. s \in Seq(Cells) /\ Len(s) = n + 1 /\ (\A i \in 1 .. n : s[i] = p[i]) /\ s[n + 1] = Hey
    <3>1. 1 \in 1 .. Len(e)
      BY <2>8
    <3>2. /\ p \o e \in Seq(Cells) /\ Len(p \o e) = Len(p) + Len(e)
          /\ \A i \in 1 .. Len(p) : (p \o e)[i] = p[i]
          /\ \A i \in 1 .. Len(e) : (p \o e)[Len(p) + i] = e[i]
      BY <2>8, CellsConcat, Zenon
    <3>3. (p \o e)[Len(p) + 1] = e[1]
      BY <3>1, <3>2
    <3>4. QED
      BY <2>8, <2>9, <3>2, <3>3
  <2>11. HasAt(s, 0, p)
    <3>1. 0 + n <= Len(s) /\ \A i \in 1 .. n : 0 + i = i
      BY <2>10
    <3>2. QED
      BY <2>10, <3>1 DEF HasAt
  <2>12. Patched(s, Base(f)) = part
    BY <2>1, <2>2, <2>10, <2>11, TakesAll
  <2>13. w.over = n /\ n <= Len(c)
    BY <2>1, <2>2, <2>3
  <2>14. Prefix(f, w, c) = Patched(s, Base(f)) \o w.buf
    BY <1>1, <2>13 DEF Prefix, Overlaid, Overlays, Base, s, start
  <2>15. WriterPos(f, w) = w.over
    BY <1>1 DEF WriterPos, Overlaid, Overlays
  <2>16. QED
    BY <2>1, <2>12, <2>13, <2>14, <2>15
<1>2. CASE ~Overlays(bowl, f)
  <2>1. c \in Seq(Nat) /\ w.buf = << >> /\ w.pos = Len(out) /\ HasAt(c, 0, out)
    BY <1>2 DEF Held
  <2>2. Prefix(f, w, c) = SubSeq(c, 1, w.pos) /\ WriterPos(f, w) = w.pos
    BY <1>2 DEF Prefix, WriterPos, Overlaid, Overlays
  <2>3. Len(out) \in 0 .. Len(c) /\ \A i \in 1 .. Len(out) : c[i] = out[i]
    <3>1. 0 + Len(out) = Len(out) /\ \A i \in 1 .. Len(out) : 0 + i = i
      OBVIOUS
    <3>2. QED
      BY <2>1, <3>1 DEF HasAt
  <2> DEFINE n == Len(out)
             start == SubSeq(c, 1, n)
  <2>4. start \in Seq(Nat) /\ Len(start) = n
    BY <2>1, <2>3, SplitSeq
  <2>5. \A i \in 1 .. n : start[i] = out[i]
    <3>1. 1 \in 1 .. Len(c) + 1 /\ n \in 1 - 1 .. Len(c) /\ n - 1 + 1 = n /\ \A i \in 1 .. n : 1 + i - 1 = i
      BY <2>1, <2>3
    <3>2. \A j \in 1 .. n - 1 + 1 : SubSeq(c, 1, n)[j] = c[1 + j - 1]
      BY <2>1, <3>1, SubSeqIs
    <3> HIDE DEF start, n
    <3>3. QED
      BY <2>3, <3>1, <3>2 DEF start, n
  <2>6. start = out
    <3> HIDE DEF start
    <3>1. QED
      BY <2>4, <2>5, SameSequence
  <2>7. QED
    BY <2>1, <2>2, <2>3, <2>6
<1>3. QED
  BY <1>1, <1>2

\* Units that come to an overlay writer are buffered first.
LEMMA HeldLonger ==
  ASSUME Overlays(bowl, file), NEW w \in Writers, NEW d \in Seq(Nat), NEW c, NEW out \in Seq(Nat),
         Held(bowl, file, w, c, out)
  PROVE  Held(bowl, file, Longer(w, d), c, out \o d)
<1>1. PICK p \in Seq(Cells), part \in Seq(Nat) :
        /\ Len(p) = w.over
        /\ HasAt(c, 0, p)
        /\ Takes(p, Base(file), part)
        /\ Len(part) = w.read
        /\ out = part \o w.buf
  BY DEF Held
<1>2. Longer(w, d).buf = w.buf \o d /\ Longer(w, d).read = w.read /\ Longer(w, d).over = w.over
  BY LongerIs DEF Overlays, Overlaid
<1>3. w.buf \in Seq(Nat)
  BY DEF Writers
<1>4. (part \o w.buf) \o d = part \o (w.buf \o d)
  <2> DEFINE x == w.buf
  <2>1. x \in Seq(Nat)
    BY <1>3
  <2> HIDE DEF x
  <2>2. (part \o x) \o d = part \o (x \o d)
    BY <2>1, NatAssoc, ZenonT(60)
  <2>3. QED
    BY <2>2 DEF x
<1>5. out \o d = part \o Longer(w, d).buf
  BY <1>1, <1>2, <1>4
<1>6. QED
  BY <1>1, <1>2, <1>5 DEF Held

\* What becomes of a file when n buffered units are written to it, with the cells of
\* end after theirs.
Moves(b, f, w, n, c, end, out) ==
  LET step == Processed(f, w, n)
      W == WriteAt(c, w.over, step.cells \o end)
  IN /\ Held(b, f, step.writer, W, out)
     /\ W \in Seq(Cells)
     /\ w.over <= step.writer.over
     /\ w.over <= Len(W)
     /\ step.writer.over + Len(end) <= Len(W)
     /\ \A i \in 1 .. w.over : W[i] = c[i]
     /\ \A i \in 1 .. Len(end) : W[step.writer.over + i] = end[i]

\* Processing buffered units moves them to the file.
LEMMA HeldProcessed ==
  ASSUME NEW b, NEW f \in Files, Overlays(b, f), NEW w \in Writers, NEW n \in 0 .. Len(w.buf), NEW c \in Seq(Cells),
         NEW end \in Seq(Cells), NEW out \in Seq(Nat), Held(b, f, w, c, out)
  PROVE  Moves(b, f, w, n, c, end, out)
<1>1. PICK p \in Seq(Cells), part \in Seq(Nat) :
        /\ Len(p) = w.over
        /\ HasAt(c, 0, p)
        /\ Takes(p, Base(f), part)
        /\ Len(part) = w.read
        /\ out = part \o w.buf
  BY DEF Held
<1> DEFINE step == Processed(f, w, n)
           head == SubSeq(w.buf, 1, n)
           rest == SubSeq(w.buf, n + 1, Len(w.buf))
           cells == step.cells
           W == WriteAt(c, w.over, cells \o end)
<1>2. /\ step.writer \in Writers
      /\ cells = Overlay(head, Base(f), w.read) /\ cells \in Seq(Cells)
      /\ step.writer.buf = rest
      /\ step.writer.read = w.read + n
      /\ step.writer.over = w.over + Len(cells)
  BY ProcessedIs DEF Base
<1>3. w.buf \in Seq(Nat) /\ w.over \in Nat /\ Base(f) \in Seq(Nat)
  BY BaseIs DEF Writers
<1>4. head \in Seq(Nat) /\ rest \in Seq(Nat) /\ head \o rest = w.buf /\ Len(head) = n
  BY <1>3, SplitSeq
<1> HIDE DEF step, cells, head, rest
<1>5. Len(cells) \in Nat /\ cells \o end \in Seq(Cells) /\ Len(cells \o end) = Len(cells) + Len(end)
      /\ \A i \in 1 .. Len(end) : (cells \o end)[Len(cells) + i] = end[i]
  BY <1>2, ConcatFacts
<1>6. /\ W \in Seq(Cells)
      /\ Len(W) = IF Len(p) + Len(cells \o end) > Len(c) THEN Len(p) + Len(cells \o end) ELSE Len(c)
      /\ HasAt(W, 0, p \o (cells \o end))
      /\ \A i \in 1 .. Len(p) : W[i] = c[i]
      /\ \A i \in 1 .. Len(cells \o end) : W[Len(p) + i] = (cells \o end)[i]
  <2> DEFINE d == cells \o end
             V == WriteAt(c, Len(p), d)
  <2>1. d \in Seq(Cells)
    BY <1>5
  <2>2. W = V
    BY <1>1
  <2> HIDE DEF d
  <2>3. /\ V \in Seq(Cells)
        /\ Len(V) = IF Len(p) + Len(d) > Len(c) THEN Len(p) + Len(d) ELSE Len(c)
        /\ HasAt(V, 0, p \o d)
        /\ \A i \in 1 .. Len(p) : V[i] = c[i]
        /\ \A i \in 1 .. Len(d) : V[Len(p) + i] = d[i]
    <3>1. p \in Seq(Cells) /\ HasAt(c, 0, p)
      BY <1>1
    <3>2. Written(Cells, c, p, d)
      BY <2>1, <3>1, CellsWritten, Zenon
    <3>3. QED
      BY <3>2, Zenon DEF Written
  <2> HIDE DEF V, W
  <2>4. QED
    BY <2>2, <2>3 DEF d
<1> HIDE DEF W
<1>7. Takes(p \o cells, Base(f), part \o head)
  <2>1. cells = Overlay(head, Base(f), Len(part))
    BY <1>1, <1>2
  <2>2. QED
    BY <1>1, <1>3, <1>4, <2>1, TakesMore
<1>8. /\ p \o cells \in Seq(Cells) /\ Len(p \o cells) = w.over + Len(cells)
      /\ part \o head \in Seq(Nat) /\ Len(part \o head) = w.read + n
  <2>1. p \in Seq(Cells) /\ part \in Seq(Nat) /\ Len(p) = w.over /\ Len(part) = w.read
    BY <1>1
  <2>2. p \o cells \in Seq(Cells) /\ Len(p \o cells) = Len(p) + Len(cells)
    BY <1>2, <2>1, ConcatFacts, ZenonT(60)
  <2>3. part \o head \in Seq(Nat) /\ Len(part \o head) = Len(part) + Len(head)
    BY <1>4, <2>1, ConcatFacts, ZenonT(60)
  <2>4. QED
    BY <1>4, <2>1, <2>2, <2>3
<1>9. HasAt(W, 0, p \o cells)
  <2>1. p \o (cells \o end) = (p \o cells) \o end
    BY <1>2, SMTT(60)
  <2>2. Len((p \o cells) \o end) = Len(p \o cells) + Len(end) /\ Len(p \o cells) \in Nat /\ Len(end) \in Nat
        /\ \A j \in 1 .. Len(p \o cells) : ((p \o cells) \o end)[j] = (p \o cells)[j]
    BY <1>8, ConcatFacts, SMTT(60)
  <2>3. HasAt(W, 0, (p \o cells) \o end)
    BY <1>6, <2>1
  <2> DEFINE x == p \o cells
             y == (p \o cells) \o end
  <2>4. Len(y) = Len(x) + Len(end) /\ Len(x) \in Nat /\ Len(end) \in Nat /\ (\A j \in 1 .. Len(x) : y[j] = x[j])
        /\ HasAt(W, 0, y) /\ Len(W) \in Nat
    BY <1>6, <2>2, <2>3
  <2> HIDE DEF x, y
  <2>5. 0 + Len(x) <= Len(W) /\ \A j \in 1 .. Len(x) : 0 + j = j /\ j \in 1 .. Len(y)
    BY <2>4 DEF HasAt
  <2>6. HasAt(W, 0, x)
    BY <2>4, <2>5 DEF HasAt
  <2>7. QED
    BY <2>6 DEF x
<1>10. out = (part \o head) \o rest
  <2>1. part \in Seq(Nat) /\ head \in Seq(Nat) /\ rest \in Seq(Nat)
    BY <1>1, <1>4
  <2>2. (part \o head) \o rest = part \o (head \o rest)
    BY <2>1, NatAssoc, Zenon
  <2>3. QED
    BY <1>1, <1>4, <2>2, Zenon
<1>11. Held(b, f, step.writer, W, out)
  BY <1>2, <1>7, <1>8, <1>9, <1>10 DEF Held
<1>12. w.over <= w.over + Len(cells) /\ (w.over + Len(cells)) + Len(end) <= Len(W) /\ w.over <= Len(W)
  <2>1. Len(end) \in Nat /\ Len(c) \in Nat
    OBVIOUS
  <2>2. Len(p) + Len(cells \o end) <= Len(W)
    BY <1>1, <1>3, <1>5, <1>6, <2>1, SMTT(60)
  <2>3. QED
    BY <1>1, <1>3, <1>5, <2>1, <2>2, SMTT(60)
<1>13. \A i \in 1 .. Len(end) : W[(w.over + Len(cells)) + i] = end[i]
  <2> SUFFICES ASSUME NEW i \in 1 .. Len(end) PROVE W[(w.over + Len(cells)) + i] = end[i]
    OBVIOUS
  <2>1. Len(cells) + i \in 1 .. Len(cells \o end) /\ w.over + (Len(cells) + i) = (w.over + Len(cells)) + i
    BY <1>3, <1>5, SMTT(60)
  <2>2. W[w.over + (Len(cells) + i)] = (cells \o end)[Len(cells) + i]
    BY <1>1, <1>6, <2>1
  <2>3. QED
    BY <1>5, <2>1, <2>2
<1>14. QED
  BY <1>1, <1>2, <1>6, <1>11, <1>12, <1>13 DEF step, cells, W, Moves

\* What comes before the writer's place is the same in d as in c.
Ahead(b, f, w, c, d) == PosOf(b, f, w) <= Len(d) /\ \A i \in 1 .. PosOf(b, f, w) : d[i] = c[i]

LEMMA HeldWithin ==
  ASSUME NEW b, NEW f, NEW w \in Writers, NEW c, NEW out \in Seq(Nat), Held(b, f, w, c, out)
  PROVE  PosOf(b, f, w) <= Len(c) /\ Ahead(b, f, w, c, c)
<1>1. ASSUME NEW S, NEW p \in Seq(S), HasAt(c, 0, p) PROVE Len(p) <= Len(c)
  <2>1. 0 + Len(p) = Len(p)
    OBVIOUS
  <2>2. QED
    BY <1>1, <2>1 DEF HasAt
<1>2. PosOf(b, f, w) <= Len(c)
  <2>1. CASE Overlays(b, f)
    BY <1>1, <2>1, Zenon DEF Held, PosOf
  <2>2. CASE ~Overlays(b, f)
    BY <1>1, <2>2, Zenon DEF Held, PosOf
  <2>3. QED
    BY <2>1, <2>2
<1>3. QED
  BY <1>2 DEF Ahead

\* A writer that has just been opened.
LEMMA HeldNothing ==
  ASSUME NEW b, NEW f \in Files, NEW c \in Seq(IF Overlays(b, f) THEN Cells ELSE Nat)
  PROVE  Held(b, f, NoWriter, c, << >>)
<1>1. /\ NoWriter.buf = << >> /\ NoWriter.pos = 0 /\ NoWriter.read = 0 /\ NoWriter.over = 0
      /\ Len(<< >>) = 0 /\ << >> \in Seq(Nat) /\ << >> \in Seq(Cells) /\ << >> = << >> \o << >>
  BY NoWriterIs
<1>2. HasAt(c, 0, << >>)
  BY <1>1 DEF HasAt
<1>3. CASE Overlays(b, f)
  <2>1. Takes(<< >>, Base(f), << >>)
    BY <1>3, BaseIs, TakesNothing
  <2>2. QED
    BY <1>1, <1>2, <1>3, <2>1, Zenon DEF Held
<1>4. CASE ~Overlays(b, f)
  BY <1>1, <1>2, <1>4, Zenon DEF Held
<1>5. QED
  BY <1>3, <1>4

\* What a file that is being made may hold.
Stored(b, f, c) ==
  /\ c \in Seq(IF Overlays(b, f) THEN Cells ELSE Nat)
  /\ ~Overlays(b, f) => Len(c) <= Len(NewFile[f])

Store(b, l) == DOMAIN l = Files /\ \A f \in Files : Stored(b, f, l[f])

\* EntryWriter.Write: the file holds what was written and what is written now, and
\* what it held before the writer's place.
LEMMA HeldWrite ==
  ASSUME file \in Files, NEW w \in Writers, NEW d \in Seq(Nat), NEW out \in Seq(Nat), Store(bowl, disk),
         Held(bowl, file, w, disk[file], out), Len(out) + Len(d) <= Len(NewFile[file]), Write(w, d)
  PROVE  /\ Store(bowl, disk')
         /\ \A g \in Files \ {file} : disk'[g] = disk[g]
         /\ Held(bowl, file, writer', disk'[file], out \o d)
         /\ Len(writer'.buf) <= BufSize
         /\ PosOf(bowl, file, w) <= PosOf(bowl, file, writer')
         /\ Ahead(bowl, file, w, disk[file], disk'[file])
<1> DEFINE more == Longer(w, d)
           step == Processed(file, more, Overflow(more))
           c == disk[file]
           W == WriteAt(c, w.over, step.cells)
<1>1. more \in Writers /\ more.over = w.over /\ more.pos = w.pos + Len(d) /\ more.buf = IF Overlaid(file) THEN w.buf \o d ELSE w.buf
  BY LongerIs
<1>2. c \in Seq(IF Overlays(bowl, file) THEN Cells ELSE Nat) /\ DOMAIN disk = Files
  BY DEF Store, Stored
<1>3. ASSUME NEW x, disk' = [disk EXCEPT ![file] = x], Stored(bowl, file, x)
      PROVE  Store(bowl, disk') /\ disk'[file] = x /\ \A g \in Files \ {file} : disk'[g] = disk[g]
  BY <1>3 DEF Store
<1>4. CASE Overlays(bowl, file)
  <2>1. writer' = step.writer /\ disk' = [disk EXCEPT ![file] = W]
    BY <1>4, WriteIs DEF Overlays, Overlaid
  <2>2. Overflow(more) \in 0 .. Len(more.buf) /\ Len(more.buf) - Overflow(more) <= BufSize
    BY <1>1, OverflowIs
  <2>3. Held(bowl, file, more, c, out \o d) /\ out \o d \in Seq(Nat)
    BY <1>4, HeldLonger
  <2>4. step.writer \in Writers /\ step.cells \in Seq(Cells) /\ step.writer.buf = SubSeq(more.buf, Overflow(more) + 1, Len(more.buf))
    BY <1>1, <2>2, ProcessedIs
  <2>5. step.cells \o << >> = step.cells /\ << >> \in Seq(Cells) /\ Len(<< >>) = 0
    BY <2>4
  <2> HIDE DEF more, step
  <2>6. /\ Held(bowl, file, step.writer, W, out \o d)
        /\ W \in Seq(Cells)
        /\ more.over <= step.writer.over
        /\ more.over <= Len(W)
        /\ \A i \in 1 .. more.over : W[i] = c[i]
    <3>1. c \in Seq(Cells)
      BY <1>2, <1>4
    <3> DEFINE V == WriteAt(c, more.over, step.cells \o << >>)
    <3>2. V = W
      BY <1>1, <2>5
    <3> HIDE DEF V, W, c
    <3>3. Moves(bowl, file, more, Overflow(more), c, << >>, out \o d)
      BY <1>1, <1>4, <2>2, <2>3, <2>5, <3>1, HeldProcessed
    <3>4. /\ Held(bowl, file, step.writer, V, out \o d)
          /\ V \in Seq(Cells)
          /\ more.over <= step.writer.over
          /\ more.over <= Len(V)
          /\ \A i \in 1 .. more.over : V[i] = c[i]
      BY <3>3, Zenon DEF step, V, Moves
    <3>5. QED
      BY <3>2, <3>4
  <2>7. Stored(bowl, file, W)
    BY <1>4, <2>6 DEF Stored
  <2> HIDE DEF W
  <2>8. Store(bowl, disk') /\ disk'[file] = W /\ \A g \in Files \ {file} : disk'[g] = disk[g]
    BY <1>3, <2>1, <2>7
  <2>9. PosOf(bowl, file, w) = w.over /\ PosOf(bowl, file, writer') = step.writer.over
    BY <1>4, <2>1 DEF PosOf
  <2>10. Len(writer'.buf) <= BufSize
    <3>1. more.buf \in Seq(Nat)
      BY <1>1 DEF Writers
    <3>2. Len(SubSeq(more.buf, Overflow(more) + 1, Len(more.buf))) = Len(more.buf) - Overflow(more)
      <4> DEFINE n == Overflow(more)
                 s == more.buf
      <4>1. s \in Seq(Nat) /\ n \in 0 .. Len(s)
        BY <2>2, <3>1
      <4> HIDE DEF n, s
      <4>2. n + 1 \in 1 .. Len(s) + 1 /\ Len(s) \in (n + 1) - 1 .. Len(s) /\ Len(s) - (n + 1) + 1 = Len(s) - n
        BY <4>1
      <4>3. Len(SubSeq(s, n + 1, Len(s))) = Len(s) - n
        BY <4>1, <4>2, SubSeqIs, ZenonT(60)
      <4>4. QED
        BY <4>3 DEF n, s
    <3>3. QED
      BY <2>1, <2>2, <2>4, <3>2
  <2>11. QED
    BY <1>1, <2>1, <2>6, <2>8, <2>9, <2>10 DEF Ahead
<1>5. CASE ~Overlays(bowl, file)
  <2> DEFINE V == WriteAt(c, w.pos, d)
  <2>1. writer' = more /\ disk' = [disk EXCEPT ![file] = V] /\ ~Overlaid(file)
    BY <1>5, WriteIs DEF Overlays, Overlaid
  <2>2. w.buf = << >> /\ w.pos = Len(out) /\ HasAt(c, 0, out) /\ c \in Seq(Nat) /\ Len(c) <= Len(NewFile[file])
    BY <1>5 DEF Held, Store, Stored
  <2> HIDE DEF more, c
  <2>3. Written(Nat, c, out, d)
    BY <2>2, NatWritten, Zenon
  <2>4. /\ V \in Seq(Nat)
        /\ Len(V) = IF Len(out) + Len(d) > Len(c) THEN Len(out) + Len(d) ELSE Len(c)
        /\ HasAt(V, 0, out \o d)
        /\ \A i \in 1 .. Len(out) : V[i] = c[i]
    BY <2>2, <2>3, Zenon DEF Written
  <2> HIDE DEF V
  <2>5. Len(V) <= Len(NewFile[file]) /\ Len(out) <= Len(V) /\ Len(out) \in Nat /\ Len(d) \in Nat /\ Len(out \o d) = Len(out) + Len(d)
    <3>1. Len(c) \in Nat /\ Len(out) \in Nat /\ Len(d) \in Nat
      BY <2>2
    <3>2. Len(out \o d) = Len(out) + Len(d)
      BY ConcatFacts
    <3>3. Len(V) = IF Len(out) + Len(d) > Len(c) THEN Len(out) + Len(d) ELSE Len(c)
      BY <2>4
    <3> DEFINE v == Len(V)
               o == Len(out)
               e == Len(d)
               l == Len(c)
               n == Len(NewFile[file])
    <3>4. v = (IF o + e > l THEN o + e ELSE l) /\ o \in Nat /\ e \in Nat /\ l \in Nat /\ l <= n /\ o + e <= n
      BY <2>2, <3>1, <3>3
    <3> HIDE DEF v, o, e, l, n
    <3>5. v <= n /\ o <= v
      BY <3>4
    <3>6. QED
      BY <3>1, <3>2, <3>5 DEF v, o, n
  <2>6. Stored(bowl, file, V)
    BY <1>5, <2>4, <2>5 DEF Stored
  <2>7. Store(bowl, disk') /\ disk'[file] = V /\ \A g \in Files \ {file} : disk'[g] = disk[g]
    BY <1>3, <2>1, <2>6
  <2>8. writer'.buf = << >> /\ writer'.pos = Len(out \o d)
    BY <1>1, <2>1, <2>2, <2>5
  <2>9. Held(bowl, file, writer', disk'[file], out \o d)
    BY <1>5, <2>4, <2>7, <2>8 DEF Held
  <2>10. PosOf(bowl, file, w) = Len(out) /\ PosOf(bowl, file, writer') = Len(out) + Len(d)
    BY <1>5, <2>2, <2>5, <2>8 DEF PosOf
  <2>11. Len(writer'.buf) <= BufSize
    BY <2>8, BufSizeAssumption
  <2>12. QED
    BY <2>4, <2>5, <2>7, <2>9, <2>10, <2>11 DEF Ahead, c
<1>6. QED
  BY <1>4, <1>5

Put(x) == [disk EXCEPT ![file] = x]

LEMMA PutIn ==
  ASSUME Store(bowl, disk), file \in Files, NEW x, Stored(bowl, file, x)
  PROVE  Store(bowl, Put(x)) /\ Put(x)[file] = x /\ \A g \in Files \ {file} : Put(x)[g] = disk[g]
  BY DEF Store, Put

\* A flush moves the whole buffer.
LEMMA FlushMoves ==
  ASSUME NEW f \in Files, Overlays(bowl, f), NEW w \in Writers, NEW c \in Seq(Cells), NEW end \in Seq(Cells),
         NEW out \in Seq(Nat), Held(bowl, f, w, c, out)
  PROVE  Moves(bowl, f, w, Len(w.buf), c, end, out) /\ Flushed(f, w).writer.buf = << >>
<1>1. Len(w.buf) \in 0 .. Len(w.buf)
  <2>1. w.buf \in Seq(Nat)
    BY DEF Writers
  <2>2. Len(w.buf) \in Nat
    BY <2>1
  <2>3. QED
    BY <2>2
<1>2. Moves(bowl, f, w, Len(w.buf), c, end, out)
  BY <1>1, HeldProcessed
<1>3. Flushed(f, w).writer.buf = << >>
  BY FlushedIs
<1>4. QED
  BY <1>2, <1>3

\* EntryWriter.Save: the writer that is kept needs nothing but the file.
LEMMA HeldSave ==
  ASSUME file \in Files, writer \in Writers, NEW out \in Seq(Nat), Store(bowl, disk),
         Held(bowl, file, writer, disk[file], out), Len(out) <= Len(NewFile[file]), NEW l,
         l = [disk EXCEPT ![file] = WriteAt(@, WriterPos(file, writer), SavedWriter.cells)]
  PROVE  /\ Store(bowl, l)
         /\ \A g \in Files \ {file} : l[g] = disk[g]
         /\ Held(bowl, file, SavedWriter.writer, l[file], out)
         /\ SavedWriter.writer.buf = << >>
         /\ PosOf(bowl, file, writer) <= PosOf(bowl, file, SavedWriter.writer)
         /\ Ahead(bowl, file, writer, disk[file], l[file])
<1> DEFINE c == disk[file]
           step == SavedWriter
           W == WriteAt(c, WriterPos(file, writer), step.cells)
<1>1. c \in Seq(IF Overlays(bowl, file) THEN Cells ELSE Nat) /\ DOMAIN disk = Files
  BY DEF Store, Stored
<1>2. l = Put(W)
  BY DEF Put
<1>3. CASE Overlays(bowl, file)
  <2>1. step = Processed(file, writer, Len(writer.buf)) /\ step = Flushed(file, writer) /\ WriterPos(file, writer) = writer.over
    BY <1>3 DEF Overlays, Overlaid, SavedWriter, Flushed, WriterPos
  <2>2. step.cells \in Seq(Cells)
    BY <2>1, FlushedIs
  <2>3. step.cells \o << >> = step.cells /\ << >> \in Seq(Cells)
    BY <2>2
  <2> DEFINE V == WriteAt(c, writer.over, step.cells \o << >>)
  <2>4. V = W
    BY <2>1, <2>3
  <2>5. c \in Seq(Cells)
    BY <1>1, <1>3
  <2> HIDE DEF V, W, c
  <2>6. Moves(bowl, file, writer, Len(writer.buf), c, << >>, out) /\ step.writer.buf = << >>
    BY <1>3, <2>1, <2>3, <2>5, FlushMoves DEF c
  <2> HIDE DEF step
  <2>7. /\ Held(bowl, file, step.writer, V, out)
        /\ V \in Seq(Cells)
        /\ writer.over <= step.writer.over
        /\ writer.over <= Len(V)
        /\ \A i \in 1 .. writer.over : V[i] = c[i]
    BY <2>1, <2>6, Zenon DEF V, Moves
  <2>8. Stored(bowl, file, W)
    BY <1>3, <2>4, <2>7 DEF Stored
  <2>9. Store(bowl, l) /\ l[file] = W /\ \A g \in Files \ {file} : l[g] = disk[g]
    <3>1. Store(bowl, Put(W)) /\ Put(W)[file] = W /\ \A g \in Files \ {file} : Put(W)[g] = disk[g]
      BY <2>8, PutIn
    <3>2. QED
      BY <1>2, <3>1, Zenon
  <2>10. PosOf(bowl, file, writer) = writer.over /\ PosOf(bowl, file, step.writer) = step.writer.over
    BY <1>3 DEF PosOf
  <2>11. QED
    BY <2>4, <2>6, <2>7, <2>9, <2>10 DEF Ahead, c, step
<1>4. CASE ~Overlays(bowl, file)
  <2>1. step.writer = writer /\ step.cells = << >> /\ WriterPos(file, writer) = writer.pos
    BY <1>4 DEF Overlays, Overlaid, SavedWriter, WriterPos
  <2>2. writer.buf = << >> /\ writer.pos = Len(out) /\ HasAt(c, 0, out) /\ c \in Seq(Nat) /\ Len(c) <= Len(NewFile[file])
    BY <1>4 DEF Held, Store, Stored
  <2> DEFINE e == << >>
  <2>3. e \in Seq(Nat) /\ Len(e) = 0
    OBVIOUS
  <2> HIDE DEF c, step, e
  <2>4. Written(Nat, c, out, e)
    BY <2>2, <2>3, NatWritten, Zenon
  <2>5. W = WriteAt(c, Len(out), e)
    BY <2>1, <2>2 DEF e
  <2> HIDE DEF W
  <2>6. W \in Seq(Nat) /\ (\A i \in 1 .. Len(out) : W[i] = c[i]) /\ HasAt(W, 0, out)
        /\ Len(W) = IF Len(out) + Len(e) > Len(c) THEN Len(out) + Len(e) ELSE Len(c)
    BY <2>4, <2>5, Zenon DEF Written
  <2>7. Len(W) = Len(c) /\ Len(out) <= Len(W)
    <3>1. Len(out) \in Nat /\ Len(c) \in Nat /\ 0 + Len(out) <= Len(c)
      BY <2>2 DEF HasAt
    <3>2. QED
      BY <2>3, <2>6, <3>1
  <2>8. Stored(bowl, file, W)
    BY <1>4, <2>2, <2>6, <2>7 DEF Stored
  <2>9. Store(bowl, l) /\ l[file] = W /\ \A g \in Files \ {file} : l[g] = disk[g]
    <3>1. Store(bowl, Put(W)) /\ Put(W)[file] = W /\ \A g \in Files \ {file} : Put(W)[g] = disk[g]
      BY <2>8, PutIn
    <3>2. QED
      BY <1>2, <3>1, Zenon
  <2>10. Held(bowl, file, writer, W, out)
    BY <1>4, <2>2, <2>6 DEF Held
  <2>11. PosOf(bowl, file, writer) = Len(out) /\ Len(out) \in Nat
    BY <1>4, <2>2 DEF PosOf
  <2>12. QED
    BY <2>1, <2>2, <2>6, <2>7, <2>9, <2>10, <2>11, SMTT(60) DEF Ahead, c, step
<1>5. QED
  BY <1>3, <1>4

\* EntryWriter.Finalize: the file is the new one, once its overlay is decoded.
LEMMA HeldFinal ==
  ASSUME file \in Files, writer \in Writers, Store(bowl, disk), Store(bowl, synced),
         Held(bowl, file, writer, disk[file], NewFile[file]), Finalize
  PROVE  /\ Store(bowl, disk') /\ Store(bowl, synced')
         /\ \A g \in Files \ {file} : disk'[g] = disk[g] /\ synced'[g] = synced[g]
         /\ IF Overlays(bowl, file) THEN synced'[file] = disk'[file] ELSE synced' = synced
         /\ Ahead(bowl, file, writer, disk[file], disk'[file])
         /\ IF Overlays(bowl, file) THEN Patched(disk'[file], Base(file)) = NewFile[file] ELSE disk'[file] = NewFile[file]
<1> DEFINE c == disk[file]
           out == NewFile[file]
<1>1. c \in Seq(IF Overlays(bowl, file) THEN Cells ELSE Nat) /\ DOMAIN disk = Files
  BY DEF Store, Stored
<1>2. out \in Seq(Nat)
  BY OutputFacts
<1>3. CASE Overlays(bowl, file)
  <2> DEFINE step == Processed(file, writer, Len(writer.buf))
             end == <<Hey>>
             W == WriteAt(c, writer.over, step.cells \o end)
  <2>1. disk' = [disk EXCEPT ![file] = W] /\ synced' = [synced EXCEPT ![file] = disk'[file]]
    BY <1>3 DEF Overlays, Overlaid, Finalize, Flushed
  <2>2. end \in Seq(Cells) /\ Len(end) = 1 /\ end[1] = Hey /\ c \in Seq(Cells)
    <3>1. Hey \in Cells
      BY CellsAre
    <3>2. c \in Seq(Cells)
      BY <1>1, <1>3
    <3> HIDE DEF c
    <3>3. QED
      BY <3>1, <3>2
  <2> HIDE DEF end, c, out
  <2>3. Moves(bowl, file, writer, Len(writer.buf), c, end, out) /\ step = Flushed(file, writer) /\ Flushed(file, writer).writer.buf = << >>
    BY <1>2, <1>3, <2>2, FlushMoves DEF c, out, Flushed
  <2>4. step.writer \in Writers
    BY <2>3, FlushedIs
  <2>5. /\ Held(bowl, file, step.writer, W, out)
        /\ W \in Seq(Cells)
        /\ writer.over <= Len(W)
        /\ step.writer.over + Len(end) <= Len(W)
        /\ \A i \in 1 .. writer.over : W[i] = c[i]
        /\ \A i \in 1 .. Len(end) : W[step.writer.over + i] = end[i]
    BY <2>3, Zenon DEF Moves
  <2> HIDE DEF step, W
  <2>6. PICK p \in Seq(Cells), part \in Seq(Nat) :
          /\ Len(p) = step.writer.over
          /\ HasAt(W, 0, p)
          /\ Takes(p, Base(file), part)
          /\ out = part \o step.writer.buf
    BY <1>3, <2>5, Zenon DEF Held
  <2>7. out = part
    <3>1. part \o << >> = part
      OBVIOUS
    <3>2. QED
      BY <2>3, <2>6, <3>1, Zenon
  <2>8. Len(p) + 1 <= Len(W) /\ W[Len(p) + 1] = Hey
    <3>1. 1 \in 1 .. Len(end)
      BY <2>2
    <3>2. QED
      BY <2>2, <2>5, <2>6, <3>1
  <2>9. Patched(W, Base(file)) = part
    <3>1. Base(file) \in Seq(Nat)
      BY <1>3, BaseIs
    <3>2. HasAt(W, 0, p) /\ Takes(p, Base(file), part)
      BY <2>6
    <3>3. Len(p) < Len(W)
      <4>1. Len(p) \in Nat /\ Len(W) \in Nat
        BY <2>5
      <4>2. QED
        BY <2>8, <4>1
    <3>4. W[Len(p) + 1] = Hey /\ W \in Seq(Cells)
      BY <2>5, <2>8
    <3> DEFINE B == Base(file)
    <3> HIDE DEF B
    <3>5. Patched(W, B) = part
      BY <3>1, <3>2, <3>3, <3>4, TakesAll DEF B
    <3>6. QED
      BY <3>5 DEF B
  <2>10. Stored(bowl, file, W)
    BY <1>3, <2>5 DEF Stored
  <2>11. Store(bowl, disk') /\ disk'[file] = W /\ \A g \in Files \ {file} : disk'[g] = disk[g]
    <3>1. Store(bowl, Put(W)) /\ Put(W)[file] = W /\ \A g \in Files \ {file} : Put(W)[g] = disk[g]
      BY <2>10, PutIn
    <3>2. QED
      BY <2>1, <3>1, Zenon DEF Put
  <2>12. Store(bowl, synced') /\ synced'[file] = W /\ \A g \in Files \ {file} : synced'[g] = synced[g]
    BY <2>1, <2>10, <2>11 DEF Store
  <2>13. PosOf(bowl, file, writer) = writer.over
    BY <1>3 DEF PosOf
  <2>14. QED
    BY <1>3, <2>5, <2>7, <2>9, <2>11, <2>12, <2>13 DEF Ahead, c, out
<1>4. CASE ~Overlays(bowl, file)
  <2>1. disk' = disk /\ synced' = synced
    BY <1>4 DEF Overlays, Overlaid, Finalize
  <2>2. HasAt(c, 0, out) /\ c \in Seq(Nat) /\ Len(c) <= Len(out)
    BY <1>4 DEF Held, Store, Stored
  <2>3. c = out
    <3> HIDE DEF c, out
    <3>1. Len(c) \in Nat /\ Len(out) \in Nat /\ \A i \in 1 .. Len(out) : 0 + i = i
      BY <1>2, <2>2
    <3>2. Len(c) = Len(out) /\ \A i \in 1 .. Len(c) : c[i] = out[i]
      BY <2>2, <3>1 DEF HasAt
    <3>3. QED
      BY <1>2, <2>2, <3>2, SameSequence
  <2>4. Ahead(bowl, file, writer, disk[file], disk[file])
    BY <1>2, HeldWithin
  <2>5. QED
    BY <1>4, <2>1, <2>3, <2>4
<1>5. QED
  BY <1>3, <1>4

-----------------------------------------------------------------------------
(* The inductive invariant: what the files hold                             *)

\* Result, with the bowl as a parameter.
Outcome(b, f, r, c) ==
  IF b = "fresh" THEN c
  ELSE CASE r.how = "move"          -> c
         [] r.how = "overlay"       -> Patched(c, Base(f))
         [] r.how = "transposition" -> Old[r.from]
         [] OTHER                   -> Corrupt

Whole(b, f, r, c) == f \in Skipped \/ Outcome(b, f, r, c) = NewFile[f]

\* An overlay bowl's record of a file that has a writer.
Marks(b, f, r) == b = "overlay" => r.how = IF Overlays(b, f) THEN "overlay" ELSE "move"

\* In the folder l, the files before the n-th are what they should be.
Finished(b, l, n, rec) == \A g \in 1 .. n - 1 : Whole(b, g, rec[g], l[g])

\* So they are in the folder d, and in what a power loss leaves of it, s.
Lasting(b, n, d, s, rec) == Finished(b, d, n, rec) /\ (b \in PowerLoss => Finished(b, s, n, rec))

KeptOutput(k) == OutputOf[k.file][OpsBefore(k.file, k.message.offset)]

\* The folder l holds what the checkpoint k relies on.
SavedOn(b, k, l) ==
  /\ Held(b, k.file, k.writer, l[k.file], KeptOutput(k))
  /\ Finished(b, l, k.file, k.recorded)

Writing == pc \in {"top", "read", "sentinel"}

Through == IF pc = "tail" THEN file + 1 ELSE file

Expected == IF pc = "sentinel" THEN NewFile[file] ELSE OutputOf[file][OpsBefore(file, offset)]

StoreInv == Store(bowl, disk) /\ Store(bowl, synced)

WriterInv ==
  /\ Held(bowl, file, writer, disk[file], Expected)
  /\ Len(writer.buf) <= BufSize
  /\ Marks(bowl, file, recorded[file])

SessionInv ==
  session = "running" =>
    /\ Lasting(bowl, Through, disk, synced, recorded)
    /\ Writing => WriterInv

DoneInv == session = "done" => Finished(bowl, disk, Len(Patch) + 1, recorded)

SavedInv ==
  kept # NoCheckpoint =>
    /\ kept.writer.buf = << >>
    /\ Marks(bowl, kept.file, kept.recorded[kept.file])
    /\ SavedOn(bowl, kept, disk)
    /\ bowl \in PowerLoss => SavedOn(bowl, kept, synced)
    /\ session = "running" =>
         /\ kept.file <= file
         /\ kept.file = file => Writing /\ PosOf(bowl, file, kept.writer) <= PosOf(bowl, file, writer)

DataInv == StoreInv /\ SessionInv /\ DoneInv /\ SavedInv

\* The code syncs a file when it is saved or, if it is overlaid, finished.  It does not
\* sync one that is finished and will be moved: the theorems suppose that whatever a
\* power loss can take has no such files.
Durable ==
  /\ PowerLoss \subseteq {"overlay"}
  /\ "overlay" \in PowerLoss =>
       \A f \in Files : Patch[f].base = 0 =>
         f \in Skipped \/ (Patch[f].kind = "rsync" /\ FullFile(f, Patch[f].ops[1]))

-----------------------------------------------------------------------------
(* Every step keeps the files right                                         *)

LEMMA FinishedStays ==
  ASSUME NEW b, NEW l, NEW m, NEW n \in Int, NEW r, NEW q, Finished(b, l, n, r),
         \A g \in 1 .. n - 1 : m[g] = l[g] /\ q[g] = r[g]
  PROVE  Finished(b, m, n, q)
  BY DEF Finished

LEMMA FinishedMix ==
  ASSUME NEW b, NEW l, NEW m, NEW x, NEW n \in Int, NEW r, Finished(b, l, n, r), Finished(b, m, n, r),
         \A g \in 1 .. n - 1 : x[g] = l[g] \/ x[g] = m[g]
  PROVE  Finished(b, x, n, r)
<1> SUFFICES ASSUME NEW g \in 1 .. n - 1 PROVE Whole(b, g, r[g], x[g])
  BY DEF Finished
<1>1. Whole(b, g, r[g], l[g]) /\ Whole(b, g, r[g], m[g])
  BY DEF Finished
<1>2. QED
  BY <1>1

LEMMA FinishedNext ==
  ASSUME NEW b, NEW l, NEW n \in Int, NEW r, Finished(b, l, n, r), Whole(b, n, r[n], l[n])
  PROVE  Finished(b, l, n + 1, r)
<1> SUFFICES ASSUME NEW g \in 1 .. (n + 1) - 1 PROVE Whole(b, g, r[g], l[g])
  BY DEF Finished
<1>1. CASE g = n
  BY <1>1
<1>2. CASE g # n
  <2>1. g \in 1 .. n - 1
    BY <1>2
  <2>2. QED
    BY <2>1 DEF Finished
<1>3. QED
  BY <1>1, <1>2

LEMMA AheadLess ==
  ASSUME NEW b, NEW f, NEW v \in Writers, NEW w \in Writers, NEW c, NEW d, Len(d) \in Nat, Ahead(b, f, w, c, d),
         PosOf(b, f, v) <= PosOf(b, f, w)
  PROVE  Ahead(b, f, v, c, d)
<1>1. PosOf(b, f, v) \in Nat /\ PosOf(b, f, w) \in Nat
  BY DEF PosOf, Writers
<1>2. QED
  BY <1>1 DEF Ahead

\* A checkpoint of file k is good while what it relies on stays.
LEMMA SavedStays ==
  ASSUME NEW b, NEW k \in Saves, KeptOutput(k) \in Seq(Nat), NEW l, NEW m, NEW f \in Files, k.file <= f,
         SavedOn(b, k, l), \A g \in Files \ {f} : m[g] = l[g], k.file = f => Ahead(b, f, k.writer, l[f], m[f])
  PROVE  SavedOn(b, k, m)
<1>1. k.file \in Files /\ k.writer \in Writers /\ f \in Int /\ k.file \in Int /\ f <= Len(Patch) /\ Len(Patch) \in Nat
  BY FilesAre DEF Saves
<1>2. Held(b, k.file, k.writer, l[k.file], KeptOutput(k)) /\ Finished(b, l, k.file, k.recorded)
  BY DEF SavedOn
<1>3. \A g \in 1 .. k.file - 1 : m[g] = l[g]
  <2>1. \A g \in 1 .. k.file - 1 : g \in Files \ {f}
    BY <1>1, FilesAre
  <2>2. QED
    BY <2>1
<1>4. Finished(b, m, k.file, k.recorded)
  BY <1>1, <1>2, <1>3, FinishedStays
<1>5. Held(b, k.file, k.writer, m[k.file], KeptOutput(k))
  <2>1. CASE k.file = f
    BY <1>1, <1>2, <2>1, HeldStays DEF Ahead
  <2>2. CASE k.file # f
    <3>1. m[k.file] = l[k.file]
      BY <1>1, <2>2
    <3>2. QED
      BY <1>2, <3>1
  <2>3. QED
    BY <2>1, <2>2
<1>6. QED
  BY <1>4, <1>5 DEF SavedOn

LEMMA SavedMix ==
  ASSUME NEW b, NEW k \in Saves, NEW l, NEW m, NEW x, SavedOn(b, k, l), SavedOn(b, k, m),
         \A g \in Files : x[g] = l[g] \/ x[g] = m[g]
  PROVE  SavedOn(b, k, x)
<1>1. k.file \in Files /\ k.file \in Int /\ \A g \in 1 .. k.file - 1 : g \in Files
  BY FilesAre DEF Saves
<1>2. Finished(b, x, k.file, k.recorded)
  BY <1>1, FinishedMix DEF SavedOn
<1>3. Held(b, k.file, k.writer, x[k.file], KeptOutput(k))
  <2>1. x[k.file] = l[k.file] \/ x[k.file] = m[k.file]
    BY <1>1
  <2>2. QED
    BY <2>1 DEF SavedOn
<1>4. QED
  BY <1>2, <1>3 DEF SavedOn

\* What k operations of a file amount to is a part of it.
LEMMA OutputWithin ==
  ASSUME NEW f \in Files, NEW k \in 0 .. Ops(f)
  PROVE  OutputOf[f][k] \in Seq(Nat) /\ Len(OutputOf[f][k]) <= Len(NewFile[f]) /\ NewFile[f] \in Seq(Nat)
<1>1. OutputOf[f][k] \in Seq(Nat) /\ NewFile[f] \in Seq(Nat) /\ Continues(NewFile[f], OutputOf[f][k])
  BY OutputFacts
<1>2. QED
  BY <1>1 DEF Continues

LEMMA KeptIs ==
  ASSUME ControlInv, kept # NoCheckpoint
  PROVE  /\ kept \in Saves /\ kept.file \in Files /\ kept.writer \in Writers
         /\ KeptOutput(kept) \in Seq(Nat) /\ Len(KeptOutput(kept)) <= Len(NewFile[kept.file])
<1>1. kept \in Saves
  BY DEF ControlInv, TypeInv
<1>2. kept.file \in Files /\ kept.writer \in Writers
  BY <1>1 DEF Saves
<1>3. OpsBefore(kept.file, kept.message.offset) \in 0 .. Ops(kept.file)
  BY DEF ControlInv, KeptInv, Applying
<1>4. QED
  BY <1>1, <1>2, <1>3, OutputWithin DEF KeptOutput

LEMMA ExpectedIs ==
  ASSUME ControlInv, session = "running", Writing
  PROVE  /\ file \in Files /\ writer \in Writers
         /\ Expected \in Seq(Nat) /\ Len(Expected) <= Len(NewFile[file])
         /\ file \notin Skipped /\ ~(Patch[file].kind = "rsync" /\ FullFile(file, Patch[file].ops[1]))
<1>1. file \in Files /\ writer \in Writers
  BY DEF ControlInv, TypeInv, PlaceInv
<1>2. AtOp \/ AtSentinel
  BY DEF ControlInv, PlaceInv, AtHeader, AtSkip, AtFirst, AtBsdiff, AtTail, AtOp, AtSentinel, Writing
<1>3. CASE AtOp
  <2>1. OpsBefore(file, offset) \in 0 .. Ops(file) /\ Expected = OutputOf[file][OpsBefore(file, offset)]
    BY <1>3 DEF AtOp, Applying, Expected
  <2>2. file \notin Skipped /\ ~(Patch[file].kind = "rsync" /\ FullFile(file, Patch[file].ops[1]))
    BY <1>3 DEF AtOp, Applying
  <2>3. QED
    BY <1>1, <2>1, <2>2, OutputWithin
<1>4. CASE AtSentinel
  <2>1. Expected = NewFile[file] /\ NewFile[file] \in Seq(Nat)
    BY <1>1, <1>4, OutputFacts DEF AtSentinel, Expected
  <2>2. Len(NewFile[file]) \in Nat
    BY <2>1
  <2>3. QED
    BY <1>1, <1>4, <2>1, <2>2 DEF AtSentinel
<1>5. QED
  BY <1>2, <1>3, <1>4

\* With a file that has a writer, a power loss takes nothing that is finished.
LEMMA OverIfLost ==
  ASSUME Durable, ControlInv, session = "running", Writing, bowl \in PowerLoss
  PROVE  Overlays(bowl, file)
<1>1. bowl = "overlay"
  BY DEF Durable
<1>2. QED
  BY <1>1, ExpectedIs DEF Durable, Overlays

\* The files of a step that writes to the current one at most: it changes nothing
\* before the writer's place.
Writes ==
  /\ \A g \in Files \ {file} : disk'[g] = disk[g]
  /\ \A g \in Files : synced'[g] = synced[g] \/ synced'[g] = disk'[g]
  /\ Writing => Ahead(bowl, file, writer, disk[file], disk'[file])

\* Such a step keeps what the checkpoint relies on.
LEMMA SavedGoesOn ==
  ASSUME ControlInv, DataInv, session = "running", UNCHANGED <<bowl, kept>>, StoreInv', Writes,
         file' = file \/ file' = file + 1,
         file' = file /\ Writing => Writing' /\ PosOf(bowl, file, writer) <= PosOf(bowl, file, writer'),
         writer' \in Writers
  PROVE  SavedInv'
<1> SUFFICES ASSUME kept # NoCheckpoint
             PROVE  /\ SavedOn(bowl, kept, disk')
                    /\ bowl \in PowerLoss => SavedOn(bowl, kept, synced')
                    /\ kept.file <= file'
                    /\ kept.file = file' => Writing' /\ PosOf(bowl, file', kept.writer) <= PosOf(bowl, file', writer')
  BY DEF SavedInv, DataInv
<1>1. /\ kept \in Saves /\ kept.file \in Files /\ kept.writer \in Writers
      /\ KeptOutput(kept) \in Seq(Nat)
  BY KeptIs
<1>2. file \in Files /\ file \in Int /\ kept.file \in Int /\ writer \in Writers
  BY <1>1, FilesAre DEF ControlInv, TypeInv, PlaceInv
<1>3. /\ SavedOn(bowl, kept, disk)
      /\ bowl \in PowerLoss => SavedOn(bowl, kept, synced)
      /\ kept.file <= file
      /\ kept.file = file => Writing /\ PosOf(bowl, file, kept.writer) <= PosOf(bowl, file, writer)
  BY DEF DataInv, SavedInv
<1>4. Len(disk'[file]) \in Nat
  <2>1. Stored(bowl, file, disk'[file])
    BY <1>2 DEF StoreInv, Store
  <2>2. CASE Overlays(bowl, file)
    BY <2>1, <2>2 DEF Stored
  <2>3. CASE ~Overlays(bowl, file)
    BY <2>1, <2>3 DEF Stored
  <2>4. QED
    BY <2>2, <2>3
<1>5. kept.file = file => Ahead(bowl, file, kept.writer, disk[file], disk'[file])
  BY <1>1, <1>2, <1>3, <1>4, AheadLess DEF Writes
<1>6. SavedOn(bowl, kept, disk')
  <2>1. \A g \in Files \ {file} : disk'[g] = disk[g]
    BY DEF Writes
  <2>2. QED
    BY <1>1, <1>2, <1>3, <1>5, <2>1, SavedStays
<1>7. bowl \in PowerLoss => SavedOn(bowl, kept, synced')
  <2>1. \A g \in Files : synced'[g] = synced[g] \/ synced'[g] = disk'[g]
    BY DEF Writes
  <2>2. QED
    BY <1>1, <1>3, <1>6, <2>1, SavedMix
<1>8. kept.file <= file'
  BY <1>2, <1>3
<1>9. ASSUME kept.file = file'
      PROVE  Writing' /\ PosOf(bowl, file', kept.writer) <= PosOf(bowl, file', writer')
  <2>1. file' = file /\ kept.file = file
    BY <1>2, <1>3, <1>9
  <2>2. Writing' /\ PosOf(bowl, file, writer) <= PosOf(bowl, file, writer')
        /\ PosOf(bowl, file, kept.writer) <= PosOf(bowl, file, writer)
    BY <1>3, <2>1
  <2>3. PosOf(bowl, file, kept.writer) \in Nat /\ PosOf(bowl, file, writer) \in Nat /\ PosOf(bowl, file, writer') \in Nat
    BY <1>1, <1>2 DEF PosOf, Writers
  <2>4. QED
    BY <2>1, <2>2, <2>3
<1>10. QED
  BY <1>6, <1>7, <1>8, <1>9

\* A step that writes nothing.
LEMMA QuietWrites ==
  ASSUME ControlInv, DataInv, session = "running", UNCHANGED <<disk, synced>>
  PROVE  Writes
<1>1. Writing => Ahead(bowl, file, writer, disk[file], disk[file])
  <2> SUFFICES ASSUME Writing PROVE Ahead(bowl, file, writer, disk[file], disk[file])
    OBVIOUS
  <2>1. writer \in Writers /\ Expected \in Seq(Nat)
    BY ExpectedIs
  <2>2. Held(bowl, file, writer, disk[file], Expected)
    BY DEF DataInv, SessionInv, WriterInv
  <2>3. QED
    BY <2>1, <2>2, HeldWithin
<1>2. QED
  BY <1>1 DEF Writes

LEMMA QuietStore ==
  ASSUME StoreInv, UNCHANGED <<bowl, disk, synced>>
  PROVE  StoreInv'
  BY DEF StoreInv

\* A file is over, and it is what it should be.
LEMMA NextFileData ==
  ASSUME file \in Files, session = "running", NextFile, bowl' = bowl,
         Lasting(bowl, file + 1, disk', synced', recorded')
  PROVE  SessionInv' /\ DoneInv' /\ file' = file + 1
<1>1. file' = file + 1
  BY DEF NextFile
<1>2. CASE file = Len(Patch)
  <2>1. session' = "done"
    BY <1>2 DEF NextFile
  <2>2. QED
    BY <1>1, <1>2, <2>1 DEF SessionInv, DoneInv, Lasting
<1>3. CASE file # Len(Patch)
  <2>1. session' = "running" /\ pc' = "header"
    BY <1>3 DEF NextFile
  <2>2. Through' = file + 1 /\ ~Writing'
    BY <1>1, <2>1 DEF Through, Writing
  <2>3. QED
    BY <1>1, <2>1, <2>2 DEF SessionInv, DoneInv
<1>4. QED
  BY <1>2, <1>3

\* A file goes on, and has no writer yet.
LEMMA GoesOnWithout ==
  ASSUME session' = "running", bowl' = bowl, file' = file, pc' \in {"skip", "first", "bsdiff"},
         Lasting(bowl, file, disk', synced', recorded')
  PROVE  SessionInv' /\ DoneInv'
<1>1. Through' = file /\ ~Writing'
  BY DEF Through, Writing
<1>2. QED
  BY <1>1 DEF SessionInv, DoneInv

\* A file goes on, and has a writer.
LEMMA GoesOnWith ==
  ASSUME session' \in {"running", "idle"}, bowl' = bowl, file' = file, pc' \in {"top", "read", "sentinel"},
         Lasting(bowl, file, disk', synced', recorded'), NEW out, Expected' = out,
         Held(bowl, file, writer', disk'[file], out),
         Len(writer'.buf) <= BufSize,
         Marks(bowl, file, recorded'[file])
  PROVE  SessionInv' /\ DoneInv' /\ Writing'
<1>1. Through' = file /\ Writing'
  BY DEF Through, Writing
<1>2. WriterInv'
  BY DEF WriterInv
<1>3. QED
  BY <1>1, <1>2 DEF SessionInv, DoneInv

LEMMA InitData == Init => DataInv
<1> SUFFICES ASSUME Init PROVE DataInv
  OBVIOUS
<1>1. disk = [f \in Files |-> << >>] /\ synced = disk /\ session = "idle" /\ kept = NoCheckpoint
  BY DEF Init
<1>2. ASSUME NEW f \in Files PROVE Stored(bowl, f, << >>)
  <2>1. Len(NewFile[f]) \in Nat
    <3>1. NewFile[f] \in Seq(Nat)
      BY OutputFacts
    <3>2. QED
      BY <3>1
  <2>2. Len(<< >>) = 0 /\ << >> \in Seq(Nat) /\ << >> \in Seq(Cells)
    OBVIOUS
  <2>3. QED
    BY <2>1, <2>2 DEF Stored
<1>3. StoreInv
  BY <1>1, <1>2 DEF StoreInv, Store
<1>4. QED
  BY <1>1, <1>3 DEF DataInv, SessionInv, DoneInv, SavedInv

\* NewFreshBowl gives every file its size, and leaves what it holds so far.
LEMMA PreparedIs ==
  ASSUME bowl \in {"fresh", "overlay"}, Store(bowl, disk)
  PROVE  /\ Store(bowl, Prepared)
         /\ bowl = "overlay" => Prepared = disk
         /\ bowl = "fresh" =>
              \A f \in Files : /\ Len(disk[f]) \in Nat /\ Len(disk[f]) <= Len(NewFile[f])
                               /\ Len(Prepared[f]) = Len(NewFile[f])
                               /\ \A i \in 1 .. Len(disk[f]) : Prepared[f][i] = disk[f][i]
                               /\ disk[f] = NewFile[f] => Prepared[f] = NewFile[f]
<1>1. CASE bowl = "overlay"
  BY <1>1 DEF Prepared
<1>2. CASE bowl = "fresh"
  <2>1. /\ DOMAIN Prepared = Files
        /\ \A f \in Files : Prepared[f] = [i \in DOMAIN NewFile[f] |-> IF i <= Len(disk[f]) THEN disk[f][i] ELSE Hole]
    BY <1>2 DEF Prepared
  <2>2. ASSUME NEW f \in Files
        PROVE  /\ Stored(bowl, f, Prepared[f])
               /\ Len(disk[f]) \in Nat /\ Len(disk[f]) <= Len(NewFile[f])
               /\ Len(Prepared[f]) = Len(NewFile[f])
               /\ \A i \in 1 .. Len(disk[f]) : Prepared[f][i] = disk[f][i]
               /\ disk[f] = NewFile[f] => Prepared[f] = NewFile[f]
    <3> DEFINE c == disk[f]
               o == NewFile[f]
               x == Prepared[f]
    <3>1. ~Overlays(bowl, f)
      BY <1>2 DEF Overlays
    <3>2. c \in Seq(Nat) /\ Len(c) <= Len(o) /\ o \in Seq(Nat)
      BY <3>1, OutputFacts DEF Store, Stored
    <3>3. x = [i \in 1 .. Len(o) |-> IF i <= Len(c) THEN c[i] ELSE Hole]
      BY <2>1, <3>2
    <3> HIDE DEF c, o, x
    <3>4. \A i \in 1 .. Len(o) : (IF i <= Len(c) THEN c[i] ELSE Hole) \in Nat
      BY <3>2 DEF Hole
    <3>5. x \in Seq(Nat) /\ Len(x) = Len(o)
      BY <3>2, <3>3, <3>4
    <3>6. \A i \in 1 .. Len(c) : x[i] = c[i]
      BY <3>2, <3>3
    <3>7. c = o => x = o
      BY <3>2, <3>5, <3>6, SameSequence
    <3>8. Len(o) <= Len(o) /\ Len(c) \in Nat
      BY <3>2
    <3>9. Stored(bowl, f, x)
      BY <3>1, <3>5, <3>8 DEF Stored, o
    <3>10. QED
      BY <3>2, <3>5, <3>6, <3>7, <3>8, <3>9 DEF c, o, x
  <2>3. Store(bowl, Prepared)
    BY <2>1, <2>2 DEF Store
  <2>4. QED
    BY <1>2, <2>2, <2>3
<1>3. QED
  BY <1>1, <1>2

LEMMA PreparedKeeps ==
  ASSUME bowl \in {"fresh", "overlay"}, Store(bowl, disk), NEW k \in Saves, KeptOutput(k) \in Seq(Nat),
         SavedOn(bowl, k, disk)
  PROVE  SavedOn(bowl, k, Prepared)
<1>1. CASE bowl = "overlay"
  BY <1>1, PreparedIs
<1>2. CASE bowl = "fresh"
  <2>1. \A f \in Files : /\ Len(disk[f]) \in Nat /\ Len(disk[f]) <= Len(NewFile[f])
                         /\ Len(Prepared[f]) = Len(NewFile[f])
                         /\ \A i \in 1 .. Len(disk[f]) : Prepared[f][i] = disk[f][i]
                         /\ disk[f] = NewFile[f] => Prepared[f] = NewFile[f]
    BY <1>2, PreparedIs
  <2>2. k.file \in Files /\ k.writer \in Writers /\ k.file \in Int /\ \A g \in 1 .. k.file - 1 : g \in Files
    BY FilesAre DEF Saves
  <2>3. Held(bowl, k.file, k.writer, disk[k.file], KeptOutput(k)) /\ Finished(bowl, disk, k.file, k.recorded)
    BY DEF SavedOn
  <2>4. Held(bowl, k.file, k.writer, Prepared[k.file], KeptOutput(k))
    <3>1. PosOf(bowl, k.file, k.writer) <= Len(disk[k.file])
      BY <2>2, <2>3, HeldWithin
    <3>2. PosOf(bowl, k.file, k.writer) \in Nat /\ Len(Prepared[k.file]) \in Nat
      <4>1. NewFile[k.file] \in Seq(Nat)
        BY <2>2, OutputFacts
      <4>2. QED
        BY <2>1, <2>2, <4>1 DEF PosOf, Writers
    <3>3. /\ PosOf(bowl, k.file, k.writer) <= Len(Prepared[k.file])
          /\ \A i \in 1 .. PosOf(bowl, k.file, k.writer) : i \in 1 .. Len(disk[k.file])
      BY <2>1, <2>2, <3>1, <3>2
    <3>4. \A i \in 1 .. PosOf(bowl, k.file, k.writer) : Prepared[k.file][i] = disk[k.file][i]
      BY <2>1, <2>2, <3>3
    <3>5. QED
      BY <2>2, <2>3, <3>3, <3>4, HeldStays
  <2>5. Finished(bowl, Prepared, k.file, k.recorded)
    <3>1. \A g \in 1 .. k.file - 1 : Whole(bowl, g, k.recorded[g], disk[g])
      BY <2>3 DEF Finished
    <3>2. ASSUME NEW g \in Files, Whole(bowl, g, k.recorded[g], disk[g]) PROVE Whole(bowl, g, k.recorded[g], Prepared[g])
      <4>1. \A c : Outcome(bowl, g, k.recorded[g], c) = c
        BY <1>2 DEF Outcome
      <4>2. g \in Skipped \/ disk[g] = NewFile[g]
        BY <3>2, <4>1 DEF Whole
      <4>3. g \in Skipped \/ Prepared[g] = NewFile[g]
        BY <2>1, <4>2
      <4>4. QED
        BY <4>1, <4>3 DEF Whole
    <3>3. QED
      BY <2>2, <3>1, <3>2 DEF Finished
  <2>6. QED
    BY <2>4, <2>5 DEF SavedOn
<1>3. QED
  BY <1>1, <1>2

\* An overlay bowl takes note of the file it opens a writer for.
LEMMA MarkedOnly ==
  ASSUME TypeInv, NEW f \in Files
  PROVE  Marks(bowl, f, Marked(f)[f]) /\ \A g \in 1 .. f - 1 : Marked(f)[g] = recorded[g]
<1>1. recorded \in [Files -> Records] /\ \A g \in 1 .. f - 1 : g \in Files /\ g # f
  BY FilesAre DEF TypeInv
<1>2. CASE bowl = "overlay"
  <2> DEFINE r == [how |-> IF Overlaid(f) THEN "overlay" ELSE "move", from |-> 0]
  <2>1. Marked(f) = [recorded EXCEPT ![f] = r]
    BY <1>2 DEF Marked
  <2>2. r.how = IF Overlays(bowl, f) THEN "overlay" ELSE "move"
    BY DEF Overlays, Overlaid
  <2> HIDE DEF r
  <2>3. QED
    BY <1>1, <2>1, <2>2 DEF Marks
<1>3. CASE bowl # "overlay"
  BY <1>3 DEF Marks, Marked
<1>4. QED
  BY <1>2, <1>3

LEMMA StartData == ASSUME ControlInv, DataInv, Durable, StartSession, UNCHANGED bowl PROVE DataInv'
<1>1. session' = "running" /\ kept' = NoCheckpoint /\ disk' = Prepared /\ synced' = synced /\ file' = 1 /\ pc' = "header"
  BY DEF StartSession
<1>2. StoreInv'
  BY <1>1, PreparedIs DEF DataInv, StoreInv, ControlInv, TypeInv
<1>3. Through' = 1 /\ ~Writing'
  BY <1>1 DEF Through, Writing
<1>4. Lasting(bowl, 1, disk', synced', recorded')
  BY DEF Lasting, Finished
<1>5. SessionInv' /\ DoneInv'
  BY <1>1, <1>3, <1>4 DEF SessionInv, DoneInv
<1>6. SavedInv'
  BY <1>1 DEF SavedInv
<1>7. QED
  BY <1>2, <1>5, <1>6 DEF DataInv

\* The session goes on with what the checkpoint relies on.
LEMMA ResumeData == ASSUME ControlInv, ControlInv', DataInv, Durable, ResumeSession, UNCHANGED bowl PROVE DataInv'
<1>1. /\ session' = "running" /\ kept # NoCheckpoint /\ kept' = kept /\ disk' = Prepared /\ synced' = synced /\ pc' = "top"
      /\ file' = kept.file /\ writer' = kept.writer /\ recorded' = kept.recorded /\ Resume(kept.message)
  BY DEF ResumeSession, ControlInv, TypeInv
<1>2. /\ kept \in Saves /\ kept.file \in Files /\ kept.writer \in Writers /\ kept.file \in Int
      /\ KeptOutput(kept) \in Seq(Nat)
  BY <1>1, KeptIs, FilesAre
<1>3. /\ kept.writer.buf = << >>
      /\ Marks(bowl, kept.file, kept.recorded[kept.file])
      /\ SavedOn(bowl, kept, disk)
      /\ bowl \in PowerLoss => SavedOn(bowl, kept, synced)
  BY <1>1 DEF DataInv, SavedInv
<1>4. StoreInv'
  BY <1>1, PreparedIs DEF DataInv, StoreInv, ControlInv, TypeInv
<1>5. SavedOn(bowl, kept, disk')
  BY <1>1, <1>2, <1>3, PreparedKeeps DEF DataInv, StoreInv, ControlInv, TypeInv
<1>6. Lasting(bowl, kept.file, disk', synced', recorded')
  BY <1>1, <1>3, <1>5 DEF Lasting, SavedOn
<1>7. Expected' = KeptOutput(kept)
  <2>1. offset' = kept.message.offset
    BY <1>1 DEF Resume
  <2>2. QED
    BY <1>1, <2>1 DEF Expected, KeptOutput, OpsBefore
<1>8. Len(writer'.buf) <= BufSize
  BY <1>1, <1>3, BufSizeAssumption
<1>9. Through' = kept.file /\ Writing'
  BY <1>1 DEF Through, Writing
<1>10. WriterInv'
  BY <1>1, <1>3, <1>5, <1>7, <1>8 DEF WriterInv, SavedOn
<1>11. SessionInv' /\ DoneInv'
  BY <1>1, <1>6, <1>9, <1>10 DEF SessionInv, DoneInv
<1>12. SavedInv'
  <2>1. PosOf(bowl, kept.file, kept.writer) \in Nat
    BY <1>2 DEF PosOf, Writers
  <2>2. QED
    BY <1>1, <1>2, <1>3, <1>5, <1>9, <2>1 DEF SavedInv
<1>13. QED
  BY <1>4, <1>11, <1>12 DEF DataInv

\* A power loss takes any files back to what was synced.
LEMMA CrashData == ASSUME ControlInv, DataInv, Durable, Crash PROVE DataInv'
<1>1. session' = "idle" /\ kept' = kept /\ bowl' = bowl
  BY DEF Crash
<1>2. /\ DOMAIN disk' = Files
      /\ \A f \in Files : disk'[f] = disk[f] \/ (bowl \in PowerLoss /\ disk'[f] = synced[f])
      /\ synced' = IF bowl \in PowerLoss THEN disk' ELSE synced
  <2>1. CASE disk' = disk
    BY <2>1 DEF Crash, DataInv, StoreInv, Store
  <2>2. CASE bowl \in PowerLoss /\ disk' \in {[f \in Files |-> IF f \in lost THEN synced[f] ELSE disk[f]] : lost \in SUBSET Files}
    BY <2>2 DEF Crash
  <2>3. QED
    BY <2>1, <2>2 DEF Crash
<1>3. StoreInv'
  BY <1>1, <1>2 DEF DataInv, StoreInv, Store
<1>4. ASSUME kept # NoCheckpoint
      PROVE  SavedOn(bowl, kept, disk') /\ (bowl \in PowerLoss => SavedOn(bowl, kept, synced'))
  <2>1. kept \in Saves /\ SavedOn(bowl, kept, disk) /\ (bowl \in PowerLoss => SavedOn(bowl, kept, synced))
    BY <1>4, KeptIs DEF DataInv, SavedInv
  <2>2. CASE bowl \in PowerLoss
    <3>1. \A f \in Files : disk'[f] = disk[f] \/ disk'[f] = synced[f]
      BY <1>2
    <3>2. SavedOn(bowl, kept, disk')
      BY <2>1, <2>2, <3>1, SavedMix
    <3>3. QED
      BY <1>2, <2>2, <3>2
  <2>3. CASE bowl \notin PowerLoss
    <3>1. \A f \in Files : disk'[f] = disk[f] \/ disk'[f] = disk[f]
      BY <1>2, <2>3
    <3>2. SavedOn(bowl, kept, disk')
      BY <2>1, <3>1, SavedMix
    <3>3. QED
      BY <2>3, <3>2
  <2>4. QED
    BY <2>2, <2>3
<1>5. SavedInv'
  BY <1>1, <1>4 DEF DataInv, SavedInv
<1>6. QED
  BY <1>1, <1>3, <1>5 DEF DataInv, SessionInv, DoneInv

LEMMA SameData == ASSUME DataInv, UNCHANGED vars PROVE DataInv'
<1>1. StoreInv'
  BY DEF vars, DataInv, StoreInv
<1>2. Through' = Through /\ Writing' = Writing /\ Expected' = Expected
  BY DEF vars, local, reader, Through, Writing, Expected, OpsBefore
<1>3. SessionInv' /\ DoneInv'
  BY <1>2 DEF vars, local, DataInv, SessionInv, DoneInv, WriterInv
<1>4. SavedInv'
  BY <1>2 DEF vars, local, DataInv, SavedInv
<1>5. QED
  BY <1>1, <1>3, <1>4 DEF DataInv

LEMMA HeaderData == ASSUME ControlInv, ControlInv', DataInv, ReadHeader, UNCHANGED bowl PROVE DataInv'
<1>1. /\ session = "running" /\ pc = "header" /\ UNCHANGED <<writer, disk, synced, recorded, kept>>
  BY DEF ReadHeader, Reading
<1>2. session' = "running" /\ file' = file /\ pc' \in {"skip", "first", "bsdiff"}
  BY <1>1 DEF ReadHeader, Goto, Fail, ControlInv, TypeInv
<1>3. Through = file /\ ~Writing
  BY <1>1 DEF Through, Writing
<1>4. Lasting(bowl, file, disk', synced', recorded')
  BY <1>1, <1>3 DEF DataInv, SessionInv
<1>5. SessionInv' /\ DoneInv'
  BY <1>2, <1>4, GoesOnWithout
<1>6. StoreInv'
  BY <1>1, QuietStore DEF DataInv
<1>7. SavedInv'
  BY <1>1, <1>2, <1>3, <1>6, QuietWrites, SavedGoesOn DEF ControlInv, TypeInv
<1>8. QED
  BY <1>5, <1>6, <1>7 DEF DataInv

LEMMA SkipData == ASSUME ControlInv, ControlInv', DataInv, SkipMessage, UNCHANGED bowl PROVE DataInv'
<1>1. /\ session = "running" /\ pc = "skip" /\ UNCHANGED <<writer, disk, synced, recorded, kept>>
  BY DEF SkipMessage, Reading
<1>2. file \in Files /\ file \in Int /\ file \in Skipped
  BY <1>1, FilesAre DEF ControlInv, PlaceInv, AtHeader, AtSkip, AtFirst, AtBsdiff, AtTail, AtOp, AtSentinel
<1>3. Through = file /\ ~Writing
  BY <1>1 DEF Through, Writing
<1>4. Lasting(bowl, file, disk, synced, recorded)
  BY <1>1, <1>3 DEF DataInv, SessionInv
<1>5. Lasting(bowl, file + 1, disk, synced, recorded)
  <2>1. \A l : Whole(bowl, file, recorded[file], l[file])
    BY <1>2 DEF Whole
  <2>2. QED
    BY <1>2, <1>4, <2>1, FinishedNext DEF Lasting
<1>6. SessionInv' /\ DoneInv' /\ (file' = file \/ file' = file + 1)
  <2>1. CASE NextFile
    BY <1>1, <1>2, <1>5, <2>1, NextFileData
  <2>2. CASE Goto("skip")
    <3>1. session' = "running" /\ file' = file /\ pc' = "skip"
      BY <1>1, <2>2 DEF Goto
    <3>2. QED
      BY <1>1, <1>4, <3>1, GoesOnWithout
  <2>3. QED
    BY <2>1, <2>2 DEF SkipMessage
<1>7. StoreInv'
  BY <1>1, QuietStore DEF DataInv
<1>8. SavedInv'
  BY <1>1, <1>3, <1>6, <1>7, QuietWrites, SavedGoesOn DEF ControlInv, TypeInv
<1>9. QED
  BY <1>6, <1>7, <1>8 DEF DataInv

LEMMA TailData == ASSUME ControlInv, ControlInv', DataInv, ReadTail, UNCHANGED bowl PROVE DataInv'
<1>1. /\ session = "running" /\ pc = "tail" /\ UNCHANGED <<writer, disk, synced, recorded, kept>>
  BY DEF ReadTail, Reading
<1>2. file \in Files
  BY <1>1 DEF ControlInv, PlaceInv
<1>3. Through = file + 1 /\ ~Writing
  BY <1>1 DEF Through, Writing
<1>4. Lasting(bowl, file + 1, disk, synced, recorded)
  BY <1>1, <1>3 DEF DataInv, SessionInv
<1>5. SessionInv' /\ DoneInv' /\ (file' = file \/ file' = file + 1)
  <2>1. CASE NextFile
    BY <1>1, <1>2, <1>4, <2>1, NextFileData
  <2>2. CASE Goto("tail")
    <3>1. session' = "running" /\ file' = file /\ pc' = "tail"
      BY <1>1, <2>2 DEF Goto
    <3>2. Through' = file + 1 /\ ~Writing'
      BY <3>1 DEF Through, Writing
    <3>3. QED
      BY <1>1, <1>4, <3>1, <3>2 DEF SessionInv, DoneInv
  <2>3. QED
    BY <2>1, <2>2 DEF ReadTail
<1>6. StoreInv'
  BY <1>1, QuietStore DEF DataInv
<1>7. SavedInv'
  BY <1>1, <1>3, <1>5, <1>6, QuietWrites, SavedGoesOn DEF ControlInv, TypeInv
<1>8. QED
  BY <1>5, <1>6, <1>7 DEF DataInv

LEMMA BsdiffData == ASSUME ControlInv, ControlInv', DataInv, ReadBsdiffHeader, UNCHANGED bowl PROVE DataInv'
<1>1. /\ session = "running" /\ pc = "bsdiff" /\ UNCHANGED <<disk, synced, kept>> /\ recorded' = Marked(file)
      /\ writer' = NoWriter /\ pc' = "top" /\ session' = "running" /\ file' = file
  BY DEF ReadBsdiffHeader, Reading, Goto
<1>2. file \in Files /\ file \in Int /\ Place = Start(file) + 1 /\ ReaderInv' /\ Place' = Place + 1 /\ Patch[file].kind = "bsdiff"
  <2>1. file \in Files /\ AtBsdiff /\ ReadMessage
    BY <1>1 DEF ReadBsdiffHeader, ControlInv, PlaceInv, AtHeader, AtSkip, AtFirst, AtBsdiff, AtTail, AtOp, AtSentinel
  <2>2. QED
    BY <1>1, <2>1, FilesAre, ReadFacts DEF AtBsdiff, ControlInv
<1>3. Expected' = << >>
  <2>1. OpsBefore(file, offset)' = Place' - Preamble[file]
    BY <1>1 DEF OpsBefore, Place
  <2>2. OpsBefore(file, offset)' = 0
    BY <1>2, <2>1, PreambleIs, FileSpan, SMTT(60) DEF Opening
  <2>3. OutputOf[file][0] = << >>
    BY <1>2, OutputFacts
  <2>4. QED
    BY <1>1, <2>2, <2>3 DEF Expected
<1>4. Through = file /\ ~Writing
  BY <1>1 DEF Through, Writing
<1>5. StoreInv'
  BY <1>1, QuietStore DEF DataInv
<1>6. Held(bowl, file, writer', disk'[file], << >>)
  BY <1>1, <1>2, HeldNothing DEF DataInv, StoreInv, Store, Stored
<1>7. Len(writer'.buf) <= BufSize /\ writer' \in Writers
  BY <1>1, NoWriterIs, BufSizeAssumption
<1>8. Marks(bowl, file, recorded'[file]) /\ \A g \in 1 .. file - 1 : recorded'[g] = recorded[g]
  BY <1>1, <1>2, MarkedOnly DEF ControlInv
<1>9. Lasting(bowl, file, disk', synced', recorded')
  BY <1>1, <1>2, <1>4, <1>8, FinishedStays DEF DataInv, SessionInv, Lasting
<1>10. SessionInv' /\ DoneInv' /\ Writing'
  BY <1>1, <1>3, <1>6, <1>7, <1>8, <1>9, GoesOnWith
<1>11. SavedInv'
  BY <1>1, <1>4, <1>5, <1>7, QuietWrites, SavedGoesOn
<1>12. QED
  BY <1>5, <1>10, <1>11 DEF DataInv

LEMMA GoOnData == ASSUME ControlInv, ControlInv', DataInv, GoOn \/ AskSave, UNCHANGED bowl PROVE DataInv'
<1>1. /\ session = "running" /\ pc = "top" /\ UNCHANGED <<writer, disk, synced, recorded, kept, offset>>
      /\ pc' = "read" /\ session' = "running" /\ file' = file
  BY DEF GoOn, AskSave, Reading, Goto, reader, WantSave
<1>2. Through = file /\ Writing /\ Expected' = Expected /\ Writing'
  BY <1>1 DEF Through, Writing, Expected, OpsBefore
<1>3. WriterInv /\ Lasting(bowl, file, disk, synced, recorded)
  BY <1>1, <1>2 DEF DataInv, SessionInv
<1>4. SessionInv' /\ DoneInv'
  BY <1>1, <1>2, <1>3, GoesOnWith DEF WriterInv
<1>5. StoreInv'
  BY <1>1, QuietStore DEF DataInv
<1>6. writer \in Writers /\ PosOf(bowl, file, writer) \in Nat
  BY DEF ControlInv, TypeInv, Writers, PosOf
<1>7. SavedInv'
  BY <1>1, <1>2, <1>5, <1>6, QuietWrites, SavedGoesOn
<1>8. QED
  BY <1>4, <1>5, <1>7 DEF DataInv

\* What is left to the bowl is right from then on: a fresh one copies the old file,
\* an overlay bowl will rename or copy it.
LEMMA TranspositionData ==
  ASSUME ControlInv, ControlInv', DataInv, Durable, ReadTransposition, UNCHANGED bowl
  PROVE  DataInv'
<1>1. /\ file \in Files /\ AtFirst /\ session = "running" /\ pc = "first" /\ file \in Int
      /\ Message = Patch[file].ops[1] /\ FullFile(file, Message)
  BY FirstOp, FilesAre DEF ReadTransposition, Reading
<1>2. Old[Message.file] = NewFile[file] /\ NewFile[file] \in Seq(Nat)
  BY <1>1, FullFileIs, OutputFacts DEF AtFirst
<1>3. UNCHANGED <<writer, synced, kept>> /\ session' = "running" /\ file' = file /\ pc' = "tail"
  BY <1>1 DEF ReadTransposition, Goto
<1>4. Through = file /\ ~Writing /\ Through' = file + 1 /\ ~Writing'
  BY <1>1, <1>3 DEF Through, Writing
<1>5. Lasting(bowl, file, disk, synced, recorded)
  BY <1>1, <1>4 DEF DataInv, SessionInv
<1>6. /\ StoreInv'
      /\ \A g \in Files \ {file} : disk'[g] = disk[g]
      /\ Lasting(bowl, file + 1, disk', synced', recorded')
  <2>1. CASE bowl = "fresh"
    <3> DEFINE c == disk[file]
               o == NewFile[file]
               W == WriteAt(c, 0, o)
    <3>1. disk' = Put(W) /\ recorded' = recorded
      BY <1>2, <2>1 DEF ReadTransposition, Put
    <3>2. ~Overlays(bowl, file)
      BY <2>1 DEF Overlays
    <3>3. c \in Seq(Nat) /\ Len(c) <= Len(o)
      BY <1>1, <3>2 DEF DataInv, StoreInv, Store, Stored
    <3> DEFINE e == << >>
    <3>4. e \in Seq(Nat) /\ Len(e) = 0 /\ HasAt(c, 0, e)
      BY <3>3 DEF HasAt
    <3>5. e \o o = o
      BY <1>2
    <3> HIDE DEF c, o, e
    <3>6. Written(Nat, c, e, o)
      BY <1>2, <3>3, <3>4, NatWritten, Zenon DEF o
    <3>7. /\ W \in Seq(Nat)
          /\ Len(W) = IF Len(e) + Len(o) > Len(c) THEN Len(e) + Len(o) ELSE Len(c)
          /\ \A i \in 1 .. Len(o) : W[Len(e) + i] = o[i]
      BY <3>4, <3>6, Zenon DEF Written
    <3> HIDE DEF W
    <3>8. W = o
      <4>1. o \in Seq(Nat) /\ Len(o) \in Nat /\ Len(c) \in Nat
        BY <1>2, <3>3 DEF o
      <4>2. Len(W) = Len(o) /\ \A i \in 1 .. Len(o) : Len(e) + i = i
        BY <3>3, <3>4, <3>7, <4>1
      <4>3. QED
        BY <3>7, <4>1, <4>2, SameSequence
    <3>9. Stored(bowl, file, W)
      <4>1. Len(o) <= Len(o)
        BY <1>2 DEF o
      <4>2. QED
        BY <3>2, <3>7, <3>8, <4>1 DEF Stored, o
    <3>10. Store(bowl, disk') /\ disk'[file] = W /\ \A g \in Files \ {file} : disk'[g] = disk[g]
      <4>1. Store(bowl, Put(W)) /\ Put(W)[file] = W /\ \A g \in Files \ {file} : Put(W)[g] = disk[g]
        BY <1>1, <3>9, PutIn DEF DataInv, StoreInv
      <4>2. QED
        BY <3>1, <4>1, Zenon
    <3>11. Whole(bowl, file, recorded'[file], disk'[file])
      BY <2>1, <3>8, <3>10 DEF Whole, Outcome, o
    <3>12. Finished(bowl, disk', file, recorded')
      <4>1. \A g \in 1 .. file - 1 : g \in Files \ {file}
        BY <1>1, FilesAre
      <4>2. QED
        BY <1>1, <1>5, <3>1, <3>10, <4>1, FinishedStays DEF Lasting
    <3>13. Finished(bowl, disk', file + 1, recorded')
      BY <1>1, <3>11, <3>12, FinishedNext
    <3>14. bowl \notin PowerLoss
      BY <2>1 DEF Durable
    <3>15. QED
      BY <1>3, <3>10, <3>13, <3>14 DEF DataInv, StoreInv, Lasting
  <2>2. CASE bowl # "fresh"
    <3>1. disk' = disk /\ recorded' = [recorded EXCEPT ![file] = [how |-> "transposition", from |-> Message.file]]
      BY <2>2 DEF ReadTransposition
    <3>2. /\ recorded'[file] = [how |-> "transposition", from |-> Message.file]
          /\ \A g \in 1 .. file - 1 : recorded'[g] = recorded[g]
      BY <1>1, <3>1, FilesAre DEF ControlInv, TypeInv
    <3>3. \A c : Whole(bowl, file, recorded'[file], c)
      BY <1>2, <2>2, <3>2 DEF Whole, Outcome
    <3>4. Finished(bowl, disk', file, recorded') /\ (bowl \in PowerLoss => Finished(bowl, synced', file, recorded'))
      <4>1. \A l : Finished(bowl, l, file, recorded) => Finished(bowl, l, file, recorded')
        BY <3>2, Zenon DEF Finished
      <4>2. QED
        BY <1>3, <1>5, <3>1, <4>1, Zenon DEF Lasting
    <3>5. Lasting(bowl, file + 1, disk', synced', recorded')
      BY <1>1, <3>3, <3>4, FinishedNext DEF Lasting
    <3>6. QED
      BY <1>3, <3>1, <3>5, QuietStore DEF DataInv
  <2>3. QED
    BY <2>1, <2>2
<1>7. SessionInv' /\ DoneInv'
  BY <1>3, <1>4, <1>6 DEF SessionInv, DoneInv
<1>8. SavedInv'
  BY <1>1, <1>3, <1>4, <1>6, SavedGoesOn DEF Writes, ControlInv, TypeInv
<1>9. QED
  BY <1>6, <1>7, <1>8 DEF DataInv

\* Data are written where the writer is: the file goes on.
LEMMA WrittenData ==
  ASSUME ControlInv, ControlInv', DataInv, session = "running", UNCHANGED <<bowl, kept, synced, file>>,
         file \in Files, session' = "running", pc' = "top",
         NEW w \in Writers, NEW out \in Seq(Nat), NEW d \in Seq(Nat), Write(w, d),
         Held(bowl, file, w, disk[file], out), Writing => w = writer,
         Expected' = out \o d,
         Marks(bowl, file, recorded'[file]), Lasting(bowl, file, disk, synced, recorded'),
         Len(out) + Len(d) <= Len(NewFile[file])
  PROVE  DataInv'
<1>1. Store(bowl, disk) /\ Store(bowl, synced)
  BY DEF DataInv, StoreInv
<1>2. /\ Store(bowl, disk')
      /\ \A g \in Files \ {file} : disk'[g] = disk[g]
      /\ Held(bowl, file, writer', disk'[file], out \o d)
      /\ Len(writer'.buf) <= BufSize
      /\ PosOf(bowl, file, w) <= PosOf(bowl, file, writer')
      /\ Ahead(bowl, file, w, disk[file], disk'[file])
  BY <1>1, HeldWrite
<1>3. file \in Int /\ \A g \in 1 .. file - 1 : g \in Files \ {file}
  BY FilesAre
<1>4. Lasting(bowl, file, disk', synced', recorded')
  <2>1. \A g \in 1 .. file - 1 : disk'[g] = disk[g] /\ recorded'[g] = recorded'[g]
    BY <1>2, <1>3
  <2>2. Finished(bowl, disk', file, recorded')
    BY <1>3, <2>1, FinishedStays DEF Lasting
  <2>3. QED
    BY <2>2 DEF Lasting
<1>5. SessionInv' /\ DoneInv' /\ Writing'
  BY <1>2, <1>4, GoesOnWith
<1>6. StoreInv'
  BY <1>1, <1>2 DEF StoreInv
<1>7. Writes
  BY <1>2 DEF Writes
<1>8. writer' \in Writers
  BY DEF ControlInv, TypeInv
<1>9. SavedInv'
  BY <1>2, <1>5, <1>6, <1>7, <1>8, SavedGoesOn
<1>10. QED
  BY <1>5, <1>6, <1>9 DEF DataInv

\* A finished file with a writer is what it should be, and so is what was synced of it.
LEMMA FinalData ==
  ASSUME ControlInv, ControlInv', DataInv, Durable, session = "running", Writing, Expected = NewFile[file],
         UNCHANGED <<bowl, kept, writer, recorded>>, Finalize, NextFile
  PROVE  DataInv'
<1>1. /\ file \in Files /\ writer \in Writers /\ Expected \in Seq(Nat) /\ file \in Int /\ file \notin Skipped
      /\ \A g \in 1 .. file - 1 : g \in Files \ {file}
  BY ExpectedIs, FilesAre
<1>2. Store(bowl, disk) /\ Store(bowl, synced)
  BY DEF DataInv, StoreInv
<1>3. Through = file
  BY DEF Through, Writing
<1>4. /\ Held(bowl, file, writer, disk[file], NewFile[file])
      /\ Marks(bowl, file, recorded[file])
      /\ Lasting(bowl, file, disk, synced, recorded)
  BY <1>3 DEF DataInv, SessionInv, WriterInv
<1>5. /\ Store(bowl, disk') /\ Store(bowl, synced')
      /\ \A g \in Files \ {file} : disk'[g] = disk[g] /\ synced'[g] = synced[g]
      /\ IF Overlays(bowl, file) THEN synced'[file] = disk'[file] ELSE synced' = synced
      /\ Ahead(bowl, file, writer, disk[file], disk'[file])
      /\ IF Overlays(bowl, file) THEN Patched(disk'[file], Base(file)) = NewFile[file] ELSE disk'[file] = NewFile[file]
  BY <1>1, <1>2, <1>4, HeldFinal
<1>6. Whole(bowl, file, recorded[file], disk'[file])
  <2>1. CASE bowl = "fresh"
    BY <1>5, <2>1 DEF Whole, Outcome, Overlays
  <2>2. CASE bowl # "fresh" /\ Overlays(bowl, file)
    <3>1. recorded[file].how = "overlay"
      BY <1>4, <2>2 DEF Marks, Overlays
    <3>2. Outcome(bowl, file, recorded[file], disk'[file]) = Patched(disk'[file], Base(file))
      BY <2>2, <3>1 DEF Outcome
    <3>3. QED
      BY <1>5, <2>2, <3>2 DEF Whole
  <2>3. CASE bowl # "fresh" /\ ~Overlays(bowl, file)
    <3>1. recorded[file].how = "move"
      BY <1>4, <2>3 DEF Marks, ControlInv, TypeInv
    <3>2. Outcome(bowl, file, recorded[file], disk'[file]) = disk'[file]
      BY <2>3, <3>1 DEF Outcome
    <3>3. QED
      BY <1>5, <2>3, <3>2 DEF Whole
  <2>4. QED
    BY <2>1, <2>2, <2>3
<1>7. Finished(bowl, disk', file + 1, recorded)
  <2>1. Finished(bowl, disk', file, recorded)
    BY <1>1, <1>4, <1>5, FinishedStays DEF Lasting
  <2>2. QED
    BY <1>1, <1>6, <2>1, FinishedNext
<1>8. bowl \in PowerLoss => Finished(bowl, synced', file + 1, recorded)
  <2> SUFFICES ASSUME bowl \in PowerLoss PROVE Finished(bowl, synced', file + 1, recorded)
    OBVIOUS
  <2>1. synced'[file] = disk'[file]
    BY <1>5, OverIfLost
  <2>2. Finished(bowl, synced', file, recorded)
    BY <1>1, <1>4, <1>5, FinishedStays DEF Lasting
  <2>3. QED
    BY <1>1, <1>6, <2>1, <2>2, FinishedNext
<1>9. SessionInv' /\ DoneInv' /\ file' = file + 1
  <2>1. Lasting(bowl, file + 1, disk', synced', recorded')
    BY <1>7, <1>8 DEF Lasting
  <2>2. QED
    BY <1>1, <2>1, NextFileData
<1>10. StoreInv'
  BY <1>5 DEF StoreInv
<1>11. Writes
  <2>1. \A g \in Files : synced'[g] = synced[g] \/ synced'[g] = disk'[g]
    BY <1>5
  <2>2. QED
    BY <1>5, <2>1 DEF Writes
<1>12. SavedInv'
  BY <1>1, <1>9, <1>10, <1>11, SavedGoesOn
<1>13. QED
  BY <1>9, <1>10, <1>12 DEF DataInv

\* The output of one more operation.
LEMMA MoreWithin ==
  ASSUME NEW f \in Files, NEW k \in 0 .. Ops(f) - 1, NEW d \in Seq(Nat), d = Piece(f, k + 1)
  PROVE  Len(OutputOf[f][k]) + Len(d) <= Len(NewFile[f])
<1>1. k \in 0 .. Ops(f) /\ k + 1 \in 0 .. Ops(f)
  BY FileSpan
<1>2. Len(OutputOf[f][k]) + Len(Piece(f, k + 1)) = Len(OutputOf[f][k + 1])
  BY OneMore
<1>3. Len(OutputOf[f][k + 1]) <= Len(NewFile[f])
  BY <1>1, OutputWithin
<1>4. QED
  BY <1>2, <1>3

LEMMA NextExpected ==
  ASSUME file \in Files, file' = file, pc' = "top", NEW k \in Nat, Start(file) \in Nat, Opening(file) \in {1, 2},
         Place = Start(file) + Opening(file) + k, Place' = Place + 1
  PROVE  Expected' = OutputOf[file][k + 1]
<1>1. OpsBefore(file, offset)' = Place' - Preamble[file]
  BY DEF OpsBefore, Place
<1>2. OpsBefore(file, offset)' = k + 1
  BY <1>1, PreambleIs
<1>3. QED
  BY <1>2 DEF Expected

LEMMA FirstData == ASSUME ControlInv, ControlInv', DataInv, ReadFirst, UNCHANGED bowl PROVE DataInv'
<1>1. /\ file \in Files /\ AtFirst /\ session = "running" /\ pc = "first" /\ file \in Int
      /\ ReaderInv' /\ Place' = Start(file) + 2
      /\ Message = Patch[file].ops[1] /\ Message \in SyncOps
  BY FirstOp, FilesAre DEF ReadFirst, Reading
<1> DEFINE d == Data(Message)
<1>2. Message.type \in {"range", "data"} /\ d \in Seq(Nat)
  BY <1>1, DataType
<1>3. Write(NoWriter, d) /\ pc' = "top" /\ session' = "running" /\ file' = file /\ recorded' = Marked(file)
      /\ UNCHANGED <<synced, kept>>
  BY <1>1, <1>2 DEF ReadFirst, Goto
<1>4. Opening(file) = 1 /\ Ops(file) \in Nat /\ Ops(file) # 0 /\ Patch[file].kind = "rsync"
  BY <1>1, PatchShape DEF AtFirst, Opening, Ops
<1>5. Piece(file, 1) = d
  BY <1>1, <1>4 DEF Piece
<1> HIDE DEF d
<1>6. OutputOf[file][1] = << >> \o d /\ Len(<< >>) + Len(d) <= Len(NewFile[file])
  <2>1. 0 \in 0 .. Ops(file) - 1 /\ 1 \in 0 .. Ops(file) /\ 0 + 1 = 1
    BY <1>4
  <2>2. OutputOf[file][0] = << >> /\ OutputOf[file][0 + 1] = OutputOf[file][0] \o Piece(file, 0 + 1)
    BY <1>1, <2>1, OutputFacts
  <2>3. OutputOf[file][1] = << >> \o d
    BY <1>5, <2>1, <2>2
  <2>4. Len(OutputOf[file][1]) <= Len(NewFile[file])
    BY <1>1, <2>1, OutputWithin
  <2>5. << >> \in Seq(Nat)
    OBVIOUS
  <2> DEFINE e == << >>
  <2>6. e \in Seq(Nat)
    BY <2>5
  <2> HIDE DEF e
  <2>7. Len(e \o d) = Len(e) + Len(d)
    BY <1>2, <2>6, ConcatFacts
  <2>8. QED
    BY <2>3, <2>4, <2>7, Zenon DEF e
<1>7. Expected' = << >> \o d
  <2>1. OpsBefore(file, offset)' = Place' - Preamble[file]
    BY <1>3 DEF OpsBefore, Place
  <2>2. OpsBefore(file, offset)' = 1
    BY <1>1, <1>4, <2>1, PreambleIs, FileSpan
  <2>3. QED
    BY <1>3, <1>6, <2>2 DEF Expected
<1>8. Through = file /\ ~Writing
  BY <1>1 DEF Through, Writing
<1>9. Marks(bowl, file, recorded'[file]) /\ \A g \in 1 .. file - 1 : recorded'[g] = recorded[g]
  BY <1>1, <1>3, MarkedOnly DEF ControlInv
<1>10. Lasting(bowl, file, disk, synced, recorded')
  <2>1. Lasting(bowl, file, disk, synced, recorded)
    BY <1>1, <1>8 DEF DataInv, SessionInv
  <2>2. QED
    BY <1>1, <1>9, <2>1, FinishedStays DEF Lasting
<1>11. Held(bowl, file, NoWriter, disk[file], << >>)
  BY <1>1, HeldNothing DEF DataInv, StoreInv, Store, Stored
<1>12. << >> \in Seq(Nat) /\ NoWriter \in Writers
  BY NoWriterIs
<1>13. QED
  BY <1>1, <1>2, <1>3, <1>6, <1>7, <1>8, <1>9, <1>10, <1>11, <1>12, WrittenData

LEMMA OpData == ASSUME ControlInv, ControlInv', DataInv, Durable, ReadOp, UNCHANGED bowl PROVE DataInv'
<1> DEFINE k == OpsBefore(file, offset)
<1>1. AtOp /\ file \in Files /\ session = "running" /\ ReadMessage /\ Patch[file].kind = "rsync" /\ pc = "read"
      /\ UNCHANGED <<recorded, kept>>
  BY AtRead DEF ReadOp, Reading
<1>2. /\ ReaderInv' /\ k \in 0 .. Ops(file)
      /\ Place = Start(file) + Opening(file) + k
      /\ Place' = Place + 1
      /\ k = Ops(file) => IsEnd(Message)
      /\ k # Ops(file) => /\ Message = Patch[file].ops[k + 1]
                          /\ Message \in SyncOps
                          /\ ~IsEnd(Message)
                          /\ k + 1 \in 0 .. Ops(file)
  BY <1>1, NextOp
<1>3. Writing /\ Through = file /\ Expected = OutputOf[file][k]
  BY <1>1 DEF Writing, Through, Expected
<1>4. writer \in Writers /\ WriterInv /\ Lasting(bowl, file, disk, synced, recorded) /\ OutputOf[file][k] \in Seq(Nat)
  BY <1>1, <1>3, ExpectedIs DEF DataInv, SessionInv
<1> HIDE DEF k
<1>5. Ops(file) \in Nat /\ Start(file) \in Nat /\ Opening(file) \in {1, 2}
  BY <1>1, FileSpan
<1>6. CASE k = Ops(file)
  <2>1. Finalize /\ NextFile /\ UNCHANGED writer
    BY <1>2, <1>6 DEF ReadOp, IsEnd
  <2>2. Expected = NewFile[file]
    BY <1>1, <1>3, <1>6, OutputFacts
  <2>3. QED
    BY <1>1, <1>3, <2>1, <2>2, FinalData
<1>7. CASE k # Ops(file)
  <2> DEFINE d == Data(Message)
  <2>1. Message.type \in {"range", "data"} /\ d \in Seq(Nat)
    BY <1>2, <1>7, DataType
  <2>2. Write(writer, d) /\ pc' = "top" /\ session' = "running" /\ file' = file /\ synced' = synced
    BY <1>1, <1>2, <1>7, <2>1 DEF ReadOp, Goto
  <2>3. k \in 0 .. Ops(file) - 1 /\ k + 1 \in 0 .. Ops(file)
    BY <1>2, <1>5, <1>7
  <2>4. Piece(file, k + 1) = d
    BY <1>1, <1>2, <1>7 DEF Piece
  <2> HIDE DEF d
  <2>5. OutputOf[file][k + 1] = OutputOf[file][k] \o d
    BY <1>1, <2>3, <2>4, OutputFacts
  <2>6. Len(OutputOf[file][k]) + Len(d) <= Len(NewFile[file])
    BY <1>1, <2>1, <2>3, <2>4, MoreWithin
  <2>7. Expected' = OutputOf[file][k] \o d
    BY <1>1, <1>2, <1>5, <2>2, <2>3, <2>5, NextExpected, SMTT(60)
  <2>8. Held(bowl, file, writer, disk[file], OutputOf[file][k]) /\ Marks(bowl, file, recorded'[file])
    BY <1>1, <1>3, <1>4 DEF WriterInv
  <2>9. QED
    BY <1>1, <1>4, <2>1, <2>2, <2>6, <2>7, <2>8, WrittenData
<1>8. QED
  BY <1>6, <1>7

LEMMA ControlData == ASSUME ControlInv, ControlInv', DataInv, ReadControl, UNCHANGED bowl PROVE DataInv'
<1> DEFINE k == OpsBefore(file, offset)
<1>1. AtOp /\ file \in Files /\ session = "running" /\ ReadMessage /\ Patch[file].kind = "bsdiff" /\ pc = "read"
      /\ UNCHANGED <<recorded, kept, synced>>
  BY AtRead DEF ReadControl, Reading
<1>2. /\ ReaderInv' /\ k \in 0 .. Ops(file)
      /\ Place = Start(file) + Opening(file) + k
      /\ Place' = Place + 1
      /\ k = Ops(file) => Message.type = "eof"
      /\ k # Ops(file) => /\ Message = Patch[file].ops[k + 1]
                          /\ Message \in Controls
                          /\ Message.type # "eof"
                          /\ k + 1 \in 0 .. Ops(file)
  BY <1>1, NextOp
<1>3. Writing /\ Through = file /\ Expected = OutputOf[file][k]
  BY <1>1 DEF Writing, Through, Expected
<1>4. writer \in Writers /\ WriterInv /\ Lasting(bowl, file, disk, synced, recorded) /\ OutputOf[file][k] \in Seq(Nat)
  BY <1>1, <1>3, ExpectedIs DEF DataInv, SessionInv
<1>5. oldOffset = OldOffsetOf[file][k + 1]
  BY <1>1 DEF AtOp, InStep
<1> HIDE DEF k
<1>6. Ops(file) \in Nat /\ Start(file) \in Nat /\ Opening(file) \in {1, 2}
  BY <1>1, FileSpan
<1>7. CASE k = Ops(file)
  <2>1. UNCHANGED <<writer, disk>> /\ pc' = "sentinel" /\ session' = "running" /\ file' = file
    BY <1>1, <1>2, <1>7 DEF ReadControl, Goto
  <2>2. Expected' = Expected
    BY <1>1, <1>3, <1>7, <2>1, OutputFacts DEF Expected
  <2>3. StoreInv'
    BY <1>1, <2>1, QuietStore DEF DataInv
  <2>4. SessionInv' /\ DoneInv' /\ Writing'
    BY <1>1, <1>4, <2>1, <2>2, GoesOnWith DEF WriterInv
  <2>5. PosOf(bowl, file, writer) \in Nat
    BY <1>4 DEF PosOf, Writers
  <2>6. SavedInv'
    BY <1>1, <1>4, <2>1, <2>3, <2>4, <2>5, QuietWrites, SavedGoesOn
  <2>7. QED
    BY <2>3, <2>4, <2>6 DEF DataInv
<1>8. CASE k # Ops(file)
  <2>1. k \in 0 .. Ops(file) - 1 /\ k + 1 \in 0 .. Ops(file) /\ k + 1 \in 1 .. Ops(file)
    BY <1>2, <1>6, <1>8
  <2>2. OldOffsetOf[file][k + 1] \in Nat /\ Patch[file].target \in DOMAIN Old
    <3>1. k + 1 \in DOMAIN Patch[file].ops
      BY <1>1, <2>1, PatchShape DEF Ops
    <3>2. QED
      BY <1>1, <3>1, PatchAssumption, PatchShape
  <2> DEFINE d == Added(Message, Patch[file].target, oldOffset)
  <2>3. d \in Seq(Nat) /\ Message.type = "ctrl"
    BY <1>2, <1>5, <1>8, <2>2, AddedType
  <2>4. Write(writer, d) /\ pc' = "top" /\ session' = "running" /\ file' = file
    BY <1>1, <2>3 DEF ReadControl, Goto
  <2>5. Piece(file, k + 1) = d
    BY <1>1, <1>2, <1>5, <1>8 DEF Piece
  <2> HIDE DEF d
  <2>6. OutputOf[file][k + 1] = OutputOf[file][k] \o d
    BY <1>1, <2>1, <2>5, OutputFacts
  <2>7. Len(OutputOf[file][k]) + Len(d) <= Len(NewFile[file])
    BY <1>1, <2>1, <2>3, <2>5, MoreWithin
  <2>8. Expected' = OutputOf[file][k] \o d
    <3>1. k \in Nat
      BY <1>2
    <3>2. Expected' = OutputOf[file][k + 1]
      BY <1>1, <1>2, <1>6, <2>4, <3>1, NextExpected
    <3>3. QED
      BY <2>6, <3>2
  <2>9. Held(bowl, file, writer, disk[file], OutputOf[file][k]) /\ Marks(bowl, file, recorded'[file])
    BY <1>1, <1>3, <1>4 DEF WriterInv
  <2>10. QED
    BY <1>1, <1>4, <2>3, <2>4, <2>7, <2>8, <2>9, WrittenData
<1>9. QED
  BY <1>7, <1>8

LEMMA SentinelData == ASSUME ControlInv, ControlInv', DataInv, Durable, ReadSentinel, UNCHANGED bowl PROVE DataInv'
<1>1. /\ session = "running" /\ pc = "sentinel"
      /\ IsEnd(Message) /\ writer.pos = Len(NewFile[file])
  BY SentinelGood DEF ReadSentinel, Reading
<1>2. Finalize /\ NextFile /\ UNCHANGED <<writer, recorded, kept>>
  BY <1>1 DEF ReadSentinel
<1>3. Writing /\ Expected = NewFile[file]
  BY <1>1 DEF Writing, Expected
<1>4. QED
  BY <1>1, <1>2, <1>3, FinalData

LEMMA HeldEmptied ==
  ASSUME NEW b, NEW f, NEW w \in Writers, NEW e \in Writers, NEW c, NEW out, Held(b, f, w, c, out),
         e.pos = w.pos, e.buf = w.buf, e.read = w.read, e.over = w.over
  PROVE  Held(b, f, e, c, out) /\ PosOf(b, f, e) = PosOf(b, f, w)
<1>1. CASE Overlays(b, f)
  BY <1>1, Zenon DEF Held, PosOf
<1>2. CASE ~Overlays(b, f)
  BY <1>2, Zenon DEF Held, PosOf
<1>3. QED
  BY <1>1, <1>2

\* What a new checkpoint relies on is in the files, synced, when it is delivered.
LEMMA SaveData == ASSUME ControlInv, ControlInv', DataInv, SaveCheckpoint, UNCHANGED bowl PROVE DataInv'
<1>1. /\ AtOp /\ file \in Files /\ session = "running" /\ pc = "top" /\ file \in Int
      /\ \A g \in 1 .. file - 1 : g \in Files \ {file}
  BY AtTop, FilesAre DEF SaveCheckpoint, Reading
<1>2. Writing /\ Through = file
  BY <1>1 DEF Writing, Through
<1>3. writer \in Writers /\ Expected \in Seq(Nat) /\ Len(Expected) <= Len(NewFile[file])
  BY <1>1, <1>2, ExpectedIs
<1>4. WriterInv /\ Lasting(bowl, file, disk, synced, recorded) /\ Store(bowl, disk) /\ Store(bowl, synced)
  BY <1>1, <1>2 DEF DataInv, SessionInv, StoreInv
<1> DEFINE sw == SavedWriter.writer
<1>5. /\ writer' = sw /\ UNCHANGED <<offset, file, recorded>> /\ pc' = "read" /\ session' \in {"running", "idle"}
      /\ disk' = [disk EXCEPT ![file] = WriteAt(@, WriterPos(file, writer), SavedWriter.cells)]
      /\ synced' = [synced EXCEPT ![file] = disk'[file]]
  BY DEF SaveCheckpoint, PopCheckpoint
<1>6. /\ Store(bowl, disk')
      /\ \A g \in Files \ {file} : disk'[g] = disk[g]
      /\ Held(bowl, file, sw, disk'[file], Expected)
      /\ sw.buf = << >>
  BY <1>1, <1>3, <1>4, <1>5, HeldSave DEF WriterInv
<1>7. sw \in Writers
  BY <1>5, SavedWriterIs DEF SaveCheckpoint, ControlInv
<1> HIDE DEF sw
<1>8. synced'[file] = disk'[file] /\ (\A g \in Files \ {file} : synced'[g] = synced[g]) /\ Store(bowl, synced')
  BY <1>1, <1>4, <1>5, <1>6 DEF Store
<1>9. Finished(bowl, disk', file, recorded)
  BY <1>1, <1>4, <1>6, FinishedStays DEF Lasting
<1>10. bowl \in PowerLoss => Finished(bowl, synced', file, recorded)
  BY <1>1, <1>4, <1>8, FinishedStays DEF Lasting
<1>11. Expected' = Expected
  BY <1>1, <1>5 DEF Expected, OpsBefore
<1>12. Len(sw.buf) <= BufSize
  BY <1>6, BufSizeAssumption
<1>13. SessionInv' /\ DoneInv' /\ Writing'
  <2>1. Lasting(bowl, file, disk', synced', recorded')
    BY <1>5, <1>9, <1>10 DEF Lasting
  <2>2. Marks(bowl, file, recorded'[file])
    BY <1>4, <1>5 DEF WriterInv
  <2>3. QED
    BY <1>5, <1>6, <1>11, <1>12, <2>1, <2>2, GoesOnWith
<1>14. StoreInv'
  BY <1>6, <1>8 DEF StoreInv
<1> DEFINE kw == kept'.writer
<1>15. /\ kept'.message.offset = offset /\ kept'.file = file /\ kept'.recorded = recorded
       /\ kw = [sw EXCEPT !.buf = << >>] /\ kw \in Writers
  BY SaveIs DEF sw, Checkpoint
<1>16. kw.pos = sw.pos /\ kw.buf = sw.buf /\ kw.read = sw.read /\ kw.over = sw.over /\ kw.buf = << >>
  BY <1>6, <1>7, <1>15, EmptiedIs
<1> HIDE DEF kw
<1>17. KeptOutput(kept') = Expected
  BY <1>1, <1>15 DEF KeptOutput, Expected
<1>18. /\ Held(bowl, file, kw, disk'[file], Expected)
       /\ Held(bowl, file, kw, synced'[file], Expected)
       /\ PosOf(bowl, file, kw) = PosOf(bowl, file, sw)
  BY <1>6, <1>7, <1>8, <1>15, <1>16, HeldEmptied
<1>19. SavedOn(bowl, kept', disk') /\ (bowl \in PowerLoss => SavedOn(bowl, kept', synced'))
  BY <1>9, <1>10, <1>15, <1>17, <1>18 DEF SavedOn, kw
<1>20. SavedInv'
  <2>1. kept'.writer.buf = << >> /\ Marks(bowl, kept'.file, kept'.recorded[kept'.file])
    BY <1>4, <1>15, <1>16 DEF kw, WriterInv
  <2>2. PosOf(bowl, file, kept'.writer) = PosOf(bowl, file, writer') /\ PosOf(bowl, file, sw) \in Nat
    BY <1>5, <1>7, <1>18 DEF kw, PosOf, Writers
  <2>3. PosOf(bowl, file, kept'.writer) <= PosOf(bowl, file, writer')
    BY <1>5, <2>2
  <2>4. QED
    BY <1>1, <1>5, <1>13, <1>15, <1>19, <2>1, <2>3 DEF SavedInv
<1>21. QED
  BY <1>13, <1>14, <1>20 DEF DataInv

-----------------------------------------------------------------------------
(* The theorems                                                             *)

LEMMA NextData ==
  ASSUME SkipsWhole, Durable, ControlInv, ControlInv', DataInv, [Next]_vars
  PROVE  DataInv'
<1>1. CASE Proceed
  BY <1>1, StartData, ResumeData, HeaderData, SkipData, TranspositionData, TailData, FirstData, BsdiffData,
     GoOnData, SaveData, OpData, ControlData, SentinelData DEF Proceed
<1>2. CASE Crash
  BY <1>2, CrashData
<1>3. CASE Over \/ UNCHANGED vars
  BY <1>3, SameData DEF Over
<1>4. QED
  BY <1>1, <1>2, <1>3 DEF Next

\* Between two steps, in every session, the files hold what the patcher has read so far.
THEOREM DataHolds == ASSUME SkipsWhole, Durable PROVE Spec => [](ControlInv /\ DataInv)
<1>1. Init => ControlInv /\ DataInv
  BY InitControl, InitData
<1>2. ControlInv /\ DataInv /\ [Next]_vars => (ControlInv /\ DataInv)'
  BY NextControl, NextData
<1>3. QED
  BY <1>1, <1>2, PTL DEF Spec

LEMMA StoredAt ==
  ASSUME NEW f \in Files, StoreInv
  PROVE  disk[f] \in Seq(IF Overlays(bowl, f) THEN Cells ELSE Nat)
  BY DEF StoreInv, Store, Stored

LEMMA ResultIs ==
  ASSUME NEW f, NEW r, NEW c
  PROVE  Result(f, r, c) = Outcome(bowl, f, r, c)
  BY DEF Result, Outcome, Base

\* At every stop of the loop the open writer has got exactly what the operations read
\* so far amount to, and what is not in the file yet fits its buffer.
THEOREM WriterInStepHolds == ASSUME SkipsWhole, Durable PROVE Spec => []WriterInStep
<1>1. ControlInv /\ DataInv => WriterInStep
  <2> SUFFICES ASSUME ControlInv, DataInv, Reading("top")
               PROVE  /\ Len(writer.buf) <= BufSize
                      /\ Prefix(file, writer, disk[file]) = OutputOf[file][OpsBefore(file, offset)]
                      /\ writer.pos = Len(OutputOf[file][OpsBefore(file, offset)])
    BY DEF WriterInStep
  <2>1. session = "running" /\ pc = "top" /\ Writing /\ Expected = OutputOf[file][OpsBefore(file, offset)]
    BY DEF Reading, Writing, Expected
  <2>2. file \in Files /\ writer \in Writers /\ Expected \in Seq(Nat)
    BY <2>1, ExpectedIs
  <2>3. Held(bowl, file, writer, disk[file], Expected) /\ Len(writer.buf) <= BufSize
    BY <2>1 DEF DataInv, SessionInv, WriterInv
  <2>4. Prefix(file, writer, disk[file]) = Expected
    BY <2>2, <2>3, StoredAt, HeldIs DEF DataInv
  <2>5. writer.pos = Len(OutputOf[file][OpsBefore(file, offset)])
    BY AtTop DEF AtOp, InStep
  <2>6. QED
    BY <2>1, <2>3, <2>4, <2>5
<1>2. QED
  BY <1>1, DataHolds, PTL

\* The last checkpoint delivered can be resumed from at any later time, whatever was
\* written, lost or abandoned since.
THEOREM CheckpointAlwaysHolds == ASSUME SkipsWhole, Durable PROVE Spec => []CheckpointHolds
<1>1. ControlInv /\ DataInv => CheckpointHolds
  <2> SUFFICES ASSUME ControlInv, DataInv, kept # NoCheckpoint
               PROVE  /\ CanResume(kept.message)
                      /\ kept.message.offset \in Boundary
                      /\ WriterPos(kept.file, kept.writer) <= Len(disk[kept.file])
                      /\ Prefix(kept.file, kept.writer, disk[kept.file])
                           = OutputOf[kept.file][OpsBefore(kept.file, kept.message.offset)]
                      /\ \A g \in 1 .. kept.file - 1 :
                           g \in Skipped \/ Result(g, kept.recorded[g], disk[g]) = NewFile[g]
    BY DEF CheckpointHolds
  <2>1. CanResume(kept.message) /\ kept.message.offset \in Boundary
    BY DEF ControlInv, KeptInv
  <2>2. kept.file \in Files /\ kept.writer \in Writers /\ KeptOutput(kept) \in Seq(Nat)
    BY KeptIs
  <2>3. SavedOn(bowl, kept, disk)
    BY DEF DataInv, SavedInv
  <2>4. Held(bowl, kept.file, kept.writer, disk[kept.file], KeptOutput(kept))
    BY <2>3 DEF SavedOn
  <2>5. /\ WriterPos(kept.file, kept.writer) <= Len(disk[kept.file])
        /\ Prefix(kept.file, kept.writer, disk[kept.file]) = KeptOutput(kept)
    BY <2>2, <2>4, StoredAt, HeldIs DEF DataInv
  <2>6. ASSUME NEW g \in 1 .. kept.file - 1
        PROVE  g \in Skipped \/ Result(g, kept.recorded[g], disk[g]) = NewFile[g]
    BY <2>3, ResultIs DEF SavedOn, Finished, Whole
  <2>7. QED
    BY <2>1, <2>5, <2>6 DEF KeptOutput
<1>2. QED
  BY <1>1, DataHolds, PTL

\* A patch that was applied to its end, in however many sessions, saves and crashes,
\* yields exactly the new files, whatever the bowl.
THEOREM PatchedFaithfullyHolds == ASSUME SkipsWhole, Durable PROVE Spec => []PatchedFaithfully
<1>1. DataInv => PatchedFaithfully
  <2> SUFFICES ASSUME DataInv, session = "done", NEW f \in Files \ Skipped
               PROVE  Result(f, recorded[f], disk[f]) = NewFile[f]
    BY DEF PatchedFaithfully
  <2>1. Finished(bowl, disk, Len(Patch) + 1, recorded)
    BY DEF DataInv, DoneInv
  <2>2. f \in 1 .. (Len(Patch) + 1) - 1
    BY FilesAre, PatchShape
  <2>3. QED
    BY <2>1, <2>2, ResultIs DEF Finished, Whole
<1>2. QED
  BY <1>1, DataHolds, PTL
=============================================================================
