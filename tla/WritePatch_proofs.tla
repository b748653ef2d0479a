---------------------------- MODULE WritePatch_proofs ---------------------------
(***************************************************************************)
(* Proofs about writing a patch: what ComputeDiff has sent stands for the  *)
(* bytes before the data that is pending, wherever the buffer wrapped, and *)
(* the results of the three tasks tell that all of a file went through.    *)
(***************************************************************************)
EXTENDS Rediff, Genie, SequenceFacts, SequenceTheorems, FiniteSetTheorems

-----------------------------------------------------------------------------
(* The invariant                                                            *)

Outcomes == {"nil", "failed", "cancelled"}
Pipe == [bytes : Seq(Nat), end : {"open", "eof", "failed"}]

\* Operations: data, and ranges of blocks that the file has.
DataOps == [type : {"data"}, data : Seq(Nat)]

BlockRanges(o) ==
  {r \in [type : {"range"}, file : DOMAIN o, block : Nat, span : Nat \ {0}] :
     Len(o[r.file]) > 0 /\ r.block + r.span <= NumBlocks(Len(o[r.file]))}

Ops(o) == DataOps \cup BlockRanges(o)

\* What is sent, and the bytes of the old files o it stands for.
Sendings(o) == [prev : {NoOp} \cup BlockRanges(o), ops : Seq(Ops(o))]

Content(o, op) ==
  IF op.type = "data" THEN op.data
  ELSE SubSeq(o[op.file], op.block * BlockSize + 1, Least((op.block + op.span) * BlockSize, Len(o[op.file])))

Contents(o, ops) == FlattenSeq([i \in DOMAIN ops |-> Content(o, ops[i])])

Made(o, q) == Contents(o, q.ops) \o (IF q.prev = NoOp THEN << >> ELSE Content(o, q.prev))

DiffTypes ==
  /\ input \in Pipe
  /\ buffer \in [0 .. BufLen - 1 -> Nat]
  /\ validTo \in Nat /\ window \in Nat /\ pending \in Nat
  /\ rolling \in [on : BOOLEAN, b1 : Int, b2 : Int, pop : Nat]
  /\ sent \in Sendings(old)
  /\ diff \in [at : {"over", "extend", "read", "look", "nil", "failed"}, n : Nat, last : BOOLEAN]

TypeInv ==
  /\ case \in Cases /\ old = case.old
  /\ at \in 0 .. Len(case.new)
  /\ preferred \in Nat /\ (at > 0 => preferred = case.like[at])
  /\ main \in {"file", "tasks", "returned"}
  /\ result \in Outcomes \cup {"none"} /\ (main = "returned" <=> result # "none")
  /\ collected \in Nat
  /\ done \in Seq(Outcomes)
  /\ copier \in [at : {"read", "to signer", "signed", "over"}, from : Nat, pos : Nat]
  /\ signInput \in Pipe
  /\ signer \in [at : {"scan", "over"}, held : Seq(Nat)]
  /\ signature \in Seq(Seq(Seq(Nat)))
  /\ patch \in Seq(Seq(Ops(old)))
  /\ ctx \in {"live", "done"}
  /\ DiffTypes

Running == diff.at \in {"extend", "read", "look"}

\* The copier is between two chunks, or has one that the differ or the signer takes.
Taken == copier.pos - Len(input.bytes)

SignedTo ==
  IF copier.at = "to signer" \/ signInput.bytes # << >> THEN copier.from ELSE copier.pos

CopyInv ==
  at > 0 =>
    /\ copier.from <= copier.pos /\ copier.pos <= Len(Source)
    /\ Taken \in Nat /\ input.bytes = SubSeq(Source, Taken + 1, copier.pos)
    /\ copier.at # "to signer" => input.bytes = << >>
    /\ signInput.bytes # << >> =>
         copier.at = "signed" /\ signInput.bytes = SubSeq(Source, copier.from + 1, copier.pos)
    /\ input.end = signInput.end
    /\ copier.at = "over" <=> input.end # "open"
    /\ input.end = "eof" => copier.pos = Len(Source)

\* Where the buffer starts in the new file.
Origin == Taken - validTo

Buffered(d, from, b, n) ==
  /\ from \in Nat /\ n <= BufLen /\ from + n <= Len(d)
  /\ \A i \in 0 .. n - 1 : b[i] = d[from + i + 1]

SearchInv ==
  Running =>
    /\ at > 0
    /\ Buffered(Source, Origin, buffer, validTo)
    /\ pending <= window /\ window <= validTo /\ window - pending <= MaxDataOp
    /\ diff.at = "read" =>
         /\ diff.n < BlockSize /\ diff.n <= validTo - window
         /\ validTo - diff.n < window + BlockSize
         /\ validTo - diff.n + BlockSize <= BufLen
    /\ diff.at = "look" /\ ~diff.last => window + BlockSize <= validTo
    /\ diff.last =>
         /\ diff.at = "look" /\ input.end = "eof" /\ input.bytes = << >>
         /\ diff.n < BlockSize /\ diff.n <= validTo - window
         /\ validTo - diff.n < window + BlockSize

\* Data operations that were sent before the last one.
AllFull(ops) ==
  \A i \in DOMAIN ops : ops[i].type = "data" => ops[i].data # << >> /\ Len(ops[i].data) <= MaxDataOp

MadeInv ==
  Running => Made(old, sent) = SubSeq(Source, 1, Origin + pending) /\ AllFull(sent.ops)

\* The operations of a file.
Bounded(ops, d) ==
  \A i \in DOMAIN ops :
    ops[i].type = "data" =>
      /\ Len(ops[i].data) <= MaxDataOp + (IF i = Len(ops) THEN 2 * BlockSize - 1 ELSE 0)
      /\ ops[i].data = << >> => d = << >>

DiffedInv ==
  diff.at = "nil" =>
    /\ input.end # "open"
    /\ input.end = "eof" => Contents(old, sent.ops) = Source /\ Bounded(sent.ops, Source)

\* Blocks of d, and what is left of its first n bytes.
Signs(blocks, held, d, n) ==
  /\ \A i \in DOMAIN blocks : blocks[i] = SubSeq(d, (i - 1) * BlockSize + 1, i * BlockSize)
  /\ Len(blocks) * BlockSize <= n
  /\ n < Len(blocks) * BlockSize + BlockSize
  /\ held = SubSeq(d, Len(blocks) * BlockSize + 1, n)

SignInv == signer.at = "scan" => at > 0 /\ Signs(signature[at], signer.held, Source, SignedTo)

\* The results of the tasks.
One(b) == IF b THEN 1 ELSE 0
Ended == diff.at \in {"nil", "failed"}

TasksInv ==
  main = "tasks" =>
    /\ at > 0
    /\ collected + Len(done) = One(copier.at = "over") + One(Ended) + One(signer.at = "over")
    /\ diff.at # "over"
    /\ (\A i \in DOMAIN done : done[i] = "nil") =>
         /\ Ended => diff.at = "nil"
         /\ copier.at = "over" => input.end = "eof"
         /\ signer.at = "over" => signature[at] = BlocksOf(Source)

Between == main = "file" \/ result = "nil"

BetweenInv ==
  Between => copier.at = "over" /\ signer.at = "over" /\ ~Running /\ done = << >>

\* A file that was not touched, and the range over n blocks of it.
Untouched(f) ==
  LET d == case.new[f]
  IN d # << >> /\ case.like[f] # 0 /\ d = old[case.like[f]] /\ Distinct(d)

RangeOf(f, n) == [type |-> "range", file |-> f, block |-> 0, span |-> n]

FilesInv ==
  /\ Len(signature) = at
  /\ Len(patch) = IF Between THEN at ELSE at - 1
  /\ \A f \in DOMAIN patch :
       /\ Contents(old, patch[f]) = case.new[f]
       /\ Bounded(patch[f], case.new[f])
       /\ signature[f] = BlocksOf(case.new[f])
       /\ Untouched(f) => patch[f] = <<RangeOf(case.like[f], Len(BlocksOf(case.new[f])))>>
  /\ result = "nil" => at = Len(case.new)

\* The hash that is kept is that of the window before this one.
RollInv ==
  Running /\ rolling.on =>
    LET p == Origin + window
    IN /\ p > 0 /\ window + BlockSize <= validTo + 1
       /\ <<rolling.b1, rolling.b2>> = WeakHash(SubSeq(Source, p, p + BlockSize - 1))
       /\ rolling.pop = Source[p]

\* It is matched block by block.
UntouchedInv ==
  at > 0 /\ Untouched(at) =>
    /\ Running =>
         /\ ~rolling.on
         /\ pending = window
         /\ sent.ops = << >>
         /\ \E k \in 0 .. Len(Source) :
              /\ Origin + window = k * BlockSize
              /\ sent.prev = IF k = 0 THEN NoOp ELSE RangeOf(case.like[at], k)
         /\ diff.at = "extend" => validTo = window
         /\ diff.at = "read" \/ diff.last => validTo = window + diff.n
         /\ diff.at = "look" /\ ~diff.last => validTo = window + BlockSize
    /\ diff.at = "nil" /\ input.end = "eof" =>
         sent.ops = <<RangeOf(case.like[at], Len(BlocksOf(Source)))>>

DiffInv == SearchInv /\ MadeInv /\ RollInv /\ UntouchedInv

IInv ==
  TypeInv /\ CopyInv /\ DiffInv /\ DiffedInv /\ SignInv /\ TasksInv /\ BetweenInv /\ FilesInv
-----------------------------------------------------------------------------
(* Sequences                                                                *)

\* Elements a + 1 to b.
LEMMA PartIs ==
  ASSUME NEW S, NEW d \in Seq(S), NEW a \in Nat, NEW b \in a .. Len(d)
  PROVE  /\ SubSeq(d, a + 1, b) \in Seq(S)
         /\ Len(SubSeq(d, a + 1, b)) = b - a
         /\ \A i \in 1 .. b - a : SubSeq(d, a + 1, b)[i] = d[a + i]
<1>1. \A i \in a + 1 .. b : d[i] \in S
  OBVIOUS
<1>2. /\ SubSeq(d, a + 1, b) \in Seq(S)
      /\ Len(SubSeq(d, a + 1, b)) = IF a + 1 <= b THEN b - (a + 1) + 1 ELSE 0
      /\ \A i \in 1 .. b - (a + 1) + 1 : SubSeq(d, a + 1, b)[i] = d[(a + 1) + i - 1]
  BY <1>1, SubSeqProperties
<1>3. b - (a + 1) + 1 = b - a /\ \A i \in 1 .. b - a : (a + 1) + i - 1 = a + i
  OBVIOUS
<1>4. QED
  BY <1>2, <1>3

LEMMA PartJoin ==
  ASSUME NEW S, NEW d \in Seq(S), NEW a \in Nat, NEW b \in a .. Len(d), NEW c \in b .. Len(d)
  PROVE  SubSeq(d, a + 1, b) \o SubSeq(d, b + 1, c) = SubSeq(d, a + 1, c)
<1>1. a + 1 \in 1 .. Len(d) + 1 /\ b \in (a + 1) - 1 .. Len(d)
  OBVIOUS
<1>2. QED
  BY <1>1, ConcatAdjacentSubSeq

\* The same from the start.
LEMMA PrefixJoin ==
  ASSUME NEW S, NEW d \in Seq(S), NEW b \in 0 .. Len(d), NEW c \in b .. Len(d)
  PROVE  SubSeq(d, 1, b) \o SubSeq(d, b + 1, c) = SubSeq(d, 1, c)
<1> DEFINE z == 0
<1>1. z \in Nat /\ b \in z .. Len(d) /\ z + 1 = 1
  OBVIOUS
<1> HIDE DEF z
<1>2. SubSeq(d, z + 1, b) \o SubSeq(d, b + 1, c) = SubSeq(d, z + 1, c)
  BY <1>1, PartJoin
<1>3. QED
  BY <1>1, <1>2

\* The same elements from a place in one sequence, and from the start of another.
LEMMA PartSame ==
  ASSUME NEW S, NEW d \in Seq(S), NEW t \in Seq(S), NEW a \in Nat, NEW b \in a .. Len(d),
         Len(t) = b - a, \A i \in 1 .. b - a : t[i] = d[a + i]
  PROVE  t = SubSeq(d, a + 1, b)
<1> DEFINE u == SubSeq(d, a + 1, b)
<1>1. u \in Seq(S) /\ Len(u) = Len(t) /\ \A i \in 1 .. Len(t) : t[i] = u[i]
  BY PartIs
<1> HIDE DEF u
<1>2. t = u
  BY <1>1, SameSequence
<1>3. QED
  BY <1>2 DEF u

\* Part of a part.
LEMMA PartOfPart ==
  ASSUME NEW S, NEW d \in Seq(S), NEW a \in Nat, NEW b \in a .. Len(d), NEW k \in 0 .. b - a, NEW l \in k .. b - a
  PROVE  SubSeq(SubSeq(d, a + 1, b), k + 1, l) = SubSeq(d, (a + k) + 1, a + l)
<1> DEFINE u == SubSeq(d, a + 1, b)
           v == SubSeq(u, k + 1, l)
<1>1. u \in Seq(S) /\ Len(u) = b - a /\ \A i \in 1 .. b - a : u[i] = d[a + i]
  BY PartIs
<1> HIDE DEF u
<1>2. k \in Nat /\ l \in k .. Len(u)
  BY <1>1
<1>3. v \in Seq(S) /\ Len(v) = l - k /\ \A i \in 1 .. l - k : v[i] = u[k + i]
  BY <1>1, <1>2, PartIs, SMTT(60)
<1> HIDE DEF v
<1>4. /\ a + k \in Nat /\ a + l \in a + k .. Len(d)
      /\ Len(v) = (a + l) - (a + k)
      /\ \A i \in 1 .. (a + l) - (a + k) : v[i] = d[(a + k) + i]
  <2>1. \A i \in 1 .. (a + l) - (a + k) : i \in 1 .. l - k /\ k + i \in 1 .. b - a /\ a + (k + i) = (a + k) + i
    BY <1>2
  <2>2. QED
    BY <1>1, <1>2, <1>3, <2>1, SMTT(60)
<1>5. v = SubSeq(d, (a + k) + 1, a + l)
  BY <1>3, <1>4, PartSame
<1>6. QED
  BY <1>5 DEF u, v
-----------------------------------------------------------------------------
(* The weak hash                                                            *)

LEMMA SumIs ==
  ASSUME NEW v \in Seq(Int)
  PROVE  \E g : Sums(g, Len(v), v) /\ SumOf(v) = g[Len(v) + 1]
<1> DEFINE n == Len(v)
           before == CHOOSE g : g = [i \in 1 .. Len(v) + 1 |-> IF i = 1 THEN 0 ELSE g[i - 1] + v[i - 1]]
<1>1. n \in Nat /\ v \in [1 .. n -> Int]
  OBVIOUS
<1>2. PICK g : Sums(g, n, v)
  <2> HIDE DEF n
  <2>1. QED
    BY <1>1, SumsExist
<1>3. ASSUME NEW f
      PROVE  Sums(f, n, v) <=> f = [i \in 1 .. Len(v) + 1 |-> IF i = 1 THEN 0 ELSE f[i - 1] + v[i - 1]]
  BY <1>1 DEF Sums
<1>4. Sums(before, n, v)
  BY <1>2, <1>3
<1>5. SumOf(v) = before[Len(v) + 1]
  BY DEF SumOf
<1>6. QED
  BY <1>4, <1>5

LEMMA SumType == ASSUME NEW v \in Seq(Int) PROVE SumOf(v) \in Int
<1>1. PICK g : Sums(g, Len(v), v) /\ SumOf(v) = g[Len(v) + 1]
  BY SumIs
<1>2. Len(v) + 1 \in 1 .. Len(v) + 1
  OBVIOUS
<1>3. QED
  BY <1>1, <1>2, SumsAre

\* Each value times the number of those from it on.
Weighted(d) == [i \in 1 .. Len(d) |-> (Len(d) - i + 1) * d[i]]

LEMMA WeightedType == ASSUME NEW d \in Seq(Nat) PROVE Weighted(d) \in Seq(Int) /\ Len(Weighted(d)) = Len(d)
<1>1. \A i \in 1 .. Len(d) : (Len(d) - i + 1) * d[i] \in Int
  OBVIOUS
<1>2. QED
  BY <1>1 DEF Weighted

Shifts(n, u, w) == \A i \in 1 .. n - 1 : w[i] = u[i + 1]
Weighs(n, U, W, w) == n # 0 /\ (\A i \in 1 .. n - 1 : W[i] = U[i + 1] + w[i]) /\ W[n] = w[n]

\* Two windows of n bytes, one a byte further than the other: the sums of what they share.
LEMMA SlideSum ==
  ASSUME NEW n, n # 0, NEW u, NEW w, NEW g, NEW h, Sums(g, n, u), Sums(h, n, w),
         Shifts(n, u, w)
  PROVE  h[n + 1] = g[n + 1] - u[1] + w[n]
<1> DEFINE T == {i \in Int : h[i] = g[i + 1] - u[1]}
<1>1. /\ n \in Nat \ {0} /\ g[1] = 0 /\ h[1] = 0 /\ u \in [1 .. n -> Int] /\ w \in [1 .. n -> Int]
      /\ \A i \in 1 .. n : g[i + 1] = g[i] + u[i] /\ h[i + 1] = h[i] + w[i]
      /\ \A i \in 1 .. n + 1 : g[i] \in Int /\ h[i] \in Int
  <2>1. /\ n \in Nat /\ u \in [1 .. n -> Int] /\ g[1] = 0 /\ \A i \in 1 .. n : g[i + 1] = g[i] + u[i]
        /\ \A i \in 1 .. n + 1 : g[i] \in Int
    BY SumsAre
  <2>2. /\ w \in [1 .. n -> Int] /\ h[1] = 0 /\ \A i \in 1 .. n : h[i + 1] = h[i] + w[i]
        /\ \A i \in 1 .. n + 1 : h[i] \in Int
    BY SumsAre
  <2>3. QED
    BY <2>1, <2>2, SMTT(60)
<1>2. 1 \in T
  <2>1. 1 \in 1 .. n /\ g[1 + 1] = g[1] + u[1] /\ u[1] \in Int
    BY <1>1
  <2>2. QED
    BY <1>1, <2>1
<1>3. ASSUME NEW i \in 1 .. n - 1, i \in T PROVE i + 1 \in T
  <2>1. i \in 1 .. n /\ i + 1 \in 1 .. n /\ 1 \in 1 .. n /\ i + 1 \in Int
    BY <1>1
  <2>2. h[i + 1] = h[i] + w[i] /\ g[(i + 1) + 1] = g[i + 1] + u[i + 1] /\ w[i] = u[i + 1] /\ h[i] = g[i + 1] - u[1]
    BY <1>1, <1>3, <2>1 DEF Shifts
  <2>3. g[i + 1] \in Int /\ u[1] \in Int /\ u[i + 1] \in Int
    BY <1>1, <2>1, SMTT(60)
  <2>4. h[i + 1] = g[(i + 1) + 1] - u[1]
    BY <2>2, <2>3
  <2>5. QED
    BY <2>1, <2>4
<1>4. n \in T
  <2> HIDE DEF T
  <2>1. n \in Int /\ n \in 1 .. n
    BY <1>1
  <2>2. 1 .. n \subseteq T
    BY <1>2, <1>3, <2>1, RangeInduction
  <2>3. QED
    BY <2>1, <2>2
<1>5. h[n + 1] = h[n] + w[n] /\ h[n] = g[n + 1] - u[1] /\ n \in 1 .. n
  BY <1>1, <1>4, SMTT(60)
<1>6. QED
  BY <1>5

SumsWeighed(n, U, W, w, G, H, h) ==
  Sums(G, n, U) /\ Sums(H, n, W) /\ Sums(h, n, w) /\ Weighs(n, U, W, w)

\* The weighted ones: every value that stays weighs once more.
LEMMA SlideWeighted ==
  ASSUME NEW n, NEW U, NEW W, NEW w, NEW G, NEW H, NEW h, SumsWeighed(n, U, W, w, G, H, h)
  PROVE  H[n + 1] = G[n + 1] - U[1] + h[n + 1]
<1> DEFINE T == {i \in Int : H[i] = G[i + 1] - U[1] + h[i]}
<1>1. /\ n \in Nat \ {0} /\ G[1] = 0 /\ H[1] = 0 /\ h[1] = 0
      /\ U \in [1 .. n -> Int] /\ W \in [1 .. n -> Int] /\ w \in [1 .. n -> Int]
      /\ \A i \in 1 .. n : G[i + 1] = G[i] + U[i] /\ H[i + 1] = H[i] + W[i] /\ h[i + 1] = h[i] + w[i]
      /\ \A i \in 1 .. n + 1 : G[i] \in Int /\ H[i] \in Int /\ h[i] \in Int
  <2>1. /\ n \in Nat /\ U \in [1 .. n -> Int] /\ G[1] = 0 /\ \A i \in 1 .. n : G[i + 1] = G[i] + U[i]
        /\ \A i \in 1 .. n + 1 : G[i] \in Int
    BY SumsAre DEF SumsWeighed
  <2>2. /\ W \in [1 .. n -> Int] /\ H[1] = 0 /\ \A i \in 1 .. n : H[i + 1] = H[i] + W[i]
        /\ \A i \in 1 .. n + 1 : H[i] \in Int
    BY SumsAre DEF SumsWeighed
  <2>3. /\ w \in [1 .. n -> Int] /\ h[1] = 0 /\ \A i \in 1 .. n : h[i + 1] = h[i] + w[i]
        /\ \A i \in 1 .. n + 1 : h[i] \in Int
    BY SumsAre DEF SumsWeighed
  <2>4. QED
    BY <2>1, <2>2, <2>3 DEF Weighs, SumsWeighed
<1>2. 1 \in T
  <2>1. 1 \in 1 .. n /\ G[1 + 1] = G[1] + U[1] /\ U[1] \in Int /\ G[1] = 0 /\ H[1] = 0 /\ h[1] = 0
    BY <1>1, SMTT(60)
  <2>2. H[1] = G[1 + 1] - U[1] + h[1]
    BY <2>1
  <2>3. QED
    BY <2>2
<1>3. ASSUME NEW i \in 1 .. n - 1, i \in T PROVE i + 1 \in T
  <2>1. i \in 1 .. n /\ i + 1 \in 1 .. n /\ 1 \in 1 .. n /\ i + 1 \in Int
    BY <1>1
  <2>2. /\ H[i + 1] = H[i] + W[i] /\ h[i + 1] = h[i] + w[i] /\ G[(i + 1) + 1] = G[i + 1] + U[i + 1]
        /\ W[i] = U[i + 1] + w[i] /\ H[i] = G[i + 1] - U[1] + h[i]
    BY <1>1, <1>3, <2>1 DEF Weighs, SumsWeighed
  <2>3. G[i + 1] \in Int /\ U[1] \in Int /\ U[i + 1] \in Int /\ h[i] \in Int /\ w[i] \in Int
    BY <1>1, <2>1, SMTT(60)
  <2>4. H[i + 1] = G[(i + 1) + 1] - U[1] + h[i + 1]
    BY <2>2, <2>3
  <2>5. QED
    BY <2>1, <2>4
<1>4. n \in T
  <2> HIDE DEF T
  <2>1. n \in Int /\ n \in 1 .. n
    BY <1>1
  <2>2. 1 .. n \subseteq T
    BY <1>2, <1>3, <2>1, RangeInduction
  <2>3. QED
    BY <2>1, <2>2
<1>5. /\ H[n + 1] = H[n] + W[n] /\ H[n] = G[n + 1] - U[1] + h[n] /\ n \in 1 .. n /\ h[n + 1] = h[n] + w[n]
      /\ H[n] \in Int /\ W[n] \in Int /\ h[n] \in Int /\ w[n] \in Int /\ G[n + 1] \in Int /\ U[1] \in Int
  BY <1>1, <1>4, SMTT(60)
<1>6. QED
  BY <1>5 DEF Weighs, SumsWeighed

\* Remainders.
LEMMA RemainderIs ==
  ASSUME NEW m \in Nat \ {0}, NEW x \in Int
  PROVE  x \div m \in Int /\ x % m \in 0 .. m - 1 /\ x = m * (x \div m) + (x % m)
OBVIOUS

LEMMA RemainderUnique ==
  ASSUME NEW m \in Nat \ {0}, NEW x \in Int, NEW k \in Int, NEW r \in 0 .. m - 1, x = m * k + r
  PROVE  x % m = r
<1> DEFINE q == x \div m
           s == x % m
<1>1. q \in Int /\ s \in 0 .. m - 1 /\ x = m * q + s
  BY RemainderIs
<1> HIDE DEF q, s
<1>2. m * (q - k) = r - s
  <2>1. m * (q - k) = m * q - m * k
    BY <1>1
  <2>2. m * q \in Int /\ m * k \in Int
    BY <1>1
  <2>3. QED
    BY <1>1, <2>1, <2>2
<1>3. r - s < m /\ s - r < m
  BY <1>1
<1>4. CASE q - k >= 1
  <2>1. m * (q - k) >= m
    BY <1>1, <1>4
  <2>2. QED
    BY <1>1, <1>2, <1>3, <2>1
<1>5. CASE q - k <= -1
  <2>1. m * (q - k) <= -m
    BY <1>1, <1>5
  <2>2. QED
    BY <1>1, <1>2, <1>3, <2>1
<1>6. CASE q - k = 0
  <2>1. m * (q - k) = 0
    BY <1>6
  <2>2. QED
    BY <1>1, <1>2, <2>1 DEF s
<1>7. QED
  BY <1>1, <1>4, <1>5, <1>6

LEMMA RemainderAbsorbs ==
  ASSUME NEW m \in Nat \ {0}, NEW a \in Int, NEW c \in Int
  PROVE  ((a % m) + c) % m = (a + c) % m
<1> DEFINE q == a \div m
           r == a % m
           p == (r + c) \div m
           s == (r + c) % m
<1>1. q \in Int /\ r \in 0 .. m - 1 /\ a = m * q + r
  BY RemainderIs
<1>2. p \in Int /\ s \in 0 .. m - 1 /\ r + c = m * p + s
  BY <1>1, RemainderIs, SMTT(60)
<1> HIDE DEF q, r, p, s
<1>3. a + c = m * (q + p) + s
  <2>1. m * (q + p) = m * q + m * p
    BY <1>1, <1>2
  <2>2. m * q \in Int /\ m * p \in Int
    BY <1>1, <1>2
  <2>3. QED
    BY <1>1, <1>2, <2>1, <2>2
<1>4. (a + c) % m = s
  <2>1. a + c \in Int /\ q + p \in Int /\ s \in 0 .. m - 1
    BY <1>1, <1>2
  <2>2. QED
    BY <1>3, <2>1, RemainderUnique
<1>5. QED
  BY <1>4 DEF r, s

\* What a hash is made of.
LEMMA HashIs ==
  ASSUME NEW d \in Seq(Nat)
  PROVE  /\ SumOf(d) \in Int /\ SumOf(Weighted(d)) \in Int
         /\ WeakHash(d) = <<SumOf(d) % Modulus, SumOf(Weighted(d)) % Modulus>>
<1>1. d \in Seq(Int) /\ Weighted(d) \in Seq(Int)
  BY WeightedType
<1>2. QED
  BY <1>1, SumType DEF WeakHash, Weighted

LEMMA SlideSums ==
  ASSUME NEW d \in Seq(Nat), NEW p \in Nat, NEW n \in Nat \ {0}, p + n + 1 <= Len(d)
  PROVE  LET u == SubSeq(d, p + 1, p + n)
             w == SubSeq(d, p + 2, p + n + 1)
         IN /\ u \in Seq(Nat) /\ w \in Seq(Nat) /\ Len(u) = n /\ Len(w) = n
            /\ SumOf(w) = SumOf(u) - d[p + 1] + d[p + n + 1]
            /\ SumOf(Weighted(w)) = SumOf(Weighted(u)) - n * d[p + 1] + SumOf(w)
<1> DEFINE u == SubSeq(d, p + 1, p + n)
           w == SubSeq(d, (p + 1) + 1, p + n + 1)
<1>1. u \in Seq(Nat) /\ Len(u) = n /\ \A i \in 1 .. n : u[i] = d[p + i]
  <2>1. p + n \in p .. Len(d) /\ (p + n) - p = n
    OBVIOUS
  <2>2. QED
    BY <2>1, PartIs
<1>2. w \in Seq(Nat) /\ Len(w) = n /\ \A i \in 1 .. n : w[i] = d[(p + 1) + i]
  <2> DEFINE from == p + 1
             to == p + n + 1
  <2>1. from \in Nat /\ to \in from .. Len(d) /\ to - from = n
    OBVIOUS
  <2> HIDE DEF from, to
  <2>2. SubSeq(d, from + 1, to) \in Seq(Nat) /\ Len(SubSeq(d, from + 1, to)) = n
        /\ \A i \in 1 .. n : SubSeq(d, from + 1, to)[i] = d[from + i]
    BY <2>1, PartIs
  <2>3. QED
    BY <2>2 DEF from, to
<1> HIDE DEF u, w
<1>3. \A i \in 1 .. n - 1 : w[i] = u[i + 1]
  <2>1. \A i \in 1 .. n - 1 : i \in 1 .. n /\ i + 1 \in 1 .. n /\ (p + 1) + i = p + (i + 1)
    OBVIOUS
  <2>2. QED
    BY <1>1, <1>2, <2>1, ZenonT(60)
<1>4. u[1] = d[p + 1] /\ w[n] = d[p + n + 1] /\ u[1] \in Nat /\ w[n] \in Nat
  <2>1. 1 \in 1 .. n /\ n \in 1 .. n /\ (p + 1) + n = p + n + 1
    OBVIOUS
  <2>2. QED
    BY <1>1, <1>2, <2>1, SMTT(60)
<1>5. PICK g : Sums(g, n, u) /\ SumOf(u) = g[n + 1]
  <2>1. u \in Seq(Int)
    BY <1>1
  <2>2. QED
    BY <1>1, <2>1, SumIs
<1>6. PICK h : Sums(h, n, w) /\ SumOf(w) = h[n + 1]
  <2>1. w \in Seq(Int)
    BY <1>2
  <2>2. QED
    BY <1>2, <2>1, SumIs
<1>7. PICK G : Sums(G, n, Weighted(u)) /\ SumOf(Weighted(u)) = G[n + 1]
  BY <1>1, WeightedType, SumIs, ZenonT(60)
<1>8. PICK H : Sums(H, n, Weighted(w)) /\ SumOf(Weighted(w)) = H[n + 1]
  BY <1>2, WeightedType, SumIs, ZenonT(60)
<1>9. SumOf(w) = SumOf(u) - u[1] + w[n]
  <2>1. n # 0 /\ Shifts(n, u, w)
    BY <1>3 DEF Shifts
  <2>2. h[n + 1] = g[n + 1] - u[1] + w[n]
    BY <1>5, <1>6, <2>1, SlideSum, ZenonT(60)
  <2>3. QED
    BY <1>5, <1>6, <2>2
<1>10. /\ \A i \in 1 .. n - 1 : Weighted(w)[i] = Weighted(u)[i + 1] + w[i]
       /\ Weighted(w)[n] = w[n] /\ Weighted(u)[1] = n * u[1]
  <2>1. ASSUME NEW i \in 1 .. n - 1 PROVE Weighted(w)[i] = Weighted(u)[i + 1] + w[i]
    <3>1. Weighted(w)[i] = (n - i + 1) * w[i] /\ Weighted(u)[i + 1] = (n - (i + 1) + 1) * u[i + 1]
      BY <1>1, <1>2, SMTT(60) DEF Weighted
    <3>2. i \in 1 .. n /\ w[i] \in Nat /\ w[i] = u[i + 1]
      <4>1. i \in 1 .. n
        OBVIOUS
      <4>2. w[i] = u[i + 1]
        BY <1>3
      <4>3. i \in 1 .. Len(w)
        BY <1>2, <4>1
      <4>4. w[i] \in Nat
        BY <1>2, <4>3, SMTT(60)
      <4>5. QED
        BY <4>1, <4>2, <4>4
    <3>3. (n - i + 1) * w[i] = (n - i) * w[i] + w[i] /\ n - (i + 1) + 1 = n - i
      <4>1. \A a, x \in Int : (a + 1) * x = a * x + x
        OBVIOUS
      <4>2. n - i \in Int /\ w[i] \in Int /\ n - (i + 1) + 1 = n - i
        BY <3>2
      <4>3. QED
        BY <4>1, <4>2
    <3>4. QED
      BY <3>1, <3>2, <3>3
  <2>2. Weighted(w)[n] = (n - n + 1) * w[n] /\ Weighted(u)[1] = (n - 1 + 1) * u[1]
    BY <1>1, <1>2 DEF Weighted
  <2>3. QED
    BY <1>4, <2>1, <2>2, SMTT(60)
<1>11. H[n + 1] = G[n + 1] - Weighted(u)[1] + h[n + 1]
  <2> DEFINE A == Weighted(u)
             B == Weighted(w)
  <2>1. SumsWeighed(n, A, B, w, G, H, h)
    BY <1>6, <1>7, <1>8, <1>10 DEF Weighs, SumsWeighed
  <2> HIDE DEF A, B
  <2>2. H[n + 1] = G[n + 1] - A[1] + h[n + 1]
    BY <2>1, SlideWeighted
  <2>3. QED
    BY <2>2 DEF A
<1>12. SumOf(Weighted(w)) = SumOf(Weighted(u)) - n * d[p + 1] + SumOf(w)
  BY <1>4, <1>6, <1>7, <1>8, <1>10, <1>11
<1>13. (p + 1) + 1 = p + 2
  OBVIOUS
<1>14. QED
  BY <1>1, <1>2, <1>4, <1>9, <1>12, <1>13 DEF u, w

\* The hash of the next window, from that of this one: a byte leaves and one enters.
LEMMA HashSlides ==
  ASSUME NEW d \in Seq(Nat), NEW p \in Nat, p + BlockSize + 1 <= Len(d), NEW h,
         h = WeakHash(SubSeq(d, p + 1, p + BlockSize))
  PROVE  LET b == (h[1] - d[p + 1] + d[p + BlockSize + 1]) % Modulus
         IN WeakHash(SubSeq(d, p + 2, p + BlockSize + 1)) = <<b, (h[2] - BlockSize * d[p + 1] + b) % Modulus>>
<1> DEFINE u == SubSeq(d, p + 1, p + BlockSize)
           w == SubSeq(d, p + 2, p + BlockSize + 1)
           out == d[p + 1]
           in == d[p + BlockSize + 1]
           a == SumOf(u)
           A == SumOf(Weighted(u))
           c == SumOf(w)
           C == SumOf(Weighted(w))
           less == BlockSize * out
           m == Modulus
<1>1. BlockSize \in Nat \ {0} /\ m \in Nat \ {0}
  BY RsyncAssumption
<1>2. /\ u \in Seq(Nat) /\ w \in Seq(Nat)
      /\ c = a - out + in
      /\ C = A - less + c
  BY <1>1, SlideSums, SMTT(60)
<1>3. /\ a \in Int /\ A \in Int /\ c \in Int /\ C \in Int
      /\ WeakHash(u) = <<a % m, A % m>>
      /\ WeakHash(w) = <<c % m, C % m>>
  BY <1>2, HashIs
<1>4. out \in Nat /\ in \in Nat /\ less \in Nat
  <2>1. p + 1 \in 1 .. Len(d) /\ p + BlockSize + 1 \in 1 .. Len(d)
    BY <1>1
  <2>2. out \in Nat /\ in \in Nat
    BY <2>1, SMTT(60)
  <2>3. QED
    BY <1>1, <2>2, SMTT(60)
<1> DEFINE b == (h[1] - out + in) % m
<1>5. h = WeakHash(u)
  OBVIOUS
<1>6. h[1] = a % m /\ h[2] = A % m
  BY <1>3, <1>5
<1> HIDE DEF u, w, out, in, a, A, c, C, less, m
<1>7. b = c % m
  <2>1. ((a % m) + (in - out)) % m = (a + (in - out)) % m
    <3>1. in - out \in Int
      BY <1>4
    <3>2. QED
      BY <1>1, <1>3, <3>1, RemainderAbsorbs
  <2>2. a % m \in Int
    BY <1>1, <1>3, RemainderIs
  <2>3. (a % m) - out + in = (a % m) + (in - out) /\ a + (in - out) = c
    BY <1>2, <1>3, <1>4, <2>2, SMTT(60)
  <2>4. b = ((a % m) - out + in) % m
    BY <1>6
  <2>5. QED
    BY <2>1, <2>3, <2>4
<1>8. (h[2] - less + b) % m = C % m
  <2>1. ((A % m) + (b - less)) % m = (A + (b - less)) % m
    <3>1. b \in Int
      BY <1>1, <1>3, <1>7, RemainderIs
    <3>2. b - less \in Int
      BY <1>4, <3>1
    <3>3. QED
      BY <1>1, <1>3, <3>2, RemainderAbsorbs
  <2>2. ((c % m) + (A - less)) % m = (c + (A - less)) % m
    <3>1. A - less \in Int
      BY <1>3, <1>4
    <3>2. QED
      BY <1>1, <1>3, <3>1, RemainderAbsorbs
  <2>3. A % m \in Int /\ c % m \in Int
    BY <1>1, <1>3, RemainderIs
  <2>4. /\ (A % m) - less + b = (A % m) + (b - less)
        /\ A + (b - less) = (c % m) + (A - less)
        /\ c + (A - less) = C
    BY <1>2, <1>3, <1>4, <1>7, <2>3, SMTT(60)
  <2>5. (h[2] - less + b) % m = ((A % m) + (b - less)) % m
    BY <1>6, <2>4
  <2>6. QED
    BY <2>1, <2>2, <2>4, <2>5
<1>9. WeakHash(w) = <<b, (h[2] - less + b) % m>>
  BY <1>3, <1>7, <1>8
<1>10. QED
  BY <1>9 DEF w, out, in, less, m
-----------------------------------------------------------------------------
(* Blocks and operations                                                    *)

LEMMA BlockSizeIs == BlockSize \in Nat \ {0} /\ MaxDataOp \in Nat \ {0} /\ Modulus \in Nat \ {0}
BY RsyncAssumption

\* A block that a file has starts in it, but for the empty one of an empty file.
LEMMA BlockStarts ==
  ASSUME NEW l \in Nat \ {0}, NEW b \in Nat
  PROVE  b < NumBlocks(l) <=> b * BlockSize < l
<1>1. BlockSize \in Nat \ {0}
  BY BlockSizeIs
<1>2. b < (l + BlockSize - 1) \div BlockSize <=> b * BlockSize < l
  BY <1>1, BlockArithmetic
<1>3. QED
  BY <1>2 DEF NumBlocks

LEMMA NumBlocksType == ASSUME NEW l \in Nat PROVE NumBlocks(l) \in Nat
<1>1. BlockSize \in Nat \ {0}
  BY BlockSizeIs
<1>2. (l + BlockSize - 1) \div BlockSize \in Nat
  BY <1>1, BlockArithmetic
<1>3. QED
  BY <1>2 DEF NumBlocks

\* Where a range ends in its file.
EndOf(o, r) == Least((r.block + r.span) * BlockSize, Len(o[r.file]))

LEMMA RangeIs ==
  ASSUME NEW o \in Seq(Seq(Nat)), NEW r \in BlockRanges(o)
  PROVE  /\ o[r.file] \in Seq(Nat) /\ r.block \in Nat /\ r.span \in Nat \ {0} /\ r.type = "range"
         /\ r.block * BlockSize \in Nat /\ EndOf(o, r) \in r.block * BlockSize .. Len(o[r.file])
         /\ (r.block + r.span - 1) * BlockSize < Len(o[r.file])
         /\ Content(o, r) = SubSeq(o[r.file], r.block * BlockSize + 1, EndOf(o, r))
         /\ Content(o, r) \in Seq(Nat)
<1> DEFINE d == o[r.file]
           b == r.block
           k == r.span
           e == b + k
           s == BlockSize
<1>1. /\ d \in Seq(Nat) /\ b \in Nat /\ k \in Nat \ {0} /\ r.type = "range"
      /\ Len(d) \in Nat \ {0} /\ e <= NumBlocks(Len(d)) /\ s \in Nat \ {0}
  BY BlockSizeIs DEF BlockRanges
<1>2. Content(o, r) = SubSeq(d, b * s + 1, EndOf(o, r)) /\ EndOf(o, r) = Least(e * s, Len(d))
  BY <1>1 DEF Content, EndOf
<1> HIDE DEF d, b, k, s
<1>3. e - 1 \in Nat /\ e - 1 < NumBlocks(Len(d))
  BY <1>1, NumBlocksType
<1>4. (e - 1) * s < Len(d)
  BY <1>1, <1>3, BlockStarts DEF s
<1>5. b * s \in Nat /\ e * s \in Nat /\ b * s <= e * s /\ b * s <= (e - 1) * s /\ (e - 1) * s \in Nat
  <2>1. b * s \in Nat /\ k * s \in Nat /\ (k - 1) * s \in Nat
    BY <1>1
  <2>2. e * s = b * s + k * s /\ (e - 1) * s = b * s + (k - 1) * s
    BY <1>1
  <2>3. QED
    BY <2>1, <2>2
<1>6. EndOf(o, r) \in b * s .. Len(d)
  BY <1>1, <1>2, <1>4, <1>5, SMTT(60) DEF Least
<1>7. Content(o, r) \in Seq(Nat)
  <2> DEFINE from == b * s
             to == EndOf(o, r)
  <2>1. from \in Nat /\ to \in from .. Len(d)
    BY <1>5, <1>6
  <2> HIDE DEF from, to
  <2>2. SubSeq(d, from + 1, to) \in Seq(Nat)
    BY <1>1, <2>1, PartIs
  <2>3. QED
    BY <1>2, <2>2 DEF from, to
<1>8. d \in Seq(Nat) /\ b \in Nat /\ k \in Nat \ {0} /\ r.type = "range" /\ b * s \in Nat /\ EndOf(o, r) \in b * s .. Len(d)
  BY <1>1, <1>5, <1>6
<1>9. (b + k - 1) * s < Len(d)
  <2>1. b + k - 1 = e - 1
    BY <1>1
  <2> HIDE DEF e
  <2>2. QED
    BY <1>4, <2>1
<1>10. QED
  BY <1>2, <1>7, <1>8, <1>9 DEF d, b, k, s

\* What ApplySingleFull copies for a range: its last block may be short.
LEMMA BytesAre ==
  ASSUME old \in Seq(Seq(Nat)), NEW op \in Ops(old)
  PROVE  Bytes(op) = Content(old, op)
<1>1. CASE op.type = "data"
  BY <1>1 DEF Bytes, Content
<1>2. CASE op.type # "data"
  <2>1. op \in BlockRanges(old)
    BY <1>2 DEF Ops, DataOps
  <2> DEFINE d == old[op.file]
             b == op.block
             k == op.span
             s == BlockSize
             l == Len(d)
             last == b + k - 1
             tail == IF s * (last + 1) > l THEN l % s ELSE s
             size == s * (k - 1) + tail
  <2>2. Bytes(op) = SubSeq(d, b * s + 1, Least(b * s + size, l))
    BY <1>2 DEF Bytes
  <2>3. Content(old, op) = SubSeq(d, b * s + 1, Least((b + k) * s, l))
    BY <1>2 DEF Content
  <2>4. /\ d \in Seq(Nat) /\ l \in Nat /\ b \in Nat /\ k \in Nat \ {0} /\ s \in Nat \ {0}
        /\ (b + k - 1) * s < l
    BY <2>1, RangeIs, BlockSizeIs
  <2> HIDE DEF d, b, k, s, l
  <2>5. last \in Nat /\ last * s \in Nat /\ last * s < l /\ b * s + s * (k - 1) = last * s /\ (b + k) * s = last * s + s
        /\ s * (last + 1) = last * s + s /\ s * (k - 1) \in Nat /\ b * s \in Nat
    <3>1. last \in Nat /\ k - 1 \in Nat
      BY <2>4
    <3>2. last * s \in Nat /\ s * (k - 1) \in Nat /\ b * s \in Nat
      BY <2>4, <3>1
    <3>3. \A x, y, z \in Int : (x + y) * z = x * z + z * y /\ z * (x + 1) = x * z + z
      OBVIOUS
    <3>4. last = b + (k - 1) /\ b + k = last + 1 /\ b \in Int /\ k - 1 \in Int /\ s \in Int /\ last \in Int
      BY <2>4, <3>1
    <3>5. last * s = b * s + s * (k - 1) /\ s * (last + 1) = last * s + s
      BY <3>3, <3>4
    <3>6. (b + k) * s = last * s + s
      BY <3>3, <3>4
    <3>7. QED
      BY <2>4, <3>1, <3>2, <3>5, <3>6
  <2>6. CASE s * (last + 1) > l
    <3>1. tail = l % s
      BY <2>6
    <3> DEFINE full == s * (k - 1)
               start == b * s
    <3> HIDE DEF tail, last, full, start
    <3>2. last * s + (l % s) = l /\ l % s \in 0 .. s - 1
      <4>1. last * s <= l /\ last * s + s > l
        BY <2>4, <2>5, <2>6
      <4>2. l \in Nat /\ last \in Nat /\ s \in Nat \ {0}
        BY <2>4, <2>5
      <4>3. l % s \in 0 .. s - 1 /\ (last * s <= l /\ last * s + s > l => last * s + (l % s) = l)
        BY <4>2, BlockArithmetic
      <4>4. QED
        BY <4>1, <4>3
    <3>3. /\ start \in Nat /\ full \in Nat /\ start + full = last * s /\ last * s \in Nat
          /\ tail \in Nat /\ last * s + tail = l
      BY <2>4, <2>5, <3>1, <3>2 DEF full, start
    <3>4. start + (full + tail) = l
      BY <3>3
    <3>5. b * s + size = l
      BY <3>4 DEF start, full
    <3>6. (b + k) * s >= l /\ (b + k) * s \in Nat
      <4> DEFINE x == last * s
                 y == (b + k) * s
                 z == s * (last + 1)
      <4>1. x \in Nat /\ y = x + s /\ z = x + s /\ z > l /\ s \in Nat /\ l \in Nat
        BY <2>4, <2>5, <2>6
      <4> HIDE DEF x, y, z
      <4>2. y >= l /\ y \in Nat
        BY <4>1
      <4>3. QED
        BY <4>2 DEF y
    <3>7. Least(b * s + size, l) = l /\ Least((b + k) * s, l) = l
      BY <2>4, <3>5, <3>6 DEF Least
    <3>8. QED
      BY <2>2, <2>3, <3>7
  <2>7. CASE ~(s * (last + 1) > l)
    <3>1. tail = s
      BY <2>7
    <3> HIDE DEF tail, last
    <3>2. b * s + size = (b + k) * s
      BY <2>4, <2>5, <3>1
    <3>3. QED
      BY <2>2, <2>3, <3>2
  <2>8. QED
    BY <2>6, <2>7
<1>3. QED
  BY <1>1, <1>2

LEMMA ContentType ==
  ASSUME NEW o \in Seq(Seq(Nat)), NEW op \in Ops(o)
  PROVE  Content(o, op) \in Seq(Nat)
<1>1. CASE op \in BlockRanges(o)
  BY <1>1, RangeIs
<1>2. CASE op \in DataOps
  BY <1>2 DEF DataOps, Content
<1>3. QED
  BY <1>1, <1>2 DEF Ops

LEMMA ContentsType ==
  ASSUME NEW o \in Seq(Seq(Nat)), NEW ops \in Seq(Ops(o))
  PROVE  /\ [i \in DOMAIN ops |-> Content(o, ops[i])] \in Seq(Seq(Nat))
         /\ Contents(o, ops) \in Seq(Nat)
<1>1. \A i \in 1 .. Len(ops) : Content(o, ops[i]) \in Seq(Nat)
  BY ContentType
<1>2. [i \in DOMAIN ops |-> Content(o, ops[i])] \in Seq(Seq(Nat))
  <2>1. DOMAIN ops = 1 .. Len(ops) /\ Len(ops) \in Nat
    OBVIOUS
  <2> DEFINE f(i) == Content(o, ops[i])
  <2>2. \A i \in 1 .. Len(ops) : f(i) \in Seq(Nat)
    BY <1>1
  <2> HIDE DEF f
  <2>3. [i \in 1 .. Len(ops) |-> f(i)] \in Seq(Seq(Nat))
    BY <2>1, <2>2
  <2>4. QED
    BY <2>1, <2>3 DEF f
<1>3. QED
  BY <1>2, FlattenType DEF Contents

LEMMA ContentsAppend ==
  ASSUME NEW o \in Seq(Seq(Nat)), NEW ops \in Seq(Ops(o)), NEW op \in Ops(o)
  PROVE  Contents(o, Append(ops, op)) = Contents(o, ops) \o Content(o, op)
<1> DEFINE n == Len(ops)
           more == Append(ops, op)
           s == [i \in DOMAIN more |-> Content(o, more[i])]
           t == [i \in DOMAIN ops |-> Content(o, ops[i])]
<1>1. /\ more \in Seq(Ops(o)) /\ Len(more) = n + 1 /\ n \in Nat
      /\ DOMAIN more = 1 .. n + 1 /\ DOMAIN ops = 1 .. n
      /\ more[n + 1] = op /\ \A i \in 1 .. n : more[i] = ops[i]
  OBVIOUS
<1> HIDE DEF more
<1>2. s \in Seq(Seq(Nat)) /\ t \in Seq(Seq(Nat))
  BY <1>1, ContentsType
<1>3. Len(s) = n + 1 /\ Len(t) = n
  <2>1. DOMAIN s = 1 .. n + 1 /\ DOMAIN t = 1 .. n
    BY <1>1
  <2>2. QED
    BY <1>1, <1>2, <2>1
<1>4. s[n + 1] = Content(o, op) /\ \A i \in 1 .. n : s[i] = t[i]
  <2>1. n + 1 \in DOMAIN more /\ \A i \in 1 .. n : i \in DOMAIN more /\ i \in DOMAIN ops
    BY <1>1
  <2>2. QED
    BY <1>1, <2>1
<1>5. Contents(o, more) = FlattenSeq(s) /\ Contents(o, ops) = FlattenSeq(t)
  BY DEF Contents
<1> HIDE DEF s, t, n
<1>6. FlattenSeq(s) = FlattenSeq(t) \o s[n + 1]
  BY <1>1, <1>2, <1>3, <1>4, FlattenStep, ZenonT(60)
<1>7. QED
  BY <1>4, <1>5, <1>6 DEF more

LEMMA ContentsNone == ASSUME NEW o PROVE Contents(o, << >>) = << >>
<1>1. [i \in DOMAIN << >> |-> Content(o, << >>[i])] \in [1 .. 0 -> {}]
  OBVIOUS
<1>2. QED
  BY <1>1, FlattenEmpty DEF Contents
-----------------------------------------------------------------------------
(* Sending operations                                                       *)

LEMMA SendingIs ==
  ASSUME NEW o, NEW q \in Sendings(o)
  PROVE  /\ q = [prev |-> q.prev, ops |-> q.ops]
         /\ q.prev \in {NoOp} \cup BlockRanges(o) /\ q.ops \in Seq(Ops(o))
         /\ q.prev # NoOp => q.prev \in BlockRanges(o)
BY DEF Sendings

LEMMA MadeType ==
  ASSUME NEW o \in Seq(Seq(Nat)), NEW q \in Sendings(o)
  PROVE  /\ Contents(o, q.ops) \in Seq(Nat) /\ Made(o, q) \in Seq(Nat)
         /\ q.prev # NoOp => Content(o, q.prev) \in Seq(Nat)
<1>1. q.ops \in Seq(Ops(o)) /\ (q.prev # NoOp => q.prev \in BlockRanges(o))
  BY SendingIs
<1>2. Contents(o, q.ops) \in Seq(Nat)
  BY <1>1, ContentsType
<1>3. q.prev # NoOp => Content(o, q.prev) \in Seq(Nat)
  BY <1>1, RangeIs
<1>4. CASE q.prev = NoOp
  <2>1. Made(o, q) = Contents(o, q.ops) \o << >>
    BY <1>4 DEF Made
  <2>2. QED
    BY <1>2, <1>3, <2>1
<1>5. CASE q.prev # NoOp
  <2>1. Made(o, q) = Contents(o, q.ops) \o Content(o, q.prev)
    BY <1>5 DEF Made
  <2>2. QED
    BY <1>2, <1>3, <1>5, <2>1, ConcatFacts
<1>6. QED
  BY <1>4, <1>5

LEMMA MadeIs ==
  ASSUME NEW o \in Seq(Seq(Nat)), NEW q \in Sendings(o)
  PROVE  Made(o, q) = IF q.prev = NoOp THEN Contents(o, q.ops)
                      ELSE Contents(o, q.ops) \o Content(o, q.prev)
<1>1. Contents(o, q.ops) \in Seq(Nat)
  BY MadeType
<1>2. Contents(o, q.ops) \o << >> = Contents(o, q.ops)
  BY <1>1
<1>3. QED
  BY <1>2 DEF Made

LEMMA SendIs ==
  ASSUME NEW o \in Seq(Seq(Nat)), NEW q \in Sendings(o), NEW op \in Ops(o)
  PROVE  /\ Send(q, op) \in Sendings(o) /\ Send(q, op).prev = q.prev
         /\ Send(q, op).ops = IF q.ops # << >> /\ op.type = "data" /\ op.data = << >> THEN q.ops
                              ELSE Append(q.ops, op)
         /\ Contents(o, Send(q, op).ops) = Contents(o, q.ops) \o Content(o, op)
<1>1. q.ops \in Seq(Ops(o)) /\ q = [prev |-> q.prev, ops |-> q.ops] /\ q.prev \in {NoOp} \cup BlockRanges(o)
  BY SendingIs
<1>2. CASE q.ops # << >> /\ op.type = "data" /\ op.data = << >>
  <2>1. Send(q, op) = q
    BY <1>2 DEF Send
  <2>2. Content(o, op) = << >>
    BY <1>2 DEF Content
  <2>3. Contents(o, q.ops) \in Seq(Nat)
    BY <1>1, ContentsType
  <2>4. QED
    BY <1>2, <2>1, <2>2, <2>3
<1>3. CASE ~(q.ops # << >> /\ op.type = "data" /\ op.data = << >>)
  <2>1. Send(q, op) = [q EXCEPT !.ops = Append(@, op)]
    BY <1>3, Zenon DEF Send
  <2>2. Send(q, op) = [prev |-> q.prev, ops |-> Append(q.ops, op)]
    BY <1>1, <2>1
  <2>3. Append(q.ops, op) \in Seq(Ops(o))
    BY <1>1
  <2>4. Send(q, op).prev = q.prev /\ Send(q, op).ops = Append(q.ops, op) /\ Send(q, op) \in Sendings(o)
    BY <1>1, <2>2, <2>3 DEF Sendings
  <2>5. QED
    BY <1>1, <1>3, <2>4, ContentsAppend
<1>4. QED
  BY <1>2, <1>3

\* The range that was kept is sent.
LEMMA SendPrevIs ==
  ASSUME NEW o \in Seq(Seq(Nat)), NEW q \in Sendings(o)
  PROVE  /\ SendPrev(q) \in Sendings(o) /\ SendPrev(q).prev = NoOp
         /\ SendPrev(q).ops = IF q.prev = NoOp THEN q.ops ELSE Append(q.ops, q.prev)
         /\ Contents(o, SendPrev(q).ops) = Made(o, q)
         /\ Made(o, SendPrev(q)) = Made(o, q)
         /\ AllFull(q.ops) => AllFull(SendPrev(q).ops)
<1>1. CASE q.prev = NoOp
  <2>1. SendPrev(q) = q
    BY <1>1 DEF SendPrev
  <2>2. QED
    BY <1>1, <2>1, MadeIs
<1>2. CASE q.prev # NoOp
  <2>1. q.prev \in BlockRanges(o) /\ q.prev.type = "range" /\ q.prev \in Ops(o)
    BY <1>2, SendingIs, RangeIs DEF Ops
  <2> DEFINE t == Send(q, q.prev)
  <2>2. /\ t \in Sendings(o) /\ t.ops = Append(q.ops, q.prev)
        /\ Contents(o, t.ops) = Contents(o, q.ops) \o Content(o, q.prev)
    BY <2>1, SendIs
  <2>3. SendPrev(q) = [t EXCEPT !.prev = NoOp]
    BY <1>2 DEF SendPrev
  <2> HIDE DEF t
  <2>4. SendPrev(q) = [prev |-> NoOp, ops |-> t.ops] /\ t.ops \in Seq(Ops(o))
    BY <2>2, <2>3, SendingIs
  <2>5. SendPrev(q) \in Sendings(o) /\ SendPrev(q).prev = NoOp /\ SendPrev(q).ops = Append(q.ops, q.prev)
    BY <2>2, <2>4 DEF Sendings
  <2>6. Contents(o, SendPrev(q).ops) = Made(o, q)
    <3>1. SendPrev(q).ops = t.ops
      BY <2>4
    <3>2. Made(o, q) = Contents(o, q.ops) \o Content(o, q.prev)
      BY <1>2, MadeIs
    <3>3. QED
      BY <2>2, <3>1, <3>2
  <2>7. AllFull(q.ops) => AllFull(SendPrev(q).ops)
    <3>1. q.ops \in Seq(Ops(o))
      BY SendingIs
    <3>2. DOMAIN Append(q.ops, q.prev) = 1 .. Len(q.ops) + 1 /\ DOMAIN q.ops = 1 .. Len(q.ops) /\ Len(q.ops) \in Nat
      BY <3>1
    <3>3. \A i \in 1 .. Len(q.ops) : Append(q.ops, q.prev)[i] = q.ops[i]
      BY <3>1
    <3>4. Append(q.ops, q.prev)[Len(q.ops) + 1] = q.prev
      BY <3>1
    <3>5. QED
      BY <2>1, <2>5, <3>2, <3>3, <3>4 DEF AllFull
  <2>8. QED
    BY <1>2, <2>5, <2>6, <2>7, MadeIs
<1>3. QED
  BY <1>1, <1>2

LEMMA EnqueueDataIs ==
  ASSUME NEW o \in Seq(Seq(Nat)), NEW q \in Sendings(o), NEW d \in Seq(Nat)
  PROVE  /\ EnqueueData(q, d) \in Sendings(o) /\ EnqueueData(q, d).prev = NoOp
         /\ Made(o, EnqueueData(q, d)) = Made(o, q) \o d
         /\ AllFull(q.ops) /\ d # << >> /\ Len(d) <= MaxDataOp => AllFull(EnqueueData(q, d).ops)
<1> DEFINE t == SendPrev(q)
           op == DataOp(d)
           u == EnqueueData(q, d)
<1>1. /\ t \in Sendings(o) /\ t.prev = NoOp /\ Contents(o, t.ops) = Made(o, q)
      /\ AllFull(q.ops) => AllFull(t.ops)
  BY SendPrevIs
<1>2. op \in Ops(o) /\ Content(o, op) = d /\ op.type = "data" /\ op.data = d
  BY DEF Ops, DataOps, DataOp, Content
<1>3. u = Send(t, op)
  BY DEF EnqueueData
<1> HIDE DEF t, op, u
<1>4. /\ u \in Sendings(o) /\ u.prev = NoOp /\ Contents(o, u.ops) = Contents(o, t.ops) \o d
      /\ u.ops = IF t.ops # << >> /\ d = << >> THEN t.ops ELSE Append(t.ops, op)
  BY <1>1, <1>2, <1>3, SendIs, ZenonT(60)
<1>5. Made(o, u) = Made(o, q) \o d
  BY <1>1, <1>4, MadeIs
<1>6. ASSUME AllFull(q.ops), d # << >>, Len(d) <= MaxDataOp PROVE AllFull(u.ops)
  <2>1. u.ops = Append(t.ops, op) /\ AllFull(t.ops) /\ t.ops \in Seq(Ops(o))
    BY <1>1, <1>4, <1>6, SendingIs
  <2>2. DOMAIN u.ops = 1 .. Len(t.ops) + 1 /\ DOMAIN t.ops = 1 .. Len(t.ops) /\ Len(t.ops) \in Nat
    BY <2>1
  <2>3. (\A i \in 1 .. Len(t.ops) : u.ops[i] = t.ops[i]) /\ u.ops[Len(t.ops) + 1] = op
    BY <2>1
  <2>4. QED
    BY <1>2, <1>6, <2>1, <2>2, <2>3 DEF AllFull
<1>7. QED
  BY <1>4, <1>5, <1>6 DEF u

\* The last data of a file, with what is left of two blocks.
LEMMA EnqueueLastIs ==
  ASSUME NEW o \in Seq(Seq(Nat)), NEW q \in Sendings(o), NEW d \in Seq(Nat), NEW c,
         AllFull(q.ops), Len(d) <= MaxDataOp + (2 * BlockSize - 1),
         d = << >> /\ Made(o, q) = << >> => c = << >>
  PROVE  Bounded(EnqueueData(q, d).ops, c)
<1> DEFINE t == SendPrev(q)
           op == DataOp(d)
           u == EnqueueData(q, d)
<1>1. t \in Sendings(o) /\ Contents(o, t.ops) = Made(o, q) /\ AllFull(t.ops)
  BY SendPrevIs
<1>2. op \in Ops(o) /\ op.type = "data" /\ op.data = d
  BY DEF Ops, DataOps, DataOp
<1>3. u = Send(t, op)
  BY DEF EnqueueData
<1> HIDE DEF t, op, u
<1>4. /\ t.ops \in Seq(Ops(o))
      /\ u.ops = IF t.ops # << >> /\ d = << >> THEN t.ops ELSE Append(t.ops, op)
  BY <1>1, <1>2, <1>3, SendIs, SendingIs
<1>5. DOMAIN t.ops = 1 .. Len(t.ops) /\ Len(t.ops) \in Nat /\ BlockSize \in Nat \ {0} /\ MaxDataOp \in Nat
  BY <1>4, BlockSizeIs
<1>6. \A i \in 1 .. Len(t.ops) : t.ops[i].type = "data" => Len(t.ops[i].data) \in Nat
  <2>1. \A i \in 1 .. Len(t.ops) : t.ops[i] \in Ops(o)
    BY <1>4
  <2>2. QED
    BY <2>1, SMTT(60) DEF Ops, DataOps, BlockRanges
<1>7. CASE u.ops = t.ops
  <2>1. \A i \in DOMAIN u.ops : u.ops[i].type = "data" => Len(u.ops[i].data) <= MaxDataOp /\ u.ops[i].data # << >>
    BY <1>1, <1>7 DEF AllFull
  <2>2. QED
    BY <1>5, <1>6, <1>7, <2>1, SMTT(60) DEF Bounded, u
<1>8. CASE u.ops = Append(t.ops, op) /\ ~(t.ops # << >> /\ d = << >>)
  <2>1. /\ DOMAIN u.ops = 1 .. Len(t.ops) + 1 /\ Len(u.ops) = Len(t.ops) + 1
        /\ \A i \in 1 .. Len(t.ops) : u.ops[i] = t.ops[i]
        /\ u.ops[Len(t.ops) + 1] = op
    BY <1>4, <1>8, SMTT(60)
  <2>2. ASSUME d = << >> PROVE c = << >>
    <3>1. Made(o, q) = << >>
      BY <1>1, <1>8, <2>2, ContentsNone
    <3>2. QED
      BY <2>2, <3>1
  <2>3. ASSUME NEW i \in DOMAIN u.ops, u.ops[i].type = "data"
        PROVE  /\ Len(u.ops[i].data) <= MaxDataOp + (IF i = Len(u.ops) THEN 2 * BlockSize - 1 ELSE 0)
               /\ u.ops[i].data = << >> => c = << >>
    <3>1. CASE i = Len(t.ops) + 1
      BY <1>2, <1>5, <2>1, <2>2, <3>1
    <3>2. CASE i \in 1 .. Len(t.ops)
      <4>1. t.ops[i].type = "data" /\ u.ops[i] = t.ops[i] /\ i # Len(u.ops)
        BY <1>5, <2>1, <2>3, <3>2, SMTT(60)
      <4>2. Len(t.ops[i].data) <= MaxDataOp /\ t.ops[i].data # << >> /\ Len(t.ops[i].data) \in Nat
        BY <1>1, <1>5, <1>6, <3>2, <4>1 DEF AllFull
      <4>3. QED
        BY <1>5, <4>1, <4>2
    <3>3. QED
      BY <1>5, <2>1, <3>1, <3>2, SMTT(60)
  <2>4. QED
    BY <2>3 DEF Bounded, u
<1>9. QED
  BY <1>4, <1>7, <1>8 DEF u

\* A range that follows another: the last block of that one is a full one.
LEMMA ExtendedRange ==
  ASSUME NEW o \in Seq(Seq(Nat)), NEW p \in BlockRanges(o), NEW r \in BlockRanges(o),
         r.span = 1, Adjoins(p, r)
  PROVE  LET t == [p EXCEPT !.span = @ + 1]
         IN t \in BlockRanges(o) /\ Content(o, t) = Content(o, p) \o Content(o, r)
<1> DEFINE t == [p EXCEPT !.span = @ + 1]
           d == o[p.file]
           a == p.block * BlockSize
           e == p.block + p.span
           b == e * BlockSize
           c == Least((e + 1) * BlockSize, Len(d))
<1>1. /\ d \in Seq(Nat) /\ p.block \in Nat /\ p.span \in Nat \ {0} /\ a \in Nat
      /\ EndOf(o, p) \in a .. Len(d)
      /\ Content(o, p) = SubSeq(d, a + 1, EndOf(o, p))
  BY RangeIs
<1>2. r.file = p.file /\ r.block = e
  BY DEF Adjoins
<1>3. /\ b \in Nat /\ (r.block + r.span - 1) * BlockSize < Len(d)
      /\ EndOf(o, r) \in b .. Len(d)
      /\ Content(o, r) = SubSeq(d, b + 1, EndOf(o, r))
  BY <1>2, RangeIs
<1>4. r.block + r.span - 1 = e
  BY <1>1, <1>2
<1>5. b < Len(d)
  BY <1>3, <1>4
<1>6. EndOf(o, p) = b
  BY <1>5 DEF EndOf, Least
<1>7. EndOf(o, r) = c
  BY <1>2 DEF EndOf
<1>8. t \in BlockRanges(o) /\ t.file = p.file /\ t.block = p.block /\ t.span = p.span + 1 /\ t.type = "range"
  <2>1. p \in [type : {"range"}, file : DOMAIN o, block : Nat, span : Nat \ {0}] /\ Len(d) > 0
    BY DEF BlockRanges
  <2>2. t = [type |-> p.type, file |-> p.file, block |-> p.block, span |-> p.span + 1]
    <3>1. p = [type |-> p.type, file |-> p.file, block |-> p.block, span |-> p.span]
      BY <2>1
    <3>2. [[type |-> p.type, file |-> p.file, block |-> p.block, span |-> p.span] EXCEPT !.span = p.span + 1]
            = [type |-> p.type, file |-> p.file, block |-> p.block, span |-> p.span + 1]
      OBVIOUS
    <3>3. QED
      BY <3>1, <3>2
  <2>3. p.block + (p.span + 1) = r.block + r.span
    BY <1>1, <1>2, SMTT(60)
  <2>4. r.block + r.span <= NumBlocks(Len(o[p.file]))
    BY <1>2 DEF BlockRanges
  <2>5. t \in [type : {"range"}, file : DOMAIN o, block : Nat, span : Nat \ {0}]
    BY <2>1, <2>2, SMTT(60)
  <2>6. t.file = p.file /\ t.block + t.span <= NumBlocks(Len(o[t.file])) /\ Len(o[t.file]) > 0
    BY <2>1, <2>2, <2>3, <2>4, SMTT(60)
  <2>7. t \in BlockRanges(o)
    BY <2>5, <2>6 DEF BlockRanges
  <2>8. QED
    BY <2>1, <2>2, <2>7
<1>9. p.block + (p.span + 1) = e + 1
  BY <1>1, SMTT(60)
<1>10. Content(o, t) = SubSeq(d, a + 1, EndOf(o, t)) /\ EndOf(o, t) = c
  BY <1>8, <1>9, RangeIs DEF EndOf
<1> HIDE DEF t, d, a, b, c, e
<1>11. SubSeq(d, a + 1, b) \o SubSeq(d, b + 1, c) = SubSeq(d, a + 1, c)
  BY <1>1, <1>3, <1>6, <1>7, PartJoin, ZenonT(60)
<1>12. QED
  BY <1>1, <1>3, <1>6, <1>7, <1>8, <1>10, <1>11 DEF t

LEMMA EnqueueRangeIs ==
  ASSUME NEW o \in Seq(Seq(Nat)), NEW q \in Sendings(o), NEW r \in BlockRanges(o), r.span = 1
  PROVE  /\ EnqueueRange(q, r) \in Sendings(o) /\ EnqueueRange(q, r).prev # NoOp
         /\ Made(o, EnqueueRange(q, r)) = Made(o, q) \o Content(o, r)
         /\ AllFull(q.ops) => AllFull(EnqueueRange(q, r).ops)
<1>1. /\ q = [prev |-> q.prev, ops |-> q.ops] /\ q.ops \in Seq(Ops(o))
      /\ q.prev # NoOp => q.prev \in BlockRanges(o)
  BY SendingIs
<1>2. \A x \in BlockRanges(o) : x # NoOp
  BY RangeIs DEF NoOp, BlockRanges
<1>3. Content(o, r) \in Seq(Nat) /\ Contents(o, q.ops) \in Seq(Nat)
  BY RangeIs, MadeType
<1>4. CASE Adjoins(q.prev, r)
  <2> DEFINE t == [q.prev EXCEPT !.span = @ + 1]
  <2>1. q.prev # NoOp /\ q.prev \in BlockRanges(o)
    BY <1>1, <1>4 DEF Adjoins
  <2>2. t \in BlockRanges(o) /\ Content(o, t) = Content(o, q.prev) \o Content(o, r)
    BY <1>4, <2>1, ExtendedRange
  <2>3. EnqueueRange(q, r) = [q EXCEPT !.prev.span = @ + 1]
    BY <1>4 DEF EnqueueRange
  <2>4. EnqueueRange(q, r) = [prev |-> t, ops |-> q.ops]
    BY <1>1, <2>1, <2>3
  <2> HIDE DEF t
  <2>5. /\ EnqueueRange(q, r) \in Sendings(o) /\ EnqueueRange(q, r).prev = t /\ t # NoOp
        /\ EnqueueRange(q, r).ops = q.ops
    BY <1>1, <1>2, <2>2, <2>4 DEF Sendings
  <2>6. Made(o, EnqueueRange(q, r)) = Contents(o, q.ops) \o (Content(o, q.prev) \o Content(o, r))
    BY <2>2, <2>5, MadeIs
  <2>7. Made(o, q) = Contents(o, q.ops) \o Content(o, q.prev)
    BY <2>1, MadeIs
  <2>8. Content(o, q.prev) \in Seq(Nat)
    BY <2>1, RangeIs
  <2>9. Contents(o, q.ops) \o (Content(o, q.prev) \o Content(o, r))
          = (Contents(o, q.ops) \o Content(o, q.prev)) \o Content(o, r)
    BY <1>3, <2>8, ConcatAssoc, SMTT(60)
  <2>10. QED
    BY <2>5, <2>6, <2>7, <2>9
<1>5. CASE ~Adjoins(q.prev, r)
  <2> DEFINE t == SendPrev(q)
  <2>1. /\ t \in Sendings(o) /\ Contents(o, t.ops) = Made(o, q)
        /\ AllFull(q.ops) => AllFull(t.ops)
    BY SendPrevIs
  <2>2. EnqueueRange(q, r) = [t EXCEPT !.prev = r]
    BY <1>5 DEF EnqueueRange
  <2> HIDE DEF t
  <2>3. EnqueueRange(q, r) = [prev |-> r, ops |-> t.ops] /\ t.ops \in Seq(Ops(o))
    BY <2>1, <2>2, SendingIs
  <2>4. /\ EnqueueRange(q, r) \in Sendings(o) /\ EnqueueRange(q, r).prev = r /\ r # NoOp
        /\ EnqueueRange(q, r).ops = t.ops
    BY <1>2, <2>3 DEF Sendings
  <2>5. Made(o, EnqueueRange(q, r)) = Contents(o, t.ops) \o Content(o, r)
    BY <2>4, MadeIs
  <2>6. QED
    BY <2>1, <2>4, <2>5
<1>6. QED
  BY <1>4, <1>5
-----------------------------------------------------------------------------
(* Looking up                                                               *)

LEMMA FirstIs ==
  ASSUME NEW S, S # {}, \A p \in S : p.file \in Nat /\ p.block \in Nat
  PROVE  First(S) \in S
<1> DEFINE files == {p.file : p \in S}
<1>1. files \subseteq Nat /\ files # {}
  OBVIOUS
<1>2. PICK f \in files : \A g \in files : f <= g
  BY <1>1, LeastNumber
<1> DEFINE blocks == {p.block : p \in {q \in S : q.file = f}}
<1>3. blocks \subseteq Nat /\ blocks # {}
  OBVIOUS
<1>4. PICK b \in blocks : \A c \in blocks : b <= c
  <2> HIDE DEF blocks
  <2>1. QED
    BY <1>3, LeastNumber
<1>5. PICK p \in S : p.file = f /\ p.block = b
  BY <1>4
<1>6. ASSUME NEW q \in S PROVE Earlier(p, q)
  <2>1. f <= q.file /\ q.file \in Nat /\ f \in Nat
    BY <1>1, <1>2, <1>6
  <2>2. q.file = f => b <= q.block
    BY <1>4, <1>6
  <2>3. QED
    BY <1>5, <2>1, <2>2 DEF Earlier
<1> HIDE DEF files, blocks
<1>7. QED
  BY <1>5, <1>6, Zenon DEF First

\* The blocks that the hash, the contents and the short size are those of.
Matching(weak, d, short) ==
  {p \in UNION {{Position(f, b) : b \in 0 .. NumBlocks(Len(old[f])) - 1} : f \in DOMAIN old} :
     BlockOf(old[p.file], p.block) = d /\ WeakHash(BlockOf(old[p.file], p.block)) = weak
       /\ ShortSize(BlockOf(old[p.file], p.block)) = short}

LEMMA MatchingIs ==
  ASSUME NEW weak, NEW d, NEW short, NEW p
  PROVE  p \in Matching(weak, d, short)
           <=> /\ p.file \in DOMAIN old /\ p.block \in 0 .. NumBlocks(Len(old[p.file])) - 1
               /\ p = Position(p.file, p.block)
               /\ BlockOf(old[p.file], p.block) = d /\ WeakHash(d) = weak /\ ShortSize(d) = short
<1>1. p \in UNION {{Position(f, b) : b \in 0 .. NumBlocks(Len(old[f])) - 1} : f \in DOMAIN old}
        <=> \E f \in DOMAIN old : \E b \in 0 .. NumBlocks(Len(old[f])) - 1 : p = Position(f, b)
  OBVIOUS
<1>2. \A f, b : Position(f, b).file = f /\ Position(f, b).block = b
  BY DEF Position
<1>3. p \in UNION {{Position(f, b) : b \in 0 .. NumBlocks(Len(old[f])) - 1} : f \in DOMAIN old}
        <=> /\ p.file \in DOMAIN old /\ p.block \in 0 .. NumBlocks(Len(old[p.file])) - 1
            /\ p = Position(p.file, p.block)
  BY <1>1, <1>2
<1>4. QED
  BY <1>3 DEF Matching

LEMMA FindIs ==
  ASSUME NEW weak, NEW d, NEW short
  PROVE  LET found == Matching(weak, d, short)
             liked == {p \in found : p.file = preferred}
         IN FindUniqueHash(weak, d, short)
              = IF d = << >> \/ found = {} THEN {} ELSE {First(IF liked # {} THEN liked ELSE found)}
BY Zenon DEF FindUniqueHash, Matching

\* What is found is a block of the old build with these contents.
LEMMA FindFinds ==
  ASSUME old \in Seq(Seq(Nat)), NEW weak, NEW d \in Seq(Nat), NEW short, NEW p \in FindUniqueHash(weak, d, short)
  PROVE  /\ d # << >> /\ ShortSize(d) = short
         /\ Range1(p) \in BlockRanges(old) /\ Range1(p).span = 1
         /\ Content(old, Range1(p)) = d
<1> DEFINE found == Matching(weak, d, short)
           liked == {x \in found : x.file = preferred}
<1>1. d # << >> /\ ((p = First(liked) /\ liked # {}) \/ (p = First(found) /\ found # {}))
  <2>1. p \in IF d = << >> \/ found = {} THEN {} ELSE {First(IF liked # {} THEN liked ELSE found)}
    BY FindIs
  <2> HIDE DEF found, liked
  <2>2. QED
    BY <2>1
<1>2. \A x \in found : x.file \in Nat /\ x.block \in Nat
  <2>1. \A f \in DOMAIN old : f \in Nat /\ NumBlocks(Len(old[f])) \in Nat
    <3>1. \A f \in DOMAIN old : f \in Nat /\ Len(old[f]) \in Nat
      OBVIOUS
    <3>2. QED
      BY <3>1, NumBlocksType
  <2>2. QED
    BY <2>1, MatchingIs
<1>3. p \in found
  <2> HIDE DEF found
  <2>1. liked \subseteq found
    OBVIOUS
  <2>2. CASE p = First(liked) /\ liked # {}
    <3>1. \A x \in liked : x.file \in Nat /\ x.block \in Nat
      BY <1>2, <2>1
    <3> HIDE DEF liked
    <3>2. First(liked) \in liked
      BY <2>2, <3>1, FirstIs
    <3>3. QED
      BY <2>1, <2>2, <3>2
  <2>3. CASE p = First(found) /\ found # {}
    BY <1>2, <2>3, FirstIs
  <2>4. QED
    BY <1>1, <2>2, <2>3
<1>4. /\ p.file \in DOMAIN old /\ p.block \in 0 .. NumBlocks(Len(old[p.file])) - 1
      /\ BlockOf(old[p.file], p.block) = d /\ ShortSize(d) = short
  BY <1>3, MatchingIs
<1> HIDE DEF found, liked
<1> DEFINE o == old[p.file]
           b == p.block
           r == Range1(p)
<1>5. o \in Seq(Nat) /\ Len(o) \in Nat /\ b \in Nat /\ b + 1 <= NumBlocks(Len(o))
  <2>1. o \in Seq(Nat) /\ Len(o) \in Nat
    BY <1>4
  <2>2. NumBlocks(Len(o)) \in Nat
    BY <2>1, NumBlocksType
  <2>3. QED
    BY <1>4, <2>1, <2>2, SMTT(60)
<1>6. r = [type |-> "range", file |-> p.file, block |-> b, span |-> 1]
  BY DEF Range1
<1>7. Len(o) > 0
  <2> SUFFICES ASSUME Len(o) = 0 PROVE FALSE
    BY <1>5
  <2>1. NumBlocks(Len(o)) = 1 /\ b = 0
    BY <1>5 DEF NumBlocks
  <2>2. d = SubSeq(o, 0 * BlockSize + 1, Least((0 + 1) * BlockSize, 0))
    BY <1>4, <2>1 DEF BlockOf
  <2>3. BlockSize \in Nat \ {0}
    BY BlockSizeIs
  <2>4. 0 * BlockSize + 1 = 1 /\ Least((0 + 1) * BlockSize, 0) = 0
    BY <2>3 DEF Least
  <2>5. d = SubSeq(o, 1, 0)
    BY <2>2, <2>4
  <2>6. SubSeq(o, 1, 0) = << >>
    BY <1>5
  <2>7. QED
    BY <1>1, <2>5, <2>6
<1>8. r \in BlockRanges(old) /\ r.span = 1
  <2>1. r \in [type : {"range"}, file : DOMAIN old, block : Nat, span : Nat \ {0}]
    BY <1>4, <1>5, <1>6
  <2>2. QED
    BY <1>5, <1>6, <1>7, <2>1 DEF BlockRanges
<1>9. Content(old, r) = BlockOf(o, b)
  <2>1. r.type # "data" /\ r.file = p.file /\ r.block = p.block /\ r.span = 1
    BY <1>6
  <2> HIDE DEF r
  <2>2. QED
    BY <2>1 DEF Content, BlockOf
<1>10. QED
  BY <1>1, <1>4, <1>8, <1>9

\* A block of the preferred file that occurs in it once is found there.
LEMMA FindsPreferred ==
  ASSUME old \in Seq(Seq(Nat)), preferred \in DOMAIN old,
         NEW k \in 0 .. NumBlocks(Len(old[preferred])) - 1,
         NEW d, d = BlockOf(old[preferred], k), d # << >>,
         \A j \in 0 .. NumBlocks(Len(old[preferred])) - 1 : BlockOf(old[preferred], j) = d => j = k
  PROVE  FindUniqueHash(WeakHash(d), d, ShortSize(d)) = {Position(preferred, k)}
<1> DEFINE p == Position(preferred, k)
           found == Matching(WeakHash(d), d, ShortSize(d))
           liked == {x \in found : x.file = preferred}
<1>1. p.file = preferred /\ p.block = k
  BY DEF Position
<1>2. p \in found
  <2>1. /\ p.file \in DOMAIN old /\ p.block \in 0 .. NumBlocks(Len(old[p.file])) - 1
        /\ p = Position(p.file, p.block)
        /\ BlockOf(old[p.file], p.block) = d
    BY <1>1
  <2>2. QED
    BY <2>1, MatchingIs
<1>3. ASSUME NEW x \in liked PROVE x = p
  <2>1. /\ x.block \in 0 .. NumBlocks(Len(old[x.file])) - 1
        /\ x = Position(x.file, x.block) /\ BlockOf(old[x.file], x.block) = d /\ x.file = preferred
    BY <1>3, MatchingIs
  <2>2. x.block = k
    BY <2>1
  <2>3. QED
    BY <2>1, <2>2
<1>4. liked = {p}
  BY <1>1, <1>2, <1>3
<1>5. First({p}) = p
  <2>1. \A x \in {p} : x.file \in Nat /\ x.block \in Nat
    BY <1>1
  <2> HIDE DEF p
  <2>2. First({p}) \in {p}
    BY <2>1, FirstIs
  <2>3. QED
    BY <2>2
<1>6. FindUniqueHash(WeakHash(d), d, ShortSize(d)) = {First(liked)}
  <2> HIDE DEF p
  <2>1. found # {} /\ liked # {}
    BY <1>2, <1>4
  <2>2. QED
    BY <2>1, FindIs
<1>7. QED
  BY <1>4, <1>5, <1>6
-----------------------------------------------------------------------------
(* Where the search is in the new file                                      *)

LEMMA OldIs ==
  ASSUME TypeInv
  PROVE  /\ old \in Seq(Seq(Nat)) /\ case.new \in Seq(Seq(Nat)) /\ case.copy \in Nat \ {0}
         /\ case.like \in [DOMAIN case.new -> {0} \cup DOMAIN old]
<1>1. case \in Cases /\ old = case.old
  BY DEF TypeInv
<1>2. QED
  BY <1>1, CasesAssumption

LEMMA SourceIs ==
  ASSUME TypeInv, at > 0
  PROVE  at \in DOMAIN case.new /\ Source \in Seq(Nat) /\ Len(Source) \in Nat /\ preferred = case.like[at]
<1>1. case.new \in Seq(Seq(Nat)) /\ at \in 1 .. Len(case.new) /\ preferred = case.like[at]
  <2>1. at \in 0 .. Len(case.new) /\ preferred = case.like[at]
    BY DEF TypeInv
  <2>2. case.new \in Seq(Seq(Nat))
    BY OldIs
  <2>3. QED
    BY <2>1, <2>2
<1>2. case.new[at] \in Seq(Nat) /\ at \in DOMAIN case.new
  BY <1>1
<1>3. QED
  BY <1>1, <1>2 DEF Source

BufLenIs == BufLen \in Nat /\ BufLen = 2 * BlockSize + MaxDataOp

LEMMA BufLenHolds == BufLenIs
BY BlockSizeIs DEF BufLen, BufLenIs

LEMMA SearchFacts ==
  ASSUME TypeInv, CopyInv, SearchInv, Running
  PROVE  /\ at > 0 /\ Source \in Seq(Nat) /\ Len(Source) \in Nat
         /\ Taken \in Nat /\ Origin \in Nat /\ Origin + validTo = Taken /\ Taken <= Len(Source)
         /\ validTo \in Nat /\ window \in Nat /\ pending \in Nat /\ diff.n \in Nat
         /\ validTo <= BufLen /\ pending <= window /\ window <= validTo /\ window - pending <= MaxDataOp
         /\ buffer \in [0 .. BufLen - 1 -> Nat]
         /\ \A i \in 0 .. validTo - 1 : buffer[i] = Source[Origin + i + 1]
<1>1. at > 0 /\ Buffered(Source, Origin, buffer, validTo) /\ pending <= window /\ window <= validTo /\ window - pending <= MaxDataOp
  BY DEF SearchInv
<1>2. Source \in Seq(Nat) /\ Len(Source) \in Nat
  BY <1>1, SourceIs
<1>3. /\ validTo \in Nat /\ window \in Nat /\ pending \in Nat /\ diff.n \in Nat
      /\ buffer \in [0 .. BufLen - 1 -> Nat] /\ copier.pos \in Nat /\ input.bytes \in Seq(Nat)
  BY DEF TypeInv, DiffTypes, Pipe
<1>4. Taken \in Nat /\ copier.pos <= Len(Source)
  BY <1>1 DEF CopyInv
<1>5. Len(input.bytes) \in Nat
  BY <1>3
<1>6. Taken <= Len(Source)
  BY <1>2, <1>3, <1>4, <1>5 DEF Taken
<1>7. /\ Origin \in Nat /\ validTo <= BufLen
      /\ \A i \in 0 .. validTo - 1 : buffer[i] = Source[Origin + i + 1]
  BY <1>1 DEF Buffered
<1>8. Origin + validTo = Taken
  BY <1>3, <1>4 DEF Origin
<1>9. QED
  BY <1>1, <1>2, <1>3, <1>4, <1>6, <1>7, <1>8

\* Part of what was read.
LEMMA SliceIs ==
  ASSUME TypeInv, CopyInv, SearchInv, Running, NEW a \in Nat, NEW b \in Nat, a <= b, b <= validTo
  PROVE  /\ Slice(a, b) = SubSeq(Source, (Origin + a) + 1, Origin + b)
         /\ Slice(a, b) \in Seq(Nat) /\ Len(Slice(a, b)) = b - a
<1> DEFINE t == Slice(a, b)
           from == Origin + a
           to == Origin + b
<1>1. /\ Source \in Seq(Nat) /\ Len(Source) \in Nat /\ Origin \in Nat /\ validTo \in Nat
      /\ Origin + validTo <= Len(Source) /\ validTo <= BufLen
      /\ buffer \in [0 .. BufLen - 1 -> Nat]
      /\ \A i \in 0 .. validTo - 1 : buffer[i] = Source[Origin + i + 1]
  BY SearchFacts
<1>2. BufLen \in Nat
  BY BufLenHolds DEF BufLenIs
<1>3. \A i \in 1 .. b - a : a + i - 1 \in 0 .. validTo - 1 /\ a + i - 1 \in 0 .. BufLen - 1 /\ Origin + (a + i - 1) + 1 = from + i
  BY <1>1, <1>2
<1>4. \A i \in 1 .. b - a : buffer[a + i - 1] \in Nat /\ buffer[a + i - 1] = Source[from + i]
  <2> TAKE i \in 1 .. b - a
  <2>1. buffer[a + i - 1] \in Nat
    BY <1>1, <1>3
  <2>2. buffer[a + i - 1] = Source[Origin + (a + i - 1) + 1]
    BY <1>1, <1>3
  <2>3. QED
    BY <1>3, <2>1, <2>2
<1>5. t = [i \in 1 .. b - a |-> buffer[a + i - 1]] /\ b - a \in Nat
  BY DEF Slice
<1> HIDE DEF t
<1>6. t \in Seq(Nat) /\ Len(t) = b - a /\ \A i \in 1 .. b - a : t[i] = Source[from + i]
  <2> DEFINE f(i) == buffer[a + i - 1]
             n == b - a
  <2>1. n \in Nat /\ t = [i \in 1 .. n |-> f(i)] /\ \A i \in 1 .. n : f(i) \in Nat /\ f(i) = Source[from + i]
    BY <1>4, <1>5
  <2> HIDE DEF f, n, from
  <2>2. t \in Seq(Nat) /\ Len(t) = n /\ \A i \in 1 .. n : t[i] = Source[from + i]
    BY <2>1
  <2>3. QED
    BY <2>2 DEF n
<1>7. from \in Nat /\ to \in from .. Len(Source) /\ to - from = b - a
  BY <1>1
<1> HIDE DEF from, to
<1>8. t = SubSeq(Source, from + 1, to)
  BY <1>1, <1>6, <1>7, PartSame
<1>9. QED
  BY <1>6, <1>8 DEF t, from, to

-----------------------------------------------------------------------------
(* What is left alone                                                       *)

\* The search does not change, and the reader of the new file ended before or has
\* the same bytes before it.
LEMMA DiffFrame ==
  ASSUME DiffInv, UNCHANGED <<case, at, old, preferred, search, sent, diff>>, Taken' = Taken,
         input.end # "open" => input' = input,
         diff.at = "nil" => input.end # "open"
  PROVE  DiffInv'
<1>1. /\ case' = case /\ at' = at /\ old' = old /\ preferred' = preferred /\ sent' = sent /\ diff' = diff
      /\ buffer' = buffer /\ validTo' = validTo /\ window' = window /\ pending' = pending /\ rolling' = rolling
  BY DEF search
<1>2. Source' = Source /\ Origin' = Origin /\ (Running' <=> Running)
  BY <1>1 DEF Source, Origin, Running
<1>3. SearchInv'
  <2>1. CASE input.end = "open"
    BY <1>1, <1>2, <2>1 DEF DiffInv, SearchInv, Buffered
  <2>2. CASE input.end # "open"
    BY <1>1, <1>2, <2>2 DEF DiffInv, SearchInv, Buffered
  <2>3. QED
    BY <2>1, <2>2
<1>4. MadeInv'
  BY <1>1, <1>2 DEF DiffInv, MadeInv
<1>5. RollInv'
  BY <1>1, <1>2 DEF DiffInv, RollInv
<1>6. UntouchedInv'
  <2>1. Untouched(at)' <=> Untouched(at)
    BY <1>1 DEF Untouched
  <2>2. diff.at = "nil" => input' = input
    OBVIOUS
  <2>3. QED
    BY <1>1, <1>2, <2>1, <2>2 DEF DiffInv, UntouchedInv
<1>7. QED
  BY <1>3, <1>4, <1>5, <1>6 DEF DiffInv

\* The main goroutine leaves the three tasks alone.
LEMMA TasksFrame ==
  ASSUME CopyInv, DiffInv, DiffedInv, SignInv, UNCHANGED <<old, preferred, case, differ, at, copier, signing>>
  PROVE  CopyInv' /\ DiffInv' /\ DiffedInv' /\ SignInv'
<1>1. /\ old' = old /\ preferred' = preferred /\ case' = case /\ at' = at /\ copier' = copier
      /\ input' = input /\ search' = search /\ sent' = sent /\ diff' = diff
      /\ signInput' = signInput /\ signer' = signer /\ signature' = signature
  BY DEF differ, signing
<1>2. Source' = Source /\ Taken' = Taken /\ SignedTo' = SignedTo
  BY <1>1 DEF Source, Taken, SignedTo
<1>3. CopyInv'
  BY <1>1, <1>2 DEF CopyInv
<1>4. DiffInv'
  BY <1>1, <1>2, DiffFrame DEF DiffedInv
<1>5. DiffedInv'
  BY <1>1, <1>2 DEF DiffedInv
<1>6. SignInv'
  BY <1>1, <1>2 DEF SignInv
<1>7. QED
  BY <1>3, <1>4, <1>5, <1>6
-----------------------------------------------------------------------------
(* The steps of ComputeDiff                                                 *)

Rest == <<old, preferred, case, at, copier, signInput>>

LEMMA RestIs ==
  ASSUME UNCHANGED Rest
  PROVE  /\ old' = old /\ preferred' = preferred /\ case' = case /\ at' = at
         /\ copier' = copier /\ signInput' = signInput
         /\ Source' = Source /\ (Untouched(at)' <=> Untouched(at))
<1>1. /\ old' = old /\ preferred' = preferred /\ case' = case /\ at' = at
      /\ copier' = copier /\ signInput' = signInput
  BY DEF Rest
<1>2. QED
  BY <1>1 DEF Source, Untouched

LEMMA CopyKept ==
  ASSUME CopyInv, UNCHANGED Rest, input' = input
  PROVE  CopyInv' /\ Taken' = Taken
<1>1. /\ old' = old /\ case' = case /\ at' = at /\ copier' = copier /\ signInput' = signInput /\ Source' = Source
  BY RestIs
<1>2. Taken' = Taken
  BY <1>1 DEF Taken
<1>3. QED
  BY <1>1, <1>2 DEF CopyInv

\* What was sent when ComputeDiff ends without an error.
SentAll(q) ==
  /\ input.end # "open"
  /\ input.end = "eof" =>
       /\ Contents(old, q.ops) = Source /\ Bounded(q.ops, Source)
       /\ Untouched(at) => q.ops = <<RangeOf(case.like[at], Len(BlocksOf(Source)))>>

LEMMA SearchEnds ==
  ASSUME CopyInv, UNCHANGED Rest, input' = input, diff'.at \in {"nil", "failed"},
         diff'.at = "nil" => SentAll(sent')
  PROVE  CopyInv' /\ DiffInv' /\ DiffedInv'
<1>1. ~Running'
  BY DEF Running
<1>2. /\ old' = old /\ case' = case /\ at' = at /\ Source' = Source /\ (Untouched(at)' <=> Untouched(at))
  BY RestIs
<1>3. SearchInv' /\ MadeInv' /\ RollInv'
  BY <1>1 DEF SearchInv, MadeInv, RollInv
<1>4. UntouchedInv'
  BY <1>1, <1>2 DEF UntouchedInv, SentAll
<1>5. DiffedInv'
  BY <1>2 DEF DiffedInv, SentAll
<1>6. QED
  BY <1>3, <1>4, <1>5, CopyKept DEF DiffInv

\* The types, when the input and what was read are as they were.
LEMMA EndTypes ==
  ASSUME TypeInv, UNCHANGED Rest, input' = input, buffer' = buffer, validTo' = validTo,
         window' \in Nat, pending' \in Nat,
         rolling' \in [on : BOOLEAN, b1 : Int, b2 : Int, pop : Nat],
         sent' \in Sendings(old),
         diff'.at \in {"over", "extend", "read", "look", "nil", "failed"},
         diff' = [diff EXCEPT !.at = diff'.at]
  PROVE  DiffTypes' /\ diff'.n = diff.n /\ diff'.last = diff.last
<1>1. /\ input \in Pipe /\ buffer \in [0 .. BufLen - 1 -> Nat] /\ validTo \in Nat
      /\ diff \in [at : {"over", "extend", "read", "look", "nil", "failed"}, n : Nat, last : BOOLEAN]
  BY DEF TypeInv, DiffTypes
<1>2. /\ diff' \in [at : {"over", "extend", "read", "look", "nil", "failed"}, n : Nat, last : BOOLEAN]
      /\ diff'.n = diff.n /\ diff'.last = diff.last
  <2> DEFINE t == diff'.at
  <2>1. t \in {"over", "extend", "read", "look", "nil", "failed"} /\ diff' = [diff EXCEPT !.at = t]
    OBVIOUS
  <2> HIDE DEF t
  <2>2. diff' = [at |-> t, n |-> diff.n, last |-> diff.last]
    BY <1>1, <2>1
  <2>3. QED
    BY <1>1, <2>1, <2>2
<1>3. old' = old
  BY RestIs
<1>4. QED
  BY <1>1, <1>2, <1>3 DEF DiffTypes

\* The search goes on in the same buffer.
LEMMA SearchGoesOn ==
  ASSUME TypeInv, CopyInv, DiffInv, Running, UNCHANGED Rest, input' = input, buffer' = buffer, validTo' = validTo,
         Running', diff'.last = diff.last
  PROVE  /\ CopyInv' /\ Origin' = Origin /\ Source' = Source /\ at' > 0
         /\ Buffered(Source, Origin, buffer, validTo)' /\ old' = old
<1>1. at' = at /\ Source' = Source /\ old' = old /\ Taken' = Taken /\ CopyInv'
  BY RestIs, CopyKept
<1>2. Origin' = Origin
  BY <1>1 DEF Origin
<1>3. at > 0 /\ Buffered(Source, Origin, buffer, validTo)
  BY DEF DiffInv, SearchInv
<1>4. QED
  BY <1>1, <1>2, <1>3 DEF Buffered

\* The window does not reach past what was read.
LEMMA ExtendStays ==
  ASSUME TypeInv, CopyInv, DiffInv, UNCHANGED Rest, diff.at = "extend",
         window + BlockSize <= validTo, diff' = [diff EXCEPT !.at = "look"],
         UNCHANGED <<input, buffer, validTo, window, pending, sent, rolling>>
  PROVE  DiffTypes' /\ CopyInv' /\ DiffInv' /\ DiffedInv'
<1>1. Running /\ SearchInv /\ MadeInv /\ RollInv /\ UntouchedInv
  BY DEF Running, DiffInv
<1>2. diff'.at = "look" /\ diff' = [diff EXCEPT !.at = diff'.at]
  <2>1. diff \in [at : {"over", "extend", "read", "look", "nil", "failed"}, n : Nat, last : BOOLEAN]
    BY DEF TypeInv, DiffTypes
  <2>2. diff'.at = "look"
    BY <2>1
  <2>3. QED
    BY <2>2
<1>3. DiffTypes' /\ diff'.n = diff.n /\ diff'.last = diff.last
  <2>1. /\ window \in Nat /\ pending \in Nat /\ sent \in Sendings(old)
        /\ rolling \in [on : BOOLEAN, b1 : Int, b2 : Int, pop : Nat]
    BY DEF TypeInv, DiffTypes
  <2>2. QED
    BY <1>2, <2>1, EndTypes
<1>4. Running' /\ ~diff.last
  BY <1>1, <1>2 DEF Running, SearchInv
<1>5. /\ CopyInv' /\ Origin' = Origin /\ Source' = Source /\ at' > 0
      /\ Buffered(Source, Origin, buffer, validTo)' /\ old' = old
  BY <1>1, <1>3, <1>4, SearchGoesOn
<1>6. SearchInv'
  BY <1>1, <1>2, <1>3, <1>4, <1>5 DEF SearchInv
<1>7. MadeInv'
  BY <1>1, <1>5 DEF MadeInv
<1>8. RollInv'
  BY <1>1, <1>5 DEF RollInv
<1>9. ~Untouched(at)'
  <2>1. Untouched(at)' <=> Untouched(at)
    BY RestIs
  <2>2. Untouched(at) => validTo = window
    BY <1>1, SearchFacts DEF UntouchedInv
  <2>3. validTo # window
    BY <1>1, SearchFacts, BlockSizeIs, SMTT(60)
  <2>4. QED
    BY <2>1, <2>2, <2>3
<1>10. UntouchedInv'
  BY <1>9 DEF UntouchedInv
<1>11. DiffedInv'
  BY <1>2 DEF DiffedInv
<1>12. QED
  BY <1>3, <1>5, <1>6, <1>7, <1>8, <1>10, <1>11 DEF DiffInv

\* Another block is to be read, and the buffer has room for it.
LEMMA ExtendReads ==
  ASSUME TypeInv, CopyInv, DiffInv, UNCHANGED Rest, diff.at = "extend",
         ~(window + BlockSize <= validTo), ~(validTo + BlockSize > BufLen),
         diff' = [diff EXCEPT !.at = "read", !.n = 0],
         UNCHANGED <<input, buffer, validTo, window, pending, sent, rolling>>
  PROVE  DiffTypes' /\ CopyInv' /\ DiffInv' /\ DiffedInv'
<1>1. Running /\ SearchInv /\ MadeInv /\ RollInv /\ UntouchedInv
  BY DEF Running, DiffInv
<1>2. /\ diff \in [at : {"over", "extend", "read", "look", "nil", "failed"}, n : Nat, last : BOOLEAN]
      /\ input \in Pipe /\ buffer \in [0 .. BufLen - 1 -> Nat]
      /\ validTo \in Nat /\ window \in Nat /\ pending \in Nat /\ sent \in Sendings(old)
      /\ rolling \in [on : BOOLEAN, b1 : Int, b2 : Int, pop : Nat]
  BY DEF TypeInv, DiffTypes
<1>3. diff' = [at |-> "read", n |-> 0, last |-> diff.last]
  BY <1>2
<1>4. diff'.at = "read" /\ diff'.n = 0 /\ diff'.last = diff.last
  BY <1>3
<1>5. DiffTypes'
  <2>1. diff' \in [at : {"over", "extend", "read", "look", "nil", "failed"}, n : Nat, last : BOOLEAN]
    BY <1>2, <1>3
  <2>2. QED
    BY <1>2, <2>1, RestIs DEF DiffTypes
<1>6. Running' /\ ~diff.last
  BY <1>1, <1>4 DEF Running, SearchInv
<1>7. /\ CopyInv' /\ Origin' = Origin /\ Source' = Source /\ at' > 0
      /\ Buffered(Source, Origin, buffer, validTo)' /\ old' = old
  BY <1>1, <1>4, <1>6, SearchGoesOn
<1>8. SearchInv'
  <2>1. /\ pending <= window /\ window <= validTo /\ window - pending <= MaxDataOp
        /\ validTo \in Nat /\ window \in Nat /\ BlockSize \in Nat \ {0} /\ BufLen \in Nat
    BY <1>1, SearchFacts, BlockSizeIs, BufLenHolds DEF BufLenIs
  <2>2. 0 < BlockSize /\ 0 <= validTo - window /\ validTo - 0 < window + BlockSize /\ validTo - 0 + BlockSize <= BufLen
    BY <2>1
  <2>3. QED
    BY <1>4, <1>6, <1>7, <2>1, <2>2 DEF SearchInv
<1>9. MadeInv'
  BY <1>1, <1>7 DEF MadeInv
<1>10. RollInv'
  BY <1>1, <1>7 DEF RollInv
<1>11. UntouchedInv'
  <2>1. (Untouched(at)' <=> Untouched(at)) /\ case' = case
    BY RestIs
  <2>2. CASE Untouched(at)
    <3>1. PICK k \in 0 .. Len(Source) :
            /\ Origin + window = k * BlockSize
            /\ sent.prev = IF k = 0 THEN NoOp ELSE RangeOf(case.like[at], k)
            /\ ~rolling.on /\ pending = window /\ sent.ops = << >> /\ validTo = window
      BY <1>1, <2>2, SearchFacts DEF UntouchedInv
    <3>2. at' = at
      BY RestIs
    <3>3. /\ ~rolling'.on /\ pending' = window' /\ sent'.ops = << >>
          /\ \E j \in 0 .. Len(Source') :
               /\ Origin' + window' = j * BlockSize
               /\ sent'.prev = IF j = 0 THEN NoOp ELSE RangeOf(case'.like[at'], j)
      BY <1>7, <2>1, <3>1, <3>2
    <3>4. validTo' = window' + diff'.n
      BY <1>2, <1>4, <3>1
    <3>5. QED
      BY <1>4, <1>6, <3>3, <3>4 DEF UntouchedInv
  <2>3. CASE ~Untouched(at)
    BY <2>1, <2>3 DEF UntouchedInv
  <2>4. QED
    BY <2>2, <2>3
<1>12. DiffedInv'
  BY <1>4 DEF DiffedInv
<1>13. QED
  BY <1>5, <1>7, <1>8, <1>9, <1>10, <1>11, <1>12 DEF DiffInv

\* The pending data up to the window, all of it in a data operation.
LEMMA FlushIs ==
  ASSUME TypeInv, CopyInv, DiffInv, Running
  PROVE  LET q == IF pending < window THEN EnqueueData(sent, Slice(pending, window)) ELSE sent
         IN /\ q \in Sendings(old) /\ Made(old, q) = SubSeq(Source, 1, Origin + window) /\ AllFull(q.ops)
            /\ pending = window => q = sent
<1> DEFINE q == IF pending < window THEN EnqueueData(sent, Slice(pending, window)) ELSE sent
<1>1. SearchInv /\ Made(old, sent) = SubSeq(Source, 1, Origin + pending) /\ AllFull(sent.ops)
  BY DEF DiffInv, MadeInv
<1>2. sent \in Sendings(old) /\ old \in Seq(Seq(Nat))
  BY OldIs DEF TypeInv, DiffTypes
<1>3. /\ Source \in Seq(Nat) /\ Len(Source) \in Nat /\ Origin \in Nat /\ validTo \in Nat /\ window \in Nat /\ pending \in Nat
      /\ Origin + validTo <= Len(Source) /\ pending <= window /\ window <= validTo /\ window - pending <= MaxDataOp
  BY <1>1, SearchFacts
<1>4. /\ q \in Sendings(old) /\ Made(old, q) = SubSeq(Source, 1, Origin + window) /\ AllFull(q.ops)
      /\ pending = window => q = sent
  <2>1. CASE pending < window
    <3> DEFINE d == Slice(pending, window)
               a == Origin + pending
               b == Origin + window
    <3>1. d = SubSeq(Source, a + 1, b) /\ d \in Seq(Nat) /\ Len(d) = window - pending
      BY <1>1, <1>3, SliceIs
    <3>2. q = EnqueueData(sent, d) /\ pending # window
      BY <1>3, <2>1
    <3> HIDE DEF d, q
    <3>3. d # << >> /\ Len(d) <= MaxDataOp
      <4> DEFINE l == Len(d)
                 x == pending
                 y == window
                 g == MaxDataOp
      <4>1. x \in Nat /\ y \in Nat /\ x < y /\ y - x <= g /\ l = y - x
        BY <1>3, <2>1, <3>1
      <4> HIDE DEF l, x, y, g
      <4>2. l # 0 /\ l <= g
        BY <4>1
      <4>3. Len(<< >>) = 0
        OBVIOUS
      <4>4. QED
        BY <4>2, <4>3 DEF l, g
    <3>4. /\ EnqueueData(sent, d) \in Sendings(old) /\ AllFull(EnqueueData(sent, d).ops)
          /\ Made(old, EnqueueData(sent, d)) = Made(old, sent) \o d
      BY <1>1, <1>2, <3>1, <3>3, EnqueueDataIs
    <3>5. SubSeq(Source, 1, a) \o SubSeq(Source, a + 1, b) = SubSeq(Source, 1, b)
      <4>1. a \in 0 .. Len(Source) /\ b \in a .. Len(Source)
        BY <1>3
      <4> HIDE DEF a, b
      <4>2. QED
        BY <1>3, <4>1, PrefixJoin, SMTT(60)
    <3>6. QED
      BY <1>1, <3>1, <3>2, <3>4, <3>5
  <2>2. CASE pending = window
    <3>1. q = sent
      BY <1>3, <2>2
    <3> HIDE DEF q
    <3>2. QED
      BY <1>1, <1>2, <2>2, <3>1
  <2>3. QED
    BY <1>3, <2>1, <2>2
<1>5. QED
  BY <1>4

\* It has not: what is left of the window moves to the start.
LEMMA ExtendWraps ==
  ASSUME TypeInv, CopyInv, DiffInv, UNCHANGED Rest, diff.at = "extend",
         ~(window + BlockSize <= validTo), Wrap,
         diff' = [diff EXCEPT !.at = "read", !.n = 0],
         UNCHANGED <<input, rolling>>
  PROVE  DiffTypes' /\ CopyInv' /\ DiffInv' /\ DiffedInv'
<1>1. Running /\ SearchInv /\ MadeInv /\ RollInv /\ UntouchedInv
  BY DEF Running, DiffInv
<1>2. /\ diff \in [at : {"over", "extend", "read", "look", "nil", "failed"}, n : Nat, last : BOOLEAN]
      /\ input \in Pipe /\ rolling \in [on : BOOLEAN, b1 : Int, b2 : Int, pop : Nat]
  BY DEF TypeInv, DiffTypes
<1>3. diff' = [at |-> "read", n |-> 0, last |-> diff.last]
  BY <1>2
<1>4. diff'.at = "read" /\ diff'.n = 0 /\ diff'.last = diff.last
  BY <1>3
<1>5. Running' /\ ~diff.last
  BY <1>1, <1>4 DEF Running, SearchInv
<1>6. /\ Source \in Seq(Nat) /\ Len(Source) \in Nat /\ Origin \in Nat /\ validTo \in Nat /\ window \in Nat /\ pending \in Nat
      /\ Taken \in Nat /\ Origin + validTo = Taken /\ Taken <= Len(Source)
      /\ validTo <= BufLen /\ pending <= window /\ window <= validTo
      /\ buffer \in [0 .. BufLen - 1 -> Nat]
      /\ \A i \in 0 .. validTo - 1 : buffer[i] = Source[Origin + i + 1]
      /\ at > 0
  BY <1>1, SearchFacts
<1>7. BlockSize \in Nat \ {0} /\ MaxDataOp \in Nat \ {0} /\ BufLen \in Nat /\ BufLen = 2 * BlockSize + MaxDataOp
  BY BlockSizeIs, BufLenHolds DEF BufLenIs
<1> DEFINE l == validTo - window
           q == IF pending < window THEN EnqueueData(sent, Slice(pending, window)) ELSE sent
<1>8. /\ buffer' = [i \in DOMAIN buffer |-> IF i < l THEN buffer[window + i] ELSE buffer[i]]
      /\ validTo' = l /\ window' = 0 /\ pending' = 0 /\ sent' = q
  BY DEF Wrap
<1>9. /\ q \in Sendings(old) /\ Made(old, q) = SubSeq(Source, 1, Origin + window) /\ AllFull(q.ops)
      /\ pending = window => q = sent
  BY <1>1, FlushIs
<1> HIDE DEF q
<1>10. l \in Nat /\ l < BlockSize /\ l <= BufLen /\ l + BlockSize <= BufLen
  BY <1>6, <1>7, SMTT(60)
<1>11. \A i \in 0 .. l - 1 : /\ i \in 0 .. BufLen - 1 /\ window + i \in 0 .. BufLen - 1 /\ window + i \in 0 .. validTo - 1
                             /\ Origin + (window + i) + 1 = (Origin + window) + i + 1
  <2> TAKE i \in 0 .. l - 1
  <2>1. i \in Nat /\ i < validTo - window
    BY <1>6
  <2> DEFINE m == BufLen
             v == validTo
             w == window
  <2>6. m \in Nat /\ v \in Nat /\ w \in Nat /\ v <= m /\ w <= v /\ i < v - w
    BY <1>6, <1>7, <2>1
  <2> HIDE DEF m, v, w
  <2>2. i \in 0 .. m - 1 /\ w + i \in 0 .. v - 1 /\ w + i \in 0 .. m - 1
    BY <2>1, <2>6
  <2>4. Origin + (window + i) + 1 = (Origin + window) + i + 1
    BY <1>6, <2>1
  <2>5. QED
    BY <2>2, <2>4 DEF m, v, w
<1>12. buffer' \in [0 .. BufLen - 1 -> Nat]
  <2>1. \A i \in 0 .. BufLen - 1 : i < l => buffer[window + i] \in Nat
    BY <1>6, <1>11, SMTT(60)
  <2>2. QED
    BY <1>6, <1>8, <2>1
<1>13. \A i \in 0 .. l - 1 : buffer'[i] = Source[(Origin + window) + i + 1]
  <2> TAKE i \in 0 .. l - 1
  <2>1. i < l /\ i \in DOMAIN buffer
    BY <1>6, <1>10, <1>11
  <2>2. buffer'[i] = buffer[window + i]
    BY <1>8, <2>1
  <2>3. buffer[window + i] = Source[Origin + (window + i) + 1]
    BY <1>6, <1>11
  <2>4. QED
    BY <1>11, <2>2, <2>3
<1>14. /\ old' = old /\ case' = case /\ at' = at /\ Source' = Source /\ Taken' = Taken /\ CopyInv'
       /\ (Untouched(at)' <=> Untouched(at))
  BY RestIs, CopyKept
<1>15. Origin' = Origin + window
  <2>1. Origin' = Taken - l
    BY <1>8, <1>14 DEF Origin
  <2>2. QED
    BY <1>6, <2>1
<1>16. DiffTypes'
  <2>1. diff' \in [at : {"over", "extend", "read", "look", "nil", "failed"}, n : Nat, last : BOOLEAN]
    BY <1>2, <1>3
  <2>2. QED
    BY <1>2, <1>8, <1>9, <1>10, <1>12, <1>14, <2>1 DEF DiffTypes
<1>17. SearchInv'
  <2>1. Buffered(Source, Origin + window, buffer', l)
    <3>1. Origin + window \in Nat /\ (Origin + window) + l <= Len(Source)
      BY <1>6
    <3>2. QED
      BY <1>10, <1>13, <3>1 DEF Buffered
  <2>2. Buffered(Source, Origin, buffer, validTo)'
    BY <1>8, <1>14, <1>15, <2>1 DEF Buffered
  <2>3. /\ pending' <= window' /\ window' <= validTo' /\ window' - pending' <= MaxDataOp
        /\ diff'.n < BlockSize /\ diff'.n <= validTo' - window'
        /\ validTo' - diff'.n < window' + BlockSize
        /\ validTo' - diff'.n + BlockSize <= BufLen
    BY <1>4, <1>7, <1>8, <1>10
  <2>4. QED
    BY <1>4, <1>5, <1>6, <1>14, <2>2, <2>3 DEF SearchInv
<1>18. MadeInv'
  <2>1. Origin' + pending' = Origin + window
    BY <1>6, <1>8, <1>15
  <2>2. QED
    BY <1>8, <1>9, <1>14, <2>1 DEF MadeInv
<1>19. RollInv'
  <2>1. Origin' + window' = Origin + window
    BY <1>6, <1>8, <1>15
  <2>2. window + BlockSize <= validTo + 1 => window' + BlockSize <= validTo' + 1
    BY <1>6, <1>7, <1>8, SMTT(60)
  <2>3. QED
    BY <1>1, <1>14, <2>1, <2>2 DEF RollInv
<1>20. UntouchedInv'
  <2>1. CASE Untouched(at)
    <3>1. PICK k \in 0 .. Len(Source) :
            /\ Origin + window = k * BlockSize
            /\ sent.prev = IF k = 0 THEN NoOp ELSE RangeOf(case.like[at], k)
            /\ ~rolling.on /\ pending = window /\ sent.ops = << >> /\ validTo = window
      BY <1>1, <1>6, <2>1 DEF UntouchedInv
    <3>2. Origin' + window' = Origin + window
      BY <1>6, <1>8, <1>15
    <3>3. /\ ~rolling'.on /\ pending' = window' /\ sent'.ops = << >>
          /\ \E j \in 0 .. Len(Source') :
               /\ Origin' + window' = j * BlockSize
               /\ sent'.prev = IF j = 0 THEN NoOp ELSE RangeOf(case'.like[at'], j)
      BY <1>8, <1>9, <1>14, <3>1, <3>2
    <3>4. validTo' = window' + diff'.n
      BY <1>4, <1>6, <1>8, <3>1
    <3>5. QED
      BY <1>4, <1>5, <3>3, <3>4 DEF UntouchedInv
  <2>2. CASE ~Untouched(at)
    BY <1>14, <2>2 DEF UntouchedInv
  <2>3. QED
    BY <2>1, <2>2
<1>21. DiffedInv'
  BY <1>4 DEF DiffedInv
<1>22. QED
  BY <1>14, <1>16, <1>17, <1>18, <1>19, <1>20, <1>21 DEF DiffInv

LEMMA ReadSomeStep ==
  ASSUME TypeInv, CopyInv, DiffInv, UNCHANGED Rest, ReadSome
  PROVE  DiffTypes' /\ CopyInv' /\ DiffInv' /\ DiffedInv'
<1> DEFINE k == Least(BlockSize - diff.n, Len(input.bytes))
<1>1. /\ diff.at = "read" /\ k > 0
      /\ buffer' = [i \in DOMAIN buffer |->
                      IF i \in validTo .. validTo + k - 1 THEN input.bytes[i - validTo + 1] ELSE buffer[i]]
      /\ validTo' = validTo + k
      /\ input' = [input EXCEPT !.bytes = SubSeq(@, k + 1, Len(@))]
      /\ diff' = [diff EXCEPT !.n = @ + k, !.at = IF diff.n + k = BlockSize THEN "look" ELSE "read"]
      /\ window' = window /\ pending' = pending /\ rolling' = rolling /\ sent' = sent
  BY DEF ReadSome
<1>2. Running /\ SearchInv /\ MadeInv /\ RollInv /\ UntouchedInv
  BY <1>1 DEF Running, DiffInv
<1>3. /\ diff \in [at : {"over", "extend", "read", "look", "nil", "failed"}, n : Nat, last : BOOLEAN]
      /\ input \in Pipe /\ rolling \in [on : BOOLEAN, b1 : Int, b2 : Int, pop : Nat] /\ sent \in Sendings(old)
      /\ input.bytes \in Seq(Nat) /\ Len(input.bytes) \in Nat /\ copier.pos \in Nat
  <2>1. /\ diff \in [at : {"over", "extend", "read", "look", "nil", "failed"}, n : Nat, last : BOOLEAN]
        /\ input \in Pipe /\ rolling \in [on : BOOLEAN, b1 : Int, b2 : Int, pop : Nat] /\ sent \in Sendings(old)
        /\ copier \in [at : {"read", "to signer", "signed", "over"}, from : Nat, pos : Nat]
    BY DEF TypeInv, DiffTypes
  <2>2. input.bytes \in Seq(Nat)
    BY <2>1 DEF Pipe
  <2>3. Len(input.bytes) \in Nat
    BY <2>2
  <2>4. QED
    BY <2>1, <2>2, <2>3
<1>4. /\ Source \in Seq(Nat) /\ Len(Source) \in Nat /\ Origin \in Nat /\ validTo \in Nat /\ window \in Nat /\ pending \in Nat
      /\ Taken \in Nat /\ Origin + validTo = Taken /\ Taken <= Len(Source)
      /\ validTo <= BufLen /\ pending <= window /\ window <= validTo /\ window - pending <= MaxDataOp
      /\ buffer \in [0 .. BufLen - 1 -> Nat] /\ diff.n \in Nat
      /\ \A i \in 0 .. validTo - 1 : buffer[i] = Source[Origin + i + 1]
      /\ at > 0
  BY <1>2, SearchFacts
<1>5. BlockSize \in Nat \ {0} /\ MaxDataOp \in Nat \ {0} /\ BufLen \in Nat
  BY BlockSizeIs, BufLenHolds DEF BufLenIs
<1>6. /\ diff.n < BlockSize /\ diff.n <= validTo - window /\ validTo - diff.n < window + BlockSize
      /\ validTo - diff.n + BlockSize <= BufLen
      /\ ~diff.last
  BY <1>1, <1>2 DEF SearchInv
<1>7. k \in Nat \ {0} /\ k <= BlockSize - diff.n /\ k <= Len(input.bytes)
  <2> DEFINE x == BlockSize - diff.n
             y == Len(input.bytes)
  <2>1. x \in Nat \ {0} /\ y \in Nat /\ k = Least(x, y) /\ k > 0
    <3>1. x \in Nat \ {0}
      <4> DEFINE n == diff.n
                 s == BlockSize
      <4>1. n \in Nat /\ s \in Nat /\ n < s
        BY <1>4, <1>5, <1>6
      <4> HIDE DEF n, s
      <4>2. s - n \in Nat \ {0}
        BY <4>1
      <4>3. QED
        BY <4>2 DEF n, s
    <3>2. y \in Nat
      BY <1>3
    <3>3. k > 0 /\ k = Least(x, y)
      BY <1>1
    <3>4. QED
      BY <3>1, <3>2, <3>3
  <2> HIDE DEF x, y, k
  <2>2. k \in Nat \ {0} /\ k <= x /\ k <= y
    BY <2>1 DEF Least
  <2>3. QED
    BY <2>2 DEF x, y
<1> HIDE DEF k
<1>8. /\ old' = old /\ preferred' = preferred /\ case' = case /\ at' = at /\ copier' = copier
      /\ signInput' = signInput /\ Source' = Source /\ (Untouched(at)' <=> Untouched(at))
  BY RestIs
<1>9. diff' = [at |-> IF diff.n + k = BlockSize THEN "look" ELSE "read", n |-> diff.n + k, last |-> diff.last]
  BY <1>1, <1>3
<1>10. /\ diff'.at = (IF diff.n + k = BlockSize THEN "look" ELSE "read")
       /\ diff'.n = diff.n + k /\ diff'.last = diff.last /\ ~diff'.last
  BY <1>6, <1>9
<1> DEFINE rest == SubSeq(input.bytes, k + 1, Len(input.bytes))
<1>11. rest \in Seq(Nat) /\ Len(rest) = Len(input.bytes) - k
  BY <1>3, <1>7, PartIs, SMTT(60)
<1>12. input' = [bytes |-> rest, end |-> input.end]
  BY <1>1, <1>3 DEF Pipe
<1>13. input'.bytes = rest /\ input'.end = input.end /\ input' \in Pipe
  BY <1>3, <1>11, <1>12 DEF Pipe
<1>14. input.bytes = SubSeq(Source, Taken + 1, copier.pos) /\ copier.pos <= Len(Source) /\ copier.pos - Taken = Len(input.bytes)
  <2>1. input.bytes = SubSeq(Source, Taken + 1, copier.pos) /\ copier.pos <= Len(Source)
    BY <1>4 DEF CopyInv
  <2> DEFINE n == Len(input.bytes)
             p == copier.pos
  <2>2. n \in Nat /\ p \in Nat /\ Taken = p - n
    BY <1>3 DEF Taken
  <2> HIDE DEF n, p
  <2>3. p - Taken = n
    BY <2>2
  <2>4. QED
    BY <2>1, <2>3 DEF n, p
<1>15. rest = SubSeq(Source, (Taken + k) + 1, copier.pos)
  <2> DEFINE a == Taken
             b == copier.pos
             n == Len(input.bytes)
             l == Len(Source)
  <2>1. a \in Nat /\ b \in a .. l /\ k \in 0 .. b - a /\ n \in k .. b - a /\ a + n = b
    <3>1. a \in Nat /\ b \in Nat /\ n \in Nat /\ l \in Nat /\ k \in Nat /\ k <= n /\ b - a = n /\ b <= l
      BY <1>3, <1>4, <1>7, <1>14
    <3> HIDE DEF a, b, n, l
    <3>2. QED
      BY <3>1
  <2>2. rest = SubSeq(SubSeq(Source, a + 1, b), k + 1, n)
    BY <1>14
  <2> HIDE DEF a, b, n, rest
  <2>3. SubSeq(SubSeq(Source, a + 1, b), k + 1, n) = SubSeq(Source, (a + k) + 1, a + n)
    BY <1>4, <2>1, PartOfPart DEF l
  <2>4. QED
    BY <2>1, <2>2, <2>3 DEF a, b
<1> HIDE DEF rest
<1>16. Taken' = Taken + k
  <2>1. Taken' = copier.pos - Len(rest)
    BY <1>8, <1>13 DEF Taken
  <2> DEFINE n == Len(input.bytes)
             p == copier.pos
             t == Taken
  <2>2. n \in Nat /\ p \in Nat /\ t \in Nat /\ k \in Nat /\ p - t = n /\ Taken' = p - (n - k)
    BY <1>3, <1>4, <1>7, <1>11, <1>14, <2>1
  <2> HIDE DEF n, p, t
  <2>3. Taken' = t + k
    BY <2>2
  <2>4. QED
    BY <2>3 DEF t
<1>17. Origin' = Origin
  <2>1. Origin' = (Taken + k) - (validTo + k)
    BY <1>1, <1>16 DEF Origin
  <2>2. QED
    BY <1>4, <1>7, <2>1
<1>18. CopyInv'
  <2>1. input.bytes # << >>
    BY <1>3, <1>7
  <2>2. copier.at = "to signer" /\ copier.from <= copier.pos /\ input.end = signInput.end
    BY <1>4, <2>1 DEF CopyInv
  <2>3. Taken' \in Nat
    BY <1>4, <1>7, <1>16
  <2>4. input'.bytes = SubSeq(Source, Taken' + 1, copier.pos)
    BY <1>13, <1>15, <1>16
  <2>5. QED
    BY <1>4, <1>8, <1>13, <1>14, <2>2, <2>3, <2>4 DEF CopyInv
<1> DEFINE m == BufLen
           v == validTo
           n == diff.n
           s == BlockSize
           w == window
           len == Len(Source)
<1>19. /\ m \in Nat /\ v \in Nat /\ n \in Nat /\ s \in Nat \ {0} /\ w \in Nat /\ len \in Nat
       /\ n < s /\ n <= v - w /\ v - n < w + s /\ v - n + s <= m /\ v <= m /\ w <= v
       /\ k \in Nat \ {0} /\ k <= s - n /\ Origin + v + k <= len /\ Origin \in Nat
  <2>1. Origin + v + k <= len
    <3>1. k <= copier.pos - Taken
      BY <1>7, <1>14
    <3>2. QED
      BY <1>3, <1>4, <1>7, <1>14, <3>1, SMTT(60)
  <2>2. QED
    BY <1>4, <1>5, <1>6, <1>7, <2>1
<1> HIDE DEF m, v, n, s, w, len
<1>20. v + k <= m
  BY <1>19
<1>21. \A i \in 0 .. (v + k) - 1 : /\ i \in 0 .. m - 1
                                  /\ (i < v => i \in 0 .. v - 1 /\ i \notin v .. v + k - 1)
                                  /\ (i >= v => i \in v .. v + k - 1 /\ i - v + 1 \in 1 .. k
                                               /\ Origin + v + (i - v + 1) = Origin + i + 1)
  BY <1>19, <1>20
<1>22. /\ buffer \in [0 .. m - 1 -> Nat]
       /\ buffer' = [i \in 0 .. m - 1 |-> IF i \in v .. v + k - 1 THEN input.bytes[i - v + 1] ELSE buffer[i]]
       /\ \A i \in 0 .. v - 1 : buffer[i] = Source[Origin + i + 1]
  BY <1>1, <1>4 DEF m, v
<1>23. \A j \in 1 .. k : input.bytes[j] \in Nat /\ input.bytes[j] = Source[(Origin + v) + j]
  <2> DEFINE b == copier.pos
             a == Origin + v
  <2>1. a = Taken /\ a \in Nat /\ b \in a .. Len(Source) /\ input.bytes = SubSeq(Source, a + 1, b) /\ b - a = Len(input.bytes)
    <3>1. a = Taken /\ a \in Nat /\ b \in Nat /\ b <= Len(Source)
      BY <1>3, <1>4, <1>14 DEF v
    <3>2. input.bytes = SubSeq(Source, a + 1, b) /\ b - a = Len(input.bytes)
      BY <1>14, <3>1
    <3> DEFINE l == Len(input.bytes)
    <3>3. l \in Nat /\ b - a = l
      BY <1>3, <3>2
    <3> HIDE DEF a, b, l
    <3>4. a <= b
      BY <3>1, <3>3
    <3>5. QED
      BY <1>4, <3>1, <3>2, <3>4
  <2> HIDE DEF a, b
  <2>2. \A j \in 1 .. b - a : input.bytes[j] = Source[a + j]
    BY <1>4, <2>1, PartIs
  <2>3. \A j \in 1 .. k : j \in 1 .. b - a /\ j \in 1 .. Len(input.bytes)
    BY <1>3, <1>7, <2>1
  <2>4. \A j \in 1 .. Len(input.bytes) : input.bytes[j] \in Nat
    BY <1>3, SMTT(60)
  <2>5. QED
    BY <2>2, <2>3, <2>4 DEF a
<1>24. buffer' \in [0 .. m - 1 -> Nat]
  <2>1. \A i \in v .. v + k - 1 : i - v + 1 \in 1 .. k
    BY <1>19
  <2>2. \A i \in 0 .. m - 1 : (IF i \in v .. v + k - 1 THEN input.bytes[i - v + 1] ELSE buffer[i]) \in Nat
    BY <1>22, <1>23, <2>1
  <2>3. QED
    BY <1>22, <2>2
<1>25. \A i \in 0 .. (v + k) - 1 : buffer'[i] = Source[Origin + i + 1]
  <2> TAKE i \in 0 .. (v + k) - 1
  <2>1. i \in 0 .. m - 1
    BY <1>21
  <2>2. CASE i < v
    <3>1. i \in 0 .. v - 1 /\ i \notin v .. v + k - 1
      BY <1>21, <2>2
    <3>2. QED
      BY <1>22, <2>1, <3>1
  <2>3. CASE ~(i < v)
    <3>1. i \in v .. v + k - 1 /\ i - v + 1 \in 1 .. k /\ Origin + v + (i - v + 1) = Origin + i + 1
      BY <1>19, <1>21, <2>3
    <3>2. buffer'[i] = input.bytes[i - v + 1]
      BY <1>22, <2>1, <3>1
    <3>3. input.bytes[i - v + 1] = Source[(Origin + v) + (i - v + 1)]
      BY <1>23, <3>1
    <3>4. QED
      BY <3>1, <3>2, <3>3
  <2>4. QED
    BY <2>2, <2>3
<1>26. /\ validTo' = v + k /\ diff'.n = n + k /\ window' = w /\ BlockSize' = s
       /\ diff'.at = "read" => n + k # s
       /\ diff'.at = "look" => n + k = s
  BY <1>1, <1>10 DEF v, n, w, s
<1>27. SearchInv'
  <2>1. Buffered(Source, Origin, buffer', v + k)
    <3>1. Origin \in Nat /\ v + k <= BufLen /\ Origin + (v + k) <= Len(Source)
      BY <1>19, <1>20 DEF m, len
    <3>2. QED
      BY <1>25, <3>1 DEF Buffered
  <2>2. Buffered(Source, Origin, buffer, validTo)'
    BY <1>1, <1>8, <1>17, <2>1 DEF Buffered, v
  <2>3. /\ w <= v + k /\ n + k <= (v + k) - w
        /\ (v + k) - (n + k) < w + s /\ (v + k) - (n + k) + s <= m
        /\ (n + k # s => n + k < s)
        /\ (n + k = s => w + s <= v + k)
    BY <1>19
  <2>4. /\ pending' <= window' /\ window' <= validTo' /\ window' - pending' <= MaxDataOp
        /\ diff'.at = "read" =>
             /\ diff'.n < BlockSize /\ diff'.n <= validTo' - window'
             /\ validTo' - diff'.n < window' + BlockSize
             /\ validTo' - diff'.n + BlockSize <= BufLen
        /\ diff'.at = "look" => window' + BlockSize <= validTo'
    BY <1>1, <1>4, <1>26, <2>3 DEF m, s, w
  <2>5. QED
    BY <1>4, <1>8, <1>10, <2>2, <2>4 DEF SearchInv
<1>28. MadeInv'
  BY <1>1, <1>2, <1>8, <1>17 DEF MadeInv
<1>29. RollInv'
  <2>1. window + BlockSize <= validTo + 1 => window' + BlockSize <= validTo' + 1
    BY <1>19, <1>26 DEF v, s, w
  <2>2. QED
    BY <1>1, <1>2, <1>8, <1>17, <2>1 DEF RollInv
<1>30. UntouchedInv'
  <2>1. CASE Untouched(at)
    <3>1. PICK j \in 0 .. Len(Source) :
            /\ Origin + window = j * BlockSize
            /\ sent.prev = IF j = 0 THEN NoOp ELSE RangeOf(case.like[at], j)
            /\ ~rolling.on /\ pending = window /\ sent.ops = << >> /\ validTo = window + diff.n
      BY <1>1, <1>2, <1>4, <2>1 DEF UntouchedInv
    <3>2. v + k = w + (n + k)
      <4>1. v = w + n
        BY <3>1 DEF v, w, n
      <4>2. QED
        BY <1>19, <4>1
    <3>3. validTo' = window' + diff'.n /\ (diff'.at = "look" => validTo' = window' + BlockSize)
      BY <1>26, <3>2
    <3>4. /\ ~rolling'.on /\ pending' = window' /\ sent'.ops = << >>
          /\ \E i \in 0 .. Len(Source') :
               /\ Origin' + window' = i * BlockSize
               /\ sent'.prev = IF i = 0 THEN NoOp ELSE RangeOf(case'.like[at'], i)
      BY <1>1, <1>8, <1>17, <3>1
    <3>5. QED
      BY <1>10, <3>3, <3>4 DEF UntouchedInv
  <2>2. CASE ~Untouched(at)
    BY <1>8, <2>2 DEF UntouchedInv
  <2>3. QED
    BY <2>1, <2>2
<1>31. DiffedInv'
  BY <1>10 DEF DiffedInv
<1>32. DiffTypes'
  <2>1. diff' \in [at : {"over", "extend", "read", "look", "nil", "failed"}, n : Nat, last : BOOLEAN]
    BY <1>3, <1>7, <1>9, SMTT(60)
  <2>2. buffer' \in [0 .. BufLen - 1 -> Nat] /\ validTo' \in Nat
    BY <1>19, <1>24, <1>26 DEF m
  <2>3. QED
    BY <1>1, <1>3, <1>4, <1>8, <1>13, <2>1, <2>2 DEF DiffTypes
<1>33. QED
  BY <1>18, <1>27, <1>28, <1>29, <1>30, <1>31, <1>32 DEF DiffInv

\* The reader has ended: the last window is looked up, or ComputeDiff fails unless
\* a range is sent as it returns.
LEMMA ReadEndsStep ==
  ASSUME TypeInv, CopyInv, DiffInv, UNCHANGED Rest, ReadEnds
  PROVE  DiffTypes' /\ CopyInv' /\ DiffInv' /\ DiffedInv'
<1>1. /\ diff.at = "read" /\ input.bytes = << >> /\ input' = input
      /\ buffer' = buffer /\ validTo' = validTo /\ window' = window /\ pending' = pending /\ rolling' = rolling
  BY DEF ReadEnds, search
<1>2. Running /\ SearchInv /\ MadeInv /\ RollInv /\ UntouchedInv
  BY <1>1 DEF Running, DiffInv
<1>3. /\ diff \in [at : {"over", "extend", "read", "look", "nil", "failed"}, n : Nat, last : BOOLEAN]
      /\ input \in Pipe /\ buffer \in [0 .. BufLen - 1 -> Nat]
      /\ validTo \in Nat /\ window \in Nat /\ pending \in Nat /\ sent \in Sendings(old)
      /\ rolling \in [on : BOOLEAN, b1 : Int, b2 : Int, pop : Nat]
  BY DEF TypeInv, DiffTypes
<1>4. CASE input.end = "eof" /\ diff' = [diff EXCEPT !.at = "look", !.last = TRUE] /\ sent' = sent
  <2>1. diff' = [at |-> "look", n |-> diff.n, last |-> TRUE]
    BY <1>3, <1>4
  <2>2. diff'.at = "look" /\ diff'.n = diff.n /\ diff'.last
    BY <2>1
  <2>3. DiffTypes'
    <3>1. diff' \in [at : {"over", "extend", "read", "look", "nil", "failed"}, n : Nat, last : BOOLEAN]
      BY <1>3, <2>1
    <3>2. QED
      BY <1>1, <1>3, <1>4, <3>1, RestIs DEF DiffTypes
  <2>4. /\ at' = at /\ Source' = Source /\ old' = old /\ Taken' = Taken /\ CopyInv' /\ case' = case
        /\ (Untouched(at)' <=> Untouched(at))
    BY <1>1, RestIs, CopyKept
  <2>5. Origin' = Origin
    BY <1>1, <2>4 DEF Origin
  <2>6. SearchInv'
    <3>1. /\ at > 0 /\ Buffered(Source, Origin, buffer, validTo)
          /\ pending <= window /\ window <= validTo /\ window - pending <= MaxDataOp
          /\ diff.n < BlockSize /\ diff.n <= validTo - window /\ validTo - diff.n < window + BlockSize
      BY <1>1, <1>2 DEF SearchInv
    <3>2. Buffered(Source, Origin, buffer, validTo)'
      BY <1>1, <2>4, <2>5, <3>1 DEF Buffered
    <3>3. QED
      BY <1>1, <1>4, <2>2, <2>4, <3>1, <3>2 DEF SearchInv
  <2>7. MadeInv'
    BY <1>1, <1>2, <1>4, <2>4, <2>5 DEF MadeInv
  <2>8. RollInv'
    BY <1>1, <1>2, <2>4, <2>5 DEF RollInv
  <2>9. UntouchedInv'
    <3>1. CASE Untouched(at)
      <4>1. PICK k \in 0 .. Len(Source) :
              /\ Origin + window = k * BlockSize
              /\ sent.prev = IF k = 0 THEN NoOp ELSE RangeOf(case.like[at], k)
              /\ ~rolling.on /\ pending = window /\ sent.ops = << >> /\ validTo = window + diff.n
        BY <1>1, <1>2, <3>1, SearchFacts, SMTT(60) DEF UntouchedInv
      <4>2. /\ ~rolling'.on /\ pending' = window' /\ sent'.ops = << >>
            /\ \E j \in 0 .. Len(Source') :
                 /\ Origin' + window' = j * BlockSize
                 /\ sent'.prev = IF j = 0 THEN NoOp ELSE RangeOf(case'.like[at'], j)
        BY <1>1, <1>4, <2>4, <2>5, <4>1
      <4>3. validTo' = window' + diff'.n
        BY <1>1, <2>2, <4>1
      <4>4. QED
        BY <2>2, <4>2, <4>3 DEF UntouchedInv
    <3>2. CASE ~Untouched(at)
      BY <2>4, <3>2 DEF UntouchedInv
    <3>3. QED
      BY <3>1, <3>2
  <2>10. DiffedInv'
    BY <2>2 DEF DiffedInv
  <2>11. QED
    BY <2>3, <2>4, <2>6, <2>7, <2>8, <2>9, <2>10 DEF DiffInv
<1>5. CASE input.end = "failed" /\ End(sent, "failed")
  <2>1. /\ sent' = SendPrev(sent)
        /\ diff' = [diff EXCEPT !.at = IF sent.prev = NoOp THEN "failed" ELSE "nil"]
    BY <1>5 DEF End
  <2>2. diff'.at \in {"nil", "failed"} /\ diff' = [diff EXCEPT !.at = diff'.at]
    BY <1>3, <2>1
  <2>3. SendPrev(sent) \in Sendings(old)
    BY <1>3, OldIs, SendPrevIs
  <2>4. DiffTypes'
    BY <1>1, <1>3, <2>1, <2>2, <2>3, EndTypes
  <2>5. SentAll(sent')
    BY <1>5 DEF SentAll
  <2>6. QED
    BY <1>1, <2>2, <2>4, <2>5, SearchEnds
<1>6. QED
  BY <1>4, <1>5 DEF ReadEnds

\* An operation cannot be written.
LEMMA WriteFails ==
  ASSUME TypeInv, CopyInv, diff.at \in {"extend", "look"}, diff' = [diff EXCEPT !.at = "failed"],
         UNCHANGED Rest, UNCHANGED <<input, search, sent>>
  PROVE  DiffTypes' /\ CopyInv' /\ DiffInv' /\ DiffedInv'
<1>1. /\ input' = input /\ sent' = sent
      /\ buffer' = buffer /\ validTo' = validTo /\ window' = window /\ pending' = pending /\ rolling' = rolling
  BY DEF search
<1>2. /\ diff \in [at : {"over", "extend", "read", "look", "nil", "failed"}, n : Nat, last : BOOLEAN]
      /\ window \in Nat /\ pending \in Nat /\ sent \in Sendings(old)
      /\ rolling \in [on : BOOLEAN, b1 : Int, b2 : Int, pop : Nat]
  BY DEF TypeInv, DiffTypes
<1>3. diff'.at = "failed" /\ diff' = [diff EXCEPT !.at = diff'.at]
  BY <1>2
<1>4. DiffTypes'
  BY <1>1, <1>2, <1>3, EndTypes
<1>5. QED
  BY <1>1, <1>3, <1>4, SearchEnds

\* The window that is looked up.
LEMMA LookIs ==
  ASSUME TypeInv, CopyInv, DiffInv, diff.at = "look"
  PROVE  /\ Running /\ SearchInv /\ input.end = signInput.end
         /\ WindowEnd \in Nat /\ window <= WindowEnd /\ WindowEnd <= validTo
         /\ Current = SubSeq(Source, (Origin + window) + 1, Origin + WindowEnd)
         /\ Current \in Seq(Nat) /\ Len(Current) = WindowEnd - window
         /\ ~diff.last => WindowEnd = window + BlockSize /\ window + BlockSize <= validTo
         /\ diff.last =>
              /\ input.end = "eof" /\ Origin + validTo = Len(Source)
              /\ diff.n < BlockSize /\ diff.n <= validTo - window /\ validTo - diff.n < window + BlockSize
<1>1. Running /\ SearchInv
  BY DEF Running, DiffInv
<1>2. /\ at > 0 /\ validTo \in Nat /\ window \in Nat /\ window <= validTo /\ Taken \in Nat /\ Origin + validTo = Taken
  BY <1>1, SearchFacts
<1>3. BlockSize \in Nat \ {0}
  BY BlockSizeIs
<1>4. WindowEnd \in Nat /\ window <= WindowEnd /\ WindowEnd <= validTo
  BY <1>2, <1>3 DEF WindowEnd, Least
<1>5. /\ Current = SubSeq(Source, (Origin + window) + 1, Origin + WindowEnd)
      /\ Current \in Seq(Nat) /\ Len(Current) = WindowEnd - window
  BY <1>1, <1>2, <1>4, SliceIs DEF Current
<1>6. ~diff.last => WindowEnd = window + BlockSize /\ window + BlockSize <= validTo
  <2>1. ~diff.last => window + BlockSize <= validTo
    BY <1>1 DEF SearchInv
  <2>2. QED
    BY <1>2, <1>3, <2>1 DEF WindowEnd, Least
<1>7. ASSUME diff.last PROVE Origin + validTo = Len(Source)
  <2>1. input.end = "eof" /\ input.bytes = << >>
    BY <1>1, <1>7 DEF SearchInv
  <2>2. copier.pos <= Len(Source) /\ copier.pos = Len(Source)
    BY <1>2, <2>1 DEF CopyInv
  <2>3. copier.pos \in Nat
    BY DEF TypeInv
  <2>4. Taken = copier.pos - 0
    BY <2>1 DEF Taken
  <2>5. QED
    BY <1>2, <2>2, <2>3, <2>4
<1>8. input.end = signInput.end
  BY <1>2 DEF CopyInv
<1>9. QED
  BY <1>1, <1>4, <1>5, <1>6, <1>7, <1>8 DEF SearchInv

\* What was sent, when the pending data was if it had to be.
LEMMA FlushedIs ==
  ASSUME TypeInv, CopyInv, DiffInv, diff.at = "look"
  PROVE  /\ Flushed.sent \in Sendings(old) /\ AllFull(Flushed.sent.ops)
         /\ Flushed.pending \in Nat /\ Flushed.pending <= window /\ window - Flushed.pending < MaxDataOp
         /\ Made(old, Flushed.sent) = SubSeq(Source, 1, Origin + Flushed.pending)
         /\ Found # {} => Flushed.pending = window
         /\ pending = window => Flushed.sent = sent /\ Flushed.pending = window
<1>1. Running /\ SearchInv
  BY DEF Running, DiffInv
<1>2. window \in Nat /\ pending \in Nat /\ pending <= window
  BY <1>1, SearchFacts
<1>3. MaxDataOp \in Nat \ {0}
  BY BlockSizeIs
<1>4. CASE pending < window /\ (Found # {} \/ window - pending >= MaxDataOp)
  <2> DEFINE q == EnqueueData(sent, Slice(pending, window))
  <2>1. q \in Sendings(old) /\ Made(old, q) = SubSeq(Source, 1, Origin + window) /\ AllFull(q.ops)
    BY <1>1, <1>4, FlushIs
  <2>2. Flushed = [sent |-> q, pending |-> window]
    BY <1>4 DEF Flushed
  <2> HIDE DEF q
  <2>3. Flushed.sent = q /\ Flushed.pending = window
    BY <2>2
  <2>4. QED
    BY <1>2, <1>3, <1>4, <2>1, <2>3
<1>5. CASE ~(pending < window /\ (Found # {} \/ window - pending >= MaxDataOp))
  <2>1. Flushed.sent = sent /\ Flushed.pending = pending
    BY <1>5, Zenon DEF Flushed
  <2>2. sent \in Sendings(old) /\ Made(old, sent) = SubSeq(Source, 1, Origin + pending) /\ AllFull(sent.ops)
    BY <1>1 DEF DiffInv, MadeInv, TypeInv, DiffTypes
  <2>3. window - pending < MaxDataOp /\ (Found # {} => pending = window)
    BY <1>2, <1>3, <1>5
  <2>4. QED
    BY <1>2, <2>1, <2>2, <2>3
<1>6. QED
  BY <1>4, <1>5

\* The hash that was rolled is that of the window, when the window is a full one.
LEMMA WeakIs ==
  ASSUME TypeInv, CopyInv, DiffInv, diff.at = "look", ~diff.last
  PROVE  /\ rolling.on => Rolled = WeakHash(Current)
         /\ Weak = WeakHash(Current)
<1>1. /\ Running /\ SearchInv /\ WindowEnd = window + BlockSize /\ window + BlockSize <= validTo
      /\ Current = SubSeq(Source, (Origin + window) + 1, Origin + WindowEnd)
  BY LookIs
<1>2. ASSUME rolling.on PROVE Rolled = WeakHash(Current)
  <2> DEFINE s == BlockSize
             o == Origin
             w == window
             p == o + w - 1
             h == <<rolling.b1, rolling.b2>>
  <2>1. /\ Source \in Seq(Nat) /\ Len(Source) \in Nat /\ o \in Nat /\ w \in Nat /\ validTo \in Nat
        /\ o + validTo <= Len(Source) /\ validTo <= BufLen
        /\ \A i \in 0 .. validTo - 1 : buffer[i] = Source[o + i + 1]
    BY <1>1, SearchFacts
  <2>2. /\ o + w > 0 /\ rolling.pop = Source[o + w]
        /\ h = WeakHash(SubSeq(Source, o + w, o + w + s - 1))
    BY <1>1, <1>2 DEF DiffInv, RollInv
  <2>3. s \in Nat \ {0} /\ w + s <= validTo
    BY <1>1, BlockSizeIs
  <2> HIDE DEF o, w, s
  <2>4. /\ p \in Nat /\ p + 1 = o + w /\ p + s = o + w + s - 1 /\ p + s + 1 = o + (w + s)
        /\ p + s + 1 <= Len(Source) /\ p + 2 = (o + w) + 1
    BY <2>1, <2>2, <2>3
  <2>5. h = WeakHash(SubSeq(Source, p + 1, p + s))
    BY <2>2, <2>4
  <2>6. buffer[w + s - 1] = Source[p + s + 1]
    <3> DEFINE v == validTo
    <3>0. v \in Nat /\ w + s <= v /\ w \in Nat /\ o \in Nat /\ s \in Nat \ {0}
      BY <2>1, <2>3
    <3> HIDE DEF v
    <3>1. w + s - 1 \in 0 .. v - 1 /\ o + (w + s - 1) + 1 = p + s + 1
      BY <3>0
    <3> USE DEF v
    <3>2. buffer[w + s - 1] = Source[o + (w + s - 1) + 1]
      BY <2>1, <3>1
    <3>3. QED
      BY <3>1, <3>2
  <2> HIDE DEF p
  <2>7. LET b == (h[1] - Source[p + 1] + Source[p + s + 1]) % Modulus
        IN WeakHash(SubSeq(Source, p + 2, p + s + 1)) = <<b, (h[2] - s * Source[p + 1] + b) % Modulus>>
    <3> HIDE DEF h
    <3>1. QED
      BY <2>1, <2>4, <2>5, HashSlides DEF s
  <2>8. Current = SubSeq(Source, p + 2, p + s + 1)
    BY <1>1, <2>4 DEF o, w, s
  <2>9. Rolled = LET b == (rolling.b1 - rolling.pop + buffer[w + s - 1]) % Modulus
                 IN <<b, (rolling.b2 - s * rolling.pop + b) % Modulus>>
    <3>1. WindowEnd - 1 = w + s - 1 /\ WindowEnd - window = s
      BY <1>1, <2>1, <2>3 DEF w, s
    <3>2. QED
      BY <3>1 DEF Rolled
  <2>10. h[1] = rolling.b1 /\ h[2] = rolling.b2
    OBVIOUS
  <2>11. rolling.pop = Source[p + 1]
    BY <2>2, <2>4
  <2>12. QED
    BY <2>6, <2>7, <2>8, <2>9, <2>10, <2>11
<1>3. QED
  BY <1>2 DEF Weak

\* What was found is the window.
LEMMA FoundIs ==
  ASSUME TypeInv, CopyInv, DiffInv, diff.at = "look", NEW p \in Found
  PROVE  /\ Range1(p) \in BlockRanges(old) /\ Range1(p).span = 1 /\ Content(old, Range1(p)) = Current
         /\ ShortSize(Current) = (IF diff.last THEN diff.n ELSE 0)
<1>1. p \in FindUniqueHash(Weak, Current, IF diff.last THEN diff.n ELSE 0)
  BY DEF Found
<1>2. Current \in Seq(Nat) /\ old \in Seq(Seq(Nat))
  BY LookIs, OldIs
<1>3. QED
  BY <1>1, <1>2, FindFinds

-----------------------------------------------------------------------------
(* A file that was not touched                                              *)

\* No two blocks of such a file are the same.
LEMMA DistinctBlocks ==
  ASSUME NEW d \in Seq(Nat), Distinct(d),
         NEW i \in 0 .. NumBlocks(Len(d)) - 1, NEW j \in 0 .. NumBlocks(Len(d)) - 1,
         BlockOf(d, i) = BlockOf(d, j)
  PROVE  i = j
<1> DEFINE n == NumBlocks(Len(d))
           f == BlocksOf(d)
           T == {f[k] : k \in DOMAIN f}
<1>1. n \in Nat
  BY NumBlocksType
<1>2. f = [k \in 1 .. n |-> BlockOf(d, k - 1)]
  BY DEF BlocksOf
<1> HIDE DEF n
<1>3. Len(f) = n /\ DOMAIN f = 1 .. n
  BY <1>1, <1>2
<1>4. Cardinality(T) = n
  BY <1>3 DEF Distinct
<1>5. f \in Surjection(1 .. n, T)
  <2> HIDE DEF f
  <2>1. f \in [1 .. n -> T]
    BY <1>2, <1>3
  <2>2. \A t \in T : \E k \in 1 .. n : f[k] = t
    BY <1>3
  <2>3. QED
    BY <2>1, <2>2 DEF Surjection
<1> HIDE DEF f, T
<1>6. IsFiniteSet(1 .. n) /\ Cardinality(1 .. n) = n
  BY <1>1, FS_Interval
<1>7. f \in Injection(1 .. n, T)
  BY <1>4, <1>5, <1>6, FS_Surjection
<1>8. \A a, b \in 1 .. n : f[a] = f[b] => a = b
  BY <1>7 DEF Injection, IsInjective
<1>9. i + 1 \in 1 .. n /\ j + 1 \in 1 .. n /\ (i + 1) - 1 = i /\ (j + 1) - 1 = j
  BY <1>1 DEF n
<1>10. f[i + 1] = BlockOf(d, i) /\ f[j + 1] = BlockOf(d, j)
  BY <1>2, <1>9
<1>11. i + 1 = j + 1
  BY <1>8, <1>9, <1>10
<1>12. QED
  BY <1>11

LEMMA BlocksLen == ASSUME NEW d \in Seq(Nat) PROVE Len(BlocksOf(d)) = NumBlocks(Len(d))
<1>1. NumBlocks(Len(d)) \in Nat
  BY NumBlocksType
<1>2. QED
  BY <1>1 DEF BlocksOf

\* Blocks up to k have been matched.
MatchedTo(k) ==
  /\ k \in Nat /\ Origin + window = k * BlockSize
  /\ sent.prev = IF k = 0 THEN NoOp ELSE RangeOf(preferred, k)
  /\ ~rolling.on /\ pending = window /\ sent.ops = << >>

\* The next window is block k, and that is where it is found.
LEMMA UntouchedFinds ==
  ASSUME TypeInv, CopyInv, DiffInv, diff.at = "look", Untouched(at)
  PROVE  \E k \in 0 .. Len(Source) :
           /\ MatchedTo(k)
           /\ ~diff.last \/ diff.n > 0 =>
                Found = {Position(preferred, k)} /\ k < NumBlocks(Len(Source))
           /\ ~diff.last => (k + 1) * BlockSize <= Len(Source) /\ validTo = window + BlockSize
           /\ diff.last /\ diff.n > 0 => k + 1 = NumBlocks(Len(Source))
           /\ diff.last /\ diff.n = 0 =>
                Found = {} /\ k = NumBlocks(Len(Source)) /\ k > 0 /\ validTo = window
<1>1. /\ Running /\ SearchInv /\ WindowEnd \in Nat /\ window <= WindowEnd /\ WindowEnd <= validTo
      /\ Current = SubSeq(Source, (Origin + window) + 1, Origin + WindowEnd)
      /\ Current \in Seq(Nat) /\ Len(Current) = WindowEnd - window
      /\ ~diff.last => WindowEnd = window + BlockSize
      /\ diff.last => /\ Origin + validTo = Len(Source)
                      /\ diff.n < BlockSize
  BY LookIs
<1>2. /\ at > 0 /\ Source \in Seq(Nat) /\ Len(Source) \in Nat /\ Origin \in Nat /\ window \in Nat
      /\ validTo \in Nat /\ Origin + validTo <= Len(Source) /\ diff.n \in Nat
  BY <1>1, SearchFacts
<1>3. BlockSize \in Nat \ {0}
  BY BlockSizeIs
<1>4. at \in DOMAIN case.new /\ preferred = case.like[at] /\ case.like[at] \in {0} \cup DOMAIN old /\ old \in Seq(Seq(Nat))
  BY <1>2, SourceIs, OldIs
<1>5. Source # << >> /\ preferred \in DOMAIN old /\ Source = old[preferred] /\ Distinct(Source)
  BY <1>4 DEF Untouched, Source
<1>6. PICK k \in 0 .. Len(Source) :
        /\ Origin + window = k * BlockSize
        /\ sent.prev = IF k = 0 THEN NoOp ELSE RangeOf(case.like[at], k)
        /\ ~rolling.on /\ pending = window /\ sent.ops = << >>
        /\ diff.last => validTo = window + diff.n
        /\ ~diff.last => validTo = window + BlockSize
  BY <1>1, <1>2 DEF DiffInv, UntouchedInv
<1>7. MatchedTo(k)
  BY <1>2, <1>4, <1>6 DEF MatchedTo
<1> DEFINE s == BlockSize
           a == k * s
           n == NumBlocks(Len(Source))
           len == Len(Source)
<1>8. a \in Nat /\ (k + 1) * s = a + s /\ k \in Nat /\ len > 0 /\ len \in Nat
  BY <1>2, <1>3, <1>5
<1>9. Found = FindUniqueHash(WeakHash(Current), Current, IF diff.last THEN diff.n ELSE 0)
  BY <1>6 DEF Found, Weak
<1>10. n \in Nat /\ (\A b \in Nat : b < n <=> b * s < len) /\ len \in Nat \ {0}
  BY <1>2, <1>8, BlockStarts, NumBlocksType
<1> DEFINE e == Least(a + s, len)
<1>11. ASSUME Current = SubSeq(Source, a + 1, e), Current # << >>, ShortSize(Current) = (IF diff.last THEN diff.n ELSE 0),
              a < len
       PROVE  Found = {Position(preferred, k)} /\ k < n
  <2>1. Current = BlockOf(Source, k)
    BY <1>8, <1>11 DEF BlockOf
  <2>2. k < n
    BY <1>8, <1>10, <1>11
  <2>3. k \in 0 .. n - 1
    BY <1>8, <1>10, <2>2
  <2>4. \A j \in 0 .. n - 1 : BlockOf(Source, j) = Current => j = k
    BY <1>2, <1>5, <2>1, <2>3, DistinctBlocks
  <2>5. FindUniqueHash(WeakHash(Current), Current, ShortSize(Current)) = {Position(preferred, k)}
    BY <1>4, <1>5, <1>11, <2>1, <2>3, <2>4, FindsPreferred
  <2>6. QED
    BY <1>9, <1>11, <2>2, <2>5
<1> HIDE DEF s, n, len, a
<1>12. CASE ~diff.last
  <2>1. validTo = window + s /\ WindowEnd = window + s /\ Origin + WindowEnd = a + s /\ a + s <= len /\ Len(Current) = s
    BY <1>1, <1>2, <1>3, <1>6, <1>12 DEF s, a, len
  <2>2. e = a + s
    BY <1>3, <1>8, <2>1 DEF s, Least
  <2>3. Current = SubSeq(Source, a + 1, e)
    BY <1>1, <1>6, <2>1, <2>2 DEF a, s
  <2>4. Current # << >> /\ ShortSize(Current) = 0
    <3>1. s % s = 0 /\ s # 0
      <4>1. s \in Nat \ {0} /\ 0 \in 0 .. s - 1 /\ s \in Int /\ s = s * 1 + 0
        BY <1>3 DEF s
      <4>2. QED
        BY <4>1, RemainderUnique
    <3>2. QED
      BY <2>1, <3>1 DEF ShortSize, s
  <2>5. a < len
    BY <1>3, <1>8, <2>1 DEF s
  <2>6. Found = {Position(preferred, k)} /\ k < n
    BY <1>11, <1>12, <2>3, <2>4, <2>5
  <2>7. (k + 1) * s <= len
    BY <1>8, <2>1
  <2>8. QED
    BY <1>7, <1>12, <2>1, <2>6, <2>7 DEF n, s, len
<1>13. CASE diff.last /\ diff.n > 0
  <2> DEFINE g == diff.n
  <2>1. g \in Nat /\ g > 0 /\ g < s /\ validTo = window + g /\ Origin + validTo = len
    BY <1>1, <1>2, <1>6, <1>13 DEF s, len
  <2> HIDE DEF g
  <2>2. len = a + g
    <3>1. Origin + window = a
      BY <1>6 DEF a, s
    <3>2. QED
      BY <1>2, <2>1, <3>1
  <2>3. WindowEnd = validTo
    BY <1>2, <1>3, <2>1 DEF WindowEnd, Least, s
  <2>4. e = len
    BY <1>2, <1>3, <1>8, <2>1, <2>2 DEF Least, s
  <2>5. Current = SubSeq(Source, a + 1, e)
    BY <1>1, <1>6, <2>1, <2>3, <2>4 DEF a, s
  <2>6. Len(Current) = g
    BY <1>1, <1>2, <2>1, <2>3
  <2>7. Current # << >> /\ ShortSize(Current) = g
    <3>1. s \in Nat \ {0} /\ g \in 0 .. s - 1 /\ g \in Int /\ 0 \in Int /\ g = s * 0 + g
      BY <1>3, <2>1 DEF s
    <3>2. g % s = g
      BY <3>1, RemainderUnique
    <3>3. QED
      BY <2>1, <2>6, <3>2 DEF ShortSize, s
  <2>8. Found = {Position(preferred, k)} /\ k < n
    <3>1. a < len
      BY <1>8, <2>1, <2>2
    <3>2. ShortSize(Current) = IF diff.last THEN diff.n ELSE 0
      BY <1>13, <2>7 DEF g
    <3>3. QED
      BY <1>11, <2>5, <2>7, <3>1, <3>2
  <2>9. k + 1 = n
    <3>1. ~((k + 1) * s < len)
      BY <1>3, <1>8, <2>1, <2>2 DEF s
    <3>2. ~(k + 1 < n)
      BY <1>8, <1>10, <3>1
    <3>3. QED
      BY <1>8, <1>10, <2>8, <3>2
  <2>10. QED
    BY <1>7, <1>13, <2>8, <2>9 DEF n
<1>14. CASE diff.last /\ diff.n = 0
  <2>1. validTo = window /\ Origin + validTo = len /\ len = a
    BY <1>1, <1>2, <1>6, <1>14 DEF s, a, len
  <2>2. WindowEnd = window
    BY <1>1, <1>2, <2>1
  <2>3. Current = << >>
    BY <1>1, <1>2, <2>2
  <2>4. Found = {}
    BY <1>9, <2>3, FindIs
  <2>5. k > 0
    BY <1>3, <1>8, <2>1 DEF a, s
  <2>6. k = n
    <3>1. ~(k < n)
      BY <1>8, <1>10, <2>1 DEF a
    <3>2. k - 1 \in Nat /\ (k - 1) * s < len
      <4>1. k - 1 \in Nat /\ s \in Nat \ {0}
        BY <1>3, <1>8, <2>5 DEF s
      <4>2. (k - 1) * s = k * s - s
        BY <1>8, <4>1
      <4>3. (k - 1) * s = len - s
        BY <2>1, <4>2 DEF a
      <4>4. QED
        BY <1>8, <4>1, <4>3
    <3>3. k - 1 < n
      BY <1>10, <3>2
    <3>4. QED
      BY <1>8, <1>10, <3>1, <3>3
  <2>7. QED
    BY <1>7, <1>14, <2>1, <2>4, <2>5, <2>6 DEF n
<1>15. QED
  BY <1>2, <1>12, <1>13, <1>14

\* The range grows by that block.
LEMMA MatchGrows ==
  ASSUME old \in Seq(Seq(Nat)), NEW q \in Sendings(old), NEW k \in Nat, q.ops = << >>,
         q.prev = IF k = 0 THEN NoOp ELSE RangeOf(preferred, k)
  PROVE  LET t == EnqueueRange(q, Range1(Position(preferred, k)))
         IN t.ops = << >> /\ t.prev = RangeOf(preferred, k + 1)
<1> DEFINE r == Range1(Position(preferred, k))
           t == EnqueueRange(q, r)
<1>1. r = [type |-> "range", file |-> preferred, block |-> k, span |-> 1]
  BY DEF Range1, Position
<1>2. q = [prev |-> q.prev, ops |-> << >>]
  BY SendingIs
<1>3. CASE k = 0
  <2>1. q.prev = NoOp
    BY <1>3
  <2>2. ~Adjoins(q.prev, r) /\ SendPrev(q) = q
    BY <2>1 DEF Adjoins, SendPrev
  <2>3. t = [q EXCEPT !.prev = r]
    BY <2>2 DEF EnqueueRange
  <2> HIDE DEF r, t
  <2>4. t = [prev |-> r, ops |-> << >>]
    BY <1>2, <2>3
  <2>5. QED
    BY <1>1, <1>3, <2>4 DEF RangeOf, t, r
<1>4. CASE k # 0
  <2> DEFINE p == RangeOf(preferred, k)
  <2>1. q.prev = p /\ p = [type |-> "range", file |-> preferred, block |-> 0, span |-> k]
    BY <1>4 DEF RangeOf
  <2>2. p # NoOp
    <3>1. p.type = "range" /\ NoOp.type = "none"
      BY <2>1 DEF NoOp
    <3>2. QED
      BY <3>1
  <2>3. Adjoins(q.prev, r)
    <3>1. r.file = preferred /\ r.block = k /\ p.file = preferred /\ p.block = 0 /\ p.span = k
      BY <1>1, <2>1
    <3> HIDE DEF r, p
    <3>2. QED
      BY <2>1, <2>2, <3>1 DEF Adjoins
  <2>4. t = [q EXCEPT !.prev.span = @ + 1]
    BY <2>3 DEF EnqueueRange
  <2> HIDE DEF r, t, p
  <2>5. t = [prev |-> [p EXCEPT !.span = @ + 1], ops |-> << >>]
    BY <1>2, <2>1, <2>4
  <2>6. [p EXCEPT !.span = @ + 1] = RangeOf(preferred, k + 1)
    BY <2>1 DEF RangeOf
  <2>7. QED
    BY <2>5, <2>6 DEF t, r
<1>5. QED
  BY <1>3, <1>4

-----------------------------------------------------------------------------
(* The steps that look up                                                   *)

LEMMA LookSlideStep ==
  ASSUME TypeInv, CopyInv, DiffInv, UNCHANGED Rest, LookSlide
  PROVE  DiffTypes' /\ CopyInv' /\ DiffInv' /\ DiffedInv'
<1>1. /\ diff.at = "look" /\ Found = {} /\ ~diff.last
      /\ sent' = Flushed.sent /\ pending' = Flushed.pending
      /\ rolling' = [on |-> TRUE, b1 |-> Weak[1], b2 |-> Weak[2], pop |-> buffer[window]]
      /\ window' = window + 1
      /\ diff' = [diff EXCEPT !.at = "extend"]
      /\ input' = input /\ buffer' = buffer /\ validTo' = validTo
  BY DEF LookSlide
<1>2. /\ Running /\ SearchInv /\ WindowEnd = window + BlockSize /\ window + BlockSize <= validTo
      /\ Current = SubSeq(Source, (Origin + window) + 1, Origin + WindowEnd)
      /\ Current \in Seq(Nat)
  BY <1>1, LookIs
<1>3. /\ Source \in Seq(Nat) /\ Len(Source) \in Nat /\ Origin \in Nat /\ validTo \in Nat /\ window \in Nat
      /\ validTo <= BufLen /\ window <= validTo /\ buffer \in [0 .. BufLen - 1 -> Nat]
      /\ \A i \in 0 .. validTo - 1 : buffer[i] = Source[Origin + i + 1]
  BY <1>2, SearchFacts
<1>4. BlockSize \in Nat \ {0} /\ MaxDataOp \in Nat \ {0} /\ BufLen \in Nat
  BY BlockSizeIs, BufLenHolds DEF BufLenIs
<1>5. /\ Flushed.sent \in Sendings(old) /\ AllFull(Flushed.sent.ops)
      /\ Flushed.pending \in Nat /\ Flushed.pending <= window /\ window - Flushed.pending < MaxDataOp
      /\ Made(old, Flushed.sent) = SubSeq(Source, 1, Origin + Flushed.pending)
  BY <1>1, FlushedIs
<1>6. diff \in [at : {"over", "extend", "read", "look", "nil", "failed"}, n : Nat, last : BOOLEAN]
  BY DEF TypeInv, DiffTypes
<1>7. diff'.at = "extend" /\ diff' = [diff EXCEPT !.at = diff'.at]
  BY <1>1, <1>6
<1>8. Weak = WeakHash(Current)
  BY <1>1, WeakIs
<1>9. Weak = <<Weak[1], Weak[2]>> /\ Weak[1] \in Int /\ Weak[2] \in Int
  <2>1. /\ SumOf(Current) \in Int /\ SumOf(Weighted(Current)) \in Int
        /\ Weak = <<SumOf(Current) % Modulus, SumOf(Weighted(Current)) % Modulus>>
    BY <1>2, <1>8, HashIs
  <2>2. SumOf(Current) % Modulus \in Int /\ SumOf(Weighted(Current)) % Modulus \in Int
    <3> DEFINE x == SumOf(Current)
               y == SumOf(Weighted(Current))
    <3>1. x \in Int /\ y \in Int /\ Modulus \in Nat \ {0}
      BY <2>1, BlockSizeIs
    <3> HIDE DEF x, y
    <3>2. x % Modulus \in 0 .. Modulus - 1 /\ y % Modulus \in 0 .. Modulus - 1
      BY <3>1, RemainderIs
    <3>3. x % Modulus \in Int /\ y % Modulus \in Int
      BY <3>1, <3>2
    <3>4. QED
      BY <3>3 DEF x, y
  <2>3. QED
    BY <2>1, <2>2
<1>10. buffer[window] \in Nat /\ buffer[window] = Source[(Origin + window) + 1]
  <2>1. window \in 0 .. validTo - 1 /\ window \in 0 .. BufLen - 1
    BY <1>2, <1>3, <1>4
  <2>2. QED
    BY <1>3, <2>1
<1>11. DiffTypes' /\ diff'.n = diff.n /\ diff'.last = diff.last
  <2>1. rolling' \in [on : BOOLEAN, b1 : Int, b2 : Int, pop : Nat]
    BY <1>1, <1>9, <1>10
  <2>2. window' \in Nat /\ pending' \in Nat
    BY <1>1, <1>3, <1>5, SMTT(60)
  <2>3. QED
    BY <1>1, <1>5, <1>7, <2>1, <2>2, EndTypes
<1>12. Running' /\ ~diff'.last
  BY <1>1, <1>7, <1>11 DEF Running
<1>13. /\ CopyInv' /\ Origin' = Origin /\ Source' = Source /\ at' > 0
       /\ Buffered(Source, Origin, buffer, validTo)' /\ old' = old
  BY <1>1, <1>2, <1>11, <1>12, SearchGoesOn
<1>14. SearchInv'
  <2>1. pending' <= window' /\ window' <= validTo' /\ window' - pending' <= MaxDataOp
    <3> DEFINE f == Flushed.pending
               w == window
               v == validTo
               s == BlockSize
               m == MaxDataOp
    <3>1. /\ f \in Nat /\ w \in Nat /\ v \in Nat /\ s \in Nat \ {0} /\ m \in Nat
          /\ f <= w /\ w - f < m /\ w + s <= v
      BY <1>2, <1>3, <1>4, <1>5
    <3>2. pending' = f /\ window' = w + 1 /\ validTo' = v
      BY <1>1
    <3> HIDE DEF f, w, v, s, m
    <3>3. f <= w + 1 /\ w + 1 <= v /\ (w + 1) - f <= m
      BY <3>1
    <3>4. QED
      BY <3>2, <3>3 DEF m
  <2>2. QED
    BY <1>7, <1>12, <1>13, <2>1 DEF SearchInv
<1>15. MadeInv'
  BY <1>1, <1>5, <1>13 DEF MadeInv
<1>16. RollInv'
  <2> DEFINE p == Origin + window + 1
  <2>1. p > 0 /\ Origin' + window' = p /\ window' + BlockSize <= validTo' + 1
    <3> DEFINE o == Origin
               w == window
               v == validTo
               s == BlockSize
    <3>1. o \in Nat /\ w \in Nat /\ v \in Nat /\ s \in Nat \ {0} /\ w + s <= v /\ p = o + w + 1
      BY <1>2, <1>3, <1>4
    <3>2. Origin' = o /\ window' = w + 1 /\ validTo' = v
      BY <1>1, <1>13
    <3> HIDE DEF o, w, v, s, p
    <3>3. p > 0 /\ o + (w + 1) = p /\ (w + 1) + s <= v + 1
      BY <3>1
    <3>4. QED
      BY <3>2, <3>3 DEF s
  <2>2. <<rolling'.b1, rolling'.b2>> = WeakHash(Current) /\ rolling'.pop = Source[p]
    BY <1>1, <1>8, <1>9, <1>10
  <2>3. Current = SubSeq(Source, p, p + BlockSize - 1)
    <3>1. p = (Origin + window) + 1 /\ p + BlockSize - 1 = Origin + WindowEnd
      BY <1>2, <1>3, <1>4
    <3>2. QED
      BY <1>2, <3>1
  <2> HIDE DEF p
  <2>4. QED
    BY <1>13, <2>1, <2>2, <2>3 DEF RollInv
<1>17. ~Untouched(at)'
  <2>1. Untouched(at)' <=> Untouched(at)
    BY RestIs
  <2>2. ~Untouched(at)
    BY <1>1, UntouchedFinds
  <2>3. QED
    BY <2>1, <2>2
<1>18. UntouchedInv'
  BY <1>17 DEF UntouchedInv
<1>19. DiffedInv'
  BY <1>7, SMTT(60) DEF DiffedInv
<1>20. QED
  BY <1>11, <1>13, <1>14, <1>15, <1>16, <1>18, <1>19 DEF DiffInv

\* The end of the file, after all that was read before it.
LEMMA RestOfFile ==
  ASSUME NEW d \in Seq(Nat), NEW m \in 0 .. Len(d), NEW t, t = SubSeq(d, m + 1, Len(d)),
         NEW u, u = SubSeq(d, 1, m)
  PROVE  u \o t = d
<1> DEFINE n == Len(d)
<1>1. n \in Nat /\ n \in m .. n /\ m \in 0 .. n
  OBVIOUS
<1>2. SubSeq(d, 1, m) \o SubSeq(d, m + 1, n) = SubSeq(d, 1, n)
  BY <1>1, PrefixJoin
<1>3. SubSeq(d, 1, n) = d
  OBVIOUS
<1>4. QED
  BY <1>2, <1>3

LEMMA LookLastStep ==
  ASSUME TypeInv, CopyInv, DiffInv, UNCHANGED Rest, LookLast
  PROVE  DiffTypes' /\ CopyInv' /\ DiffInv' /\ DiffedInv'
<1> DEFINE b == Flushed.pending
           d == Slice(b, validTo)
           q == EnqueueData(Flushed.sent, d)
<1>1. /\ diff.at = "look" /\ Found = {} /\ diff.last /\ End(q, "nil")
      /\ pending' = b /\ input' = input /\ buffer' = buffer /\ validTo' = validTo
      /\ window' = window /\ rolling' = rolling
  BY DEF LookLast
<1>2. /\ Running /\ SearchInv /\ input.end = "eof" /\ Origin + validTo = Len(Source)
      /\ diff.n < BlockSize /\ validTo - diff.n < window + BlockSize
  BY <1>1, LookIs
<1>3. /\ Source \in Seq(Nat) /\ Len(Source) \in Nat /\ Origin \in Nat /\ validTo \in Nat /\ window \in Nat
      /\ window <= validTo /\ diff.n \in Nat
  BY <1>2, SearchFacts
<1>4. BlockSize \in Nat \ {0} /\ MaxDataOp \in Nat \ {0}
  BY BlockSizeIs
<1>5. /\ Flushed.sent \in Sendings(old) /\ AllFull(Flushed.sent.ops)
      /\ b \in Nat /\ b <= window /\ window - b < MaxDataOp
      /\ Made(old, Flushed.sent) = SubSeq(Source, 1, Origin + b)
      /\ pending = window => Flushed.sent = sent /\ b = window
  BY <1>1, FlushedIs
<1>6. diff \in [at : {"over", "extend", "read", "look", "nil", "failed"}, n : Nat, last : BOOLEAN]
  BY DEF TypeInv, DiffTypes
<1>7. old \in Seq(Seq(Nat))
  BY OldIs
<1> HIDE DEF b
<1>8. d = SubSeq(Source, (Origin + b) + 1, Origin + validTo) /\ d \in Seq(Nat) /\ Len(d) = validTo - b
  <2>1. b \in Nat /\ validTo \in Nat /\ b <= validTo
    BY <1>3, <1>5
  <2>2. PICK a \in Nat : a = b
    BY <2>1
  <2>3. /\ Slice(a, validTo) = SubSeq(Source, (Origin + a) + 1, Origin + validTo)
        /\ Slice(a, validTo) \in Seq(Nat) /\ Len(Slice(a, validTo)) = validTo - a
    <3>1. Running /\ SearchInv /\ a <= validTo /\ validTo \in Nat
      BY <1>2, <2>1, <2>2
    <3>2. QED
      BY <3>1, SliceIs
  <2>4. QED
    BY <2>2, <2>3
<1> HIDE DEF d, q
<1>9. q \in Sendings(old) /\ q.prev = NoOp /\ Made(old, q) = Made(old, Flushed.sent) \o d
  BY <1>5, <1>7, <1>8, EnqueueDataIs DEF q
<1>10. Made(old, q) = Source
  <2> DEFINE m == Origin + b
  <2>1. m \in 0 .. Len(Source) /\ d = SubSeq(Source, m + 1, Len(Source)) /\ Made(old, Flushed.sent) = SubSeq(Source, 1, m)
    <3>1. m \in Nat /\ m <= Origin + validTo
      BY <1>3, <1>5
    <3>2. m \in 0 .. Len(Source)
      BY <1>2, <1>3, <3>1
    <3>3. d = SubSeq(Source, m + 1, Len(Source))
      BY <1>2, <1>8
    <3>4. QED
      BY <1>5, <3>2, <3>3
  <2> HIDE DEF m
  <2>2. Made(old, Flushed.sent) \o d = Source
    BY <1>3, <2>1, RestOfFile
  <2>3. QED
    BY <1>9, <2>2
<1>11. sent' = q /\ diff'.at = "nil" /\ diff' = [diff EXCEPT !.at = diff'.at]
  <2>1. SendPrev(q) = q
    BY <1>9 DEF SendPrev
  <2>2. sent' = q /\ diff' = [diff EXCEPT !.at = "nil"]
    BY <1>1, <1>9, <2>1 DEF End
  <2>3. QED
    BY <1>6, <2>2
<1>12. DiffTypes'
  <2>1. window \in Nat /\ rolling \in [on : BOOLEAN, b1 : Int, b2 : Int, pop : Nat]
    BY DEF TypeInv, DiffTypes
  <2>2. QED
    BY <1>1, <1>5, <1>9, <1>11, <2>1, EndTypes
<1>13. Contents(old, q.ops) = Source
  BY <1>7, <1>9, <1>10, MadeIs
<1>14. Bounded(q.ops, Source)
  <2>1. Len(d) <= MaxDataOp + (2 * BlockSize - 1)
    BY <1>2, <1>3, <1>4, <1>5, <1>8, SMTT(60)
  <2>2. d = << >> /\ Made(old, Flushed.sent) = << >> => Source = << >>
    <3>1. << >> \o << >> = << >>
      OBVIOUS
    <3>2. QED
      BY <1>9, <1>10, <3>1
  <2>3. QED
    BY <1>5, <1>7, <1>8, <2>1, <2>2, EnqueueLastIs DEF q
<1>15. ASSUME Untouched(at) PROVE q.ops = <<RangeOf(case.like[at], Len(BlocksOf(Source)))>>
  <2>1. PICK k \in 0 .. Len(Source) :
          /\ MatchedTo(k)
          /\ diff.last /\ diff.n > 0 => Found = {Position(preferred, k)}
          /\ diff.last /\ diff.n = 0 => k = NumBlocks(Len(Source)) /\ k > 0 /\ validTo = window
    BY <1>1, <1>15, UntouchedFinds
  <2>2. diff.n = 0
    BY <1>1, <1>3, <2>1
  <2>3. k = NumBlocks(Len(Source)) /\ k > 0 /\ validTo = window
    BY <1>1, <2>1, <2>2
  <2>4. sent.prev = RangeOf(preferred, k) /\ pending = window /\ sent.ops = << >>
    BY <2>1, <2>3 DEF MatchedTo
  <2>5. Flushed.sent = sent /\ d = << >>
    BY <1>3, <1>5, <1>8, <2>3, <2>4
  <2>6. sent.prev # NoOp
    BY <2>4 DEF RangeOf, NoOp
  <2>7. SendPrev(sent).ops = <<RangeOf(preferred, k)>> /\ SendPrev(sent) \in Sendings(old)
    <3>1. SendPrev(sent).ops = Append(sent.ops, sent.prev) /\ SendPrev(sent) \in Sendings(old)
      BY <1>5, <1>7, <2>5, <2>6, SendPrevIs
    <3>2. QED
      BY <2>4, <3>1
  <2>8. q.ops = SendPrev(sent).ops
    <3>1. q = Send(SendPrev(sent), DataOp(d))
      BY <2>5 DEF q, EnqueueData
    <3>2. DataOp(d).type = "data" /\ DataOp(d).data = << >>
      BY <2>5 DEF DataOp
    <3>3. SendPrev(sent).ops # << >>
      BY <2>7
    <3>4. QED
      BY <3>1, <3>2, <3>3 DEF Send
  <2>9. case.like[at] = preferred /\ Len(BlocksOf(Source)) = k
    BY <1>2, <1>3, <2>3, SearchFacts, SourceIs, BlocksLen, SMTT(60)
  <2>10. QED
    BY <2>7, <2>8, <2>9
<1>16. SentAll(q)
  BY <1>2, <1>13, <1>14, <1>15 DEF SentAll
<1>17. QED
  BY <1>1, <1>11, <1>12, <1>16, SearchEnds

LEMMA LookFoundStep ==
  ASSUME TypeInv, CopyInv, DiffInv, UNCHANGED Rest, LookFound
  PROVE  DiffTypes' /\ CopyInv' /\ DiffInv' /\ DiffedInv'
<1>1. PICK p \in Found :
        LET q == EnqueueRange(Flushed.sent, Range1(p))
        IN IF diff.last THEN End(q, "nil") ELSE sent' = q /\ diff' = [diff EXCEPT !.at = "extend"]
  BY DEF LookFound
<1> DEFINE q == EnqueueRange(Flushed.sent, Range1(p))
<1>2. /\ diff.at = "look" /\ Found # {}
      /\ window' = window + BlockSize /\ pending' = window + BlockSize
      /\ rolling' = [rolling EXCEPT !.on = FALSE]
      /\ input' = input /\ buffer' = buffer /\ validTo' = validTo
      /\ diff.last => End(q, "nil")
      /\ ~diff.last => sent' = q /\ diff' = [diff EXCEPT !.at = "extend"]
  BY <1>1 DEF LookFound
<1>3. /\ Running /\ SearchInv
      /\ WindowEnd \in Nat /\ window <= WindowEnd /\ WindowEnd <= validTo
      /\ Current = SubSeq(Source, (Origin + window) + 1, Origin + WindowEnd)
      /\ Current \in Seq(Nat) /\ Len(Current) = WindowEnd - window
      /\ ~diff.last => WindowEnd = window + BlockSize /\ window + BlockSize <= validTo
      /\ diff.last =>
           /\ input.end = "eof" /\ Origin + validTo = Len(Source)
           /\ diff.n < BlockSize /\ diff.n <= validTo - window /\ validTo - diff.n < window + BlockSize
  BY <1>2, LookIs
<1>4. /\ Source \in Seq(Nat) /\ Len(Source) \in Nat /\ Origin \in Nat /\ validTo \in Nat /\ window \in Nat
      /\ Origin + validTo <= Len(Source) /\ diff.n \in Nat
  BY <1>3, SearchFacts
<1>5. BlockSize \in Nat \ {0} /\ MaxDataOp \in Nat \ {0} /\ old \in Seq(Seq(Nat))
  BY BlockSizeIs, OldIs
<1>6. /\ Flushed.sent \in Sendings(old) /\ AllFull(Flushed.sent.ops) /\ Flushed.pending = window
      /\ Made(old, Flushed.sent) = SubSeq(Source, 1, Origin + window)
      /\ pending = window => Flushed.sent = sent
  BY <1>2, FlushedIs
<1>7. /\ Range1(p) \in BlockRanges(old) /\ Range1(p).span = 1 /\ Content(old, Range1(p)) = Current
      /\ ShortSize(Current) = (IF diff.last THEN diff.n ELSE 0)
  BY <1>2, FoundIs
<1>8. /\ q \in Sendings(old) /\ q.prev # NoOp /\ AllFull(q.ops)
      /\ Made(old, q) = SubSeq(Source, 1, Origin + window) \o Current
  BY <1>5, <1>6, <1>7, EnqueueRangeIs
<1>9. Made(old, q) = SubSeq(Source, 1, Origin + WindowEnd)
  <2> DEFINE a == Origin + window
             b == Origin + WindowEnd
  <2>1. a \in 0 .. Len(Source) /\ b \in a .. Len(Source)
    BY <1>3, <1>4
  <2> HIDE DEF a, b, q
  <2>2. SubSeq(Source, 1, a) \o SubSeq(Source, a + 1, b) = SubSeq(Source, 1, b)
    BY <1>4, <2>1, PrefixJoin, SMTT(60)
  <2>3. QED
    BY <1>3, <1>8, <2>2 DEF a, b
<1>10. ASSUME Untouched(at)
       PROVE  \E k \in 0 .. Len(Source) :
                /\ MatchedTo(k) /\ k < NumBlocks(Len(Source))
                /\ q.ops = << >> /\ q.prev = RangeOf(preferred, k + 1)
                /\ ~diff.last => (k + 1) * BlockSize <= Len(Source) /\ validTo = window + BlockSize
                /\ diff.last => k + 1 = NumBlocks(Len(Source))
  <2>1. PICK k \in 0 .. Len(Source) :
          /\ MatchedTo(k)
          /\ ~diff.last \/ diff.n > 0 => Found = {Position(preferred, k)} /\ k < NumBlocks(Len(Source))
          /\ ~diff.last => (k + 1) * BlockSize <= Len(Source) /\ validTo = window + BlockSize
          /\ diff.last /\ diff.n > 0 => k + 1 = NumBlocks(Len(Source))
          /\ diff.last /\ diff.n = 0 => Found = {}
    BY <1>2, <1>10, UntouchedFinds
  <2>2. ~diff.last \/ diff.n > 0
    BY <1>2, <1>4, <2>1
  <2>3. p = Position(preferred, k)
    BY <2>1, <2>2
  <2>4. k \in Nat /\ sent.ops = << >> /\ sent.prev = (IF k = 0 THEN NoOp ELSE RangeOf(preferred, k)) /\ Flushed.sent = sent
    BY <1>6, <2>1 DEF MatchedTo
  <2>5. q.ops = << >> /\ q.prev = RangeOf(preferred, k + 1)
    BY <1>5, <1>6, <2>3, <2>4, MatchGrows
  <2> HIDE DEF q
  <2>6. QED
    BY <2>1, <2>2, <2>5
<1> HIDE DEF q
<1>11. diff \in [at : {"over", "extend", "read", "look", "nil", "failed"}, n : Nat, last : BOOLEAN]
  BY DEF TypeInv, DiffTypes
<1>12. /\ window' \in Nat /\ pending' \in Nat
       /\ rolling' \in [on : BOOLEAN, b1 : Int, b2 : Int, pop : Nat] /\ ~rolling'.on
  <2>1. rolling \in [on : BOOLEAN, b1 : Int, b2 : Int, pop : Nat]
    BY DEF TypeInv, DiffTypes
  <2>2. rolling' = [on |-> FALSE, b1 |-> rolling.b1, b2 |-> rolling.b2, pop |-> rolling.pop]
    BY <1>2, <2>1
  <2>3. window' \in Nat /\ pending' \in Nat
    BY <1>2, <1>4, <1>5
  <2>4. QED
    BY <2>1, <2>2, <2>3
<1>13. CASE ~diff.last
  <2>1. sent' = q /\ diff'.at = "extend" /\ diff' = [diff EXCEPT !.at = diff'.at]
    BY <1>2, <1>11, <1>13
  <2>2. DiffTypes' /\ diff'.n = diff.n /\ diff'.last = diff.last
    BY <1>2, <1>8, <1>12, <2>1, EndTypes
  <2>3. Running' /\ ~diff'.last
    BY <1>13, <2>1, <2>2 DEF Running
  <2>4. /\ CopyInv' /\ Origin' = Origin /\ Source' = Source /\ at' > 0
        /\ Buffered(Source, Origin, buffer, validTo)' /\ old' = old
    BY <1>2, <1>3, <2>2, <2>3, SearchGoesOn
  <2>5. SearchInv'
    <3>1. pending' <= window' /\ window' <= validTo' /\ window' - pending' <= MaxDataOp
      <4> DEFINE w == window
                 v == validTo
                 s == BlockSize
      <4>1. w \in Nat /\ v \in Nat /\ s \in Nat \ {0} /\ w + s <= v /\ MaxDataOp \in Nat
        BY <1>3, <1>4, <1>5, <1>13
      <4>2. window' = w + s /\ pending' = w + s /\ validTo' = v
        BY <1>2
      <4> HIDE DEF w, v, s
      <4>3. w + s <= w + s /\ w + s <= v /\ (w + s) - (w + s) <= MaxDataOp
        BY <4>1
      <4>4. QED
        BY <4>2, <4>3
    <3>2. QED
      BY <2>1, <2>3, <2>4, <3>1 DEF SearchInv
  <2>6. MadeInv'
    <3>1. Origin' + pending' = Origin + WindowEnd
      BY <1>2, <1>3, <1>13, <2>4
    <3>2. QED
      BY <1>8, <1>9, <2>1, <2>4, <3>1 DEF MadeInv
  <2>7. RollInv'
    BY <1>12 DEF RollInv
  <2>8. UntouchedInv'
    <3>1. (Untouched(at)' <=> Untouched(at)) /\ case' = case /\ at' = at /\ preferred' = preferred
      BY RestIs
    <3>2. CASE Untouched(at)
      <4>1. PICK k \in 0 .. Len(Source) :
              /\ MatchedTo(k)
              /\ q.ops = << >> /\ q.prev = RangeOf(preferred, k + 1)
              /\ (k + 1) * BlockSize <= Len(Source) /\ validTo = window + BlockSize
        BY <1>10, <1>13, <3>2
      <4>2. k \in Nat /\ Origin + window = k * BlockSize
        BY <4>1 DEF MatchedTo
      <4>3. k + 1 \in 0 .. Len(Source) /\ k + 1 # 0
        <5> DEFINE s == BlockSize
                   x == (k + 1) * s
        <5>1. x <= Len(Source) /\ x >= k + 1 /\ x \in Nat
          <6>1. k + 1 \in Nat /\ s - 1 \in Nat
            BY <1>5, <4>2
          <6>2. (k + 1) * (s - 1) \in Nat
            BY <6>1
          <6>3. (k + 1) * s = (k + 1) * (s - 1) + (k + 1)
            BY <1>5, <6>1
          <6>4. QED
            BY <4>1, <6>1, <6>2, <6>3
        <5> HIDE DEF x
        <5>2. QED
          BY <1>4, <4>2, <5>1
      <4>4. Origin' + window' = (k + 1) * BlockSize
        <5>1. (k + 1) * BlockSize = k * BlockSize + BlockSize /\ k * BlockSize \in Nat
          BY <1>5, <4>2
        <5>2. QED
          BY <1>2, <1>4, <1>5, <2>4, <4>2, <5>1
      <4>5. case'.like[at'] = preferred
        BY <1>3, <3>1, SearchFacts, SourceIs
      <4>6. \E j \in 0 .. Len(Source') :
              /\ Origin' + window' = j * BlockSize
              /\ sent'.prev = IF j = 0 THEN NoOp ELSE RangeOf(case'.like[at'], j)
        BY <2>1, <2>4, <4>1, <4>3, <4>4, <4>5
      <4>7. pending' = window' /\ sent'.ops = << >> /\ validTo' = window'
        BY <1>2, <2>1, <4>1
      <4>8. QED
        BY <1>12, <2>1, <2>3, <4>6, <4>7 DEF UntouchedInv
    <3>3. CASE ~Untouched(at)
      BY <3>1, <3>3 DEF UntouchedInv
    <3>4. QED
      BY <3>2, <3>3
  <2>9. DiffedInv'
    BY <2>1 DEF DiffedInv
  <2>10. QED
    BY <2>2, <2>4, <2>5, <2>6, <2>7, <2>8, <2>9 DEF DiffInv
<1>14. CASE diff.last
  <2> DEFINE t == SendPrev(q)
  <2>1. sent' = t /\ diff'.at = "nil" /\ diff' = [diff EXCEPT !.at = diff'.at]
    <3>1. sent' = t /\ diff' = [diff EXCEPT !.at = "nil"]
      BY <1>2, <1>8, <1>14 DEF End
    <3>2. QED
      BY <1>11, <3>1
  <2>2. /\ t \in Sendings(old) /\ t.ops = Append(q.ops, q.prev) /\ AllFull(t.ops)
        /\ Contents(old, t.ops) = Made(old, q)
    BY <1>5, <1>8, SendPrevIs
  <2> HIDE DEF t
  <2>3. DiffTypes'
    BY <1>2, <1>12, <2>1, <2>2, EndTypes
  <2>4. WindowEnd = validTo
    <3> DEFINE s == BlockSize
               g == diff.n
               v == validTo
               w == window
    <3>1. /\ s \in Nat \ {0} /\ g \in Nat /\ v \in Nat /\ w \in Nat
          /\ g < s /\ g <= v - w /\ v - g < w + s /\ w <= v
      BY <1>3, <1>4, <1>5, <1>14
    <3> HIDE DEF s, g, v, w
    <3>2. CASE w + s < v
      <4>1. WindowEnd = w + s /\ Len(Current) = s
        BY <1>3, <3>1, <3>2, SMTT(60) DEF WindowEnd, Least, s, w, v
      <4>2. s % s = 0
        <5>1. s \in Nat \ {0} /\ 0 \in 0 .. s - 1 /\ s \in Int /\ 1 \in Int /\ s = s * 1 + 0
          BY <3>1
        <5>2. QED
          BY <5>1, RemainderUnique
      <4>3. g = 0
        BY <1>7, <1>14, <4>1, <4>2 DEF ShortSize, s, g
      <4>4. QED
        BY <3>1, <3>2, <4>3
    <3>3. CASE ~(w + s < v)
      BY <3>1, <3>3 DEF WindowEnd, Least, s, w, v
    <3>4. QED
      BY <3>2, <3>3
  <2>5. Contents(old, t.ops) = Source
    <3>1. SubSeq(Source, 1, Len(Source)) = Source
      BY <1>4
    <3>2. QED
      BY <1>3, <1>9, <1>14, <2>2, <2>4, <3>1
  <2>6. Bounded(t.ops, Source)
    <3>1. t.ops \in Seq(Ops(old))
      BY <2>2, SendingIs
    <3>2. \A i \in DOMAIN t.ops : t.ops[i].type = "data" => Len(t.ops[i].data) \in Nat
      <4>1. \A i \in DOMAIN t.ops : t.ops[i] \in Ops(old)
        BY <3>1
      <4>2. QED
        BY <4>1 DEF Ops, DataOps, BlockRanges
    <3>3. QED
      BY <1>5, <2>2, <3>2, SMTT(60) DEF Bounded, AllFull
  <2>7. ASSUME Untouched(at) PROVE t.ops = <<RangeOf(case.like[at], Len(BlocksOf(Source)))>>
    <3>1. PICK k \in 0 .. Len(Source) :
            q.ops = << >> /\ q.prev = RangeOf(preferred, k + 1) /\ k + 1 = NumBlocks(Len(Source))
      BY <1>10, <1>14, <2>7
    <3>2. case.like[at] = preferred /\ Len(BlocksOf(Source)) = k + 1
      BY <1>3, <1>4, <3>1, SearchFacts, SourceIs, BlocksLen
    <3>3. Append(q.ops, q.prev) = <<q.prev>>
      BY <3>1
    <3>4. QED
      BY <2>2, <3>1, <3>2, <3>3
  <2>8. SentAll(t)
    BY <1>3, <1>14, <2>5, <2>6, <2>7 DEF SentAll
  <2>9. QED
    BY <1>2, <2>1, <2>3, <2>8, SearchEnds
<1>15. QED
  BY <1>13, <1>14

-----------------------------------------------------------------------------
(* The tasks                                                                *)

LEMMA DifferSearches ==
  ASSUME TypeInv, CopyInv, DiffInv, Differ
  PROVE  /\ DiffTypes' /\ CopyInv' /\ DiffInv' /\ DiffedInv'
         /\ Running /\ diff'.at \in {"extend", "read", "look", "nil", "failed"}
<1>1. UNCHANGED Rest
  BY DEF Differ, group, signing, Rest
<1>2. diff \in [at : {"over", "extend", "read", "look", "nil", "failed"}, n : Nat, last : BOOLEAN]
  BY DEF TypeInv, DiffTypes
<1> DEFINE R == {"extend", "read", "look", "nil", "failed"}
<1>3. CASE Extend
  <2>1. CASE window + BlockSize <= validTo
    <3>1. /\ diff.at = "extend" /\ diff' = [diff EXCEPT !.at = "look"]
          /\ UNCHANGED <<input, buffer, validTo, window, pending, sent, rolling>>
      BY <1>3, <2>1 DEF Extend
    <3>2. diff'.at = "look"
      BY <1>2, <3>1
    <3>3. QED
      BY <1>1, <2>1, <3>1, <3>2, ExtendStays DEF Running
  <2>2. CASE ~(window + BlockSize <= validTo)
    <3>1. /\ diff.at = "extend" /\ diff' = [diff EXCEPT !.at = "read", !.n = 0]
          /\ UNCHANGED <<input, rolling>>
          /\ validTo + BlockSize > BufLen => Wrap
          /\ ~(validTo + BlockSize > BufLen) => UNCHANGED <<buffer, validTo, window, pending, sent>>
      BY <1>3, <2>2 DEF Extend
    <3>2. diff'.at = "read"
      BY <1>2, <3>1
    <3>3. CASE validTo + BlockSize > BufLen
      BY <1>1, <2>2, <3>1, <3>2, <3>3, ExtendWraps DEF Running
    <3>4. CASE ~(validTo + BlockSize > BufLen)
      <4>1. UNCHANGED <<input, buffer, validTo, window, pending, sent, rolling>>
        BY <3>1, <3>4
      <4>2. QED
        BY <1>1, <2>2, <3>1, <3>2, <3>4, <4>1, ExtendReads DEF Running
    <3>5. QED
      BY <3>3, <3>4
  <2>3. QED
    BY <2>1, <2>2
<1>4. CASE ReadSome
  <2>1. diff.at = "read" /\ diff'.at \in {"look", "read"}
    BY <1>2, <1>4 DEF ReadSome
  <2>2. QED
    BY <1>1, <1>4, <2>1, ReadSomeStep DEF Running
<1>5. CASE ReadEnds
  <2>1. diff.at = "read" /\ diff'.at \in {"look", "failed", "nil"}
    BY <1>2, <1>5 DEF ReadEnds, End
  <2>2. QED
    BY <1>1, <1>5, <2>1, ReadEndsStep DEF Running
<1>6. CASE LookFound
  <2>1. diff.at = "look" /\ diff'.at \in {"extend", "nil"}
    <3>1. \E p \in Found : \E q :
            (End(q, "nil") \/ diff' = [diff EXCEPT !.at = "extend"])
      BY <1>6 DEF LookFound
    <3>2. diff'.at \in {"extend", "nil"}
      BY <1>2, <3>1 DEF End
    <3>3. QED
      BY <1>6, <3>2 DEF LookFound
  <2>2. QED
    BY <1>1, <1>6, <2>1, LookFoundStep DEF Running
<1>7. CASE LookLast
  <2>1. diff.at = "look" /\ diff'.at = "nil"
    BY <1>2, <1>7 DEF LookLast, End
  <2>2. QED
    BY <1>1, <1>7, <2>1, LookLastStep DEF Running
<1>8. CASE LookSlide
  <2>1. diff.at = "look" /\ diff'.at = "extend"
    BY <1>2, <1>8 DEF LookSlide
  <2>2. QED
    BY <1>1, <1>8, <2>1, LookSlideStep DEF Running
<1>9. CASE /\ diff.at \in {"extend", "look"} /\ diff' = [diff EXCEPT !.at = "failed"]
           /\ UNCHANGED <<input, search, sent>>
  <2>1. diff'.at = "failed"
    BY <1>2, <1>9
  <2>2. QED
    BY <1>1, <1>9, <2>1, WriteFails DEF Running
<1>10. QED
  BY <1>3, <1>4, <1>5, <1>6, <1>7, <1>8, <1>9 DEF Differ, ComputeDiff

\* The types that are not those of the differ.
OtherTypes ==
  /\ case \in Cases /\ old = case.old
  /\ at \in 0 .. Len(case.new)
  /\ preferred \in Nat /\ (at > 0 => preferred = case.like[at])
  /\ main \in {"file", "tasks", "returned"}
  /\ result \in Outcomes \cup {"none"} /\ (main = "returned" <=> result # "none")
  /\ collected \in Nat
  /\ done \in Seq(Outcomes)
  /\ copier \in [at : {"read", "to signer", "signed", "over"}, from : Nat, pos : Nat]
  /\ signInput \in Pipe
  /\ signer \in [at : {"scan", "over"}, held : Seq(Nat)]
  /\ signature \in Seq(Seq(Seq(Nat)))
  /\ patch \in Seq(Seq(Ops(old)))
  /\ ctx \in {"live", "done"}

LEMMA TypeInvIs == TypeInv <=> OtherTypes /\ DiffTypes
BY DEF TypeInv, OtherTypes

\* A result that is put in the channel.
LEMMA ResultAdded ==
  ASSUME NEW s \in Seq(Outcomes), NEW r \in Outcomes
  PROVE  /\ Append(s, r) \in Seq(Outcomes) /\ Len(Append(s, r)) = Len(s) + 1 /\ Len(s) \in Nat
         /\ (\A i \in DOMAIN Append(s, r) : Append(s, r)[i] = "nil") => r = "nil" /\ \A i \in DOMAIN s : s[i] = "nil"
<1>1. /\ Append(s, r) \in Seq(Outcomes) /\ Len(Append(s, r)) = Len(s) + 1 /\ Len(s) \in Nat
      /\ DOMAIN Append(s, r) = 1 .. Len(s) + 1 /\ DOMAIN s = 1 .. Len(s)
      /\ Append(s, r)[Len(s) + 1] = r /\ \A i \in 1 .. Len(s) : Append(s, r)[i] = s[i]
  OBVIOUS
<1>2. Len(s) + 1 \in 1 .. Len(s) + 1 /\ \A i \in 1 .. Len(s) : i \in 1 .. Len(s) + 1
  BY <1>1
<1>3. QED
  BY <1>1, <1>2

LEMMA DifferStep == ASSUME IInv, Differ PROVE IInv'
<1>1. TypeInv /\ CopyInv /\ DiffInv /\ DiffedInv /\ SignInv /\ TasksInv /\ BetweenInv /\ FilesInv
  BY DEF IInv
<1>2. /\ DiffTypes' /\ CopyInv' /\ DiffInv' /\ DiffedInv'
      /\ Running /\ diff'.at \in {"extend", "read", "look", "nil", "failed"}
  BY <1>1, DifferSearches
<1>3. /\ old' = old /\ preferred' = preferred /\ case' = case /\ main' = main /\ result' = result
      /\ at' = at /\ collected' = collected /\ copier' = copier /\ signInput' = signInput
      /\ signer' = signer /\ signature' = signature /\ patch' = patch /\ ctx' = ctx
      /\ done' = IF diff'.at \in {"nil", "failed"} THEN Append(done, diff'.at) ELSE done
  BY DEF Differ, group, signing
<1>4. done \in Seq(Outcomes)
  BY <1>1 DEF TypeInv
<1>5. done' \in Seq(Outcomes)
  BY <1>2, <1>3, <1>4, ResultAdded DEF Outcomes
<1>6. TypeInv'
  <2>1. OtherTypes'
    BY <1>1, <1>3, <1>5 DEF TypeInv, OtherTypes
  <2>2. QED
    BY <1>2, <2>1 DEF TypeInv, OtherTypes
<1>7. SignInv'
  BY <1>1, <1>3 DEF SignInv, SignedTo, Source
<1>8. ~Between /\ ~Between'
  BY <1>1, <1>2, <1>3 DEF BetweenInv, Between
<1>9. BetweenInv'
  BY <1>8 DEF BetweenInv
<1>10. FilesInv'
  BY <1>1, <1>3, <1>8 DEF FilesInv, Untouched
<1>11. TasksInv'
  <2> SUFFICES ASSUME main = "tasks" PROVE TasksInv'
    BY <1>3 DEF TasksInv
  <2>1. /\ at > 0
        /\ collected + Len(done) = One(copier.at = "over") + One(Ended) + One(signer.at = "over")
    BY <1>1 DEF TasksInv
  <2>2. input'.end = input.end /\ Source' = Source
    <3>1. input.end = signInput.end /\ input'.end = signInput'.end
      BY <1>2, <1>3, <2>1, <1>1 DEF CopyInv
    <3>2. QED
      BY <1>3, <3>1 DEF Source
  <2>3. ~Ended /\ (Ended' <=> diff'.at \in {"nil", "failed"}) /\ diff'.at # "over"
    BY <1>2 DEF Running, Ended
  <2>4. collected' + Len(done') = One(copier.at = "over")' + One(Ended)' + One(signer.at = "over")'
    <3>1. One(copier.at = "over")' = One(copier.at = "over") /\ One(signer.at = "over")' = One(signer.at = "over")
      BY <1>3 DEF One
    <3>2. One(Ended) = 0 /\ One(Ended)' = IF diff'.at \in {"nil", "failed"} THEN 1 ELSE 0
      BY <2>3 DEF One
    <3>3. Len(done') = Len(done) + (IF diff'.at \in {"nil", "failed"} THEN 1 ELSE 0) /\ Len(done) \in Nat
      BY <1>2, <1>3, <1>4, ResultAdded DEF Outcomes
    <3>4. One(copier.at = "over") \in Nat /\ One(signer.at = "over") \in Nat /\ collected \in Nat
      BY <1>1 DEF One, TypeInv
    <3>5. QED
      BY <1>3, <2>1, <3>1, <3>2, <3>3, <3>4, SMTT(60)
  <2>5. ASSUME \A i \in DOMAIN done' : done'[i] = "nil"
        PROVE  (\A i \in DOMAIN done : done[i] = "nil") /\ (Ended' => diff'.at = "nil")
    BY <1>2, <1>3, <1>4, <2>3, <2>5, ResultAdded DEF Outcomes
  <2>6. QED
    BY <1>1, <1>3, <2>1, <2>2, <2>3, <2>4, <2>5 DEF TasksInv
<1>12. QED
  BY <1>2, <1>6, <1>7, <1>9, <1>10, <1>11 DEF IInv

-----------------------------------------------------------------------------
(* The copier                                                               *)

\* What a step of the copier leaves alone.
LEMMA CopierFrame ==
  ASSUME IInv, UNCHANGED <<old, preferred, case, search, sent, diff, main, result, at, collected, signer, signature, patch, ctx>>,
         Taken' = Taken, input.end # "open" => input' = input,
         SignedTo' = SignedTo, copier.at # "over"
  PROVE  /\ DiffInv' /\ SignInv' /\ FilesInv' /\ BetweenInv'
         /\ (diff.at = "nil" => input.end # "open") /\ ~Between /\ Source' = Source
<1>1. TypeInv /\ CopyInv /\ DiffInv /\ DiffedInv /\ SignInv /\ TasksInv /\ BetweenInv /\ FilesInv
  BY DEF IInv
<1>2. Source' = Source
  BY DEF Source
<1>3. diff.at = "nil" => input.end # "open"
  BY <1>1 DEF DiffedInv
<1>4. DiffInv'
  BY <1>1, <1>3, DiffFrame
<1>5. SignInv'
  BY <1>1, <1>2 DEF SignInv
<1>6. ~Between /\ ~Between'
  BY <1>1 DEF BetweenInv, Between
<1>7. BetweenInv'
  BY <1>6 DEF BetweenInv
<1>8. FilesInv'
  BY <1>1, <1>6 DEF FilesInv, Untouched
<1>9. QED
  BY <1>2, <1>3, <1>4, <1>5, <1>6, <1>7, <1>8

\* The copier is at work on a file.
LEMMA CopierAt ==
  ASSUME IInv, copier.at # "over"
  PROVE  /\ at > 0 /\ Source \in Seq(Nat) /\ Len(Source) \in Nat
         /\ copier.from \in Nat /\ copier.pos \in Nat /\ copier.from <= copier.pos /\ copier.pos <= Len(Source)
         /\ input \in Pipe /\ signInput \in Pipe /\ input.end = "open" /\ signInput.end = "open"
         /\ input.bytes \in Seq(Nat) /\ signInput.bytes \in Seq(Nat)
<1>1. TypeInv /\ CopyInv /\ SignInv /\ BetweenInv /\ TasksInv /\ FilesInv
  BY DEF IInv
<1>2. at > 0
  <2>1. ~Between
    BY <1>1 DEF BetweenInv
  <2>2. Len(patch) = at - 1
    BY <1>1, <2>1 DEF FilesInv
  <2>3. patch \in Seq(Seq(Ops(old)))
    BY <1>1 DEF TypeInv
  <2>4. Len(patch) \in Nat
    BY <2>3
  <2>5. at \in Nat
    <3>1. at \in 0 .. Len(case.new) /\ case.new \in Seq(Seq(Nat))
      BY <1>1, OldIs DEF TypeInv
    <3>2. QED
      BY <3>1
  <2>6. QED
    BY <2>2, <2>4, <2>5
<1>3. /\ copier \in [at : {"read", "to signer", "signed", "over"}, from : Nat, pos : Nat]
      /\ input \in Pipe /\ signInput \in Pipe
  BY <1>1 DEF TypeInv, DiffTypes
<1>4. /\ copier.from <= copier.pos /\ copier.pos <= Len(Source) /\ input.end = signInput.end
      /\ copier.at = "over" <=> input.end # "open"
  BY <1>1, <1>2 DEF CopyInv
<1>5. QED
  BY <1>1, <1>2, <1>3, <1>4, SourceIs DEF Pipe

LEMMA CopyChunkStep == ASSUME IInv, CopyChunk PROVE IInv'
<1>1. TypeInv /\ CopyInv /\ DiffInv /\ DiffedInv /\ SignInv /\ TasksInv /\ BetweenInv /\ FilesInv
  BY DEF IInv
<1>2. /\ copier.at = "read" /\ copier.pos < Readable
      /\ copier' = [at |-> "to signer", from |-> copier.pos, pos |-> Least(copier.pos + case.copy, Readable)]
      /\ input' = [input EXCEPT !.bytes = SubSeq(Source, copier.pos + 1, copier'.pos)]
      /\ old' = old /\ preferred' = preferred /\ case' = case /\ search' = search /\ sent' = sent /\ diff' = diff
      /\ main' = main /\ result' = result /\ at' = at /\ collected' = collected /\ done' = done
      /\ signInput' = signInput /\ signer' = signer /\ signature' = signature /\ patch' = patch /\ ctx' = ctx
  BY DEF CopyChunk, group, signing
<1>3. /\ at > 0 /\ Source \in Seq(Nat) /\ Len(Source) \in Nat
      /\ copier.pos \in Nat /\ copier.from <= copier.pos
      /\ input \in Pipe /\ input.end = "open" /\ signInput.end = "open"
      /\ input.bytes \in Seq(Nat)
  BY <1>2, CopierAt
<1>4. input.bytes = << >> /\ signInput.bytes = << >>
  BY <1>1, <1>2, <1>3 DEF CopyInv
<1> DEFINE a == copier.pos
           b == copier'.pos
<1>5. b \in a .. Len(Source) /\ b \in Nat
  <2> DEFINE r == Readable
             l == Len(Source)
  <2>1. r \in Int /\ r <= l /\ l \in Nat
    BY <1>3 DEF Readable
  <2>2. case.copy \in Nat \ {0} /\ b = Least(a + case.copy, r)
    BY <1>1, <1>2, OldIs
  <2>3. a \in Nat /\ a < r
    BY <1>2, <1>3
  <2> HIDE DEF a, b, r, l
  <2>4. b \in a .. l /\ b \in Nat
    BY <2>1, <2>2, <2>3 DEF Least
  <2>5. QED
    BY <2>4 DEF l
<1>6. copier'.at = "to signer" /\ copier'.from = a /\ copier' \in [at : {"read", "to signer", "signed", "over"}, from : Nat, pos : Nat]
  <2>1. copier' = [at |-> "to signer", from |-> a, pos |-> b]
    BY <1>2
  <2> HIDE DEF b
  <2>2. QED
    BY <1>3, <1>5, <2>1
<1> DEFINE chunk == SubSeq(Source, a + 1, b)
<1> HIDE DEF b
<1>7. chunk \in Seq(Nat) /\ Len(chunk) = b - a
  BY <1>3, <1>5, PartIs, SMTT(60)
<1>8. input' = [bytes |-> chunk, end |-> "open"]
  BY <1>2, <1>3 DEF Pipe, b
<1>9. input'.bytes = chunk /\ input'.end = "open" /\ input' \in Pipe
  BY <1>7, <1>8 DEF Pipe
<1> HIDE DEF chunk
<1>10. Taken' = a /\ Taken = a
  <2>1. Taken = a - 0
    BY <1>3, <1>4 DEF Taken
  <2>2. Taken' = b - Len(chunk)
    BY <1>9 DEF Taken, b
  <2>3. QED
    BY <1>3, <1>5, <1>7, <2>1, <2>2
<1>11. SignedTo' = SignedTo
  BY <1>2, <1>4, <1>6 DEF SignedTo
<1>12. /\ DiffInv' /\ SignInv' /\ FilesInv' /\ BetweenInv'
       /\ (diff.at = "nil" => input.end # "open") /\ ~Between /\ Source' = Source
  BY <1>2, <1>3, <1>10, <1>11, CopierFrame
<1>13. CopyInv'
  <2>1. input'.bytes = SubSeq(Source', Taken' + 1, copier'.pos)
    BY <1>9, <1>10, <1>12 DEF chunk, b
  <2>2. copier'.from <= copier'.pos /\ copier'.pos <= Len(Source')
    <3>1. copier'.from = a /\ copier'.pos = b /\ Source' = Source
      BY <1>6, <1>12 DEF b
    <3> DEFINE l == Len(Source)
    <3>2. a \in Nat /\ b \in a .. l /\ l \in Nat
      BY <1>3, <1>5
    <3> HIDE DEF a, l
    <3>3. a <= b /\ b <= l
      BY <3>2
    <3>4. QED
      BY <3>1, <3>3 DEF l
  <2>3. Taken' \in Nat
    BY <1>3, <1>10
  <2>4. QED
    BY <1>2, <1>3, <1>4, <1>6, <1>9, <2>1, <2>2, <2>3 DEF CopyInv
<1>14. DiffedInv'
  BY <1>2, <1>3, <1>12 DEF DiffedInv
<1>15. TypeInv'
  BY <1>1, <1>2, <1>6, <1>9, ZenonT(60) DEF TypeInv, DiffTypes, search
<1>16. TasksInv'
  <2>1. Ended' <=> Ended
    BY <1>2 DEF Ended
  <2>2. copier.at # "over" /\ copier'.at # "over"
    BY <1>2, <1>6
  <2>3. QED
    BY <1>1, <1>2, <1>12, <2>1, <2>2 DEF TasksInv, One
<1>17. QED
  BY <1>12, <1>13, <1>14, <1>15, <1>16 DEF IInv

LEMMA CopyToSignerStep == ASSUME IInv, CopyToSigner PROVE IInv'
<1>1. TypeInv /\ CopyInv /\ DiffInv /\ DiffedInv /\ SignInv /\ TasksInv /\ BetweenInv /\ FilesInv
  BY DEF IInv
<1>2. /\ copier.at = "to signer" /\ input.bytes = << >>
      /\ signInput' = [signInput EXCEPT !.bytes = SubSeq(Source, copier.from + 1, copier.pos)]
      /\ copier' = [copier EXCEPT !.at = "signed"]
      /\ old' = old /\ preferred' = preferred /\ case' = case /\ input' = input
      /\ search' = search /\ sent' = sent /\ diff' = diff
      /\ main' = main /\ result' = result /\ at' = at /\ collected' = collected /\ done' = done
      /\ signer' = signer /\ signature' = signature /\ patch' = patch /\ ctx' = ctx
  BY DEF CopyToSigner, group, differ
<1>3. /\ at > 0 /\ Source \in Seq(Nat) /\ Len(Source) \in Nat
      /\ copier.from \in Nat /\ copier.pos \in Nat /\ copier.from <= copier.pos /\ copier.pos <= Len(Source)
      /\ signInput \in Pipe /\ input.end = "open" /\ signInput.end = "open"
  BY <1>2, CopierAt
<1>4. signInput.bytes = << >>
  BY <1>1, <1>2, <1>3 DEF CopyInv
<1>5. copier \in [at : {"read", "to signer", "signed", "over"}, from : Nat, pos : Nat]
  BY <1>1 DEF TypeInv
<1>6. /\ copier'.at = "signed" /\ copier'.from = copier.from /\ copier'.pos = copier.pos
      /\ copier' \in [at : {"read", "to signer", "signed", "over"}, from : Nat, pos : Nat]
  <2>1. copier' = [at |-> "signed", from |-> copier.from, pos |-> copier.pos]
    BY <1>2, <1>5
  <2>2. QED
    BY <1>3, <2>1
<1> DEFINE chunk == SubSeq(Source, copier.from + 1, copier.pos)
<1>7. chunk \in Seq(Nat) /\ Len(chunk) = copier.pos - copier.from
  <2> DEFINE a == copier.from
             b == copier.pos
  <2>1. a \in Nat /\ b \in a .. Len(Source) /\ Source \in Seq(Nat)
    BY <1>3
  <2> HIDE DEF a, b
  <2>2. SubSeq(Source, a + 1, b) \in Seq(Nat) /\ Len(SubSeq(Source, a + 1, b)) = b - a
    BY <2>1, PartIs
  <2>3. QED
    BY <2>2 DEF a, b
<1>8. signInput' = [bytes |-> chunk, end |-> "open"]
  BY <1>2, <1>3 DEF Pipe
<1> HIDE DEF chunk
<1>9. signInput'.bytes = chunk /\ signInput'.end = "open" /\ signInput' \in Pipe
  BY <1>7, <1>8 DEF Pipe
<1>10. Taken' = Taken
  BY <1>2, <1>6 DEF Taken
<1>11. SignedTo' = SignedTo
  <2>1. SignedTo = copier.from
    BY <1>2 DEF SignedTo
  <2>2. CASE chunk # << >>
    BY <1>6, <1>9, <2>1, <2>2 DEF SignedTo
  <2>3. CASE chunk = << >>
    <3>1. copier.pos = copier.from
      <4>1. Len(chunk) = 0
        BY <2>3
      <4>2. QED
        BY <1>3, <1>7, <4>1, SMTT(60)
    <3>2. QED
      BY <1>6, <1>9, <2>1, <2>3, <3>1 DEF SignedTo
  <2>4. QED
    BY <2>2, <2>3
<1>12. /\ DiffInv' /\ SignInv' /\ FilesInv' /\ BetweenInv'
       /\ (diff.at = "nil" => input.end # "open") /\ ~Between /\ Source' = Source
  BY <1>2, <1>3, <1>10, <1>11, CopierFrame
<1>13. CopyInv'
  BY <1>1, <1>2, <1>3, <1>6, <1>9, <1>10, <1>12 DEF CopyInv, chunk
<1>14. DiffedInv'
  BY <1>2, <1>3, <1>12 DEF DiffedInv
<1>15. TypeInv'
  BY <1>1, <1>2, <1>6, <1>9, ZenonT(60) DEF TypeInv, DiffTypes, search
<1>16. TasksInv'
  <2>1. Ended' <=> Ended
    BY <1>2 DEF Ended
  <2>2. copier.at # "over" /\ copier'.at # "over"
    BY <1>2, <1>6
  <2>3. QED
    BY <1>1, <1>2, <1>12, <2>1, <2>2 DEF TasksInv, One
<1>17. QED
  BY <1>12, <1>13, <1>14, <1>15, <1>16 DEF IInv

LEMMA ChunkCopiedStep == ASSUME IInv, ChunkCopied PROVE IInv'
<1>1. TypeInv /\ CopyInv /\ DiffInv /\ DiffedInv /\ SignInv /\ TasksInv /\ BetweenInv /\ FilesInv
  BY DEF IInv
<1>2. /\ copier.at = "signed" /\ signInput.bytes = << >>
      /\ copier' = [copier EXCEPT !.at = "read"]
      /\ old' = old /\ preferred' = preferred /\ case' = case /\ input' = input
      /\ search' = search /\ sent' = sent /\ diff' = diff
      /\ main' = main /\ result' = result /\ at' = at /\ collected' = collected /\ done' = done
      /\ signInput' = signInput /\ signer' = signer /\ signature' = signature /\ patch' = patch /\ ctx' = ctx
  BY DEF ChunkCopied, group, differ, signing
<1>3. at > 0 /\ input.end = "open"
  BY <1>2, CopierAt
<1>4. copier \in [at : {"read", "to signer", "signed", "over"}, from : Nat, pos : Nat]
  BY <1>1 DEF TypeInv
<1>5. /\ copier'.at = "read" /\ copier'.from = copier.from /\ copier'.pos = copier.pos
      /\ copier' \in [at : {"read", "to signer", "signed", "over"}, from : Nat, pos : Nat]
  <2>1. copier' = [at |-> "read", from |-> copier.from, pos |-> copier.pos]
    BY <1>2, <1>4
  <2>2. QED
    BY <1>4, <2>1
<1>6. Taken' = Taken /\ SignedTo' = SignedTo
  BY <1>2, <1>5 DEF Taken, SignedTo
<1>7. /\ DiffInv' /\ SignInv' /\ FilesInv' /\ BetweenInv'
      /\ (diff.at = "nil" => input.end # "open") /\ ~Between /\ Source' = Source
  BY <1>2, <1>3, <1>6, CopierFrame
<1>8. CopyInv'
  BY <1>1, <1>2, <1>3, <1>5, <1>6, <1>7 DEF CopyInv
<1>9. DiffedInv'
  BY <1>2, <1>3, <1>7 DEF DiffedInv
<1>10. TypeInv'
  BY <1>1, <1>2, <1>5, ZenonT(60) DEF TypeInv, DiffTypes, search
<1>11. TasksInv'
  <2>1. Ended' <=> Ended
    BY <1>2 DEF Ended
  <2>2. copier.at # "over" /\ copier'.at # "over"
    BY <1>2, <1>5
  <2>3. QED
    BY <1>1, <1>2, <1>7, <2>1, <2>2 DEF TasksInv, One
<1>12. QED
  BY <1>7, <1>8, <1>9, <1>10, <1>11 DEF IInv

LEMMA CopyEndsStep == ASSUME IInv, CopyEnds PROVE IInv'
<1>1. TypeInv /\ CopyInv /\ DiffInv /\ DiffedInv /\ SignInv /\ TasksInv /\ BetweenInv /\ FilesInv
  BY DEF IInv
<1>2. PICK end \in {"eof", "failed"}, r \in Outcomes :
        /\ input' = [input EXCEPT !.end = end]
        /\ signInput' = [signInput EXCEPT !.end = end]
        /\ copier' = [copier EXCEPT !.at = "over"]
        /\ done' = Append(done, r)
        /\ end = "eof" => copier.pos = Len(Source)
        /\ r = "nil" => end = "eof"
  <2>1. \/ copier.pos = Len(Source) /\ ClosePipes("eof") /\ done' = Append(done, "nil")
        \/ ClosePipes("failed") /\ done' = Append(done, "failed")
        \/ ClosePipes("failed") /\ done' = Append(done, "cancelled")
    BY DEF CopyEnds
  <2>2. CASE copier.pos = Len(Source) /\ ClosePipes("eof") /\ done' = Append(done, "nil")
    BY <2>2 DEF ClosePipes, Outcomes
  <2>3. CASE ClosePipes("failed") /\ done' = Append(done, "failed")
    BY <2>3 DEF ClosePipes, Outcomes
  <2>4. CASE ClosePipes("failed") /\ done' = Append(done, "cancelled")
    BY <2>4 DEF ClosePipes, Outcomes
  <2>5. QED
    BY <2>1, <2>2, <2>3, <2>4
<1>3. /\ copier.at = "read"
      /\ old' = old /\ preferred' = preferred /\ case' = case /\ search' = search /\ sent' = sent /\ diff' = diff
      /\ main' = main /\ result' = result /\ at' = at /\ collected' = collected
      /\ signer' = signer /\ signature' = signature /\ patch' = patch /\ ctx' = ctx
  BY DEF CopyEnds, group
<1>4. /\ at > 0 /\ input \in Pipe /\ signInput \in Pipe /\ input.end = "open" /\ signInput.end = "open"
  BY <1>3, CopierAt
<1>5. input.bytes = << >> /\ signInput.bytes = << >>
  BY <1>1, <1>3, <1>4 DEF CopyInv
<1>6. copier \in [at : {"read", "to signer", "signed", "over"}, from : Nat, pos : Nat] /\ done \in Seq(Outcomes)
  BY <1>1 DEF TypeInv
<1>7. /\ copier'.at = "over" /\ copier'.from = copier.from /\ copier'.pos = copier.pos
      /\ copier' \in [at : {"read", "to signer", "signed", "over"}, from : Nat, pos : Nat]
  <2>1. copier' = [at |-> "over", from |-> copier.from, pos |-> copier.pos]
    BY <1>2, <1>6
  <2>2. QED
    BY <1>6, <2>1
<1>8. /\ input'.bytes = input.bytes /\ input'.end = end /\ input' \in Pipe
      /\ signInput'.bytes = signInput.bytes /\ signInput'.end = end /\ signInput' \in Pipe
  <2>1. input' = [bytes |-> input.bytes, end |-> end] /\ signInput' = [bytes |-> signInput.bytes, end |-> end]
    BY <1>2, <1>4 DEF Pipe
  <2>2. QED
    BY <1>4, <2>1 DEF Pipe
<1>9. Taken' = Taken /\ SignedTo' = SignedTo
  BY <1>3, <1>5, <1>7, <1>8 DEF Taken, SignedTo
<1>10. /\ DiffInv' /\ SignInv' /\ FilesInv' /\ BetweenInv'
       /\ (diff.at = "nil" => input.end # "open") /\ ~Between /\ Source' = Source
  BY <1>3, <1>4, <1>9, CopierFrame
<1>11. CopyInv'
  BY <1>1, <1>2, <1>3, <1>4, <1>5, <1>7, <1>8, <1>9, <1>10, ZenonT(60) DEF CopyInv
<1>12. diff.at # "nil"
  BY <1>4, <1>10
<1>13. DiffedInv'
  BY <1>3, <1>12 DEF DiffedInv
<1>14. done' \in Seq(Outcomes) /\ Len(done') = Len(done) + 1 /\ Len(done) \in Nat
       /\ ((\A i \in DOMAIN done' : done'[i] = "nil") => r = "nil" /\ \A i \in DOMAIN done : done[i] = "nil")
  BY <1>2, <1>6, ResultAdded, ZenonT(60)
<1>15. TypeInv'
  BY <1>1, <1>3, <1>7, <1>8, <1>14, ZenonT(60) DEF TypeInv, DiffTypes, search
<1>16. TasksInv'
  <2> SUFFICES ASSUME main = "tasks" PROVE TasksInv'
    BY <1>3 DEF TasksInv
  <2>1. /\ collected + Len(done) = One(copier.at = "over") + One(Ended) + One(signer.at = "over")
        /\ diff.at # "over"
        /\ (\A i \in DOMAIN done : done[i] = "nil") =>
             /\ Ended => diff.at = "nil"
             /\ signer.at = "over" => signature[at] = BlocksOf(Source)
    BY <1>1 DEF TasksInv
  <2>2. Ended' <=> Ended
    BY <1>3 DEF Ended
  <2>3. collected' + Len(done') = One(copier.at = "over")' + One(Ended)' + One(signer.at = "over")'
    <3>1. One(copier.at = "over")' = 1 /\ One(copier.at = "over") = 0
      BY <1>3, <1>7 DEF One
    <3>2. One(Ended)' = One(Ended) /\ One(signer.at = "over")' = One(signer.at = "over")
      BY <1>3, <2>2 DEF One
    <3>3. One(Ended) \in Nat /\ One(signer.at = "over") \in Nat /\ collected \in Nat
      BY <1>1 DEF One, TypeInv
    <3>4. QED
      BY <1>3, <1>14, <2>1, <3>1, <3>2, <3>3
  <2>4. QED
    BY <1>2, <1>3, <1>4, <1>7, <1>8, <1>10, <1>14, <2>1, <2>2, <2>3 DEF TasksInv
<1>17. QED
  BY <1>10, <1>11, <1>13, <1>15, <1>16 DEF IInv

-----------------------------------------------------------------------------
(* The signer                                                               *)

\* Products of block numbers.
LEMMA BlockProducts ==
  ASSUME NEW a \in Nat, NEW b \in Nat
  PROVE  /\ a * BlockSize \in Nat /\ b * BlockSize \in Nat
         /\ (a + b) * BlockSize = a * BlockSize + b * BlockSize
         /\ (a + 1) * BlockSize = a * BlockSize + BlockSize
         /\ a <= b => a * BlockSize <= b * BlockSize
<1> DEFINE s == BlockSize
<1>1. s \in Nat
  BY BlockSizeIs
<1> HIDE DEF s
<1>2. a * s \in Nat /\ b * s \in Nat /\ (a + b) * s = a * s + b * s /\ (a + 1) * s = a * s + s
  BY <1>1
<1>3. ASSUME a <= b PROVE a * s <= b * s
  <2>1. b - a \in Nat /\ b = a + (b - a)
    BY <1>3
  <2>2. (b - a) * s \in Nat
    BY <1>1, <2>1
  <2>3. (a + (b - a)) * s = a * s + (b - a) * s
    BY <1>1, <2>1
  <2>4. QED
    BY <1>2, <2>1, <2>2, <2>3
<1>4. QED
  BY <1>2, <1>3 DEF s

\* Full blocks of what was held and what has come.
LEMMA HashedIs ==
  ASSUME NEW d \in Seq(Nat)
  PROVE  /\ Hashed(d) \in Seq(Seq(Nat))
         /\ Len(Hashed(d)) * BlockSize <= Len(d) /\ Len(d) < Len(Hashed(d)) * BlockSize + BlockSize
         /\ \A i \in DOMAIN Hashed(d) :
              Hashed(d)[i] = SubSeq(d, (i - 1) * BlockSize + 1, i * BlockSize) /\ i * BlockSize <= Len(d)
<1> DEFINE n == Len(d)
           k == n \div BlockSize
<1>1. n \in Nat /\ BlockSize \in Nat \ {0}
  BY BlockSizeIs
<1>2. k \in Nat /\ k * BlockSize <= n /\ n < k * BlockSize + BlockSize
  <2> DEFINE s == BlockSize
  <2>1. s \in Nat \ {0}
    BY <1>1
  <2> HIDE DEF s, n
  <2>2. n \div s \in Nat /\ n = s * (n \div s) + (n % s) /\ n % s \in 0 .. s - 1
    BY <1>1, <2>1
  <2>3. s * (n \div s) = (n \div s) * s
    BY <2>1, <2>2
  <2>4. QED
    BY <1>1, <2>1, <2>2, <2>3 DEF s
<1>3. Hashed(d) = [i \in 1 .. k |-> BlockOf(d, i - 1)]
  BY DEF Hashed
<1> HIDE DEF k
<1>4. ASSUME NEW i \in 1 .. k
      PROVE  BlockOf(d, i - 1) = SubSeq(d, (i - 1) * BlockSize + 1, i * BlockSize)
             /\ i * BlockSize <= n /\ BlockOf(d, i - 1) \in Seq(Nat)
  <2> DEFINE a == (i - 1) * BlockSize
             b == i * BlockSize
  <2>1. i - 1 \in Nat /\ i \in Nat /\ i <= k /\ (i - 1) + 1 = i /\ i - 1 <= i
    BY <1>2
  <2>2. b <= k * BlockSize /\ a \in Nat /\ b \in Nat /\ a <= b
    BY <1>2, <2>1, BlockProducts
  <2>3. b <= n
    <3> HIDE DEF b, n
    <3>1. k * BlockSize \in Nat
      BY <1>2, BlockProducts
    <3>2. QED
      BY <1>1, <1>2, <2>2, <3>1
  <2>4. BlockOf(d, i - 1) = SubSeq(d, a + 1, Least(b, n))
    BY <2>1 DEF BlockOf
  <2>5. Least(b, n) = b
    <3> HIDE DEF b, n
    <3>1. QED
      BY <1>1, <2>2, <2>3 DEF Least
  <2>6. b \in a .. Len(d)
    <3> HIDE DEF b, a
    <3>1. QED
      BY <1>1, <2>2, <2>3
  <2> HIDE DEF a, b
  <2>7. SubSeq(d, a + 1, b) \in Seq(Nat)
    BY <2>2, <2>6, PartIs
  <2>8. QED
    BY <2>3, <2>4, <2>5, <2>7 DEF a, b
<1>5. Hashed(d) \in Seq(Seq(Nat)) /\ Len(Hashed(d)) = k /\ DOMAIN Hashed(d) = 1 .. k
  <2> DEFINE f(i) == BlockOf(d, i - 1)
  <2>1. \A i \in 1 .. k : f(i) \in Seq(Nat)
    BY <1>4
  <2> HIDE DEF f
  <2>2. [i \in 1 .. k |-> f(i)] \in Seq(Seq(Nat)) /\ Len([i \in 1 .. k |-> f(i)]) = k
    BY <1>2, <2>1
  <2>3. QED
    BY <1>3, <2>2 DEF f
<1>6. QED
  BY <1>2, <1>3, <1>4, <1>5

\* Blocks are hashed as they come: what is left is less than one.
LEMMA SignsMore ==
  ASSUME NEW D \in Seq(Nat), NEW B \in Seq(Seq(Nat)), NEW held, NEW n \in Nat, NEW m \in n .. Len(D),
         Signs(B, held, D, n),
         NEW d, d = held \o SubSeq(D, n + 1, m)
  PROVE  /\ Signs(B \o Hashed(d), SubSeq(d, Len(Hashed(d)) * BlockSize + 1, Len(d)), D, m)
         /\ Hashed(d) \in Seq(Seq(Nat))
         /\ SubSeq(d, Len(Hashed(d)) * BlockSize + 1, Len(d)) \in Seq(Nat)
<1> DEFINE L == Len(B)
           a == L * BlockSize
<1>1. /\ L \in Nat /\ a \in Nat /\ a <= n /\ held = SubSeq(D, a + 1, n) /\ BlockSize \in Nat \ {0}
      /\ \A i \in 1 .. L : B[i] = SubSeq(D, (i - 1) * BlockSize + 1, i * BlockSize)
  <2>1. L \in Nat /\ DOMAIN B = 1 .. L
    OBVIOUS
  <2>2. a \in Nat
    BY <2>1, BlockProducts
  <2>3. a <= n /\ held = SubSeq(D, a + 1, n)
    BY DEF Signs
  <2>4. \A i \in DOMAIN B : B[i] = SubSeq(D, (i - 1) * BlockSize + 1, i * BlockSize)
    BY DEF Signs
  <2>5. QED
    BY <2>1, <2>2, <2>3, <2>4, BlockSizeIs
<1>2. n < a + BlockSize
  BY DEF Signs
<1>3. m \in Nat /\ m \in a .. Len(D) /\ n \in a .. Len(D)
  <2> HIDE DEF a
  <2>1. QED
    BY <1>1
<1>4. d = SubSeq(D, a + 1, m) /\ d \in Seq(Nat) /\ Len(d) = m - a
  <2> HIDE DEF a, L
  <2>1. d = SubSeq(D, a + 1, m)
    BY <1>1, <1>3, PartJoin
  <2>2. SubSeq(D, a + 1, m) \in Seq(Nat) /\ Len(SubSeq(D, a + 1, m)) = m - a
    BY <1>1, <1>3, PartIs, SMTT(60)
  <2>3. QED
    BY <2>1, <2>2
<1> DEFINE H == Hashed(d)
           k == Len(H)
           c == k * BlockSize
<1>5. /\ H \in Seq(Seq(Nat)) /\ k \in Nat /\ c <= Len(d) /\ Len(d) < c + BlockSize /\ c \in Nat
      /\ \A i \in 1 .. k : H[i] = SubSeq(d, (i - 1) * BlockSize + 1, i * BlockSize) /\ i * BlockSize <= Len(d)
  <2>1. d \in Seq(Nat)
    BY <1>4
  <2>2. /\ H \in Seq(Seq(Nat)) /\ c <= Len(d) /\ Len(d) < c + BlockSize
        /\ \A i \in DOMAIN H : H[i] = SubSeq(d, (i - 1) * BlockSize + 1, i * BlockSize) /\ i * BlockSize <= Len(d)
    BY <2>1, HashedIs
  <2> HIDE DEF H
  <2>3. k \in Nat /\ DOMAIN H = 1 .. k
    BY <2>2
  <2>4. c \in Nat
    BY <2>3, BlockProducts
  <2>5. QED
    BY <2>2, <2>3, <2>4
<1> DEFINE all == B \o H
<1>6. /\ all \in Seq(Seq(Nat)) /\ Len(all) = L + k
      /\ \A i \in 1 .. L : all[i] = B[i]
      /\ \A i \in 1 .. k : all[L + i] = H[i]
  <2>1. H \in Seq(Seq(Nat)) /\ B \in Seq(Seq(Nat))
    BY <1>5
  <2> HIDE DEF H
  <2>2. /\ B \o H \in Seq(Seq(Nat)) /\ Len(B \o H) = Len(B) + Len(H)
        /\ \A i \in 1 .. Len(B) : (B \o H)[i] = B[i]
        /\ \A i \in 1 .. Len(H) : (B \o H)[Len(B) + i] = H[i]
    BY <2>1, ConcatFacts
  <2>3. QED
    BY <2>2
<1>7. Len(all) * BlockSize = a + c
  BY <1>1, <1>5, <1>6, BlockProducts
<1>8. \A i \in 1 .. k : H[i] = SubSeq(D, ((L + i) - 1) * BlockSize + 1, (L + i) * BlockSize)
  <2> SUFFICES ASSUME NEW i \in 1 .. k
               PROVE  H[i] = SubSeq(D, ((L + i) - 1) * BlockSize + 1, (L + i) * BlockSize)
    OBVIOUS
  <2> DEFINE x == (i - 1) * BlockSize
             y == i * BlockSize
  <2>1. i \in Nat /\ i - 1 \in Nat /\ i - 1 <= i /\ (L + i) - 1 = L + (i - 1)
    BY <1>1, <1>5
  <2>2. x \in Nat /\ y \in Nat /\ x <= y /\ (L + (i - 1)) * BlockSize = a + x /\ (L + i) * BlockSize = a + y
    BY <1>1, <2>1, BlockProducts
  <2>3. H[i] = SubSeq(d, x + 1, y) /\ y <= Len(d)
    BY <1>5
  <2> HIDE DEF x, y, H, k, a
  <2>4. x \in 0 .. m - a /\ y \in x .. m - a
    BY <1>1, <1>3, <1>4, <2>2, <2>3, SMTT(60)
  <2>5. SubSeq(SubSeq(D, a + 1, m), x + 1, y) = SubSeq(D, (a + x) + 1, a + y)
    BY <1>1, <1>3, <2>4, PartOfPart
  <2>6. QED
    BY <1>4, <2>1, <2>2, <2>3, <2>5
<1>9. \A i \in DOMAIN all : all[i] = SubSeq(D, (i - 1) * BlockSize + 1, i * BlockSize)
  <2> HIDE DEF all, H, k, L
  <2>0. L + k \in Nat /\ DOMAIN all = 1 .. L + k
    BY <1>1, <1>5, <1>6
  <2> SUFFICES ASSUME NEW i \in 1 .. L + k
               PROVE  all[i] = SubSeq(D, (i - 1) * BlockSize + 1, i * BlockSize)
    BY <2>0
  <2>1. CASE i <= L
    <3>1. i \in 1 .. L
      BY <1>1, <1>5, <2>1
    <3>2. QED
      BY <1>1, <1>6, <3>1
  <2>2. CASE i > L
    <3>1. i - L \in 1 .. k /\ L + (i - L) = i
      BY <1>1, <1>5, <2>2
    <3>2. QED
      BY <1>6, <1>8, <3>1
  <2>3. QED
    BY <1>1, <1>5, <2>1, <2>2
<1>10. SubSeq(d, c + 1, Len(d)) = SubSeq(D, Len(all) * BlockSize + 1, m) /\ SubSeq(d, c + 1, Len(d)) \in Seq(Nat)
  <2> DEFINE l == Len(d)
  <2>1. l = m - a
    BY <1>4
  <2>2. c \in Nat /\ c <= l
    BY <1>5
  <2> HIDE DEF c, l, a, all
  <2>3. c \in 0 .. m - a /\ l \in c .. m - a /\ a + l = m
    BY <1>1, <1>3, <2>1, <2>2
  <2>4. SubSeq(SubSeq(D, a + 1, m), c + 1, l) = SubSeq(D, (a + c) + 1, a + l)
    BY <1>1, <1>3, <2>3, PartOfPart
  <2>5. l \in c .. Len(d)
    BY <2>2, <1>4 DEF l
  <2>6. SubSeq(d, c + 1, l) \in Seq(Nat)
    BY <1>4, <2>2, <2>5, PartIs
  <2>7. QED
    BY <1>4, <1>7, <2>3, <2>4, <2>6 DEF l
<1>11. a + c <= m /\ m < (a + c) + BlockSize
  <2> DEFINE l == Len(d)
  <2>1. l = m - a /\ c <= l /\ l < c + BlockSize
    BY <1>4, <1>5
  <2> HIDE DEF a, c, l
  <2>2. QED
    BY <1>1, <1>3, <1>5, <2>1
<1> HIDE DEF all
<1>12. Signs(all, SubSeq(d, c + 1, Len(d)), D, m)
  BY <1>7, <1>9, <1>10, <1>11 DEF Signs
<1>13. QED
  BY <1>5, <1>10, <1>12 DEF all

\* At the end of the file, with what is left: all its blocks.
LEMMA SignsAll ==
  ASSUME NEW D \in Seq(Nat), NEW B \in Seq(Seq(Nat)), NEW held, Signs(B, held, D, Len(D))
  PROVE  B \o (IF held # << >> \/ B = << >> THEN <<held>> ELSE << >>) = BlocksOf(D)
<1> DEFINE L == Len(B)
           a == L * BlockSize
           l == Len(D)
           N == NumBlocks(l)
           s == BlockSize
<1>1. /\ L \in Nat /\ a \in Nat /\ l \in Nat /\ a <= l /\ l < a + s /\ held = SubSeq(D, a + 1, l) /\ s \in Nat \ {0}
      /\ \A i \in 1 .. L : B[i] = SubSeq(D, (i - 1) * s + 1, i * s)
  <2>1. L \in Nat /\ DOMAIN B = 1 .. L /\ l \in Nat
    OBVIOUS
  <2>2. a \in Nat
    BY <2>1, BlockProducts
  <2>3. a <= l /\ l < a + s /\ held = SubSeq(D, a + 1, l)
    BY DEF Signs
  <2>4. \A i \in DOMAIN B : B[i] = SubSeq(D, (i - 1) * s + 1, i * s)
    BY DEF Signs
  <2>5. QED
    BY <2>1, <2>2, <2>3, <2>4, BlockSizeIs
<1>2. BlocksOf(D) = [i \in 1 .. N |-> BlockOf(D, i - 1)]
  BY DEF BlocksOf
<1>3. held \in Seq(Nat) /\ Len(held) = l - a
  <2>1. l \in a .. Len(D)
    <3> HIDE DEF a
    <3>1. QED
      BY <1>1
  <2> HIDE DEF a, l
  <2>2. QED
    BY <1>1, <2>1, PartIs, SMTT(60)
<1>4. (held = << >>) <=> l = a
  <2>1. (held = << >>) <=> Len(held) = 0
    BY <1>3
  <2>2. a \in Nat /\ l \in Nat /\ Len(held) = l - a
    BY <1>1, <1>3
  <2> DEFINE h == Len(held)
  <2> HIDE DEF a, l, h
  <2>3. h = 0 <=> l = a
    BY <2>2 DEF h
  <2>4. QED
    BY <2>1, <2>3 DEF h
<1>5. (B = << >>) <=> L = 0
  OBVIOUS
<1>6. L = 0 <=> a = 0
  <2> HIDE DEF L
  <2>1. ASSUME L # 0 PROVE a # 0
    <3>1. 1 \in Nat /\ 1 <= L /\ 1 * s = s
      BY <1>1, <2>1
    <3>2. 1 * s <= a
      BY <1>1, <3>1, BlockProducts
    <3> HIDE DEF a, s
    <3>3. QED
      BY <1>1, <3>1, <3>2
  <2>2. ASSUME L = 0 PROVE a = 0
    BY <1>1, <2>2
  <2>3. QED
    BY <2>1, <2>2
<1>7. ASSUME l # 0
      PROVE  N \in Nat /\ (L < N <=> a < l) /\ ~(L + 1 < N) /\ (L # 0 => L - 1 < N)
  <2>1. l \in Nat \ {0} /\ L + 1 \in Nat
    BY <1>1, <1>7
  <2>2. N \in Nat
    BY <1>1, NumBlocksType
  <2>3. L < N <=> a < l
    BY <1>1, <2>1, BlockStarts
  <2>4. ~(L + 1 < N)
    <3>1. L + 1 < N <=> (L + 1) * s < l
      BY <2>1, BlockStarts
    <3>2. (L + 1) * s = a + s
      BY <1>1, BlockProducts
    <3> HIDE DEF a, l, s, N
    <3>3. ~(a + s < l)
      BY <1>1
    <3>4. QED
      BY <3>1, <3>2, <3>3
  <2>5. ASSUME L # 0 PROVE L - 1 < N
    <3>1. L - 1 \in Nat /\ L - 1 <= L
      BY <1>1, <2>5
    <3>2. L - 1 < N <=> (L - 1) * s < l
      BY <2>1, <3>1, BlockStarts
    <3>3. (L - 1) * s \in Nat /\ L * s = (L - 1) * s + s
      <4> DEFINE z == L - 1
      <4>1. z \in Nat /\ L = z + 1
        BY <1>1, <3>1
      <4> HIDE DEF z, L
      <4>2. z * s \in Nat /\ (z + 1) * s = z * s + s
        BY <4>1, BlockProducts
      <4>3. QED
        BY <4>1, <4>2 DEF z
    <3>4. a = (L - 1) * s + s
      BY <3>3
    <3> DEFINE z == (L - 1) * s
    <3> HIDE DEF a, l, s, z
    <3>5. z < l
      BY <1>1, <3>3, <3>4 DEF z
    <3>6. QED
      BY <3>2, <3>5 DEF z
  <2>6. QED
    BY <2>2, <2>3, <2>4, <2>5
<1>8. ASSUME NEW i \in 1 .. L PROVE B[i] = BlockOf(D, i - 1)
  <2> DEFINE y == i * s
  <2>1. i \in Nat /\ i <= L /\ (i - 1) + 1 = i
    BY <1>1
  <2>2. y \in Nat /\ y <= a
    BY <1>1, <2>1, BlockProducts
  <2>3. BlockOf(D, i - 1) = SubSeq(D, (i - 1) * s + 1, Least(y, l))
    BY <2>1 DEF BlockOf
  <2>4. Least(y, l) = y
    <3> HIDE DEF y, l, a
    <3>1. QED
      BY <1>1, <2>2 DEF Least
  <2>5. QED
    BY <1>1, <2>3, <2>4
<1>9. held = BlockOf(D, L)
  <2>1. (L + 1) * s = a + s
    BY <1>1, BlockProducts
  <2>2. BlockOf(D, L) = SubSeq(D, a + 1, Least(a + s, l))
    BY <2>1 DEF BlockOf
  <2>3. Least(a + s, l) = l
    <3> HIDE DEF a, l, s
    <3>1. QED
      BY <1>1 DEF Least
  <2>4. QED
    BY <1>1, <2>2, <2>3
<1>10. CASE held # << >> \/ B = << >>
  <2>1. N = L + 1
    <3>1. CASE l = 0
      <4>1. N = 1
        BY <3>1 DEF NumBlocks
      <4>2. L = 0
        <5> HIDE DEF a, l, L
        <5>1. QED
          BY <1>1, <1>6, <3>1
      <4>3. QED
        BY <4>1, <4>2
    <3>2. CASE l # 0
      <4>1. a < l
        <5> HIDE DEF a, l, L
        <5>1. QED
          BY <1>1, <1>4, <1>5, <1>6, <1>10, <3>2 DEF L
      <4>2. N \in Nat /\ L < N /\ ~(L + 1 < N)
        BY <1>7, <3>2, <4>1
      <4> HIDE DEF N, L
      <4>3. QED
        BY <1>1, <4>2
    <3>3. QED
      BY <3>1, <3>2
  <2> DEFINE all == B \o <<held>>
  <2>2. /\ all \in Seq(Seq(Nat)) /\ Len(all) = L + 1
        /\ \A i \in 1 .. L : all[i] = B[i]
        /\ all[L + 1] = held
    <3>1. <<held>> \in Seq(Seq(Nat)) /\ Len(<<held>>) = 1 /\ <<held>>[1] = held
      BY <1>3
    <3> DEFINE h == <<held>>
    <3> HIDE DEF h
    <3>2. h \in Seq(Seq(Nat)) /\ Len(h) = 1 /\ h[1] = held
      BY <3>1 DEF h
    <3>3. QED
      BY <3>2, ConcatFacts DEF h
  <2> HIDE DEF all
  <2>3. \A i \in 1 .. L + 1 : all[i] = BlockOf(D, i - 1)
    <3> SUFFICES ASSUME NEW i \in 1 .. L + 1 PROVE all[i] = BlockOf(D, i - 1)
      OBVIOUS
    <3> HIDE DEF L
    <3>1. CASE i = L + 1
      <4>1. i - 1 = L
        BY <1>1, <3>1
      <4>2. QED
        BY <1>9, <2>2, <3>1, <4>1
    <3>2. CASE i # L + 1
      <4>1. i \in 1 .. L
        BY <1>1, <3>2
      <4>2. QED
        BY <1>8, <2>2, <4>1
    <3>3. QED
      BY <3>1, <3>2
  <2>4. all = [i \in 1 .. L + 1 |-> BlockOf(D, i - 1)]
    <3>1. DOMAIN all = 1 .. L + 1 /\ all = [i \in DOMAIN all |-> all[i]]
      BY <1>1, <2>2
    <3> HIDE DEF L
    <3>2. QED
      BY <2>3, <3>1
  <2>5. QED
    BY <1>2, <1>10, <2>1, <2>4 DEF all
<1>11. CASE ~(held # << >> \/ B = << >>)
  <2>1. l = a /\ L # 0 /\ a # 0
    BY <1>4, <1>5, <1>6, <1>11
  <2>2. l # 0
    BY <2>1
  <2>3. N = L
    <3>1. N \in Nat /\ (L < N <=> a < l) /\ L - 1 < N
      BY <1>7, <2>1, <2>2
    <3> HIDE DEF a, l, N, L
    <3>2. QED
      BY <1>1, <2>1, <3>1
  <2>4. B = [i \in 1 .. L |-> BlockOf(D, i - 1)]
    <3>1. DOMAIN B = 1 .. L /\ B = [i \in DOMAIN B |-> B[i]]
      OBVIOUS
    <3>2. QED
      BY <1>8, <3>1
  <2>5. B \o << >> = B
    BY ConcatFacts
  <2>6. QED
    BY <1>2, <1>11, <2>3, <2>4, <2>5
<1>12. QED
  BY <1>10, <1>11

\* What a step of the signer leaves alone.
LEMMA SignerFrame ==
  ASSUME IInv, UNCHANGED <<old, preferred, case, differ, group, copier, patch, ctx>>,
         signer.at = "scan", signInput'.end = signInput.end,
         signInput' = signInput \/ signInput'.bytes = << >>,
         signature' \in Seq(Seq(Seq(Nat))), Len(signature') = Len(signature),
         \A f \in 1 .. at - 1 : signature'[f] = signature[f]
  PROVE  /\ CopyInv' /\ DiffInv' /\ DiffedInv' /\ BetweenInv' /\ FilesInv' /\ ~Between
         /\ Source' = Source /\ at > 0 /\ at \in Nat
<1>1. TypeInv /\ CopyInv /\ DiffInv /\ DiffedInv /\ SignInv /\ TasksInv /\ BetweenInv /\ FilesInv
  BY DEF IInv
<1>2. /\ old' = old /\ preferred' = preferred /\ case' = case /\ at' = at /\ copier' = copier
      /\ input' = input /\ search' = search /\ sent' = sent /\ diff' = diff
      /\ main' = main /\ result' = result /\ patch' = patch
  BY DEF differ, group
<1>3. Source' = Source /\ Taken' = Taken /\ at > 0
  BY <1>1, <1>2 DEF Source, Taken, SignInv
<1>4. CopyInv'
  BY <1>1, <1>2, <1>3 DEF CopyInv
<1>5. DiffInv'
  BY <1>1, <1>2, <1>3, DiffFrame DEF DiffedInv
<1>6. DiffedInv'
  BY <1>1, <1>2, <1>3 DEF DiffedInv
<1>7. ~Between /\ ~Between'
  <2>1. ~Between
    BY <1>1 DEF BetweenInv
  <2>2. QED
    BY <1>2, <2>1 DEF Between
<1>8. BetweenInv'
  BY <1>7 DEF BetweenInv
<1>9. at \in Nat /\ DOMAIN patch = 1 .. at - 1
  <2>1. at \in 0 .. Len(case.new) /\ case.new \in Seq(Seq(Nat)) /\ patch \in Seq(Seq(Ops(old)))
    BY <1>1, OldIs DEF TypeInv
  <2>2. Len(patch) = at - 1
    BY <1>1, <1>7 DEF FilesInv
  <2>3. QED
    BY <2>1, <2>2
<1>10. FilesInv'
  <2>1. Len(signature') = at'
    BY <1>1, <1>2 DEF FilesInv
  <2>2. Len(patch') = at' - 1
    BY <1>1, <1>2, <1>7 DEF FilesInv
  <2>3. ASSUME NEW f \in DOMAIN patch'
        PROVE  /\ Contents(old, patch[f]) = case.new[f]
               /\ Bounded(patch[f], case.new[f])
               /\ signature'[f] = BlocksOf(case.new[f])
               /\ Untouched(f) => patch[f] = <<RangeOf(case.like[f], Len(BlocksOf(case.new[f])))>>
    <3>1. f \in DOMAIN patch /\ f \in 1 .. at - 1
      BY <1>2, <1>9, <2>3
    <3>2. QED
      BY <1>1, <3>1 DEF FilesInv
  <2>4. \A f : Untouched(f)' <=> Untouched(f)
    BY <1>2 DEF Untouched
  <2>5. result' # "nil"
    BY <1>7 DEF Between
  <2>6. QED
    BY <1>2, <1>7, <2>1, <2>2, <2>3, <2>4, <2>5 DEF FilesInv
<1>11. QED
  BY <1>3, <1>4, <1>5, <1>6, <1>7, <1>8, <1>9, <1>10

LEMMA SignatureWithIs ==
  ASSUME IInv, signer.at = "scan", NEW w \in Seq(Seq(Nat)), signature' = SignatureWith(w)
  PROVE  /\ signature' \in Seq(Seq(Seq(Nat))) /\ Len(signature') = Len(signature)
         /\ \A f \in 1 .. at - 1 : signature'[f] = signature[f]
         /\ signature[at] \in Seq(Seq(Nat)) /\ signature'[at] = signature[at] \o w
<1>1. signature \in Seq(Seq(Seq(Nat))) /\ Len(signature) = at /\ at > 0
  BY DEF IInv, TypeInv, FilesInv, SignInv
<1>2. at \in DOMAIN signature /\ Len(signature) \in Nat /\ at \in Nat
  BY <1>1
<1>3. signature[at] \in Seq(Seq(Nat))
  BY <1>1, <1>2
<1>4. signature[at] \o w \in Seq(Seq(Nat))
  BY <1>3, ConcatFacts
<1>5. signature' = [signature EXCEPT ![at] = signature[at] \o w]
  BY DEF SignatureWith
<1> DEFINE v == signature[at] \o w
<1> HIDE DEF v
<1>6. QED
  BY <1>1, <1>2, <1>3, <1>4, <1>5 DEF v

LEMMA SignBlocksStep == ASSUME IInv, SignBlocks PROVE IInv'
<1> DEFINE B == signature[at]
           d == signer.held \o signInput.bytes
           kept == SubSeq(d, Len(Hashed(d)) * BlockSize + 1, Len(d))
<1>1. TypeInv /\ CopyInv /\ DiffInv /\ DiffedInv /\ SignInv /\ TasksInv /\ BetweenInv /\ FilesInv
  BY DEF IInv
<1>2. /\ signer.at = "scan" /\ signInput.bytes # << >>
      /\ signature' = SignatureWith(Hashed(d))
      /\ signer' = [signer EXCEPT !.held = kept]
      /\ signInput' = [signInput EXCEPT !.bytes = << >>]
      /\ UNCHANGED <<old, preferred, case, differ, group, done, copier, patch, ctx>>
  BY DEF SignBlocks
<1>3. /\ old' = old /\ preferred' = preferred /\ case' = case /\ at' = at /\ copier' = copier
      /\ input' = input /\ search' = search /\ sent' = sent /\ diff' = diff /\ done' = done /\ ctx' = ctx
      /\ main' = main /\ result' = result /\ patch' = patch /\ collected' = collected
  BY <1>2 DEF differ, group
<1>4. at > 0 /\ Signs(B, signer.held, Source, SignedTo)
  BY <1>1, <1>2 DEF SignInv
<1>5. copier.at = "signed" /\ signInput.bytes = SubSeq(Source, copier.from + 1, copier.pos)
  BY <1>1, <1>2, <1>4 DEF CopyInv
<1>6. /\ Source \in Seq(Nat) /\ Len(Source) \in Nat /\ copier.from \in Nat /\ copier.pos \in Nat
      /\ copier.from <= copier.pos /\ copier.pos <= Len(Source)
      /\ signInput \in Pipe
  BY <1>5, CopierAt
<1>7. SignedTo = copier.from
  BY <1>2 DEF SignedTo
<1>8. B \in Seq(Seq(Nat))
  <2>1. signature \in Seq(Seq(Seq(Nat))) /\ Len(signature) = at
    BY <1>1 DEF TypeInv, FilesInv
  <2>2. Len(signature) \in Nat
    BY <2>1
  <2>3. QED
    BY <1>4, <2>1, <2>2
<1>9. Signs(B \o Hashed(d), kept, Source, copier.pos) /\ Hashed(d) \in Seq(Seq(Nat)) /\ kept \in Seq(Nat)
  <2> DEFINE n == copier.from
             m == copier.pos
             l == Len(Source)
  <2>1. n \in Nat /\ m \in Nat /\ n <= m /\ m <= l /\ l \in Nat
    BY <1>6
  <2> HIDE DEF n, m, l, B
  <2>2. m \in n .. l
    BY <2>1
  <2>3. Signs(B, signer.held, Source, n) /\ d = signer.held \o SubSeq(Source, n + 1, m)
    BY <1>4, <1>5, <1>7 DEF n, m
  <2> DEFINE e == signer.held \o signInput.bytes
  <2> HIDE DEF e
  <2>4. e = signer.held \o SubSeq(Source, n + 1, m)
    BY <2>3 DEF e
  <2>5. /\ Signs(B \o Hashed(e), SubSeq(e, Len(Hashed(e)) * BlockSize + 1, Len(e)), Source, m)
        /\ Hashed(e) \in Seq(Seq(Nat))
        /\ SubSeq(e, Len(Hashed(e)) * BlockSize + 1, Len(e)) \in Seq(Nat)
    BY <1>6, <1>8, <2>1, <2>2, <2>3, <2>4, SignsMore DEF l
  <2>6. QED
    BY <2>5 DEF e, m
<1> DEFINE w == Hashed(d)
<1> HIDE DEF w, kept
<1>10. w \in Seq(Seq(Nat)) /\ signature' = SignatureWith(w) /\ kept \in Seq(Nat)
  BY <1>2, <1>9 DEF w
<1>11. /\ signature' \in Seq(Seq(Seq(Nat))) /\ Len(signature') = Len(signature)
       /\ \A f \in 1 .. at - 1 : signature'[f] = signature[f]
       /\ signature'[at] = B \o w
  BY <1>2, <1>10, SignatureWithIs, SMTT(60)
<1>12. signInput' = [bytes |-> << >>, end |-> signInput.end]
  BY <1>2, <1>6 DEF Pipe
<1>13. signInput' \in Pipe /\ signInput'.bytes = << >> /\ signInput'.end = signInput.end
  BY <1>6, <1>12 DEF Pipe
<1>14. signer' = [at |-> "scan", held |-> kept]
  <2>1. signer \in [at : {"scan", "over"}, held : Seq(Nat)]
    BY <1>1 DEF TypeInv
  <2>2. QED
    BY <1>2, <2>1
<1>15. signer'.at = "scan" /\ signer'.held = kept /\ signer' \in [at : {"scan", "over"}, held : Seq(Nat)]
  BY <1>10, <1>14
<1>16. /\ CopyInv' /\ DiffInv' /\ DiffedInv' /\ BetweenInv' /\ FilesInv' /\ ~Between
       /\ Source' = Source
  BY <1>2, <1>11, <1>13, SignerFrame
<1>17. SignedTo' = copier.pos
  BY <1>3, <1>5, <1>13 DEF SignedTo
<1>18. SignInv'
  BY <1>3, <1>4, <1>9, <1>11, <1>15, <1>16, <1>17 DEF SignInv, w
<1>19. TypeInv'
  BY <1>1, <1>3, <1>11, <1>13, <1>15, ZenonT(60) DEF TypeInv, DiffTypes, search
<1>20. TasksInv'
  <2>1. Ended' <=> Ended
    BY <1>3 DEF Ended
  <2>2. signer'.at # "over" /\ signer.at # "over"
    BY <1>2, <1>15
  <2>3. QED
    BY <1>1, <1>3, <1>16, <2>1, <2>2 DEF TasksInv, One
<1>21. QED
  BY <1>16, <1>18, <1>19, <1>20 DEF IInv

LEMMA SignEndsStep == ASSUME IInv, SignEnds PROVE IInv'
<1> DEFINE B == signature[at]
           last == IF signer.held # << >> \/ (B = << >> /\ signInput.end = "eof")
                   THEN <<signer.held>> ELSE << >>
<1>1. TypeInv /\ CopyInv /\ DiffInv /\ DiffedInv /\ SignInv /\ TasksInv /\ BetweenInv /\ FilesInv
  BY DEF IInv
<1>2. /\ signer.at = "scan" /\ signer' = [signer EXCEPT !.at = "over"]
      /\ UNCHANGED <<old, preferred, case, differ, group, copier, signInput, patch, ctx>>
  BY DEF SignEnds
<1>3. /\ old' = old /\ preferred' = preferred /\ case' = case /\ at' = at /\ copier' = copier
      /\ input' = input /\ search' = search /\ sent' = sent /\ diff' = diff /\ ctx' = ctx /\ signInput' = signInput
      /\ main' = main /\ result' = result /\ patch' = patch /\ collected' = collected
  BY <1>2 DEF differ, group
<1>4. at > 0 /\ Signs(B, signer.held, Source, SignedTo)
  BY <1>1, <1>2 DEF SignInv
<1>5. signer \in [at : {"scan", "over"}, held : Seq(Nat)] /\ done \in Seq(Outcomes)
  BY <1>1 DEF TypeInv
<1>6. signer'.at = "over" /\ signer' \in [at : {"scan", "over"}, held : Seq(Nat)]
  <2>1. signer' = [at |-> "over", held |-> signer.held]
    BY <1>2, <1>5
  <2>2. QED
    BY <1>5, <2>1
<1>7. last \in Seq(Seq(Nat))
  <2>1. signer.held \in Seq(Nat)
    BY <1>5
  <2> DEFINE h == signer.held
  <2> HIDE DEF h
  <2>2. <<h>> \in Seq(Seq(Nat)) /\ << >> \in Seq(Seq(Nat))
    BY <2>1 DEF h
  <2>3. QED
    BY <2>2 DEF h
<1>8. B \in Seq(Seq(Nat))
  <2>1. signature \in Seq(Seq(Seq(Nat))) /\ Len(signature) = at
    BY <1>1 DEF TypeInv, FilesInv
  <2>2. Len(signature) \in Nat
    BY <2>1
  <2>3. QED
    BY <1>4, <2>1, <2>2
<1>9. PICK r \in Outcomes :
        /\ done' = Append(done, r)
        /\ \/ signature' = signature
           \/ signInput.bytes = << >> /\ signInput.end # "open" /\ signature' = SignatureWith(last)
        /\ r = "nil" => signInput.bytes = << >> /\ signInput.end = "eof" /\ signature' = SignatureWith(last)
  <2>1. \/ /\ signInput.bytes = << >> /\ signInput.end # "open" /\ signature' = SignatureWith(last)
           /\ done' = Append(done, IF signInput.end = "eof" THEN "nil" ELSE "failed")
        \/ done' = Append(done, "failed") /\ signature' = signature
        \/ done' = Append(done, "cancelled") /\ signature' = signature
    BY DEF SignEnds
  <2> HIDE DEF last
  <2>2. CASE /\ signInput.bytes = << >> /\ signInput.end # "open" /\ signature' = SignatureWith(last)
             /\ done' = Append(done, IF signInput.end = "eof" THEN "nil" ELSE "failed")
    <3>1. CASE signInput.end = "eof"
      BY <2>2, <3>1 DEF Outcomes
    <3>2. CASE signInput.end # "eof"
      BY <2>2, <3>2 DEF Outcomes
    <3>3. QED
      BY <3>1, <3>2
  <2>3. CASE done' = Append(done, "failed") /\ signature' = signature
    BY <2>3 DEF Outcomes
  <2>4. CASE done' = Append(done, "cancelled") /\ signature' = signature
    BY <2>4 DEF Outcomes
  <2>5. QED
    BY <2>1, <2>2, <2>3, <2>4
<1>10. /\ signature' \in Seq(Seq(Seq(Nat))) /\ Len(signature') = Len(signature)
       /\ \A f \in 1 .. at - 1 : signature'[f] = signature[f]
  <2>1. CASE signature' = signature
    BY <1>1, <2>1 DEF TypeInv
  <2>2. CASE signature' = SignatureWith(last)
    <3> HIDE DEF last
    <3>1. QED
      BY <1>2, <1>7, <2>2, SignatureWithIs
  <2>3. QED
    BY <1>9, <2>1, <2>2
<1>11. r = "nil" => signature'[at] = BlocksOf(Source)
  <2> SUFFICES ASSUME r = "nil" PROVE signature'[at] = BlocksOf(Source)
    OBVIOUS
  <2>1. signInput.bytes = << >> /\ signInput.end = "eof" /\ signature' = SignatureWith(last)
    BY <1>9
  <2>2. copier.at = "over" /\ copier.pos = Len(Source)
    BY <1>1, <1>4, <2>1 DEF CopyInv
  <2>3. SignedTo = Len(Source)
    BY <2>1, <2>2 DEF SignedTo
  <2>4. signature'[at] = B \o last
    <3> HIDE DEF last
    <3>1. QED
      BY <1>2, <1>7, <2>1, SignatureWithIs
  <2>5. Source \in Seq(Nat)
    BY <1>1, <1>4, SourceIs
  <2>6. Signs(B, signer.held, Source, Len(Source))
    BY <1>4, <2>3
  <2> HIDE DEF B
  <2>7. B \o (IF signer.held # << >> \/ B = << >> THEN <<signer.held>> ELSE << >>) = BlocksOf(Source)
    BY <1>8, <2>5, <2>6, SignsAll
  <2>8. last = IF signer.held # << >> \/ B = << >> THEN <<signer.held>> ELSE << >>
    BY <2>1 DEF B
  <2>9. QED
    BY <2>4, <2>7, <2>8
<1>12. /\ CopyInv' /\ DiffInv' /\ DiffedInv' /\ BetweenInv' /\ FilesInv' /\ ~Between
       /\ Source' = Source
  BY <1>2, <1>3, <1>10, SignerFrame
<1>13. SignInv'
  BY <1>6 DEF SignInv
<1>14. done' \in Seq(Outcomes) /\ Len(done') = Len(done) + 1 /\ Len(done) \in Nat
       /\ ((\A i \in DOMAIN done' : done'[i] = "nil") => r = "nil" /\ \A i \in DOMAIN done : done[i] = "nil")
  BY <1>5, <1>9, ResultAdded
<1>15. TypeInv'
  BY <1>1, <1>3, <1>6, <1>10, <1>14, ZenonT(60) DEF TypeInv, DiffTypes, search
<1>16. TasksInv'
  <2> SUFFICES ASSUME main = "tasks" PROVE TasksInv'
    BY <1>3 DEF TasksInv
  <2>1. /\ collected + Len(done) = One(copier.at = "over") + One(Ended) + One(signer.at = "over")
        /\ diff.at # "over"
        /\ (\A i \in DOMAIN done : done[i] = "nil") =>
             /\ Ended => diff.at = "nil"
             /\ copier.at = "over" => input.end = "eof"
    BY <1>1 DEF TasksInv
  <2>2. Ended' <=> Ended
    BY <1>3 DEF Ended
  <2>3. collected' + Len(done') = One(copier.at = "over")' + One(Ended)' + One(signer.at = "over")'
    <3>1. One(signer.at = "over")' = 1 /\ One(signer.at = "over") = 0
      BY <1>2, <1>6 DEF One
    <3>2. One(Ended)' = One(Ended) /\ One(copier.at = "over")' = One(copier.at = "over")
      BY <1>3, <2>2 DEF One
    <3>3. One(Ended) \in Nat /\ One(copier.at = "over") \in Nat /\ collected \in Nat
      BY <1>1 DEF One, TypeInv
    <3>4. QED
      BY <1>3, <1>14, <2>1, <3>1, <3>2, <3>3
  <2>4. QED
    BY <1>3, <1>4, <1>11, <1>12, <1>14, <2>1, <2>2, <2>3 DEF TasksInv
<1>17. QED
  BY <1>12, <1>13, <1>15, <1>16 DEF IInv

-----------------------------------------------------------------------------
(* The main goroutine                                                       *)

LEMMA InitHolds == ASSUME Init PROVE IInv
<1>1. /\ case \in Cases /\ old = case.old /\ preferred = 0 /\ input = Closed /\ sent = NothingSent /\ diff = Over
      /\ main = "file" /\ result = "none" /\ at = 0 /\ collected = 0 /\ done = << >>
      /\ copier = [at |-> "over", from |-> 0, pos |-> 0]
      /\ signInput = Closed /\ signer = [at |-> "over", held |-> << >>]
      /\ signature = << >> /\ patch = << >> /\ ctx = "live"
  BY DEF Init
<1>2. /\ buffer = [i \in 0 .. BufLen - 1 |-> 0] /\ validTo = 0 /\ window = 0 /\ pending = 0
      /\ rolling = [on |-> FALSE, b1 |-> 0, b2 |-> 0, pop |-> 0]
  BY DEF Init, NewSearch, Blank
<1>3. case.new \in Seq(Seq(Nat))
  BY <1>1, CasesAssumption
<1>4. ~(at > 0) /\ ~Running /\ Between /\ diff.at = "over"
  BY <1>1 DEF Running, Over, Between
<1>5. DiffTypes
  <2>1. input \in Pipe
    BY <1>1 DEF Pipe, Closed
  <2>2. sent \in Sendings(old)
    BY <1>1 DEF NothingSent, Sendings
  <2>3. diff \in [at : {"over", "extend", "read", "look", "nil", "failed"}, n : Nat, last : BOOLEAN]
    BY <1>1 DEF Over
  <2>4. rolling \in [on : BOOLEAN, b1 : Int, b2 : Int, pop : Nat]
    BY <1>2
  <2>5. buffer \in [0 .. BufLen - 1 -> Nat] /\ validTo \in Nat /\ window \in Nat /\ pending \in Nat
    BY <1>2
  <2>6. QED
    BY <2>1, <2>2, <2>3, <2>4, <2>5 DEF DiffTypes
<1>6. TypeInv
  <2>1. at \in 0 .. Len(case.new)
    BY <1>1, <1>3
  <2>2. signInput \in Pipe
    BY <1>1 DEF Pipe, Closed
  <2>3. done \in Seq(Outcomes) /\ signature \in Seq(Seq(Seq(Nat))) /\ patch \in Seq(Seq(Ops(old)))
    BY <1>1
  <2>4. signer \in [at : {"scan", "over"}, held : Seq(Nat)]
    BY <1>1
  <2>5. copier \in [at : {"read", "to signer", "signed", "over"}, from : Nat, pos : Nat]
    BY <1>1
  <2>6. QED
    BY <1>1, <1>5, <2>1, <2>2, <2>3, <2>4, <2>5 DEF TypeInv, Outcomes
<1>7. CopyInv /\ DiffInv
  BY <1>4 DEF CopyInv, DiffInv, SearchInv, MadeInv, RollInv, UntouchedInv
<1>8. DiffedInv /\ SignInv /\ TasksInv /\ BetweenInv
  BY <1>1, <1>4 DEF DiffedInv, SignInv, TasksInv, BetweenInv
<1>9. FilesInv
  <2>1. Len(signature) = 0 /\ Len(patch) = 0 /\ DOMAIN patch = {}
    BY <1>1
  <2>2. QED
    BY <1>1, <1>4, <2>1 DEF FilesInv
<1>10. QED
  BY <1>6, <1>7, <1>8, <1>9 DEF IInv

LEMMA StartFileStep == ASSUME IInv, StartFile PROVE IInv'
<1>1. TypeInv /\ CopyInv /\ DiffInv /\ DiffedInv /\ SignInv /\ TasksInv /\ BetweenInv /\ FilesInv
  BY DEF IInv
<1>2. /\ main = "file" /\ at < Len(case.new) /\ at' = at + 1 /\ main' = "tasks"
      /\ preferred' = case.like[at + 1]
      /\ buffer' = buffer /\ validTo' = 0 /\ window' = 0 /\ pending' = 0
      /\ rolling' = [rolling EXCEPT !.on = FALSE]
      /\ input' = Opened /\ sent' = NothingSent /\ diff' = Ready /\ collected' = 0
      /\ copier' = [at |-> "read", from |-> 0, pos |-> 0]
      /\ signInput' = Opened /\ signer' = [at |-> "scan", held |-> << >>]
      /\ signature' = Append(signature, << >>)
      /\ old' = old /\ case' = case /\ result' = result /\ done' = done /\ patch' = patch /\ ctx' = ctx
  BY DEF StartFile
<1>3. /\ case.new \in Seq(Seq(Nat)) /\ case.like \in [DOMAIN case.new -> {0} \cup DOMAIN old]
      /\ old \in Seq(Seq(Nat))
  BY <1>1, OldIs
<1>4. at \in Nat /\ at + 1 \in 1 .. Len(case.new) /\ at + 1 \in DOMAIN case.new /\ at + 1 > 0
  <2>1. at \in 0 .. Len(case.new)
    BY <1>1 DEF TypeInv
  <2>2. Len(case.new) \in Nat /\ DOMAIN case.new = 1 .. Len(case.new)
    BY <1>3
  <2> DEFINE l == Len(case.new)
  <2> HIDE DEF l
  <2>3. at \in 0 .. l /\ at < l /\ l \in Nat /\ DOMAIN case.new = 1 .. l
    BY <1>2, <2>1, <2>2 DEF l
  <2>4. at \in Nat /\ at + 1 \in 1 .. l
    BY <2>3
  <2>5. QED
    BY <2>3, <2>4 DEF l
<1>5. result = "none" /\ Between /\ done = << >>
  BY <1>1, <1>2 DEF TypeInv, Between, BetweenInv
<1>6. ~Between'
  BY <1>2, <1>5 DEF Between
<1> DEFINE D == case.new[at + 1]
<1>7. Source' = D /\ D \in Seq(Nat) /\ Len(D) \in Nat
  BY <1>2, <1>3, <1>4 DEF Source
<1>8. /\ input'.bytes = << >> /\ input'.end = "open" /\ input' \in Pipe
      /\ signInput'.bytes = << >> /\ signInput'.end = "open" /\ signInput' \in Pipe
  <2>1. << >> \in Seq(Nat)
    OBVIOUS
  <2>2. Opened.bytes = << >> /\ Opened.end = "open" /\ Opened \in Pipe
    BY <2>1 DEF Opened, Pipe
  <2>3. QED
    BY <1>2, <2>2
<1>9. sent'.ops = << >> /\ sent'.prev = NoOp /\ sent' \in Sendings(old)
  BY <1>2 DEF NothingSent, Sendings
<1>10. /\ diff'.at = "extend" /\ diff'.last = FALSE
       /\ diff' \in [at : {"over", "extend", "read", "look", "nil", "failed"}, n : Nat, last : BOOLEAN]
  BY <1>2 DEF Ready
<1>11. ~rolling'.on /\ rolling' \in [on : BOOLEAN, b1 : Int, b2 : Int, pop : Nat]
  <2>1. rolling \in [on : BOOLEAN, b1 : Int, b2 : Int, pop : Nat]
    BY <1>1 DEF TypeInv, DiffTypes
  <2>2. QED
    BY <1>2, <2>1
<1>12. Taken' = 0 /\ Origin' = 0 /\ SignedTo' = 0
  <2>1. Len(input'.bytes) = 0
    BY <1>8
  <2>2. Taken' = 0
    BY <1>2, <2>1 DEF Taken
  <2>3. Origin' = 0
    BY <1>2, <2>2 DEF Origin
  <2>4. SignedTo' = 0
    BY <1>2, <1>8 DEF SignedTo
  <2>5. QED
    BY <2>2, <2>3, <2>4
<1>13. SubSeq(D, 1, 0) = << >>
  BY <1>7
<1>14. TypeInv'
  <2>1. preferred' \in Nat
    <3>1. case.like[at + 1] \in {0} \cup DOMAIN old
      BY <1>3, <1>4
    <3>2. DOMAIN old \subseteq Nat
      BY <1>3
    <3>3. QED
      BY <1>2, <3>1, <3>2
  <2>2. at' \in 0 .. Len(case'.new)
    BY <1>2, <1>4
  <2>3. signature' \in Seq(Seq(Seq(Nat)))
    <3> DEFINE e == << >>
    <3>1. e \in Seq(Seq(Nat))
      OBVIOUS
    <3>2. signature' = Append(signature, e) /\ signature \in Seq(Seq(Seq(Nat)))
      BY <1>1, <1>2 DEF TypeInv
    <3> HIDE DEF e
    <3>3. QED
      BY <3>1, <3>2
  <2>4. signer' \in [at : {"scan", "over"}, held : Seq(Nat)]
    BY <1>2
  <2>5. copier' \in [at : {"read", "to signer", "signed", "over"}, from : Nat, pos : Nat]
    BY <1>2
  <2>6. DiffTypes'
    BY <1>1, <1>2, <1>8, <1>9, <1>10, <1>11 DEF TypeInv, DiffTypes
  <2>7. QED
    BY <1>1, <1>2, <1>5, <1>8, <2>1, <2>2, <2>3, <2>4, <2>5, <2>6, ZenonT(60) DEF TypeInv
<1>15. CopyInv'
  <2>1. input'.bytes = SubSeq(Source', Taken' + 1, copier'.pos)
    <3>1. Taken' + 1 = 1 /\ copier'.pos = 0
      BY <1>2, <1>12
    <3>2. QED
      BY <1>7, <1>8, <1>13, <3>1
  <2>2. copier'.at = "read" /\ copier'.from <= copier'.pos /\ copier'.pos <= Len(Source')
    BY <1>2, <1>7
  <2>3. QED
    BY <1>8, <1>12, <2>1, <2>2 DEF CopyInv
<1>16. DiffInv'
  <2>1. SearchInv'
    <3>1. Buffered(Source', Origin', buffer', validTo')
      <4>1. 0 <= BufLen
        BY BufLenHolds DEF BufLenIs
      <4>2. Origin' \in Nat /\ validTo' <= BufLen /\ Origin' + validTo' <= Len(Source') /\ 0 .. validTo' - 1 = {}
        BY <1>2, <1>7, <1>12, <4>1
      <4>3. QED
        BY <4>2 DEF Buffered
    <3>2. pending' <= window' /\ window' <= validTo' /\ window' - pending' <= MaxDataOp
      BY <1>2, BlockSizeIs
    <3>3. at' > 0
      BY <1>2, <1>4
    <3>4. QED
      BY <1>10, <3>1, <3>2, <3>3 DEF SearchInv
  <2>2. MadeInv'
    <3>1. Made(old, sent') = << >> \o << >>
      BY <1>9, ContentsNone DEF Made
    <3>2. << >> \o << >> = << >>
      OBVIOUS
    <3>3. Origin' + pending' = 0
      BY <1>2, <1>12
    <3>4. AllFull(sent'.ops)
      BY <1>9 DEF AllFull
    <3>5. Made(old', sent') = SubSeq(Source', 1, Origin' + pending')
      BY <1>2, <1>7, <1>13, <3>1, <3>2, <3>3
    <3>6. QED
      BY <3>4, <3>5 DEF MadeInv
  <2>3. RollInv'
    BY <1>11 DEF RollInv
  <2>4. UntouchedInv'
    <3>1. 0 \in 0 .. Len(Source') /\ Origin' + window' = 0 * BlockSize
      BY <1>2, <1>7, <1>12, BlockSizeIs
    <3>2. sent'.prev = IF 0 = 0 THEN NoOp ELSE RangeOf(case'.like[at'], 0)
      BY <1>9
    <3>3. \E k \in 0 .. Len(Source') :
            /\ Origin' + window' = k * BlockSize
            /\ sent'.prev = IF k = 0 THEN NoOp ELSE RangeOf(case'.like[at'], k)
      BY <3>1, <3>2
    <3>4. pending' = window' /\ validTo' = window'
      BY <1>2
    <3>5. QED
      BY <1>9, <1>10, <1>11, <3>3, <3>4 DEF UntouchedInv
  <2>5. QED
    BY <2>1, <2>2, <2>3, <2>4 DEF DiffInv
<1>17. DiffedInv'
  BY <1>10 DEF DiffedInv
<1>18. signature \in Seq(Seq(Seq(Nat))) /\ Len(signature) = at /\ Len(patch) = at /\ patch \in Seq(Seq(Ops(old)))
  BY <1>1, <1>5 DEF TypeInv, FilesInv
<1>19. Len(signature') = at + 1 /\ signature'[at + 1] = << >> /\ \A f \in 1 .. at : signature'[f] = signature[f]
  BY <1>2, <1>18
<1>20. SignInv'
  <2>1. SubSeq(D, 0 * BlockSize + 1, 0) = << >> /\ 0 * BlockSize = 0
    <3>1. 0 * BlockSize = 0
      BY BlockSizeIs
    <3>2. 0 * BlockSize + 1 = 1
      BY <3>1
    <3>3. QED
      BY <1>13, <3>1, <3>2
  <2> DEFINE e == << >>
  <2>2. Len(e) = 0 /\ DOMAIN e = {}
    OBVIOUS
  <2>3. Len(e) * BlockSize = 0 /\ Len(e) * BlockSize + BlockSize > 0 /\ SubSeq(D, Len(e) * BlockSize + 1, 0) = << >>
    BY <2>1, <2>2, BlockSizeIs
  <2> HIDE DEF e
  <2>4. Signs(e, << >>, D, 0)
    BY <2>2, <2>3 DEF Signs
  <2>5. signature'[at'] = e /\ signer'.held = << >>
    BY <1>2, <1>19 DEF e
  <2>6. QED
    BY <1>2, <1>4, <1>7, <1>12, <2>4, <2>5 DEF SignInv
<1>21. TasksInv'
  <2>1. ~Ended' /\ copier'.at # "over" /\ signer'.at # "over"
    BY <1>2, <1>10 DEF Ended
  <2>2. collected' + Len(done') = 0
    BY <1>2, <1>5
  <2>3. QED
    BY <1>2, <1>4, <1>10, <2>1, <2>2 DEF TasksInv, One
<1>22. BetweenInv'
  BY <1>6 DEF BetweenInv
<1>23. FilesInv'
  <2>1. Len(signature') = at' /\ Len(patch') = at' - 1
    BY <1>2, <1>4, <1>18, <1>19
  <2>2. ASSUME NEW f \in DOMAIN patch'
        PROVE  /\ Contents(old, patch[f]) = case.new[f]
               /\ Bounded(patch[f], case.new[f])
               /\ signature'[f] = BlocksOf(case.new[f])
               /\ Untouched(f) => patch[f] = <<RangeOf(case.like[f], Len(BlocksOf(case.new[f])))>>
    <3>1. f \in DOMAIN patch /\ f \in 1 .. at
      BY <1>2, <1>18, <2>2
    <3>2. QED
      BY <1>1, <1>19, <3>1 DEF FilesInv
  <2>3. \A f : Untouched(f)' <=> Untouched(f)
    BY <1>2 DEF Untouched
  <2>4. result' # "nil"
    BY <1>2, <1>5
  <2>5. QED
    BY <1>2, <1>6, <2>1, <2>2, <2>3, <2>4 DEF FilesInv
<1>24. QED
  BY <1>14, <1>15, <1>16, <1>17, <1>20, <1>21, <1>22, <1>23 DEF IInv

\* The operations of a file whose three tasks have succeeded.
LEMMA FileDone ==
  ASSUME IInv, main = "tasks", done # << >>, Head(done) = "nil", collected = 2
  PROVE  /\ Tail(done) = << >> /\ copier.at = "over" /\ signer.at = "over" /\ diff.at = "nil" /\ ~Running
         /\ at > 0 /\ sent.ops \in Seq(Ops(old))
         /\ Contents(old, sent.ops) = Source /\ Bounded(sent.ops, Source)
         /\ signature[at] = BlocksOf(Source)
         /\ Untouched(at) => sent.ops = <<RangeOf(case.like[at], Len(BlocksOf(Source)))>>
<1>1. TypeInv /\ CopyInv /\ DiffInv /\ DiffedInv /\ SignInv /\ TasksInv /\ BetweenInv /\ FilesInv
  BY DEF IInv
<1>2. /\ at > 0
      /\ collected + Len(done) = One(copier.at = "over") + One(Ended) + One(signer.at = "over")
      /\ (\A i \in DOMAIN done : done[i] = "nil") =>
           /\ Ended => diff.at = "nil"
           /\ copier.at = "over" => input.end = "eof"
           /\ signer.at = "over" => signature[at] = BlocksOf(Source)
  BY <1>1 DEF TasksInv
<1>3. done \in Seq(Outcomes) /\ Len(done) \in Nat /\ Len(done) >= 1
  <2>1. done \in Seq(Outcomes)
    BY <1>1 DEF TypeInv
  <2>2. QED
    BY <2>1
<1>4. Len(done) = 1 /\ copier.at = "over" /\ Ended /\ signer.at = "over"
  <2> DEFINE l == Len(done)
             a == One(copier.at = "over")
             b == One(Ended)
             c == One(signer.at = "over")
  <2>1. a \in {0, 1} /\ b \in {0, 1} /\ c \in {0, 1}
    BY DEF One
  <2>2. 2 + l = a + b + c /\ l \in Nat /\ l >= 1
    BY <1>2, <1>3
  <2>3. l = 1 /\ a = 1 /\ b = 1 /\ c = 1
    <3> HIDE DEF l, a, b, c
    <3>1. QED
      BY <2>1, <2>2
  <2>4. QED
    BY <2>3 DEF One
<1>5. Tail(done) = << >> /\ \A i \in DOMAIN done : done[i] = "nil"
  <2>1. DOMAIN done = 1 .. 1 /\ done[1] = "nil"
    BY <1>3, <1>4
  <2>2. Tail(done) = << >>
    <3>1. done # << >>
      BY <1>4
    <3>2. Tail(done) \in Seq(Outcomes) /\ Len(Tail(done)) = Len(done) - 1
      BY <1>3, <3>1
    <3> DEFINE t == Tail(done)
    <3> HIDE DEF t
    <3>3. t \in Seq(Outcomes) /\ Len(t) = 0
      BY <1>4, <3>2 DEF t
    <3>4. t = << >>
      BY <3>3
    <3>5. QED
      BY <3>4 DEF t
  <2>3. QED
    BY <2>1, <2>2
<1>6. diff.at = "nil" /\ input.end = "eof" /\ signature[at] = BlocksOf(Source)
  BY <1>2, <1>4, <1>5
<1>7. Contents(old, sent.ops) = Source /\ Bounded(sent.ops, Source)
  BY <1>1, <1>6 DEF DiffedInv
<1>8. Untouched(at) => sent.ops = <<RangeOf(case.like[at], Len(BlocksOf(Source)))>>
  BY <1>1, <1>2, <1>6 DEF DiffInv, UntouchedInv
<1>9. sent.ops \in Seq(Ops(old))
  BY <1>1 DEF TypeInv, DiffTypes, Sendings
<1>10. ~Running
  BY <1>6 DEF Running
<1>11. QED
  BY <1>2, <1>4, <1>5, <1>6, <1>7, <1>8, <1>9, <1>10

LEMMA CollectStep == ASSUME IInv, Collect PROVE IInv'
<1>1. TypeInv /\ CopyInv /\ DiffInv /\ DiffedInv /\ SignInv /\ TasksInv /\ BetweenInv /\ FilesInv
  BY DEF IInv
<1>2. /\ main = "tasks" /\ done # << >> /\ done' = Tail(done)
      /\ UNCHANGED <<old, preferred, case, differ, at, copier, signing, ctx>>
  BY DEF Collect
<1>3. /\ old' = old /\ preferred' = preferred /\ case' = case /\ at' = at /\ copier' = copier
      /\ input' = input /\ search' = search /\ sent' = sent /\ diff' = diff
      /\ signInput' = signInput /\ signer' = signer /\ signature' = signature /\ ctx' = ctx
  BY <1>2 DEF differ, signing
<1>4. Source' = Source /\ (Ended' <=> Ended) /\ (Running' <=> Running) /\ \A f : Untouched(f)' <=> Untouched(f)
  BY <1>3 DEF Source, Ended, Running, Untouched
<1>5. CopyInv' /\ DiffInv' /\ DiffedInv' /\ SignInv'
  BY <1>1, <1>2, TasksFrame
<1>6. done \in Seq(Outcomes) /\ Head(done) \in Outcomes /\ Tail(done) \in Seq(Outcomes) /\ Len(done) \in Nat
      /\ Len(Tail(done)) = Len(done) - 1
  <2>1. done \in Seq(Outcomes)
    BY <1>1 DEF TypeInv
  <2>2. QED
    BY <1>2, <2>1
<1>7. result = "none" /\ ~Between
  <2>1. result = "none"
    BY <1>1, <1>2 DEF TypeInv
  <2>2. QED
    BY <1>2, <2>1 DEF Between
<1>8. at \in Nat /\ patch \in Seq(Seq(Ops(old))) /\ Len(patch) = at - 1 /\ collected \in Nat
  <2>1. at \in 0 .. Len(case.new)
    BY <1>1 DEF TypeInv
  <2>2. at \in Nat
    BY <2>1
  <2>3. patch \in Seq(Seq(Ops(old))) /\ collected \in Nat
    BY <1>1 DEF TypeInv
  <2>4. Len(patch) = at - 1
    BY <1>1, <1>7 DEF FilesInv
  <2>5. QED
    BY <2>2, <2>3, <2>4
<1>9. CASE Head(done) # "nil"
  <2>1. main' = "returned" /\ result' = Head(done) /\ collected' = collected /\ patch' = patch
    BY <1>9 DEF Collect
  <2>2. ~Between'
    BY <1>9, <2>1 DEF Between
  <2>3. TypeInv'
    <3>1. result' \in Outcomes \cup {"none"} /\ result' # "none"
      BY <1>6, <2>1 DEF Outcomes
    <3>2. QED
      BY <1>1, <1>2, <1>3, <1>6, <2>1, <3>1, ZenonT(60) DEF TypeInv, DiffTypes, search
  <2>4. TasksInv' /\ BetweenInv'
    BY <2>1, <2>2 DEF TasksInv, BetweenInv
  <2>5. FilesInv'
    BY <1>1, <1>3, <1>4, <1>7, <1>9, <2>1, <2>2 DEF FilesInv
  <2>6. QED
    BY <1>5, <2>3, <2>4, <2>5 DEF IInv
<1>10. CASE Head(done) = "nil" /\ collected # 2
  <2>1. main' = main /\ result' = result /\ collected' = collected + 1 /\ patch' = patch
    BY <1>10 DEF Collect
  <2>2. ~Between'
    BY <1>2, <1>7, <2>1 DEF Between
  <2>3. TypeInv'
    <3>1. collected' \in Nat
      BY <1>8, <2>1
    <3>2. QED
      BY <1>1, <1>2, <1>3, <1>6, <2>1, <3>1, ZenonT(60) DEF TypeInv, DiffTypes, search
  <2>4. BetweenInv'
    BY <2>2 DEF BetweenInv
  <2>5. FilesInv'
    BY <1>1, <1>3, <1>4, <1>7, <2>1, <2>2 DEF FilesInv
  <2>6. TasksInv'
    <3>1. /\ at > 0 /\ diff.at # "over"
          /\ collected + Len(done) = One(copier.at = "over") + One(Ended) + One(signer.at = "over")
          /\ (\A i \in DOMAIN done : done[i] = "nil") =>
               /\ Ended => diff.at = "nil"
               /\ copier.at = "over" => input.end = "eof"
               /\ signer.at = "over" => signature[at] = BlocksOf(Source)
      BY <1>1, <1>2 DEF TasksInv
    <3>2. collected' + Len(done') = collected + Len(done)
      <4> DEFINE l == Len(done)
      <4>1. Len(done') = l - 1 /\ l \in Nat
        BY <1>2, <1>6
      <4> HIDE DEF l
      <4>2. QED
        BY <1>8, <2>1, <4>1 DEF l
    <3>3. ASSUME \A i \in DOMAIN done' : done'[i] = "nil"
          PROVE  \A i \in DOMAIN done : done[i] = "nil"
      <4> SUFFICES ASSUME NEW i \in DOMAIN done PROVE done[i] = "nil"
        OBVIOUS
      <4>1. CASE i = 1
        BY <1>10, <4>1
      <4>2. CASE i # 1
        <5>1. i \in 1 .. Len(done) /\ DOMAIN Tail(done) = 1 .. Len(done) - 1
          BY <1>6
        <5>2. i - 1 \in DOMAIN Tail(done) /\ Tail(done)[i - 1] = done[i]
          BY <1>2, <1>6, <4>2, <5>1
        <5>3. QED
          BY <1>2, <3>3, <5>2
      <4>3. QED
        BY <4>1, <4>2
    <3>4. One(copier.at = "over")' = One(copier.at = "over") /\ One(Ended)' = One(Ended)
          /\ One(signer.at = "over")' = One(signer.at = "over")
      BY <1>3, <1>4 DEF One
    <3>5. QED
      BY <1>3, <1>4, <3>1, <3>2, <3>3, <3>4 DEF TasksInv
  <2>7. QED
    BY <1>5, <2>3, <2>4, <2>5, <2>6 DEF IInv
<1>11. CASE Head(done) = "nil" /\ collected = 2
  <2>1. main' = "file" /\ result' = result /\ collected' = collected + 1 /\ patch' = Append(patch, sent.ops)
    BY <1>11 DEF Collect
  <2>2. /\ Tail(done) = << >> /\ copier.at = "over" /\ signer.at = "over" /\ ~Running
        /\ at > 0 /\ sent.ops \in Seq(Ops(old))
        /\ Contents(old, sent.ops) = Source /\ Bounded(sent.ops, Source)
        /\ signature[at] = BlocksOf(Source)
        /\ Untouched(at) => sent.ops = <<RangeOf(case.like[at], Len(BlocksOf(Source)))>>
    BY <1>2, <1>11, FileDone
  <2>3. Between'
    BY <2>1 DEF Between
  <2> DEFINE ops == sent.ops
  <2> HIDE DEF ops
  <2>4. ops \in Seq(Ops(old)) /\ patch' = Append(patch, ops)
    BY <2>1, <2>2 DEF ops
  <2>5. /\ patch' \in Seq(Seq(Ops(old))) /\ Len(patch') = at /\ patch'[at] = ops /\ DOMAIN patch' = 1 .. at
        /\ \A f \in 1 .. at - 1 : patch'[f] = patch[f] /\ f \in DOMAIN patch
    BY <1>8, <2>4
  <2>6. TypeInv'
    <3>1. collected' \in Nat
      BY <1>8, <2>1
    <3>2. done' \in Seq(Outcomes) /\ patch' \in Seq(Seq(Ops(old))) /\ main' = "file" /\ result' = "none"
      BY <1>2, <1>6, <1>7, <2>1, <2>5
    <3>3. QED
      BY <1>1, <1>3, <3>1, <3>2, ZenonT(60) DEF TypeInv, DiffTypes, search
  <2>7. TasksInv'
    BY <2>1 DEF TasksInv
  <2>8. BetweenInv'
    BY <1>2, <1>3, <1>4, <2>2 DEF BetweenInv
  <2>9. ASSUME NEW f \in 1 .. at
        PROVE  /\ Contents(old, patch'[f]) = case.new[f]
               /\ Bounded(patch'[f], case.new[f])
               /\ signature[f] = BlocksOf(case.new[f])
               /\ Untouched(f) => patch'[f] = <<RangeOf(case.like[f], Len(BlocksOf(case.new[f])))>>
    <3>1. CASE f = at
      BY <2>2, <2>5, <3>1 DEF ops, Source
    <3>2. CASE f # at
      <4>1. f \in 1 .. at - 1
        BY <1>8, <3>2
      <4>2. QED
        BY <1>1, <2>5, <4>1 DEF FilesInv
    <3>3. QED
      BY <3>1, <3>2
  <2>10. FilesInv'
    <3>1. Len(signature') = at' /\ Len(patch') = at' /\ result' # "nil"
      BY <1>1, <1>3, <1>7, <2>1, <2>5 DEF FilesInv
    <3>2. QED
      BY <1>3, <1>4, <2>3, <2>5, <2>9, <3>1 DEF FilesInv
  <2>11. QED
    BY <1>5, <2>6, <2>7, <2>8, <2>10 DEF IInv
<1>12. QED
  BY <1>9, <1>10, <1>11

LEMMA CollectCancelledStep == ASSUME IInv, CollectCancelled PROVE IInv'
<1>1. TypeInv /\ CopyInv /\ DiffInv /\ DiffedInv /\ SignInv /\ TasksInv /\ BetweenInv /\ FilesInv
  BY DEF IInv
<1>2. /\ main = "tasks" /\ main' = "returned" /\ result' = "cancelled"
      /\ UNCHANGED <<old, preferred, case, differ, at, collected, done, copier, signing, patch, ctx>>
  BY DEF CollectCancelled
<1>3. /\ old' = old /\ preferred' = preferred /\ case' = case /\ at' = at /\ copier' = copier
      /\ input' = input /\ search' = search /\ sent' = sent /\ diff' = diff /\ collected' = collected
      /\ signInput' = signInput /\ signer' = signer /\ signature' = signature /\ ctx' = ctx
      /\ done' = done /\ patch' = patch
  BY <1>2 DEF differ, signing
<1>4. CopyInv' /\ DiffInv' /\ DiffedInv' /\ SignInv'
  BY <1>1, <1>2, TasksFrame
<1>5. ~Between /\ ~Between'
  BY <1>1, <1>2 DEF TypeInv, Between
<1>6. TypeInv'
  BY <1>1, <1>2, <1>3, ZenonT(60) DEF TypeInv, DiffTypes, search, Outcomes
<1>7. TasksInv' /\ BetweenInv'
  BY <1>2, <1>5 DEF TasksInv, BetweenInv
<1>8. \A f : Untouched(f)' <=> Untouched(f)
  BY <1>3 DEF Untouched
<1>9. FilesInv'
  BY <1>1, <1>2, <1>3, <1>5, <1>8 DEF FilesInv
<1>10. QED
  BY <1>4, <1>6, <1>7, <1>9 DEF IInv

LEMMA FinishStep == ASSUME IInv, Finish PROVE IInv'
<1>1. TypeInv /\ CopyInv /\ DiffInv /\ DiffedInv /\ SignInv /\ TasksInv /\ BetweenInv /\ FilesInv
  BY DEF IInv
<1>2. /\ main = "file" /\ at = Len(case.new) /\ main' = "returned" /\ result' = "nil"
      /\ UNCHANGED <<old, preferred, case, differ, at, collected, done, copier, signing, patch, ctx>>
  BY DEF Finish
<1>3. /\ old' = old /\ preferred' = preferred /\ case' = case /\ at' = at /\ copier' = copier
      /\ input' = input /\ search' = search /\ sent' = sent /\ diff' = diff /\ collected' = collected
      /\ signInput' = signInput /\ signer' = signer /\ signature' = signature /\ ctx' = ctx
      /\ done' = done /\ patch' = patch
  BY <1>2 DEF differ, signing
<1>4. CopyInv' /\ DiffInv' /\ DiffedInv' /\ SignInv'
  BY <1>1, <1>2, TasksFrame
<1>5. Between /\ Between' /\ (Running' <=> Running)
  BY <1>2, <1>3 DEF Between, Running
<1>6. TypeInv'
  BY <1>1, <1>2, <1>3, ZenonT(60) DEF TypeInv, DiffTypes, search, Outcomes
<1>7. TasksInv' /\ BetweenInv'
  BY <1>1, <1>2, <1>3, <1>5 DEF TasksInv, BetweenInv
<1>8. \A f : Untouched(f)' <=> Untouched(f)
  BY <1>3 DEF Untouched
<1>9. FilesInv'
  BY <1>1, <1>2, <1>3, <1>5, <1>8 DEF FilesInv
<1>10. QED
  BY <1>4, <1>6, <1>7, <1>9 DEF IInv

\* The context is done, or nothing happens.
LEMMA OtherSteps == ASSUME IInv, Cancel \/ UNCHANGED vars PROVE IInv'
<1>1. TypeInv /\ CopyInv /\ DiffInv /\ DiffedInv /\ SignInv /\ TasksInv /\ BetweenInv /\ FilesInv
  BY DEF IInv
<1>2. /\ ctx' = ctx \/ ctx' = "done"
      /\ UNCHANGED <<old, preferred, case, differ, group, done, copier, signing, patch>>
  BY DEF Cancel, vars
<1>3. /\ old' = old /\ preferred' = preferred /\ case' = case /\ at' = at /\ copier' = copier
      /\ input' = input /\ search' = search /\ sent' = sent /\ diff' = diff /\ collected' = collected
      /\ main' = main /\ result' = result
      /\ signInput' = signInput /\ signer' = signer /\ signature' = signature
      /\ done' = done /\ patch' = patch
  BY <1>2 DEF differ, signing, group
<1>4. CopyInv' /\ DiffInv' /\ DiffedInv' /\ SignInv'
  BY <1>1, <1>2, <1>3, TasksFrame
<1>5. /\ (Between' <=> Between) /\ (Running' <=> Running) /\ (Ended' <=> Ended) /\ Source' = Source
      /\ \A f : Untouched(f)' <=> Untouched(f)
  BY <1>3 DEF Between, Running, Ended, Source, Untouched
<1>6. TypeInv'
  BY <1>1, <1>2, <1>3, ZenonT(60) DEF TypeInv, DiffTypes, search
<1>7. TasksInv'
  BY <1>1, <1>3, <1>5 DEF TasksInv, One
<1>8. BetweenInv'
  BY <1>1, <1>3, <1>5 DEF BetweenInv
<1>9. FilesInv'
  BY <1>1, <1>3, <1>5 DEF FilesInv
<1>10. QED
  BY <1>4, <1>6, <1>7, <1>8, <1>9 DEF IInv

-----------------------------------------------------------------------------
(* Theorems                                                                 *)

\* The invariant: what is pending, what was sent and what the copier has handed
\* out account for every byte of the file, for every build, size of blocks and
\* operations, modulus and order of the goroutines.
THEOREM IInvHolds == Spec => []IInv
<1>1. Init => IInv
  BY InitHolds
<1>2. IInv /\ [Next]_vars => IInv'
  <2> SUFFICES ASSUME IInv, [Next]_vars PROVE IInv'
    OBVIOUS
  <2>1. CASE MainNext
    <3>1. CASE StartFile
      BY <3>1, StartFileStep
    <3>2. CASE Collect
      BY <3>2, CollectStep
    <3>3. CASE CollectCancelled
      BY <3>3, CollectCancelledStep
    <3>4. CASE Finish
      BY <3>4, FinishStep
    <3>5. QED
      BY <2>1, <3>1, <3>2, <3>3, <3>4 DEF MainNext
  <2>2. CASE Differ
    BY <2>2, DifferStep
  <2>3. CASE CopierNext
    <3>1. CASE CopyChunk
      BY <3>1, CopyChunkStep
    <3>2. CASE CopyToSigner
      BY <3>2, CopyToSignerStep
    <3>3. CASE ChunkCopied
      BY <3>3, ChunkCopiedStep
    <3>4. CASE CopyEnds
      BY <3>4, CopyEndsStep
    <3>5. QED
      BY <2>3, <3>1, <3>2, <3>3, <3>4 DEF CopierNext
  <2>4. CASE SignerNext
    BY <2>4, SignBlocksStep, SignEndsStep DEF SignerNext
  <2>5. CASE Cancel \/ UNCHANGED vars
    BY <2>5, OtherSteps
  <2>6. CASE Idle
    BY <2>6, OtherSteps DEF Idle
  <2>7. QED
    BY <2>1, <2>2, <2>3, <2>4, <2>5, <2>6 DEF Next
<1>3. QED
  BY <1>1, <1>2, PTL DEF Spec

\* What ApplySingleFull makes of operations is what they were sent for.
LEMMA RebuiltIs ==
  ASSUME old \in Seq(Seq(Nat)), NEW ops \in Seq(Ops(old))
  PROVE  Rebuilt(ops) = Contents(old, ops)
<1>1. \A i \in DOMAIN ops : Bytes(ops[i]) = Content(old, ops[i])
  <2> SUFFICES ASSUME NEW i \in DOMAIN ops PROVE Bytes(ops[i]) = Content(old, ops[i])
    OBVIOUS
  <2>1. ops[i] \in Ops(old)
    OBVIOUS
  <2>2. QED
    BY <2>1, BytesAre
<1>2. [i \in DOMAIN ops |-> Bytes(ops[i])] = [i \in DOMAIN ops |-> Content(old, ops[i])]
  BY <1>1
<1>3. QED
  BY <1>2 DEF Rebuilt, Contents

\* When WritePatch returns nil, applying the operations of each file to the old
\* build gives the file, and the signature has its blocks: although ComputeDiff
\* loses the error of a read when it still has a range to send, and whichever of
\* the three goroutines fails, is cancelled or is left behind.
THEOREM PatchIsRightHolds == Spec => []PatchIsRight
<1>1. IInv => PatchIsRight
  <2> SUFFICES ASSUME IInv, main = "returned", result = "nil"
               PROVE  /\ Len(patch) = Len(case.new)
                      /\ \A f \in DOMAIN case.new :
                           Rebuilt(patch[f]) = case.new[f] /\ signature[f] = BlocksOf(case.new[f])
    BY DEF PatchIsRight
  <2>1. FilesInv /\ TypeInv /\ Between
    BY DEF IInv, Between
  <2>2. Len(patch) = Len(case.new)
    BY <2>1 DEF FilesInv
  <2>3. old \in Seq(Seq(Nat)) /\ case.new \in Seq(Seq(Nat))
    BY <2>1, OldIs
  <2>4. patch \in Seq(Seq(Ops(old)))
    BY <2>1 DEF TypeInv
  <2>5. DOMAIN case.new = DOMAIN patch
    <3>1. DOMAIN case.new = 1 .. Len(case.new) /\ DOMAIN patch = 1 .. Len(patch)
      BY <2>3, <2>4
    <3>2. QED
      BY <2>2, <3>1
  <2>6. ASSUME NEW f \in DOMAIN patch
        PROVE  Rebuilt(patch[f]) = case.new[f] /\ signature[f] = BlocksOf(case.new[f])
    <3>1. patch[f] \in Seq(Ops(old))
      BY <2>4
    <3>2. Rebuilt(patch[f]) = Contents(old, patch[f])
      BY <2>3, <3>1, RebuiltIs
    <3>3. QED
      BY <2>1, <3>2 DEF FilesInv
  <2>7. QED
    BY <2>2, <2>5, <2>6
<1>2. QED
  BY <1>1, IInvHolds, PTL

\* The hash that is rolled is the hash of the window, wherever the buffer wrapped,
\* as long as the window is a full one.
THEOREM RolledIsHashHolds == Spec => []RolledIsHash
<1>1. IInv => RolledIsHash
  BY WeakIs DEF IInv, RolledIsHash
<1>2. QED
  BY <1>1, IInvHolds, PTL

\* A file that has the contents of the old file of its path, no block of them
\* twice, is one range over all of it.
THEOREM UntouchedIsOneRangeHolds == Spec => []UntouchedIsOneRange
<1>1. IInv => UntouchedIsOneRange
  <2> SUFFICES ASSUME IInv, NEW f \in DOMAIN patch, Untouched(f)
               PROVE  patch[f] = <<RangeOf(case.like[f], Len(BlocksOf(case.new[f])))>>
    BY DEF UntouchedIsOneRange, Untouched, RangeOf
  <2>1. FilesInv
    BY DEF IInv
  <2>2. QED
    BY <2>1 DEF FilesInv
<1>2. QED
  BY <1>1, IInvHolds, PTL

\* How far a data operation can exceed MaxDataOp: only the last one of a file does, by
\* what is left of two blocks. Only an empty file has an empty one.
ExcessBounded ==
  \A f \in DOMAIN patch : \A i \in DOMAIN patch[f] :
    patch[f][i].type = "data" =>
      /\ Len(patch[f][i].data) <= MaxDataOp + (IF i = Len(patch[f]) THEN 2 * BlockSize - 1 ELSE 0)
      /\ patch[f][i].data = << >> => case.new[f] = << >>

\* The data operations of ComputeDiff do not keep to MaxDataOp (DataBounded is refuted by
\* a run), but exceed it by less than two blocks, and only at the end of a file.
THEOREM ExcessBoundedHolds == Spec => []ExcessBounded
<1>1. IInv => ExcessBounded
  BY DEF IInv, FilesInv, Bounded, ExcessBounded
<1>2. QED
  BY <1>1, IInvHolds, PTL
-----------------------------------------------------------------------------
(* Folds                                                                    *)

\* What holds of the empty set, and of a set when it does of it less any element,
\* holds of every subset of a finite set.
LEMMA SubsetInduction ==
  ASSUME NEW D, IsFiniteSet(D), NEW T, {} \in T,
         \A s \in SUBSET D : s # {} /\ (\A x \in s : s \ {x} \in T) => s \in T
  PROVE  SUBSET D \subseteq T
<1> DEFINE S == {n \in Nat : \A s \in SUBSET D : Cardinality(s) = n => s \in T}
<1>1. \A s \in SUBSET D : IsFiniteSet(s) /\ Cardinality(s) \in Nat /\ (Cardinality(s) = 0 <=> s = {})
  BY FS_Subset, FS_EmptySet, FS_CardinalityType
<1>2. 0 \in S
  BY <1>1
<1>3. ASSUME NEW n \in Nat, n \in S PROVE n + 1 \in S
  <2> SUFFICES ASSUME NEW s \in SUBSET D, Cardinality(s) = n + 1 PROVE s \in T
    OBVIOUS
  <2>1. s # {} /\ IsFiniteSet(s)
    BY <1>1
  <2>2. ASSUME NEW x \in s PROVE s \ {x} \in T
    <3>1. s \ {x} \in SUBSET D
      OBVIOUS
    <3>2. Cardinality(s \ {x}) = Cardinality(s) - 1
      BY <2>1, FS_RemoveElement
    <3>3. Cardinality(s \ {x}) = n
      BY <3>2
    <3>4. QED
      BY <1>3, <3>1, <3>3
  <2>3. QED
    BY <2>1, <2>2
<1>4. Nat \subseteq S
  <2> HIDE DEF S
  <2>1. QED
    BY <1>2, <1>3, SetInduction
<1>5. QED
  BY <1>1, <1>4

\* A function on the subsets of D that starts with v at the empty one and goes on
\* from the set less its element c to the set.
FoldsFrom(g, D, V, v, c, step) ==
  g \in [SUBSET D -> V] /\ \A s \in SUBSET D : g[s] = IF s = {} THEN v ELSE step[s][g[s \ {c[s]}]]

\* There is such a function.
LEMMA FoldExists ==
  ASSUME NEW D, IsFiniteSet(D), NEW V, NEW v \in V, NEW c,
         \A s \in SUBSET D : s # {} => c[s] \in s,
         NEW step \in [SUBSET D -> [V -> V]]
  PROVE  \E g : FoldsFrom(g, D, V, v, c, step)
<1> DEFINE Level(n) == {s \in SUBSET D : Cardinality(s) <= n}
           Good(n) == \E g \in [Level(n) -> V] :
                        \A s \in Level(n) : g[s] = IF s = {} THEN v ELSE step[s][g[s \ {c[s]}]]
           S == {n \in Nat : Good(n)}
<1>1. \A s \in SUBSET D : IsFiniteSet(s) /\ Cardinality(s) \in Nat /\ (Cardinality(s) = 0 <=> s = {})
  BY FS_Subset, FS_EmptySet, FS_CardinalityType
<1>2. ASSUME NEW s \in SUBSET D, s # {}
      PROVE  s \ {c[s]} \in SUBSET D /\ Cardinality(s \ {c[s]}) = Cardinality(s) - 1
  BY <1>1, <1>2, FS_RemoveElement
<1>3. 0 \in S
  <2> DEFINE g == [s \in Level(0) |-> v]
  <2>1. \A s \in Level(0) : s = {}
    BY <1>1
  <2>2. g \in [Level(0) -> V] /\ \A s \in Level(0) : g[s] = IF s = {} THEN v ELSE step[s][g[s \ {c[s]}]]
    BY <2>1
  <2>3. QED
    BY <2>2
<1>4. ASSUME NEW n \in Nat, n \in S PROVE n + 1 \in S
  <2>1. PICK g \in [Level(n) -> V] : \A s \in Level(n) : g[s] = IF s = {} THEN v ELSE step[s][g[s \ {c[s]}]]
    BY <1>4
  <2> DEFINE h == [s \in Level(n + 1) |-> IF s \in Level(n) THEN g[s] ELSE step[s][g[s \ {c[s]}]]]
  <2>2. ASSUME NEW s \in Level(n + 1), s # {} PROVE s \ {c[s]} \in Level(n)
    <3>1. s \in SUBSET D /\ Cardinality(s) <= n + 1 /\ Cardinality(s) \in Nat
      BY <1>1
    <3>2. s \ {c[s]} \in SUBSET D /\ Cardinality(s \ {c[s]}) = Cardinality(s) - 1
      BY <1>2, <2>2, <3>1
    <3>3. QED
      BY <3>1, <3>2
  <2>3. \A s \in Level(n) : s \in Level(n + 1)
    BY <1>1
  <2>4. {} \in Level(n)
    BY FS_EmptySet
  <2>5. ASSUME NEW s \in Level(n + 1) PROVE h[s] \in V /\ h[s] = IF s = {} THEN v ELSE step[s][h[s \ {c[s]}]]
    <3>1. CASE s = {}
      BY <2>1, <2>4, <3>1
    <3>2. CASE s # {}
      <4>1. s \ {c[s]} \in Level(n) /\ s \in SUBSET D
        BY <2>2, <3>2
      <4>2. h[s \ {c[s]}] = g[s \ {c[s]}] /\ g[s \ {c[s]}] \in V
        BY <2>1, <2>3, <4>1
      <4>3. h[s] = step[s][g[s \ {c[s]}]]
        BY <2>1, <3>2, SMTT(60)
      <4>4. QED
        <5> HIDE DEF h, Level
        <5>1. QED
          BY <3>2, <4>1, <4>2, <4>3, SMTT(30)
    <3>3. QED
      <4> HIDE DEF h, Level
      <4>1. QED
        BY <3>1, <3>2
  <2>6. h \in [Level(n + 1) -> V] /\ \A s \in Level(n + 1) : h[s] = IF s = {} THEN v ELSE step[s][h[s \ {c[s]}]]
    <3>1. \A s \in Level(n + 1) : h[s] \in V
      BY <2>5
    <3> HIDE DEF Level
    <3>2. QED
      BY <2>5, <3>1
  <2>7. Good(n + 1)
    <3> HIDE DEF h, Level
    <3>1. QED
      BY <2>6
  <2>8. QED
    <3> HIDE DEF Good
    <3>1. QED
      BY <2>7
<1>5. Nat \subseteq S
  <2> HIDE DEF S
  <2>1. QED
    BY <1>3, <1>4, SetInduction
<1>6. Cardinality(D) \in Nat /\ \A s \in SUBSET D : s \in Level(Cardinality(D))
  BY <1>1, FS_CardinalityType, FS_Subset
<1>7. Good(Cardinality(D))
  <2> HIDE DEF Good
  <2>1. QED
    BY <1>5, <1>6
<1>8. SUBSET D = Level(Cardinality(D))
  BY <1>6
<1>9. QED
  BY <1>7, <1>8 DEF FoldsFrom

\* BytesReused counts in whole numbers.
CountIter(ops, S) ==
  CHOOSE iter : iter = [s \in SUBSET S |->
    IF s = {} THEN 0
    ELSE Counted(ops[CHOOSE x \in s : TRUE]) + iter[s \ {CHOOSE x \in s : TRUE}]]

CountOf(ops, S) == MapThenSumSet(LAMBDA i : Counted(ops[i]), S)

LEMMA CountType ==
  ASSUME NEW ops, NEW S, IsFiniteSet(S), \A i \in S : Counted(ops[i]) \in Int
  PROVE  CountOf(ops, S) \in Int
<1> DEFINE c == [s \in SUBSET S |-> CHOOSE x \in s : TRUE]
           step == [s \in SUBSET S |-> [x \in Int |-> IF s = {} THEN 0 ELSE Counted(ops[c[s]]) + x]]
           iter == CountIter(ops, S)
<1>1. CountOf(ops, S) = iter[S]
  BY DEF CountOf, MapThenSumSet, MapThenFoldSet, CountIter
<1>2. \A s \in SUBSET S : s # {} => c[s] \in s
  OBVIOUS
<1>3. step \in [SUBSET S -> [Int -> Int]]
  <2>1. \A s \in SUBSET S, x \in Int : (IF s = {} THEN 0 ELSE Counted(ops[c[s]]) + x) \in Int
    <3>1. \A s \in SUBSET S : s # {} => Counted(ops[c[s]]) \in Int
      BY <1>2
    <3> HIDE DEF c
    <3>2. QED
      BY <3>1
  <2> HIDE DEF c
  <2>2. QED
    BY <2>1
<1>4. PICK g : FoldsFrom(g, S, Int, 0, c, step)
  <2> HIDE DEF c, step
  <2>1. 0 \in Int
    OBVIOUS
  <2>2. QED
    BY <1>2, <1>3, <2>1, FoldExists, Zenon
<1>5. g = [s \in SUBSET S |-> IF s = {} THEN 0 ELSE Counted(ops[CHOOSE x \in s : TRUE]) + g[s \ {CHOOSE x \in s : TRUE}]]
  <2>1. ASSUME NEW s \in SUBSET S
        PROVE  g[s] = IF s = {} THEN 0 ELSE Counted(ops[CHOOSE x \in s : TRUE]) + g[s \ {CHOOSE x \in s : TRUE}]
    <3>1. g[s] = IF s = {} THEN 0 ELSE step[s][g[s \ {c[s]}]]
      BY <1>4 DEF FoldsFrom
    <3>2. g[s \ {c[s]}] \in Int
      BY <1>4 DEF FoldsFrom
    <3>3. c[s] = CHOOSE x \in s : TRUE
      OBVIOUS
    <3> HIDE DEF c
    <3>4. QED
      BY <3>1, <3>2, <3>3
  <2>2. g \in [SUBSET S -> Int]
    BY <1>4 DEF FoldsFrom
  <2> HIDE DEF step, c
  <2>3. QED
    BY <2>1, <2>2
<1>6. iter = [s \in SUBSET S |-> IF s = {} THEN 0 ELSE Counted(ops[CHOOSE x \in s : TRUE]) + iter[s \ {CHOOSE x \in s : TRUE}]]
  BY <1>5, ZenonT(60) DEF CountIter
<1> DEFINE T == {s \in SUBSET S : iter[s] \in Int}
<1>7. {} \in T
  BY <1>6
<1>8. ASSUME NEW s \in SUBSET S, s # {}, \A x \in s : s \ {x} \in T PROVE s \in T
  <2>1. (CHOOSE x \in s : TRUE) \in s
    BY <1>8
  <2>2. iter[s \ {CHOOSE x \in s : TRUE}] \in Int /\ Counted(ops[CHOOSE x \in s : TRUE]) \in Int
    BY <1>8, <2>1
  <2>3. iter[s] = Counted(ops[CHOOSE x \in s : TRUE]) + iter[s \ {CHOOSE x \in s : TRUE}]
    BY <1>6, <1>8
  <2>4. QED
    BY <2>2, <2>3
<1>9. SUBSET S \subseteq T
  <2> HIDE DEF T
  <2>1. QED
    BY <1>7, <1>8, SubsetInduction
<1>10. QED
  BY <1>1, <1>9

\* The greatest of some numbers up to n.
LEMMA MaxIs ==
  ASSUME NEW n \in Nat, NEW s \in SUBSET (1 .. n), s # {}
  PROVE  Max(s) \in s /\ \A y \in s : Max(s) >= y
<1> DEFINE T == {n - x : x \in s}
<1>1. T \subseteq Nat /\ T # {}
  <2>1. \A x \in s : x \in 1 .. n /\ n - x \in Nat
    OBVIOUS
  <2>2. QED
    BY <2>1
<1>2. PICK t \in T : \A u \in T : t <= u
  <2> HIDE DEF T
  <2>1. QED
    BY <1>1, LeastNumber
<1>3. PICK x \in s : t = n - x
  OBVIOUS
<1>4. ASSUME NEW y \in s PROVE x >= y
  <2>1. n - y \in T
    OBVIOUS
  <2>2. n - x <= n - y /\ x \in Int /\ y \in Int
    BY <1>2, <1>3, <2>1
  <2>3. QED
    BY <2>2
<1>5. QED
  BY <1>4 DEF Max

LEMMA MaxOfFirst ==
  ASSUME NEW n \in Nat, NEW k \in 1 .. n
  PROVE  Max(1 .. k) = k /\ (1 .. k) \ {Max(1 .. k)} = 1 .. k - 1
<1>1. 1 .. k \in SUBSET (1 .. n) /\ k \in 1 .. k
  OBVIOUS
<1>2. Max(1 .. k) \in 1 .. k /\ \A y \in 1 .. k : Max(1 .. k) >= y
  BY <1>1, MaxIs
<1>3. Max(1 .. k) = k
  BY <1>1, <1>2
<1>4. (1 .. k) \ {k} = 1 .. k - 1
  OBVIOUS
<1>5. QED
  BY <1>3, <1>4

Better(r, b, f, p) == IF b = 0 \/ r[f] > r[b] \/ (r[f] = r[b] /\ f = p) THEN f ELSE b

BestIter(r, o, p) ==
  CHOOSE iter : iter = [s \in SUBSET DOMAIN o |->
    IF s = {} THEN 0 ELSE Better(r, iter[s \ {Max(s)}], o[Max(s)], p)]

\* The best of the files is one of them, and the one of the same path if no other
\* is counted for more, in whatever order they come.
LEMMA BestIs ==
  ASSUME NEW R, 0 \notin R, NEW r, \A f \in R : r[f] \in Int, NEW n \in Nat, NEW o \in [1 .. n -> R], NEW p
  PROVE  /\ n # 0 => Best(r, o, p) \in R
         /\ (\E i \in 1 .. n : o[i] = p) /\ (\A f \in R : r[f] <= r[p]) => Best(r, o, p) = p
<1> DEFINE V  == R \cup {0}
           D  == 1 .. n
           c  == [s \in SUBSET D |-> Max(s)]
           step == [s \in SUBSET D |-> [b \in V |-> IF s = {} THEN 0 ELSE Better(r, b, o[Max(s)], p)]]
           iter == BestIter(r, o, p)
<1>1. Best(r, o, p) = iter[D]
  <2>1. DOMAIN o = D
    OBVIOUS
  <2>2. QED
    BY <2>1 DEF Best, FoldLeft, MapThenFoldSet, BestIter, Better
<1>2. \A s \in SUBSET D : s # {} => Max(s) \in s /\ o[Max(s)] \in R
  BY MaxIs
<1>3. step \in [SUBSET D -> [V -> V]]
  <2>1. \A s \in SUBSET D, b \in V : (IF s = {} THEN 0 ELSE Better(r, b, o[Max(s)], p)) \in V
    BY <1>2 DEF Better
  <2> HIDE DEF V, D
  <2>2. QED
    BY <2>1
<1>4. PICK g : FoldsFrom(g, D, V, 0, c, step)
  <2>1. IsFiniteSet(D)
    BY FS_Interval
  <2>2. \A s \in SUBSET D : s # {} => c[s] \in s
    BY <1>2
  <2>3. 0 \in V
    OBVIOUS
  <2> HIDE DEF c, step, D, V
  <2>4. QED
    BY <1>3, <2>1, <2>2, <2>3, FoldExists, Zenon
<1>5. g = [s \in SUBSET D |-> IF s = {} THEN 0 ELSE Better(r, g[s \ {Max(s)}], o[Max(s)], p)]
  <2>1. ASSUME NEW s \in SUBSET D
        PROVE  g[s] = IF s = {} THEN 0 ELSE Better(r, g[s \ {Max(s)}], o[Max(s)], p)
    <3>1. g[s] = IF s = {} THEN 0 ELSE step[s][g[s \ {c[s]}]]
      BY <1>4 DEF FoldsFrom
    <3>2. g[s \ {c[s]}] \in V
      BY <1>4 DEF FoldsFrom
    <3>3. c[s] = Max(s)
      OBVIOUS
    <3> HIDE DEF c, V, D
    <3>4. QED
      BY <3>1, <3>2, <3>3
  <2>2. g \in [SUBSET D -> V]
    BY <1>4 DEF FoldsFrom
  <2> HIDE DEF step, c, V, D
  <2>3. QED
    BY <2>1, <2>2, SMTT(60)
<1>6. iter = [s \in SUBSET D |-> IF s = {} THEN 0 ELSE Better(r, iter[s \ {Max(s)}], o[Max(s)], p)]
  <2>1. DOMAIN o = D
    OBVIOUS
  <2> HIDE DEF D
  <2>2. QED
    BY <1>5, <2>1 DEF BestIter
<1>7. iter[1 .. 0] = 0 /\ \A k \in 1 .. n : iter[1 .. k] = Better(r, iter[1 .. k - 1], o[k], p)
  <2> HIDE DEF iter
  <2>1. 1 .. 0 = {} /\ \A k \in 0 .. n : 1 .. k \in SUBSET D
    OBVIOUS
  <2>2. ASSUME NEW k \in 1 .. n PROVE iter[1 .. k] = Better(r, iter[1 .. k - 1], o[k], p)
    <3>1. k \in 1 .. k /\ 1 .. k \in SUBSET D
      BY <2>1
    <3>2. iter[1 .. k] = Better(r, iter[(1 .. k) \ {Max(1 .. k)}], o[Max(1 .. k)], p)
      BY <1>6, <3>1
    <3>3. QED
      BY <3>2, MaxOfFirst
  <2>3. {} \in SUBSET D
    OBVIOUS
  <2>4. QED
    BY <1>6, <2>1, <2>2, <2>3
<1> DEFINE Top  == \A f \in R : r[f] <= r[p]
           Right(k) == /\ k # 0 => iter[1 .. k] \in R
                       /\ (\E i \in 1 .. k : o[i] = p) /\ Top => iter[1 .. k] = p
           T == {k \in Nat : k <= n => Right(k)}
<1>8. 0 \in T
  OBVIOUS
<1>9. ASSUME NEW k \in Nat, k \in T PROVE k + 1 \in T
  <2> HIDE DEF iter
  <2> SUFFICES ASSUME k + 1 <= n PROVE Right(k + 1)
    OBVIOUS
  <2>1. k + 1 \in 1 .. n /\ (k + 1) - 1 = k /\ Right(k) /\ o[k + 1] \in R
    BY <1>9
  <2>2. iter[1 .. k + 1] = Better(r, iter[1 .. k], o[k + 1], p)
    BY <1>7, <2>1
  <2>3. k = 0 => iter[1 .. k] = 0
    BY <1>7
  <2>4. iter[1 .. k + 1] \in R
    BY <2>1, <2>2, <2>3 DEF Better
  <2>5. ASSUME NEW i \in 1 .. k + 1, o[i] = p, Top PROVE iter[1 .. k + 1] = p
    <3>1. CASE i = k + 1
      <4>1. iter[1 .. k] = 0 \/ iter[1 .. k] \in R
        BY <2>1, <2>3
      <4>2. p \in R /\ r[p] \in Int
        BY <2>1, <2>5, <3>1
      <4>3. iter[1 .. k] \in R => r[iter[1 .. k]] <= r[p] /\ r[iter[1 .. k]] \in Int
        BY <2>5
      <4>4. QED
        BY <2>2, <2>5, <3>1, <4>1, <4>2, <4>3 DEF Better
    <3>2. CASE i # k + 1
      <4>1. i \in 1 .. k
        BY <3>2
      <4>2. iter[1 .. k] = p
        BY <2>1, <2>5, <4>1
      <4>3. p # 0 /\ p \in R /\ r[p] \in Int
        BY <2>1, <2>5, <4>1, <4>2
      <4>4. r[o[k + 1]] <= r[p] /\ r[o[k + 1]] \in Int
        BY <2>1, <2>5
      <4>5. QED
        BY <2>2, <4>2, <4>3, <4>4 DEF Better
    <3>3. QED
      BY <3>1, <3>2
  <2>6. QED
    BY <2>4, <2>5
<1>10. n \in T
  <2>1. Nat \subseteq T
    <3> HIDE DEF T
    <3>1. QED
      BY <1>8, <1>9, SetInduction
  <2>2. QED
    BY <2>1
<1>11. QED
  BY <1>1, <1>10

-----------------------------------------------------------------------------
(* The rediffer                                                             *)

Reused(ops) == {ops[i].file : i \in Ranges(ops)}

\* What is reused are files that hold something, each counted in whole numbers.
LEMMA ReusedIs ==
  ASSUME old \in Seq(Seq(Nat)), NEW ops \in Seq(Ops(old))
  PROVE  /\ DOMAIN BytesReused(ops) = Reused(ops)
         /\ \A f \in Reused(ops) : BytesReused(ops)[f] \in Int /\ f \in DOMAIN old /\ old[f] # << >>
         /\ IsFiniteSet(Reused(ops))
<1>1. IsFiniteSet(Ranges(ops))
  <2>1. IsFiniteSet(DOMAIN ops)
    BY FS_Interval
  <2>2. Ranges(ops) \in SUBSET DOMAIN ops
    BY DEF Ranges
  <2>3. QED
    BY <2>1, <2>2, FS_Subset
<1>2. ASSUME NEW i \in Ranges(ops) PROVE ops[i] \in BlockRanges(old)
  BY DEF Ranges, Ops, DataOps
<1>3. ASSUME NEW i \in Ranges(ops)
      PROVE  Counted(ops[i]) \in Int /\ ops[i].file \in DOMAIN old /\ old[ops[i].file] # << >>
  <2>1. ops[i] \in BlockRanges(old)
    BY <1>2
  <2>2. /\ ops[i].file \in DOMAIN old /\ ops[i].block \in Nat /\ ops[i].span \in Nat
        /\ Len(old[ops[i].file]) > 0
    BY <2>1 DEF BlockRanges
  <2>3. old[ops[i].file] \in Seq(Nat)
    BY <2>2
  <2>4. BlockSizeAt(Len(old[ops[i].file]), ops[i].block + ops[i].span) \in Int
    <3>1. \A size \in Nat : size % BlockSize \in Int
      BY BlockSizeIs
    <3>2. BlockSize \in Int /\ Len(old[ops[i].file]) \in Nat
      BY <2>3, BlockSizeIs
    <3>3. QED
      BY <3>1, <3>2 DEF BlockSizeAt
  <2>5. BlockSize * ops[i].span \in Int
    <3>1. BlockSize \in Int /\ ops[i].span \in Int
      BY <2>2, BlockSizeIs
    <3>2. \A x, y \in Int : x * y \in Int
      OBVIOUS
    <3>3. QED
      BY <3>1, <3>2
  <2>6. Counted(ops[i]) \in Int
    <3> DEFINE a == BlockSize * ops[i].span
               b == BlockSizeAt(Len(old[ops[i].file]), ops[i].block + ops[i].span)
    <3>1. a \in Int /\ b \in Int
      BY <2>4, <2>5
    <3>2. Counted(ops[i]) = a - 1 + b
      BY DEF Counted
    <3> HIDE DEF a, b
    <3>3. QED
      BY <3>1, <3>2
  <2>7. QED
    BY <2>2, <2>6, SMTT(60)
<1>4. DOMAIN BytesReused(ops) = Reused(ops)
  BY DEF BytesReused, Reused
<1>5. ASSUME NEW f \in Reused(ops) PROVE BytesReused(ops)[f] \in Int
  <2> DEFINE S == {i \in Ranges(ops) : ops[i].file = f}
  <2>1. IsFiniteSet(S)
    BY <1>1, FS_Subset
  <2>2. \A i \in S : Counted(ops[i]) \in Int
    BY <1>3
  <2>3. BytesReused(ops)[f] = CountOf(ops, S)
    BY DEF BytesReused, Reused, CountOf
  <2> HIDE DEF S
  <2>4. QED
    BY <2>1, <2>2, <2>3, CountType
<1>6. IsFiniteSet(Reused(ops))
  <2> DEFINE g == [i \in Ranges(ops) |-> ops[i].file]
  <2>1. g \in Surjection(Ranges(ops), Reused(ops))
    BY DEF Surjection, Reused
  <2>2. QED
    BY <1>1, <2>1, FS_Surjection
<1>7. \A f \in Reused(ops) : f \in DOMAIN old /\ old[f] # << >>
  BY <1>3, SMTT(60) DEF Reused
<1>8. QED
  BY <1>4, <1>5, <1>6, <1>7

\* An order has every file.
Covers(order, n, S) ==
  /\ order \in [1 .. n -> S]
  /\ (n = 0) <=> (order = << >>)
  /\ (n = 0) <=> (S = {})
  /\ \A x \in S : \E i \in 1 .. n : order[i] = x

LEMMA OrderIs ==
  ASSUME NEW S, IsFiniteSet(S), NEW order \in SetToSeqs(S)
  PROVE  \E n \in Nat : Covers(order, n, S)
<1> DEFINE n == Cardinality(S)
<1>1. n \in Nat
  BY FS_CardinalityType
<1>2. order \in [1 .. n -> S] /\ \A i, j \in 1 .. n : i # j => order[i] # order[j]
  BY DEF SetToSeqs
<1>3. order \in Injection(1 .. n, S)
  BY <1>2 DEF Injection, IsInjective
<1>4. IsFiniteSet(1 .. n) /\ Cardinality(1 .. n) = n
  BY <1>1, FS_Interval
<1>5. order \in Surjection(1 .. n, S)
  BY <1>3, <1>4, FS_Injection
<1>6. \A x \in S : \E i \in 1 .. n : order[i] = x
  BY <1>5 DEF Surjection
<1>7. n = 0 <=> S = {}
  BY FS_EmptySet
<1>8. n = 0 <=> order = << >>
  <2> HIDE DEF n
  <2>1. n = 0 => order = << >>
    BY <1>2
  <2>2. n # 0 => 1 \in 1 .. n
    BY <1>1
  <2>3. n # 0 => order # << >>
    <3>1. DOMAIN order = 1 .. n /\ DOMAIN << >> = {}
      BY <1>2
    <3>2. QED
      BY <2>2, <3>1
  <2>4. QED
    BY <2>1, <2>3
<1>9. QED
  BY <1>1, <1>2, <1>6, <1>7, <1>8 DEF Covers

\* In whatever order the map gives the old files, none that is empty is diffed with,
\* the file of the same path is taken if no other is counted for more, and a file
\* that was not touched is not diffed: for every build and every patch that is
\* written without an error.
THEOREM MapsNaturallyHolds == Spec => []MapsNaturally
<1>1. IInv => MapsNaturally
  <2> SUFFICES ASSUME IInv, result = "nil", NEW n \in DOMAIN patch, NEW order \in Orders(patch[n]),
                      NEW force \in BOOLEAN
               PROVE  LET m      == Mapping(n, order, force)
                          like   == case.like[n]
                          reused == BytesReused(patch[n])
                      IN /\ m # 0 => old[m] # << >>
                         /\ m # 0 /\ like \in DOMAIN reused /\ (\A f \in DOMAIN reused : reused[f] <= reused[like]) => m = like
                         /\ like # 0 /\ case.new[n] = old[like] /\ Distinct(old[like]) /\ ~force => m = 0
    BY DEF MapsNaturally
  <2> DEFINE ops    == patch[n]
             like   == case.like[n]
             c      == Candidate(ops, order, like)
             m      == Mapping(n, order, force)
             reused == BytesReused(ops)
  <2>1. old \in Seq(Seq(Nat)) /\ case.new \in Seq(Seq(Nat)) /\ patch \in Seq(Seq(Ops(old)))
    <3>1. TypeInv
      BY DEF IInv
    <3>2. patch \in Seq(Seq(Ops(old)))
      BY <3>1 DEF TypeInv
    <3>3. old \in Seq(Seq(Nat)) /\ case.new \in Seq(Seq(Nat))
      BY <3>1, OldIs, Zenon
    <3>4. QED
      BY <3>2, <3>3, Zenon
  <2>2. ops \in Seq(Ops(old))
    BY <2>1
  <2>3. /\ DOMAIN reused = Reused(ops)
        /\ \A f \in Reused(ops) : reused[f] \in Int /\ f \in DOMAIN old /\ old[f] # << >>
        /\ IsFiniteSet(Reused(ops))
    BY <2>1, <2>2, ReusedIs
  <2>4. order \in SetToSeqs(Reused(ops))
    BY <2>3 DEF Orders
  <2>5. PICK k \in Nat : Covers(order, k, Reused(ops))
    <3> HIDE DEF ops
    <3>1. QED
      BY <2>3, <2>4, OrderIs, Zenon
  <2>6. 0 \notin Reused(ops)
    BY <2>1, <2>3
  <2>7. /\ k # 0 => Best(reused, order, like) \in Reused(ops)
        /\ (\E i \in 1 .. k : order[i] = like) /\ (\A f \in Reused(ops) : reused[f] <= reused[like]) =>
             Best(reused, order, like) = like
    <3>1. order \in [1 .. k -> Reused(ops)]
      BY <2>5 DEF Covers
    <3>2. \A f \in Reused(ops) : reused[f] \in Int
      BY <2>3
    <3> HIDE DEF reused, ops, like
    <3>3. QED
      BY <2>5, <2>6, <3>1, <3>2, BestIs, ZenonT(60)
  <2>8. m = 0 \/ m = c
    BY DEF Mapping
  <2>9. m # 0 => old[m] # << >>
    <3>1. order # << >> => old[c] # << >>
      BY <2>3, <2>5, <2>7 DEF Candidate, Covers
    <3>2. order = << >> => c = 0 \/ old[c] # << >>
      BY DEF Candidate
    <3> HIDE DEF c, m
    <3>3. QED
      BY <2>8, <3>1, <3>2
  <2>10. m # 0 /\ like \in DOMAIN reused /\ (\A f \in DOMAIN reused : reused[f] <= reused[like]) => m = like
    <3> SUFFICES ASSUME m # 0, like \in Reused(ops), \A f \in Reused(ops) : reused[f] <= reused[like]
                 PROVE  m = like
      BY <2>3
    <3>1. order # << >> /\ \E i \in 1 .. k : order[i] = like
      BY <2>5 DEF Covers
    <3>2. Best(reused, order, like) = like
      BY <2>7, <3>1
    <3>3. c = like
      BY <3>1, <3>2 DEF Candidate
    <3> HIDE DEF c, m
    <3>4. QED
      BY <2>8, <3>3
  <2>11. like # 0 /\ case.new[n] = old[like] /\ Distinct(old[like]) /\ ~force => m = 0
    <3> SUFFICES ASSUME like # 0, case.new[n] = old[like], Distinct(old[like]), ~force, case.new[n] # << >>
                 PROVE  Transposed(ops)
      BY DEF Mapping
    <3>1. Untouched(n)
      BY DEF Untouched
    <3>2. ops = <<RangeOf(like, Len(BlocksOf(case.new[n])))>>
      BY <3>1 DEF IInv, FilesInv
    <3>3. Len(ops) = 1 /\ ops[1].type = "range" /\ DOMAIN ops = {1}
      BY <3>2 DEF RangeOf
    <3> HIDE DEF ops
    <3>4. QED
      BY <3>3 DEF Transposed, Ranges
  <2>12. QED
    <3> HIDE DEF m, like, reused
    <3>1. QED
      BY <2>9, <2>10, <2>11 DEF m, like, reused
<1>2. QED
  BY <1>1, IInvHolds, PTL

-----------------------------------------------------------------------------
(* Ranges of full blocks                                                    *)

\* A range that ends before the short block of its file.
WholeRange(o, op) == op.type = "range" => (op.block + op.span) * BlockSize <= Len(o[op.file])

AllWhole(o, ops) == \A i \in DOMAIN ops : WholeRange(o, ops[i])

AllButLast(o, ops) == \A i \in DOMAIN ops : i < Len(ops) => WholeRange(o, ops[i])

\* A short block is found only where the new file ends.
WholeInv ==
  /\ Running => AllWhole(old, sent.ops) /\ WholeRange(old, sent.prev)
  /\ diff.at = "nil" => AllButLast(old, sent.ops)
  /\ \A f \in DOMAIN patch : AllButLast(old, patch[f])

LEMMA AppendWhole ==
  ASSUME NEW o, NEW S, NEW ops \in Seq(S), NEW op, AllWhole(o, ops)
  PROVE  /\ AllButLast(o, Append(ops, op)) /\ AllButLast(o, ops)
         /\ WholeRange(o, op) => AllWhole(o, Append(ops, op))
<1>1. /\ DOMAIN ops = 1 .. Len(ops) /\ Len(ops) \in Nat
      /\ DOMAIN Append(ops, op) = 1 .. Len(ops) + 1 /\ Len(Append(ops, op)) = Len(ops) + 1
      /\ Append(ops, op)[Len(ops) + 1] = op /\ \A i \in 1 .. Len(ops) : Append(ops, op)[i] = ops[i]
  OBVIOUS
<1>2. \A i \in 1 .. Len(ops) : WholeRange(o, ops[i])
  BY <1>1 DEF AllWhole
<1>3. \A i \in DOMAIN Append(ops, op) : i < Len(ops) + 1 => WholeRange(o, Append(ops, op)[i])
  BY <1>1, <1>2
<1>4. AllButLast(o, Append(ops, op)) /\ AllButLast(o, ops)
  BY <1>1, <1>2, <1>3 DEF AllButLast
<1>5. ASSUME WholeRange(o, op) PROVE \A i \in DOMAIN Append(ops, op) : WholeRange(o, Append(ops, op)[i])
  BY <1>1, <1>2, <1>5
<1>6. QED
  BY <1>4, <1>5 DEF AllWhole

LEMMA SendPrevWhole ==
  ASSUME NEW o \in Seq(Seq(Nat)), NEW q \in Sendings(o), AllWhole(o, q.ops)
  PROVE  /\ AllButLast(o, SendPrev(q).ops)
         /\ WholeRange(o, q.prev) => AllWhole(o, SendPrev(q).ops)
<1>1. q.ops \in Seq(Ops(o)) /\ SendPrev(q).ops = IF q.prev = NoOp THEN q.ops ELSE Append(q.ops, q.prev)
  BY SendPrevIs, SendingIs
<1>2. QED
  BY <1>1, AppendWhole

LEMMA EnqueueDataWhole ==
  ASSUME NEW o \in Seq(Seq(Nat)), NEW q \in Sendings(o), NEW d \in Seq(Nat),
         AllWhole(o, q.ops), WholeRange(o, q.prev)
  PROVE  /\ AllWhole(o, EnqueueData(q, d).ops) /\ WholeRange(o, EnqueueData(q, d).prev)
<1> DEFINE t == SendPrev(q)
           op == DataOp(d)
<1>1. t \in Sendings(o) /\ t.prev = NoOp /\ AllWhole(o, t.ops)
  BY SendPrevIs, SendPrevWhole
<1>2. op \in Ops(o) /\ WholeRange(o, op)
  BY DEF Ops, DataOps, DataOp, WholeRange
<1>3. EnqueueData(q, d) = Send(t, op)
  BY DEF EnqueueData
<1> HIDE DEF t, op
<1>4. /\ Send(t, op).prev = NoOp
      /\ Send(t, op).ops = t.ops \/ Send(t, op).ops = Append(t.ops, op)
  BY <1>1, <1>2, SendIs
<1>5. t.ops \in Seq(Ops(o))
  BY <1>1, SendingIs
<1>6. AllWhole(o, Send(t, op).ops)
  BY <1>1, <1>2, <1>4, <1>5, AppendWhole
<1>7. WholeRange(o, NoOp)
  BY DEF NoOp, WholeRange
<1>8. QED
  BY <1>3, <1>4, <1>6, <1>7

LEMMA EnqueueRangeWhole ==
  ASSUME NEW o \in Seq(Seq(Nat)), NEW q \in Sendings(o), NEW r \in BlockRanges(o), r.span = 1,
         AllWhole(o, q.ops), WholeRange(o, q.prev)
  PROVE  /\ AllWhole(o, EnqueueRange(q, r).ops)
         /\ WholeRange(o, r) => WholeRange(o, EnqueueRange(q, r).prev)
<1>1. /\ q = [prev |-> q.prev, ops |-> q.ops] /\ q.ops \in Seq(Ops(o))
      /\ q.prev # NoOp => q.prev \in BlockRanges(o)
  BY SendingIs
<1>2. CASE Adjoins(q.prev, r)
  <2>1. q.prev # NoOp /\ q.prev \in BlockRanges(o) /\ q.prev.file = r.file /\ q.prev.block + q.prev.span = r.block
    BY <1>1, <1>2 DEF Adjoins
  <2>2. q.prev.block \in Nat /\ q.prev.span \in Nat /\ q.prev = [q.prev EXCEPT !.span = @]
    BY <2>1 DEF BlockRanges
  <2> DEFINE t == [q.prev EXCEPT !.span = q.prev.span + 1]
  <2>3. EnqueueRange(q, r) = [q EXCEPT !.prev.span = @ + 1]
    BY <1>2 DEF EnqueueRange
  <2>4. EnqueueRange(q, r) = [prev |-> t, ops |-> q.ops]
    BY <1>1, <2>3
  <2>5. t.file = r.file /\ t.block + t.span = r.block + r.span /\ r.type = "range"
    <3>1. q.prev \in [type : {"range"}, file : DOMAIN o, block : Nat, span : Nat \ {0}]
      BY <2>1 DEF BlockRanges
    <3>2. t.file = q.prev.file /\ t.block = q.prev.block /\ t.span = q.prev.span + 1
      BY <3>1
    <3>3. r.type = "range"
      BY RangeIs
    <3> HIDE DEF t
    <3>4. t.file = r.file
      BY <2>1, <3>2
    <3>5. t.block + t.span = r.block + r.span
      <4>1. t.block + t.span = q.prev.block + (q.prev.span + 1)
        BY <3>2
      <4>2. r.span = 1 /\ r.block + r.span = (q.prev.block + q.prev.span) + 1
        BY <2>1
      <4>3. q.prev.block \in Nat /\ q.prev.span \in Nat
        BY <2>2
      <4>4. QED
        BY <4>1, <4>2, <4>3
    <3>6. QED
      BY <3>3, <3>4, <3>5
  <2> HIDE DEF t
  <2>6. WholeRange(o, r) => WholeRange(o, t)
    BY <2>5 DEF WholeRange
  <2>7. QED
    BY <2>4, <2>6
<1>3. CASE ~Adjoins(q.prev, r)
  <2> DEFINE t == SendPrev(q)
  <2>1. t \in Sendings(o) /\ AllWhole(o, t.ops)
    BY SendPrevIs, SendPrevWhole
  <2>2. EnqueueRange(q, r) = [t EXCEPT !.prev = r]
    BY <1>3 DEF EnqueueRange
  <2> HIDE DEF t
  <2>3. EnqueueRange(q, r) = [prev |-> r, ops |-> t.ops]
    BY <2>1, <2>2, SendingIs
  <2>4. QED
    BY <2>1, <2>3
<1>4. QED
  BY <1>2, <1>3

\* A block of full size that was found is all in its file.
LEMMA FullIsWhole ==
  ASSUME NEW o \in Seq(Seq(Nat)), NEW r \in BlockRanges(o), r.span = 1, Len(Content(o, r)) = BlockSize
  PROVE  WholeRange(o, r)
<1> DEFINE a == r.block * BlockSize
           e == EndOf(o, r)
           d == o[r.file]
<1>1. /\ d \in Seq(Nat) /\ r.block \in Nat /\ a \in Nat /\ e \in a .. Len(d)
      /\ Content(o, r) = SubSeq(d, a + 1, e)
  BY RangeIs
<1>2. BlockSize \in Nat /\ (r.block + r.span) * BlockSize = a + BlockSize
  BY <1>1, BlockSizeIs
<1>3. Len(Content(o, r)) = e - a
  <2> HIDE DEF a, e, d
  <2>1. QED
    BY <1>1, PartIs
<1>4. e = a + BlockSize /\ e <= Len(d)
  <2> HIDE DEF a, e, d
  <2>1. QED
    BY <1>1, <1>2, <1>3
<1>5. QED
  BY <1>2, <1>4 DEF WholeRange

LEMMA FlushedWhole ==
  ASSUME TypeInv, CopyInv, DiffInv, WholeInv, diff.at = "look"
  PROVE  AllWhole(old, Flushed.sent.ops) /\ WholeRange(old, Flushed.sent.prev)
<1>1. Running /\ SearchInv
  BY DEF Running, DiffInv
<1>2. old \in Seq(Seq(Nat)) /\ sent \in Sendings(old) /\ AllWhole(old, sent.ops) /\ WholeRange(old, sent.prev)
  BY <1>1, OldIs DEF TypeInv, DiffTypes, WholeInv
<1>3. Slice(pending, window) \in Seq(Nat)
  <2>1. window \in Nat /\ pending \in Nat /\ pending <= window /\ window <= validTo /\ validTo \in Nat
    BY <1>1, SearchFacts
  <2>2. QED
    BY <1>1, <2>1, SliceIs
<1>4. Flushed.sent = EnqueueData(sent, Slice(pending, window)) \/ Flushed.sent = sent
  BY DEF Flushed
<1>5. QED
  BY <1>2, <1>3, <1>4, EnqueueDataWhole

LEMMA DifferWhole ==
  ASSUME IInv, WholeInv, Differ
  PROVE  WholeInv'
<1>1. TypeInv /\ CopyInv /\ DiffInv /\ FilesInv
  BY DEF IInv
<1>2. old' = old /\ patch' = patch /\ UNCHANGED Rest
  BY DEF Differ, Rest, group, signing
<1>3. /\ diff \in [at : {"over", "extend", "read", "look", "nil", "failed"}, n : Nat, last : BOOLEAN]
      /\ old \in Seq(Seq(Nat)) /\ sent \in Sendings(old)
  BY <1>1, OldIs DEF TypeInv, DiffTypes
<1>4. SUFFICES /\ Running' => AllWhole(old, sent'.ops) /\ WholeRange(old, sent'.prev)
               /\ diff'.at = "nil" => AllButLast(old, sent'.ops)
  BY <1>2 DEF WholeInv
<1>5. Running
  BY <1>1, DifferSearches
<1>6. AllWhole(old, sent.ops) /\ WholeRange(old, sent.prev)
  BY <1>5 DEF WholeInv
<1>7. CASE sent' = sent
  <2>1. sent.ops \in Seq(Ops(old))
    BY <1>3, SendingIs
  <2>2. AllButLast(old, sent.ops)
    BY <1>6, <2>1, AppendWhole
  <2>3. QED
    BY <1>6, <1>7, <2>2
<1>8. ASSUME NEW q \in Sendings(old), AllWhole(old, q.ops), NEW outcome, End(q, outcome), outcome # "extend" /\ outcome # "read" /\ outcome # "look"
      PROVE  ~Running' /\ AllButLast(old, sent'.ops)
  <2>1. sent' = SendPrev(q) /\ diff'.at \in {outcome, "nil"}
    BY <1>3, <1>8 DEF End
  <2>2. QED
    BY <1>3, <1>8, <2>1, SendPrevWhole DEF Running
<1>9. CASE Extend /\ sent' # sent
  <2>1. Wrap /\ diff'.at = "read"
    BY <1>3, <1>9 DEF Extend
  <2>2. sent' = EnqueueData(sent, Slice(pending, window))
    BY <1>9, <2>1 DEF Wrap
  <2>3. Slice(pending, window) \in Seq(Nat)
    <3>1. SearchInv
      BY <1>1 DEF DiffInv
    <3>2. window \in Nat /\ pending \in Nat /\ pending <= window /\ window <= validTo /\ validTo \in Nat
      BY <1>1, <1>5, <3>1, SearchFacts
    <3>3. QED
      BY <1>1, <1>5, <3>1, <3>2, SliceIs
  <2>4. QED
    BY <1>3, <1>6, <2>1, <2>2, <2>3, EnqueueDataWhole
<1>10. CASE ReadSome
  BY <1>7, <1>10 DEF ReadSome
<1>11. CASE ReadEnds
  <2>1. sent' = sent \/ End(sent, "failed")
    BY <1>11 DEF ReadEnds
  <2>2. QED
    BY <1>3, <1>6, <1>7, <1>8, <2>1
<1>12. CASE LookFound
  <2>1. diff.at = "look"
    BY <1>12 DEF LookFound
  <2>2. PICK p \in Found :
          LET q == EnqueueRange(Flushed.sent, Range1(p))
          IN IF diff.last THEN End(q, "nil") ELSE sent' = q /\ diff' = [diff EXCEPT !.at = "extend"]
    BY <1>12 DEF LookFound
  <2> DEFINE q == EnqueueRange(Flushed.sent, Range1(p))
             r == Range1(p)
  <2>3. /\ r \in BlockRanges(old) /\ r.span = 1 /\ Content(old, r) = Current
    BY <1>1, <2>1, FoundIs
  <2>4. Flushed.sent \in Sendings(old) /\ AllWhole(old, Flushed.sent.ops) /\ WholeRange(old, Flushed.sent.prev)
    BY <1>1, <2>1, FlushedIs, FlushedWhole
  <2>5. q \in Sendings(old) /\ AllWhole(old, q.ops) /\ (WholeRange(old, r) => WholeRange(old, q.prev))
    BY <1>3, <2>3, <2>4, EnqueueRangeIs, EnqueueRangeWhole
  <2>6. CASE diff.last
    <3>1. End(q, "nil")
      BY <2>2, <2>6
    <3> HIDE DEF q
    <3>2. QED
      BY <1>8, <2>5, <3>1
  <2>7. CASE ~diff.last
    <3>1. sent' = q /\ diff'.at = "extend"
      BY <1>3, <2>2, <2>7
    <3>2. Len(Current) = BlockSize
      <4>1. /\ WindowEnd = window + BlockSize /\ Len(Current) = WindowEnd - window /\ window \in Nat
        BY <1>1, <2>1, <2>7, LookIs DEF TypeInv, DiffTypes
      <4>2. QED
        BY <4>1, BlockSizeIs
    <3> HIDE DEF q, r
    <3>3. WholeRange(old, r)
      BY <1>3, <2>3, <3>2, FullIsWhole
    <3>4. QED
      BY <2>5, <3>1, <3>3
  <2>8. QED
    BY <2>6, <2>7
<1>13. CASE LookLast
  <2> DEFINE d == Slice(Flushed.pending, validTo)
             q == EnqueueData(Flushed.sent, d)
  <2>1. diff.at = "look" /\ End(q, "nil")
    BY <1>13 DEF LookLast
  <2>2. d \in Seq(Nat)
    <3>1. SearchInv /\ window <= validTo /\ window \in Nat /\ validTo \in Nat
      BY <1>1, <1>5, SearchFacts DEF DiffInv
    <3>2. Flushed.pending \in Nat /\ Flushed.pending <= window
      BY <1>1, <2>1, FlushedIs
    <3> DEFINE p == Flushed.pending
    <3> HIDE DEF p
    <3>3. p \in Nat /\ p <= validTo
      BY <3>1, <3>2 DEF p
    <3>4. Slice(p, validTo) \in Seq(Nat)
      BY <1>1, <1>5, <3>1, <3>3, SliceIs
    <3>5. QED
      BY <3>4 DEF p
  <2>3. q \in Sendings(old) /\ AllWhole(old, q.ops)
    BY <1>1, <1>3, <2>1, <2>2, FlushedIs, FlushedWhole, EnqueueDataIs, EnqueueDataWhole
  <2> HIDE DEF q
  <2>4. QED
    BY <1>8, <2>1, <2>3
<1>14. CASE LookSlide
  <2>1. diff.at = "look" /\ sent' = Flushed.sent /\ diff'.at = "extend"
    BY <1>3, <1>14 DEF LookSlide
  <2>2. QED
    BY <1>1, <2>1, FlushedWhole
<1>15. QED
  BY <1>7, <1>9, <1>10, <1>11, <1>12, <1>13, <1>14 DEF Differ, ComputeDiff

\* The steps of the others.
LEMMA OthersWhole ==
  ASSUME IInv, WholeInv, [Next]_vars, ~Differ
  PROVE  WholeInv'
<1>1. CASE StartFile
  <2>1. old' = old /\ patch' = patch /\ sent' = NothingSent /\ diff' = Ready
    BY <1>1 DEF StartFile
  <2>2. AllWhole(old, sent'.ops) /\ WholeRange(old, sent'.prev)
    BY <2>1 DEF NothingSent, AllWhole, WholeRange, NoOp
  <2>3. diff'.at # "nil"
    BY <2>1 DEF Ready
  <2>4. QED
    BY <2>1, <2>2, <2>3 DEF WholeInv
<1>2. CASE Collect
  <2>1. old' = old /\ sent' = sent /\ diff' = diff /\ (patch' = patch \/ patch' = Append(patch, sent.ops))
    BY <1>2 DEF Collect, differ
  <2>2. patch' # patch => /\ main = "tasks" /\ done # << >> /\ Head(done) = "nil" /\ collected = 2
                          /\ patch' = Append(patch, sent.ops)
    BY <1>2 DEF Collect
  <2>3. CASE patch' = patch
    BY <2>1, <2>3 DEF WholeInv, Running
  <2>4. CASE patch' # patch
    <3>1. diff.at = "nil"
      BY <2>2, <2>4, FileDone
    <3>2. AllButLast(old, sent.ops)
      BY <3>1 DEF WholeInv
    <3>3. patch \in Seq(Seq(Ops(old)))
      BY DEF IInv, TypeInv
    <3>4. \A f \in DOMAIN Append(patch, sent.ops) : AllButLast(old, Append(patch, sent.ops)[f])
      <4>1. \A f \in DOMAIN patch : AllButLast(old, patch[f])
        BY DEF WholeInv
      <4> DEFINE x == sent.ops
      <4>2. /\ DOMAIN patch = 1 .. Len(patch) /\ DOMAIN Append(patch, x) = 1 .. Len(patch) + 1 /\ Len(patch) \in Nat
            /\ Append(patch, x)[Len(patch) + 1] = x /\ \A i \in 1 .. Len(patch) : Append(patch, x)[i] = patch[i]
        BY <3>3
      <4> HIDE DEF x
      <4>3. \A f \in 1 .. Len(patch) + 1 : AllButLast(old, Append(patch, x)[f])
        <5>1. TAKE f \in 1 .. Len(patch) + 1
        <5>2. CASE f = Len(patch) + 1
          BY <3>2, <4>2, <5>2 DEF x
        <5>3. CASE f \in 1 .. Len(patch)
          BY <4>1, <4>2, <5>3
        <5>4. QED
          BY <4>2, <5>2, <5>3
      <4>4. QED
        BY <4>2, <4>3 DEF x
    <3>5. QED
      BY <2>1, <2>2, <2>4, <3>4 DEF WholeInv, Running
  <2>5. QED
    BY <2>3, <2>4
<1>3. CASE old' = old /\ sent' = sent /\ diff' = diff /\ patch' = patch
  BY <1>3 DEF WholeInv, Running
<1>4. \/ StartFile \/ Collect
      \/ old' = old /\ sent' = sent /\ diff' = diff /\ patch' = patch
  BY DEF Next, MainNext, CopierNext, SignerNext, CollectCancelled, Finish, CopyChunk, CopyToSigner, ChunkCopied, CopyEnds,
         SignBlocks, SignEnds, Cancel, Idle, vars, differ, search
<1>5. QED
  BY <1>1, <1>2, <1>3, <1>4

LEMMA WholeHolds == Spec => [](IInv /\ WholeInv)
<1>1. Init => WholeInv
  BY DEF Init, WholeInv, Running, Over
<1>2. IInv /\ WholeInv /\ [Next]_vars => WholeInv'
  BY DifferWhole, OthersWhole
<1>3. QED
  BY <1>1, <1>2, IInvHolds, PTL DEF Spec

-----------------------------------------------------------------------------
(* What the genie tells                                                     *)

\* A sum of one more number.
LEMMA SumMore ==
  ASSUME NEW v \in Seq(Int), NEW w \in Seq(Int), Len(w) = Len(v) + 1, \A i \in 1 .. Len(v) : w[i] = v[i]
  PROVE  SumOf(w) = SumOf(v) + w[Len(v) + 1]
<1> DEFINE n == Len(v)
<1>0. n \in Nat
  OBVIOUS
<1>1. PICK g : Sums(g, n, v) /\ SumOf(v) = g[n + 1]
  BY SumIs
<1>2. PICK h : Sums(h, n + 1, w) /\ SumOf(w) = h[n + 2]
  <2>1. PICK h : Sums(h, Len(w), w) /\ SumOf(w) = h[Len(w) + 1]
    BY SumIs, SMTT(60)
  <2>2. Len(w) = n + 1 /\ Len(w) + 1 = n + 2
    BY <1>0
  <2> HIDE DEF n
  <2>3. QED
    BY <2>1, <2>2
<1> HIDE DEF n
<1>3. g[1] = 0 /\ (\A i \in 1 .. n : g[i + 1] = g[i] + v[i])
  BY <1>1, SumsAre
<1>4. h[1] = 0 /\ (\A i \in 1 .. n + 1 : h[i + 1] = h[i] + w[i])
  BY <1>2, SumsAre, SMTT(60)
<1> DEFINE T == {i \in Int : h[i] = g[i]}
<1>5. 1 <= n + 1 => 1 \in T
  BY <1>3, <1>4
<1>6. ASSUME NEW i \in 1 .. (n + 1) - 1, i \in T PROVE i + 1 \in T
  <2>1. i \in 1 .. n /\ i \in 1 .. n + 1 /\ i + 1 \in Int
    BY <1>0
  <2>2. h[i + 1] = h[i] + w[i] /\ g[i + 1] = g[i] + v[i] /\ w[i] = v[i] /\ h[i] = g[i]
    BY <1>3, <1>4, <1>6, <2>1 DEF n
  <2>3. QED
    BY <2>1, <2>2
<1>7. 1 .. n + 1 \subseteq T
  <2>1. 1 \in Int /\ n + 1 \in Int
    BY <1>0
  <2> HIDE DEF T
  <2>2. QED
    BY <1>5, <1>6, <2>1, RangeInduction
<1>8. h[n + 1] = g[n + 1] /\ n + 1 \in 1 .. n + 1 /\ (n + 1) + 1 = n + 2
  BY <1>0, <1>7
<1>9. h[n + 2] = h[n + 1] + w[n + 1]
  BY <1>4, <1>8, Zenon
<1>10. QED
  BY <1>1, <1>2, <1>8, <1>9 DEF n

\* What an origin may be.
Origins(o) == [file : {0} \cup DOMAIN o, offset : Nat, size : Nat]

Sizes(s) == [i \in DOMAIN s |-> s[i].size]

LEMMA TotalIs ==
  ASSUME NEW o, NEW s \in Seq(Origins(o))
  PROVE  /\ Sizes(s) \in Seq(Int) /\ Len(Sizes(s)) = Len(s) /\ Len(s) \in Nat
         /\ Total(s) = SumOf(Sizes(s)) /\ Total(s) \in Nat
<1> DEFINE n == Len(s)
           v == Sizes(s)
<1>1. n \in Nat /\ DOMAIN s = 1 .. n
  OBVIOUS
<1>2. \A i \in 1 .. n : s[i].size \in Nat
  <2>1. ASSUME NEW i \in 1 .. n PROVE s[i].size \in Nat
    <3>1. s[i] \in Origins(o)
      BY <1>1
    <3>2. QED
      BY <3>1 DEF Origins
  <2>2. QED
    BY <2>1
<1>3. v = [i \in 1 .. n |-> s[i].size]
  BY <1>1 DEF Sizes
<1>4. v \in [1 .. n -> Nat] /\ v \in Seq(Int) /\ Len(v) = n
  <2> HIDE DEF v, n
  <2>1. QED
    BY <1>1, <1>2, <1>3
<1>5. Total(s) = SumOf(v)
  BY DEF Total, Sizes
<1>6. SumOf(v) \in Nat
  <2> HIDE DEF v, n
  <2>1. PICK g : Sums(g, n, v) /\ SumOf(v) = g[n + 1]
    BY <1>4, SumIs
  <2>2. QED
    BY <1>1, <1>4, <2>1, SumsNat
<1>7. QED
  BY <1>1, <1>4, <1>5, <1>6

LEMMA TotalNone == Total(<< >>) = 0
<1>1. << >> \in Seq(Int) /\ Sizes(<< >>) = << >>
  BY DEF Sizes
<1>2. PICK g : Sums(g, Len(<< >>), << >>) /\ SumOf(<< >>) = g[Len(<< >>) + 1]
  BY <1>1, SumIs
<1>3. g[1] = 0
  BY <1>2, SumsAre
<1>4. Total(<< >>) = SumOf(<< >>)
  BY <1>1 DEF Total, Sizes
<1>5. QED
  BY <1>2, <1>3, <1>4

LEMMA TotalAppend ==
  ASSUME NEW o, NEW s \in Seq(Origins(o)), NEW x \in Origins(o)
  PROVE  Total(Append(s, x)) = Total(s) + x.size
<1> DEFINE t == Append(s, x)
           n == Len(s)
<1>1. t \in Seq(Origins(o)) /\ Len(t) = n + 1 /\ n \in Nat /\ t[n + 1] = x /\ \A i \in 1 .. n : t[i] = s[i]
  OBVIOUS
<1> HIDE DEF t
<1>2. /\ Sizes(s) \in Seq(Int) /\ Len(Sizes(s)) = n /\ Total(s) = SumOf(Sizes(s))
      /\ Sizes(t) \in Seq(Int) /\ Len(Sizes(t)) = n + 1 /\ Total(t) = SumOf(Sizes(t))
  BY <1>1, TotalIs
<1>3. Sizes(t)[n + 1] = x.size /\ \A i \in 1 .. n : Sizes(t)[i] = Sizes(s)[i]
  <2>1. DOMAIN t = 1 .. n + 1 /\ DOMAIN s = 1 .. n /\ n + 1 \in 1 .. n + 1 /\ \A i \in 1 .. n : i \in 1 .. n + 1
    BY <1>1
  <2>2. QED
    BY <1>1, <2>1, Zenon DEF Sizes
<1>4. QED
  <2> HIDE DEF n
  <2>1. SumOf(Sizes(t)) = SumOf(Sizes(s)) + Sizes(t)[n + 1]
    BY <1>2, <1>3, SumMore
  <2>2. QED
    BY <1>2, <1>3, <2>1 DEF t
-----------------------------------------------------------------------------
\* The file an origin is of, and where in it it starts, when it is at pos of the new file d.
FromOf(o, x, d) == IF x.file = 0 THEN d ELSE o[x.file]
OffsetOf(x, pos) == IF x.file = 0 THEN pos ELSE x.offset

\* Byte by byte it is what is there; both files end at the same one of its bytes, or after it.
Fits(o, x, d, pos) ==
  \A i \in 1 .. x.size :
    /\ OffsetOf(x, pos) + i <= Len(FromOf(o, x, d)) <=> pos + i <= Len(d)
    /\ pos + i <= Len(d) => FromOf(o, x, d)[OffsetOf(x, pos) + i] = d[pos + i]

\* The part of s of n elements, or less, from a on.
LEMMA PartUpTo ==
  ASSUME NEW S, NEW s \in Seq(S), NEW a \in Nat, NEW n \in Nat
  PROVE  /\ SubSeq(s, a + 1, Least(a + n, Len(s))) \in Seq(S)
         /\ \A i \in 1 .. n : a + i <= Len(s) <=> i <= Len(SubSeq(s, a + 1, Least(a + n, Len(s))))
         /\ Len(SubSeq(s, a + 1, Least(a + n, Len(s)))) <= n
         /\ \A i \in 1 .. Len(SubSeq(s, a + 1, Least(a + n, Len(s)))) :
              SubSeq(s, a + 1, Least(a + n, Len(s)))[i] = s[a + i]
<1> DEFINE e == Least(a + n, Len(s))
           t == SubSeq(s, a + 1, e)
<1>1. Len(s) \in Nat /\ e \in Nat /\ e <= Len(s) /\ e <= a + n
  BY DEF Least
<1>2. CASE a <= e
  <2>1. t \in Seq(S) /\ Len(t) = e - a /\ \A i \in 1 .. e - a : t[i] = s[a + i]
    <3>1. e \in a .. Len(s)
      BY <1>1, <1>2
    <3> HIDE DEF e
    <3>2. QED
      BY <3>1, PartIs
  <2>2. \A i \in 1 .. n : a + i <= Len(s) <=> i <= e - a
    BY <1>1 DEF Least
  <2> HIDE DEF t
  <2>3. e - a <= n
    BY <1>1
  <2> HIDE DEF e
  <2>4. QED
    BY <2>1, <2>2, <2>3 DEF t, e
<1>3. CASE ~(a <= e)
  <2>1. t = << >>
    <3>1. e < a + 1
      BY <1>1, <1>3
    <3> HIDE DEF e
    <3>2. QED
      BY <1>1, <3>1
  <2>2. \A i \in 1 .. n : ~(a + i <= Len(s))
    BY <1>1, <1>3 DEF Least
  <2>3. t \in Seq(S) /\ Len(t) = 0
    <3>1. << >> \in Seq(S) /\ Len(<< >>) = 0
      OBVIOUS
    <3> HIDE DEF t
    <3>2. QED
      BY <2>1, <3>1, Zenon
  <2> HIDE DEF t
  <2>4. QED
    BY <2>2, <2>3 DEF t
<1>4. QED
  BY <1>2, <1>3

LEMMA FitsBytes ==
  ASSUME TypeInv, NEW d \in Seq(Nat), NEW pos \in Nat, NEW x \in Origins(old), Fits(old, x, d, pos)
  PROVE  OriginBytes(x, d, pos) = SubSeq(d, pos + 1, Least(pos + x.size, Len(d)))
<1> DEFINE from == FromOf(old, x, d)
           off == OffsetOf(x, pos)
           n == x.size
           s == SubSeq(from, off + 1, Least(off + n, Len(from)))
           t == SubSeq(d, pos + 1, Least(pos + n, Len(d)))
<1>1. n \in Nat /\ off \in Nat /\ from \in Seq(Nat)
  BY OldIs DEF Origins, FromOf, OffsetOf
<1>2. OriginBytes(x, d, pos) = s
  BY DEF OriginBytes, FromOf, OffsetOf
<1>3. \A i \in 1 .. n : (off + i <= Len(from) <=> pos + i <= Len(d)) /\ (pos + i <= Len(d) => from[off + i] = d[pos + i])
  BY DEF Fits
<1> HIDE DEF from, off, n
<1>4. /\ s \in Seq(Nat) /\ Len(s) <= n /\ (\A i \in 1 .. n : off + i <= Len(from) <=> i <= Len(s))
      /\ \A i \in 1 .. Len(s) : s[i] = from[off + i]
  BY <1>1, PartUpTo, ZenonT(60)
<1>5. /\ t \in Seq(Nat) /\ Len(t) <= n /\ (\A i \in 1 .. n : pos + i <= Len(d) <=> i <= Len(t))
      /\ \A i \in 1 .. Len(t) : t[i] = d[pos + i]
  BY <1>1, PartUpTo, ZenonT(60)
<1> HIDE DEF s, t
<1>6. Len(s) \in Nat /\ Len(t) \in Nat
  BY <1>4, <1>5
<1>7. \A i \in 1 .. n : i <= Len(s) <=> i <= Len(t)
  BY <1>3, <1>4, <1>5
<1>8. Len(s) = Len(t)
  BY <1>1, <1>4, <1>5, <1>6, <1>7
<1>9. \A i \in 1 .. Len(s) : s[i] = t[i]
  <2>1. TAKE i \in 1 .. Len(s)
  <2>2. i \in 1 .. n /\ i \in 1 .. Len(t)
    BY <1>1, <1>4, <1>6, <1>8
  <2>3. s[i] = from[off + i] /\ t[i] = d[pos + i] /\ pos + i <= Len(d)
    BY <1>4, <1>5, <1>6, <2>2
  <2>4. QED
    BY <1>3, <2>2, <2>3
<1>10. s = t
  BY <1>4, <1>5, <1>8, <1>9, SameSequence
<1>11. QED
  BY <1>2, <1>10 DEF t, n

\* Cut after n of its bytes.
LEMMA CutIs ==
  ASSUME NEW o, NEW x \in Origins(o), NEW n \in 0 .. x.size
  PROVE  /\ [x EXCEPT !.size = n] \in Origins(o) /\ [x EXCEPT !.size = n].size = n
         /\ RestOf(x, n) \in Origins(o) /\ RestOf(x, n).size = x.size - n
         /\ [x EXCEPT !.size = n].file = x.file /\ [x EXCEPT !.size = n].offset = x.offset
         /\ RestOf(x, n).file = x.file /\ (x.file # 0 => RestOf(x, n).offset = x.offset + n)
<1> DEFINE y == [x EXCEPT !.size = n]
           z == RestOf(x, n)
<1>1. x.size \in Nat /\ x.offset \in Nat /\ x = [file |-> x.file, offset |-> x.offset, size |-> x.size] /\ x.file \in {0} \cup DOMAIN o
  BY DEF Origins
<1>2. y = [file |-> x.file, offset |-> x.offset, size |-> n]
  BY <1>1
<1>3. z = [file |-> x.file, offset |-> IF x.file = 0 THEN 0 ELSE x.offset + n, size |-> x.size - n]
  <2> DEFINE b == IF x.file = 0 THEN 0 ELSE x.offset + n
             c == x.size - n
  <2>1. z = [x EXCEPT !.size = c, !.offset = b]
    BY DEF RestOf
  <2> HIDE DEF b, c, z
  <2>2. z = [file |-> x.file, offset |-> b, size |-> c]
    BY <1>1, <2>1
  <2>3. QED
    BY <2>2 DEF b, c
<1>4. n \in Nat /\ x.size - n \in Nat /\ x.offset + n \in Nat
  BY <1>1
<1> HIDE DEF y, z
<1>5. /\ y \in Origins(o) /\ z \in Origins(o) /\ y.size = n /\ z.size = x.size - n
      /\ y.file = x.file /\ z.file = x.file /\ y.offset = x.offset /\ (x.file # 0 => z.offset = x.offset + n)
  BY <1>1, <1>2, <1>3, <1>4 DEF Origins
<1>6. QED
  BY <1>5 DEF y, z

LEMMA FitsCut ==
  ASSUME NEW o, NEW d, NEW pos \in Nat, NEW x \in Origins(o), Fits(o, x, d, pos), NEW n \in 0 .. x.size
  PROVE  Fits(o, [x EXCEPT !.size = n], d, pos) /\ Fits(o, RestOf(x, n), d, pos + n)
<1> DEFINE y == [x EXCEPT !.size = n]
           z == RestOf(x, n)
           f == FromOf(o, x, d)
           a == OffsetOf(x, pos)
<1>1. x.size \in Nat /\ x.offset \in Nat
  BY DEF Origins
<1>4. /\ y.size = n /\ z.size = x.size - n
      /\ y.file = x.file /\ z.file = x.file /\ y.offset = x.offset /\ (x.file # 0 => z.offset = x.offset + n)
  <2>1. y.size = n /\ y.file = x.file /\ y.offset = x.offset
    BY DEF Origins
  <2>2. z.size = x.size - n /\ z.file = x.file /\ (x.file # 0 => z.offset = x.offset + n)
    <3> HIDE DEF y, f, a
    <3>1. QED
      BY CutIs, ZenonT(60)
  <2>3. QED
    BY <2>1, <2>2
<1> HIDE DEF y, z
<1>5. FromOf(o, y, d) = f /\ FromOf(o, z, d) = f /\ OffsetOf(y, pos) = a /\ OffsetOf(z, pos + n) = a + n /\ a \in Nat
  BY <1>1, <1>4 DEF FromOf, OffsetOf
<1>6. \A i \in 1 .. x.size : (a + i <= Len(f) <=> pos + i <= Len(d)) /\ (pos + i <= Len(d) => f[a + i] = d[pos + i])
  BY DEF Fits
<1> HIDE DEF f, a
<1>7. Fits(o, y, d, pos)
  <2>1. ASSUME NEW i \in 1 .. n PROVE i \in 1 .. x.size
    BY <1>1
  <2>2. QED
    BY <1>4, <1>5, <1>6, <2>1 DEF Fits
<1>8. Fits(o, z, d, pos + n)
  <2>1. ASSUME NEW i \in 1 .. x.size - n
        PROVE ((a + n) + i <= Len(f) <=> (pos + n) + i <= Len(d)) /\ ((pos + n) + i <= Len(d) => f[(a + n) + i] = d[(pos + n) + i])
    <3>1. n + i \in 1 .. x.size /\ (a + n) + i = a + (n + i) /\ (pos + n) + i = pos + (n + i)
      BY <1>1, <1>5
    <3>2. (a + (n + i) <= Len(f) <=> pos + (n + i) <= Len(d)) /\ (pos + (n + i) <= Len(d) => f[a + (n + i)] = d[pos + (n + i)])
      BY <1>6, <3>1
    <3>3. QED
      BY <3>1, <3>2
  <2>2. QED
    BY <1>4, <1>5, <2>1, SMTT(60) DEF Fits
<1>9. QED
  BY <1>7, <1>8 DEF y, z

\* Each origin fits where those before it end.
Explained(o, s, d) == \A i \in DOMAIN s : Fits(o, s[i], d, Total(SubSeq(s, 1, i - 1)))

\* What is being told of blocks of size big, and what of it the blocks make up.
Tellings(o, big) ==
  {g \in [told : Seq(Seq(Origins(o))), comp : Seq(Origins(o)), left : Origins(o)] : Total(g.comp) <= big}

AllOf(g) == FlattenSeq(g.told) \o g.comp

\* It explains the first p bytes of d.
Tells(o, g, big, d, p) ==
  /\ \A k \in DOMAIN g.told : Total(g.told[k]) = big
  /\ Explained(o, FlattenSeq(g.told), d) /\ Total(FlattenSeq(g.told)) <= p
  /\ Explained(o, AllOf(g), d) /\ Total(AllOf(g)) = p

LEMMA ExplainedAppend ==
  ASSUME NEW o, NEW d, NEW s \in Seq(Origins(o)), NEW x \in Origins(o), Explained(o, s, d), Fits(o, x, d, Total(s))
  PROVE  Explained(o, Append(s, x), d)
<1> DEFINE t == Append(s, x)
           n == Len(s)
<1>1. /\ n \in Nat /\ DOMAIN t = 1 .. n + 1 /\ DOMAIN s = 1 .. n /\ t[n + 1] = x
      /\ \A i \in 1 .. n : t[i] = s[i]
  OBVIOUS
<1>2. \A i \in 1 .. n + 1 : SubSeq(t, 1, i - 1) = SubSeq(s, 1, i - 1)
  <2>1. TAKE i \in 1 .. n + 1
  <2> DEFINE a == SubSeq(t, 0 + 1, i - 1)
             b == SubSeq(s, 0 + 1, i - 1)
  <2>2. t \in Seq(Origins(o)) /\ Len(t) = n + 1 /\ i - 1 \in 0 .. n /\ i - 1 \in 0 .. n + 1 /\ (i - 1) - 0 = i - 1
    BY <1>1
  <2> HIDE DEF t
  <2>3. a \in Seq(Origins(o)) /\ Len(a) = i - 1 /\ \A j \in 1 .. i - 1 : a[j] = t[0 + j]
    BY <2>2, PartIs
  <2>4. b \in Seq(Origins(o)) /\ Len(b) = i - 1 /\ \A j \in 1 .. i - 1 : b[j] = s[0 + j]
    BY <2>2, PartIs
  <2> HIDE DEF a, b, n
  <2>5. \A j \in 1 .. Len(a) : a[j] = b[j]
    <3>1. TAKE j \in 1 .. Len(a)
    <3>2. j \in 1 .. i - 1 /\ 0 + j = j /\ j \in 1 .. n
      BY <1>1, <2>2, <2>3
    <3>3. QED
      BY <1>1, <2>3, <2>4, <3>2
  <2>6. a = b
    BY <2>3, <2>4, <2>5, SameSequence
  <2>7. 0 + 1 = 1
    OBVIOUS
  <2>8. QED
    BY <2>6, <2>7 DEF a, b
<1>3. SubSeq(s, 1, n) = s
  OBVIOUS
<1> HIDE DEF t, n
<1>4. ASSUME NEW i \in 1 .. n + 1 PROVE Fits(o, t[i], d, Total(SubSeq(t, 1, i - 1)))
  <2>1. CASE i = n + 1
    <3>1. i - 1 = n
      BY <1>1, <2>1
    <3>2. SubSeq(t, 1, i - 1) = s /\ t[i] = x
      BY <1>1, <1>2, <1>3, <2>1, <3>1
    <3>3. QED
      BY <3>2
  <2>2. CASE i # n + 1
    <3>1. i \in 1 .. n
      BY <1>1, <2>2
    <3>2. Fits(o, s[i], d, Total(SubSeq(s, 1, i - 1)))
      BY <1>1, <3>1 DEF Explained
    <3>3. t[i] = s[i] /\ SubSeq(t, 1, i - 1) = SubSeq(s, 1, i - 1)
      BY <1>1, <1>2, <3>1
    <3>4. QED
      BY <3>2, <3>3
  <2>3. QED
    BY <2>1, <2>2
<1>5. QED
  BY <1>1, <1>4 DEF Explained, t

LEMMA TellingIs ==
  ASSUME NEW o, NEW big \in Nat, NEW g \in Tellings(o, big)
  PROVE  /\ g = [told |-> g.told, comp |-> g.comp, left |-> g.left]
         /\ g.told \in Seq(Seq(Origins(o))) /\ g.comp \in Seq(Origins(o)) /\ g.left \in Origins(o)
         /\ FlattenSeq(g.told) \in Seq(Origins(o)) /\ AllOf(g) \in Seq(Origins(o))
         /\ Total(g.comp) \in 0 .. big /\ Total(FlattenSeq(g.told)) \in Nat /\ Total(AllOf(g)) \in Nat
<1>1. /\ g = [told |-> g.told, comp |-> g.comp, left |-> g.left]
      /\ g.told \in Seq(Seq(Origins(o))) /\ g.comp \in Seq(Origins(o)) /\ g.left \in Origins(o)
      /\ Total(g.comp) <= big
  BY DEF Tellings
<1>2. FlattenSeq(g.told) \in Seq(Origins(o))
  BY <1>1, FlattenType
<1> DEFINE s == FlattenSeq(g.told)
           t == g.comp
<1>3. AllOf(g) \in Seq(Origins(o))
  <2>1. s \in Seq(Origins(o)) /\ t \in Seq(Origins(o)) /\ AllOf(g) = s \o t
    BY <1>1, <1>2 DEF AllOf
  <2> HIDE DEF s, t
  <2>2. QED
    BY <2>1
<1>4. Total(g.comp) \in Nat /\ Total(s) \in Nat /\ Total(AllOf(g)) \in Nat
  BY <1>1, <1>2, <1>3, TotalIs
<1>5. QED
  BY <1>1, <1>2, <1>3, <1>4

\* An origin that has room in the block is added.
LEMMA AppendOriginTells ==
  ASSUME NEW o, NEW big \in Nat, NEW g \in Tellings(o, big), NEW x \in Origins(o), Total(g.comp) + x.size <= big
  PROVE  /\ AppendOrigin(g, x) \in Tellings(o, big)
         /\ AppendOrigin(g, x).left = g.left /\ Total(AppendOrigin(g, x).comp) = Total(g.comp) + x.size
         /\ \A d : \A p \in Nat : Tells(o, g, big, d, p) /\ Fits(o, x, d, p) => Tells(o, AppendOrigin(g, x), big, d, p + x.size)
<1>0. x.size \in Nat
  BY DEF Origins
<1>1. CASE x.size = 0
  <2>1. AppendOrigin(g, x) = g /\ Total(g.comp) \in Nat /\ \A p \in Nat : p + x.size = p
    BY <1>1, TellingIs DEF AppendOrigin
  <2>2. QED
    BY <1>1, <2>1
<1>2. CASE x.size # 0
  <2> DEFINE h == AppendOrigin(g, x)
             c == Append(g.comp, x)
             s == FlattenSeq(g.told)
  <2>1. /\ g = [told |-> g.told, comp |-> g.comp, left |-> g.left]
        /\ g.told \in Seq(Seq(Origins(o))) /\ g.comp \in Seq(Origins(o)) /\ g.left \in Origins(o)
        /\ s \in Seq(Origins(o)) /\ AllOf(g) \in Seq(Origins(o)) /\ AllOf(g) = s \o g.comp
    BY TellingIs DEF AllOf
  <2>2. h = [told |-> g.told, comp |-> c, left |-> g.left]
    <3>1. h = [g EXCEPT !.comp = Append(g.comp, x)]
      BY <1>2 DEF AppendOrigin
    <3>2. QED
      BY <2>1, <3>1
  <2>3. c \in Seq(Origins(o)) /\ Total(c) = Total(g.comp) + x.size
    BY <2>1, TotalAppend
  <2>4. h \in Tellings(o, big)
    <3> HIDE DEF c, h
    <3>1. QED
      BY <2>1, <2>2, <2>3 DEF Tellings
  <2>5. h.told = g.told /\ h.comp = c /\ h.left = g.left
    BY <2>2
  <2>6. AllOf(h) = Append(AllOf(g), x)
    <3> HIDE DEF h
    <3>1. AllOf(h) = s \o c
      BY <2>5 DEF AllOf
    <3> HIDE DEF s
    <3>2. s \o Append(g.comp, x) = Append(s \o g.comp, x)
      BY <2>1, SMTT(60)
    <3>3. QED
      BY <2>1, <3>1, <3>2
  <2>7. ASSUME NEW d, NEW p \in Nat, Tells(o, g, big, d, p), Fits(o, x, d, p)
        PROVE  Tells(o, h, big, d, p + x.size)
    <3> HIDE DEF h
    <3>1. Total(AllOf(h)) = p + x.size /\ Explained(o, AllOf(h), d)
      BY <2>1, <2>6, <2>7, TotalAppend, ExplainedAppend DEF Tells
    <3>2. Total(s) <= p /\ Total(s) \in Nat
      BY <2>7, TellingIs DEF Tells
    <3>3. Total(s) <= p + x.size
      BY <1>0, <3>2
    <3>4. QED
      BY <2>5, <2>7, <3>1, <3>3 DEF Tells
  <2>8. QED
    BY <2>3, <2>4, <2>5, <2>7
<1>3. QED
  BY <1>1, <1>2

\* A full block is told of.
LEMMA OnCompTells ==
  ASSUME NEW o, NEW big \in Nat, NEW g \in Tellings(o, big)
  PROVE  /\ OnComp(g) \in Tellings(o, big) /\ OnComp(g).comp = << >> /\ OnComp(g).left = g.left
         /\ OnComp(g).told = Append(g.told, g.comp) /\ FlattenSeq(OnComp(g).told) = AllOf(g)
         /\ \A d, p : Tells(o, g, big, d, p) /\ Total(g.comp) = big => Tells(o, OnComp(g), big, d, p)
<1> DEFINE S == Origins(o)
           n == Len(g.told)
           more == Append(g.told, g.comp)
           h == OnComp(g)
<1>1. /\ g = [told |-> g.told, comp |-> g.comp, left |-> g.left]
      /\ g.told \in Seq(Seq(S)) /\ g.comp \in Seq(S) /\ g.left \in S /\ AllOf(g) \in Seq(S)
  BY TellingIs
<1>2. h = [told |-> more, comp |-> << >>, left |-> g.left]
  <2>1. h = [g EXCEPT !.told = more, !.comp = << >>]
    BY DEF OnComp
  <2> HIDE DEF more, h
  <2>2. QED
    BY <1>1, <2>1
<1>3. /\ more \in Seq(Seq(S)) /\ Len(more) = n + 1 /\ n \in Nat /\ more[n + 1] = g.comp
      /\ \A i \in 1 .. n : more[i] = g.told[i]
  BY <1>1
<1> HIDE DEF more, h, S
<1>4. FlattenSeq(more) = FlattenSeq(g.told) \o g.comp
  BY <1>1, <1>3, FlattenStep DEF n
<1>5. << >> \in Seq(S) /\ Total(<< >>) <= big
  BY TotalNone
<1>6. h \in Tellings(o, big)
  BY <1>1, <1>2, <1>3, <1>5 DEF Tellings, S
<1>7. h.told = more /\ h.comp = << >> /\ h.left = g.left
  BY <1>2
<1>8. AllOf(h) = AllOf(g) /\ FlattenSeq(h.told) = AllOf(g)
  <2>1. AllOf(g) = FlattenSeq(more)
    BY <1>4 DEF AllOf
  <2>2. AllOf(h) = AllOf(g) \o << >>
    BY <1>7, <2>1 DEF AllOf
  <2>3. \A s \in Seq(S) : s \o << >> = s
    OBVIOUS
  <2>4. QED
    BY <1>1, <1>7, <2>1, <2>2, <2>3
<1>9. ASSUME NEW d, NEW p, Tells(o, g, big, d, p), Total(g.comp) = big
      PROVE  Tells(o, h, big, d, p)
  <2>1. Explained(o, AllOf(g), d) /\ Total(AllOf(g)) = p /\ \A k \in DOMAIN g.told : Total(g.told[k]) = big
    BY <1>9 DEF Tells
  <2>2. Total(AllOf(g)) \in Nat
    BY TellingIs
  <2>3. \A k \in DOMAIN more : Total(more[k]) = big
    <3>1. DOMAIN more = 1 .. n + 1 /\ DOMAIN g.told = 1 .. n
      BY <1>1, <1>3 DEF n
    <3>2. ASSUME NEW k \in 1 .. n + 1 PROVE Total(more[k]) = big
      <4>1. CASE k = n + 1
        BY <1>3, <1>9, <4>1
      <4>2. CASE k # n + 1
        <5>1. k \in 1 .. n
          BY <1>3, <4>2, SMTT(60)
        <5>2. QED
          BY <1>3, <2>1, <3>1, <5>1
      <4>3. QED
        BY <4>1, <4>2
    <3>3. QED
      BY <3>1, <3>2
  <2>4. Total(AllOf(g)) <= p
    BY <2>1, <2>2
  <2>5. QED
    BY <1>7, <1>8, <2>1, <2>3, <2>4 DEF Tells
<1>10. QED
  BY <1>6, <1>7, <1>8, <1>9 DEF h, more

\* An origin with more bytes than the block has room for is cut.
LEMMA CutTells ==
  ASSUME NEW o, NEW big \in Nat \ {0}, NEW g \in Tellings(o, big)
  PROVE  /\ Cut(g, big) \in Tellings(o, big)
         /\ g.left.size <= big - Total(g.comp) => Cut(g, big) = g
         /\ g.left.size > big - Total(g.comp) =>
              /\ Cut(g, big).comp = << >> /\ Cut(g, big).left.size = g.left.size - (big - Total(g.comp))
              /\ \A d : \A p \in Nat :
                   Tells(o, g, big, d, p) /\ Fits(o, g.left, d, p) =>
                     /\ Tells(o, Cut(g, big), big, d, p + (big - Total(g.comp)))
                     /\ Fits(o, Cut(g, big).left, d, p + (big - Total(g.comp)))
<1> DEFINE room == big - Total(g.comp)
<1>1. g.left \in Origins(o) /\ g.left.size \in Nat /\ room \in Nat /\ room <= big /\ Total(g.comp) \in Nat /\ Total(g.comp) + room = big
  <2>1. g.left \in Origins(o) /\ Total(g.comp) \in 0 .. big
    BY TellingIs
  <2>2. g.left.size \in Nat
    BY <2>1 DEF Origins
  <2>3. QED
    BY <2>1, <2>2
<1>2. CASE g.left.size <= room
  <2>1. Cut(g, big) = g
    BY <1>1, <1>2 DEF Cut
  <2>2. ~(g.left.size > room)
    BY <1>1, <1>2
  <2>3. QED
    BY <2>1, <2>2
<1>3. CASE g.left.size > room
  <2> DEFINE x == [g.left EXCEPT !.size = room]
             h == AppendOrigin(g, x)
             t == OnComp(h)
             r == RestOf(g.left, room)
             u == Cut(g, big)
  <2>1. room \in 0 .. g.left.size
    BY <1>1, <1>3
  <2>2. x \in Origins(o) /\ x.size = room /\ r \in Origins(o) /\ r.size = g.left.size - room
    <3> HIDE DEF room
    <3>1. QED
      BY <1>1, <2>1, CutIs
  <2>3. Total(g.comp) + x.size <= big
    BY <1>1, <2>2
  <2> HIDE DEF x
  <2>4. /\ h \in Tellings(o, big) /\ h.left = g.left /\ Total(h.comp) = big
        /\ \A d : \A p \in Nat : Tells(o, g, big, d, p) /\ Fits(o, x, d, p) => Tells(o, h, big, d, p + room)
    <3>1. Total(g.comp) + x.size = big
      BY <1>1, <2>2
    <3>2. QED
      BY <2>2, <2>3, <3>1, AppendOriginTells
  <2> HIDE DEF h
  <2>5. /\ t \in Tellings(o, big) /\ t.comp = << >> /\ t.left = g.left
        /\ \A d, p : Tells(o, h, big, d, p) => Tells(o, t, big, d, p)
    BY <2>4, OnCompTells
  <2>6. u = [t EXCEPT !.left = RestOf(t.left, room)]
    BY <1>3 DEF Cut, h, x
  <2> HIDE DEF t
  <2>7. u = [told |-> t.told, comp |-> << >>, left |-> r] /\ t.told \in Seq(Seq(Origins(o)))
    <3>1. t = [told |-> t.told, comp |-> t.comp, left |-> t.left] /\ t.told \in Seq(Seq(Origins(o)))
      BY <2>5, TellingIs
    <3> HIDE DEF room, u
    <3>2. QED
      BY <2>5, <2>6, <3>1
  <2> HIDE DEF u, r
  <2>8. u \in Tellings(o, big) /\ u.comp = << >> /\ u.left = r /\ u.told = t.told
    <3>1. << >> \in Seq(Origins(o)) /\ Total(<< >>) <= big
      BY TotalNone
    <3>2. QED
      BY <2>2, <2>7, <3>1 DEF Tellings
  <2>9. ASSUME NEW d, NEW p \in Nat, Tells(o, g, big, d, p), Fits(o, g.left, d, p)
        PROVE  Tells(o, u, big, d, p + room) /\ Fits(o, u.left, d, p + room)
    <3>1. Fits(o, x, d, p) /\ Fits(o, r, d, p + room)
      <4> HIDE DEF room
      <4>1. QED
        BY <1>1, <2>1, <2>9, FitsCut, SMTT(60) DEF x, r
    <3>2. Tells(o, t, big, d, p + room)
      BY <2>4, <2>5, <2>9, <3>1
    <3>3. AllOf(u) = AllOf(t)
      BY <2>5, <2>8 DEF AllOf
    <3>4. Tells(o, u, big, d, p + room)
      BY <2>8, <3>2, <3>3 DEF Tells
    <3>5. QED
      BY <2>8, <3>1, <3>4
  <2>10. ~(g.left.size <= room)
    BY <1>1, <1>3
  <2>11. QED
    BY <2>2, <2>8, <2>9, <2>10 DEF u
<1>4. QED
  BY <1>1, <1>2, <1>3

\* An origin is cut until what is left of it has room: after the first cut, a block
\* that is begun has room for a byte.
LEMMA SplitTells ==
  ASSUME NEW o, NEW big \in Nat \ {0}, NEW g \in Tellings(o, big), NEW x \in Origins(o)
  PROVE  /\ Split(g, x, big) \in Tellings(o, big)
         /\ \A d : \A p \in Nat : Tells(o, g, big, d, p) /\ Fits(o, x, d, p) => Tells(o, Split(g, x, big), big, d, p + x.size)
<1> DEFINE V == Tellings(o, big)
           n == x.size + 1
           v == [g EXCEPT !.left = x]
           turn == CHOOSE f : f = [k \in 0 .. x.size + 1 |-> IF k = 0 THEN v ELSE Cut(f[k - 1], big)]
           last == turn[n]
<1>1. x.size \in Nat /\ n \in Nat
  BY DEF Origins
<1>2. v = [told |-> g.told, comp |-> g.comp, left |-> x] /\ v \in V
  <2>1. /\ g = [told |-> g.told, comp |-> g.comp, left |-> g.left]
        /\ g.told \in Seq(Seq(Origins(o))) /\ g.comp \in Seq(Origins(o)) /\ Total(g.comp) \in 0 .. big
    BY TellingIs
  <2>2. v = [told |-> g.told, comp |-> g.comp, left |-> x]
    BY <2>1
  <2> HIDE DEF v
  <2>3. QED
    BY <2>1, <2>2 DEF Tellings
<1>3. Split(g, x, big) = AppendOrigin(last, last.left)
  BY DEF Split
<1> HIDE DEF v
<1>4. turn = [k \in 0 .. n |-> IF k = 0 THEN v ELSE Cut(turn[k - 1], big)]
  <2> DEFINE step == [k \in 1 .. n |-> [h \in V |-> Cut(h, big)]]
  <2>1. step \in [1 .. n -> [V -> V]]
    <3>1. \A h \in V : Cut(h, big) \in V
      BY CutTells
    <3> HIDE DEF V, n
    <3>2. QED
      BY <3>1
  <2>2. \A k \in 1 .. n : \A h \in V : step[k][h] = Cut(h, big)
    OBVIOUS
  <2> HIDE DEF step, V, n
  <2>3. PICK f \in [0 .. n -> V] : \A k \in 0 .. n : f[k] = IF k = 0 THEN v ELSE step[k][f[k - 1]]
    <3>1. \E f : RecursFromZero(f, V, n, v, step)
      BY <1>1, <1>2, <2>1, RecursionFromZero
    <3>2. QED
      BY <3>1 DEF RecursFromZero
  <2>4. ASSUME NEW k \in 0 .. n PROVE f[k] = IF k = 0 THEN v ELSE Cut(f[k - 1], big)
    <3>1. CASE k = 0
      BY <2>3, <3>1
    <3>2. CASE k # 0
      <4>1. k \in 1 .. n /\ k - 1 \in 0 .. n
        BY <1>1, <3>2
      <4>2. f[k - 1] \in V
        BY <2>3, <4>1
      <4>3. QED
        BY <2>2, <2>3, <3>2, <4>1, <4>2
    <3>3. QED
      BY <3>1, <3>2
  <2>5. f = [k \in 0 .. n |-> f[k]]
    BY <2>3
  <2>6. [k \in 0 .. n |-> f[k]] = [k \in 0 .. n |-> IF k = 0 THEN v ELSE Cut(f[k - 1], big)]
    BY <2>4, Zenon
  <2>7. f = [k \in 0 .. n |-> IF k = 0 THEN v ELSE Cut(f[k - 1], big)]
    BY <2>5, <2>6, Zenon
  <2>8. QED
    BY <2>7, Zenon DEF n
<1> HIDE DEF turn, n
<1>5. turn[0] = v /\ \A k \in 0 .. n - 1 : turn[k + 1] = Cut(turn[k], big)
  <2>1. 0 \in 0 .. n /\ \A k \in 0 .. n - 1 : k + 1 \in 0 .. n /\ k + 1 # 0 /\ (k + 1) - 1 = k
    BY <1>1
  <2>2. \A k \in 0 .. n : turn[k] = IF k = 0 THEN v ELSE Cut(turn[k - 1], big)
    BY <1>4, Zenon
  <2>3. turn[0] = v
    BY <2>1, <2>2, Zenon
  <2>4. ASSUME NEW k \in 0 .. n - 1 PROVE turn[k + 1] = Cut(turn[k], big)
    <3>1. k + 1 \in 0 .. n /\ k + 1 # 0 /\ (k + 1) - 1 = k
      BY <2>1
    <3>2. turn[k + 1] = Cut(turn[(k + 1) - 1], big)
      BY <2>2, <3>1, Zenon
    <3>3. QED
      BY <3>1, <3>2, Zenon
  <2>5. QED
    BY <2>3, <2>4
<1> DEFINE Room(h) == big - Total(h.comp)
           T == {k \in Int : /\ turn[k] \in V
                             /\ \/ turn[k].left.size <= Room(turn[k])
                                \/ /\ turn[k].left.size + k <= n
                                   /\ IF k = 0 THEN turn[k].left.size < n ELSE turn[k].comp = << >>}
<1>6. 0 \in T
  <2>1. v.left = x /\ x.size + 0 <= n /\ x.size < n
    BY <1>1, <1>2 DEF n
  <2>2. QED
    BY <1>2, <1>5, <2>1
<1>7. ASSUME NEW h \in V
      PROVE  /\ h.left \in Origins(o) /\ h.left.size \in Nat /\ Room(h) \in Nat
             /\ h.comp = << >> => Room(h) = big
  <2>1. h.left \in Origins(o) /\ Total(h.comp) \in 0 .. big
    BY TellingIs
  <2>2. h.left.size \in Nat
    BY <2>1 DEF Origins
  <2>3. h.comp = << >> => Total(h.comp) = 0
    BY TotalNone
  <2>4. QED
    BY <2>1, <2>2, <2>3
<1>8. ASSUME NEW k \in 0 .. n - 1, k \in T PROVE k + 1 \in T
  <2> DEFINE h == turn[k]
             u == turn[k + 1]
  <2>1. u = Cut(h, big) /\ h \in V /\ k \in Nat /\ k + 1 \in Int
    BY <1>1, <1>5, <1>8
  <2>2. \/ h.left.size <= Room(h)
        \/ h.left.size + k <= n /\ (IF k = 0 THEN h.left.size < n ELSE h.comp = << >>)
    BY <1>8
  <2> HIDE DEF h, u
  <2>3. /\ u \in V
        /\ h.left.size <= Room(h) => u = h
        /\ h.left.size > Room(h) => u.comp = << >> /\ u.left.size = h.left.size - Room(h)
    BY <2>1, CutTells
  <2>4. h.left.size \in Nat /\ Room(h) \in Nat /\ (h.comp = << >> => Room(h) = big)
    BY <1>7, <2>1
  <2>5. CASE h.left.size <= Room(h)
    BY <2>1, <2>3, <2>5 DEF u
  <2>6. CASE h.left.size > Room(h)
    <3>1. h.left.size + k <= n /\ (IF k = 0 THEN h.left.size < n ELSE h.comp = << >>)
      BY <2>2, <2>4, <2>6
    <3>2. u.left.size = h.left.size - Room(h) /\ u.comp = << >>
      BY <2>3, <2>6
    <3> DEFINE room == Room(h)
    <3> HIDE DEF room
    <3>3. room \in Nat /\ (k # 0 => room >= 1) /\ u.left.size = h.left.size - room
      BY <2>4, <3>1, <3>2 DEF room
    <3>4. u.left.size + (k + 1) <= n
      BY <1>1, <2>1, <2>4, <3>1, <3>3, SMTT(60)
    <3>5. QED
      BY <2>1, <2>3, <3>2, <3>4 DEF u
  <2>7. QED
    BY <2>4, <2>5, <2>6
<1>9. 0 .. n \subseteq T
  <2> HIDE DEF T
  <2>1. 0 \in Int /\ n \in Int
    BY <1>1
  <2>2. QED
    BY <1>6, <1>8, <2>1, RangeInduction
<1>10. last \in V /\ last.left \in Origins(o) /\ Total(last.comp) + last.left.size <= big
  <2>1. n \in T
    BY <1>1, <1>9
  <2>2. last \in V /\ (last.left.size <= Room(last) \/ last.left.size + n <= n)
    BY <2>1
  <2> HIDE DEF last, T
  <2>3. last.left \in Origins(o) /\ last.left.size \in Nat /\ Room(last) \in Nat
    BY <1>7, <2>2
  <2>4. Total(last.comp) \in 0 .. big
    BY <2>2, TellingIs
  <2>5. last.left.size <= Room(last)
    BY <1>1, <2>2, <2>3
  <2>6. QED
    BY <2>2, <2>3, <2>4, <2>5
<1>11. ASSUME NEW d, NEW p \in Nat, Tells(o, g, big, d, p), Fits(o, x, d, p)
       PROVE  \E q \in Nat : Tells(o, last, big, d, q) /\ Fits(o, last.left, d, q) /\ q + last.left.size = p + x.size
  <2> DEFINE At(h) == \E q \in Nat : Tells(o, h, big, d, q) /\ Fits(o, h.left, d, q) /\ q + h.left.size = p + x.size
             R == {k \in Int : At(turn[k])}
  <2>1. 0 \in R
    <3>1. v.told = g.told /\ v.comp = g.comp /\ v.left = x
      BY <1>2
    <3>2. Tells(o, v, big, d, p)
      BY <1>11, <3>1 DEF Tells, AllOf
    <3>3. QED
      BY <1>5, <1>11, <3>1, <3>2
  <2>2. ASSUME NEW k \in 0 .. n - 1, k \in R PROVE k + 1 \in R
    <3> DEFINE h == turn[k]
               u == turn[k + 1]
    <3>1. u = Cut(h, big) /\ h \in V /\ k + 1 \in Int
      <4>1. k \in T
        <5>1. k \in 0 .. n
          BY <1>1
        <5> HIDE DEF T
        <5>2. QED
          BY <1>9, <5>1
      <4>2. QED
        BY <1>5, <4>1
    <3>2. At(h)
      BY <2>2
    <3> HIDE DEF h, u, At
    <3>3. PICK q \in Nat : Tells(o, h, big, d, q) /\ Fits(o, h.left, d, q) /\ q + h.left.size = p + x.size
      BY <3>2 DEF At
    <3>4. h.left.size \in Nat /\ Room(h) \in Nat
      BY <1>7, <3>1
    <3>5. CASE h.left.size <= Room(h)
      <4>1. u = h
        BY <3>1, <3>5, CutTells
      <4>2. QED
        BY <3>1, <3>2, <4>1 DEF u
    <3>6. CASE h.left.size > Room(h)
      <4>1. /\ u.left.size = h.left.size - Room(h)
            /\ Tells(o, u, big, d, q + Room(h)) /\ Fits(o, u.left, d, q + Room(h))
        BY <3>1, <3>3, <3>6, CutTells
      <4> DEFINE r == q + Room(h)
                 room == Room(h)
      <4>2. r \in Nat /\ r + u.left.size = p + x.size
        <5>1. room \in Nat /\ r = q + room /\ u.left.size = h.left.size - room
          BY <3>4, <4>1
        <5> HIDE DEF room, r
        <5>2. QED
          BY <1>1, <3>3, <3>4, <5>1
      <4> HIDE DEF room
      <4>3. At(u)
        BY <4>1, <4>2 DEF At
      <4>4. QED
        BY <3>1, <4>3 DEF u
    <3>7. QED
      BY <3>4, <3>5, <3>6
  <2>3. 0 .. n \subseteq R
    <3> HIDE DEF R
    <3>1. 0 \in Int /\ n \in Int
      BY <1>1
    <3>2. QED
      BY <1>1, <2>1, <2>2, <3>1, RangeInduction
  <2>4. n \in R
    BY <1>1, <2>3
  <2>5. QED
    BY <2>4
<1> HIDE DEF last, V
<1>12. /\ AppendOrigin(last, last.left) \in Tellings(o, big)
       /\ \A d : \A q \in Nat : Tells(o, last, big, d, q) /\ Fits(o, last.left, d, q) =>
            Tells(o, AppendOrigin(last, last.left), big, d, q + last.left.size)
  <2>1. last \in Tellings(o, big)
    BY <1>10 DEF V
  <2>2. QED
    BY <1>10, <2>1, AppendOriginTells
<1>13. QED
  BY <1>3, <1>11, <1>12

\* What is told after all operations, when each fits where those before it end.
LEMMA AnalyzedTells ==
  ASSUME NEW o, NEW big \in Nat \ {0}, NEW ops, NEW n \in Nat, Len(ops) = n,
         \A k \in 1 .. n : OriginOf(ops[k]) \in Origins(o),
         NEW d, NEW pos \in [0 .. n -> Nat], pos[0] = 0,
         \A k \in 1 .. n : /\ Fits(o, OriginOf(ops[k]), d, pos[k - 1])
                           /\ pos[k] = pos[k - 1] + OriginOf(ops[k]).size
  PROVE  Analyzed(ops, big) \in Tellings(o, big) /\ Tells(o, Analyzed(ops, big), big, d, pos[n])
<1> DEFINE V == Tellings(o, big)
           v == [told |-> << >>, comp |-> << >>, left |-> Fresh(0)]
           after == CHOOSE f : f = [k \in 0 .. Len(ops) |-> IF k = 0 THEN v ELSE Split(f[k - 1], OriginOf(ops[k]), big)]
<1>1. Analyzed(ops, big) = after[n]
  BY DEF Analyzed
<1>2. v \in V /\ Tells(o, v, big, d, 0)
  <2>1. /\ << >> \in Seq(Origins(o)) /\ << >> \in Seq(Seq(Origins(o))) /\ Fresh(0) \in Origins(o)
    BY DEF Fresh, Origins
  <2>2. v \in V
    BY <2>1, TotalNone DEF Tellings
  <2>3. v.told = << >> /\ v.comp = << >>
    OBVIOUS
  <2> HIDE DEF v
  <2>4. FlattenSeq(<< >>) = << >>
    <3>1. << >> \in [1 .. 0 -> {}]
      OBVIOUS
    <3>2. QED
      BY <3>1, FlattenEmpty
  <2>5. AllOf(v) = << >>
    BY <2>3, <2>4 DEF AllOf
  <2>6. DOMAIN << >> = {}
    OBVIOUS
  <2>7. Tells(o, v, big, d, 0)
    BY <2>3, <2>4, <2>5, <2>6, TotalNone DEF Tells, Explained
  <2>8. QED
    BY <2>2, <2>7
<1> HIDE DEF v
<1>3. after = [k \in 0 .. n |-> IF k = 0 THEN v ELSE Split(after[k - 1], OriginOf(ops[k]), big)]
  <2> DEFINE step == [k \in 1 .. n |-> [h \in V |-> Split(h, OriginOf(ops[k]), big)]]
  <2>1. step \in [1 .. n -> [V -> V]]
    <3>1. \A k \in 1 .. n : \A h \in V : Split(h, OriginOf(ops[k]), big) \in V
      BY SplitTells
    <3> HIDE DEF V
    <3>2. QED
      BY <3>1
  <2>2. \A k \in 1 .. n : \A h \in V : step[k][h] = Split(h, OriginOf(ops[k]), big)
    OBVIOUS
  <2> HIDE DEF step, V
  <2>3. PICK f \in [0 .. n -> V] : \A k \in 0 .. n : f[k] = IF k = 0 THEN v ELSE step[k][f[k - 1]]
    <3>1. \E f : RecursFromZero(f, V, n, v, step)
      BY <1>2, <2>1, RecursionFromZero
    <3>2. QED
      BY <3>1 DEF RecursFromZero
  <2>4. ASSUME NEW k \in 0 .. n PROVE f[k] = IF k = 0 THEN v ELSE Split(f[k - 1], OriginOf(ops[k]), big)
    <3>1. CASE k = 0
      BY <2>3, <3>1
    <3>2. CASE k # 0
      <4>1. k \in 1 .. n /\ k - 1 \in 0 .. n
        BY <3>2
      <4>2. f[k - 1] \in V
        BY <2>3, <4>1
      <4>3. QED
        BY <2>2, <2>3, <3>2, <4>1, <4>2
    <3>3. QED
      BY <3>1, <3>2
  <2>5. f = [k \in 0 .. n |-> f[k]]
    BY <2>3
  <2>6. [k \in 0 .. n |-> f[k]] = [k \in 0 .. n |-> IF k = 0 THEN v ELSE Split(f[k - 1], OriginOf(ops[k]), big)]
    BY <2>4, Zenon
  <2>7. f = [k \in 0 .. Len(ops) |-> IF k = 0 THEN v ELSE Split(f[k - 1], OriginOf(ops[k]), big)]
    BY <2>5, <2>6, Zenon
  <2>8. after = [k \in 0 .. Len(ops) |-> IF k = 0 THEN v ELSE Split(after[k - 1], OriginOf(ops[k]), big)]
    BY <2>7, Zenon
  <2> HIDE DEF after
  <2>9. QED
    BY <2>8, Zenon
<1> HIDE DEF after
<1>4. \A k \in 0 .. n : after[k] = IF k = 0 THEN v ELSE Split(after[k - 1], OriginOf(ops[k]), big)
  BY <1>3, Zenon
<1> DEFINE T == {k \in Int : after[k] \in V /\ Tells(o, after[k], big, d, pos[k])}
<1>5. 0 \in T
  <2>1. 0 \in 0 .. n
    OBVIOUS
  <2>2. after[0] = v
    BY <1>4, <2>1, Zenon
  <2>3. QED
    BY <1>2, <2>2
<1>6. ASSUME NEW k \in 0 .. n - 1, k \in T PROVE k + 1 \in T
  <2>1. k + 1 \in 0 .. n /\ k + 1 \in 1 .. n /\ k + 1 # 0 /\ (k + 1) - 1 = k /\ k \in 0 .. n /\ k + 1 \in Int
    OBVIOUS
  <2>2. after[k + 1] = Split(after[(k + 1) - 1], OriginOf(ops[k + 1]), big)
    BY <1>4, <2>1, Zenon
  <2>3. Fits(o, OriginOf(ops[k + 1]), d, pos[(k + 1) - 1]) /\ pos[k + 1] = pos[(k + 1) - 1] + OriginOf(ops[k + 1]).size
    BY <2>1, Zenon
  <2> DEFINE h == after[k]
             x == OriginOf(ops[k + 1])
             p == pos[k]
  <2>4. /\ after[k + 1] = Split(h, x, big) /\ Fits(o, x, d, p) /\ pos[k + 1] = p + x.size /\ p \in Nat
        /\ h \in V /\ Tells(o, h, big, d, p) /\ x \in Origins(o)
    BY <1>6, <2>1, <2>2, <2>3
  <2> HIDE DEF h, x, p
  <2>5. Split(h, x, big) \in V /\ Tells(o, Split(h, x, big), big, d, p + x.size)
    BY <2>4, SplitTells
  <2>6. QED
    BY <2>1, <2>4, <2>5, SMTT(60)
<1>7. 0 .. n \subseteq T
  <2> HIDE DEF T
  <2>1. 0 \in Int /\ n \in Int
    OBVIOUS
  <2>2. QED
    BY <1>5, <1>6, <2>1, RangeInduction
<1>8. n \in T
  BY <1>7
<1>9. QED
  BY <1>1, <1>8

\* An operation at p of d, where its content is found.  A range that counts a short
\* block in full ends where the new file does.
LEMMA OpFits ==
  ASSUME NEW o \in Seq(Seq(Nat)), NEW op \in Ops(o), NEW d \in Seq(Nat), NEW p \in Nat,
         p + Len(Content(o, op)) <= Len(d),
         \A i \in 1 .. Len(Content(o, op)) : d[p + i] = Content(o, op)[i],
         WholeRange(o, op) \/ p + Len(Content(o, op)) = Len(d)
  PROVE  /\ OriginOf(op) \in Origins(o) /\ Fits(o, OriginOf(op), d, p)
         /\ WholeRange(o, op) => OriginOf(op).size = Len(Content(o, op))
         /\ OriginOf(op).size \in Len(Content(o, op)) .. Len(Content(o, op)) + BlockSize - 1
         /\ d = << >> => OriginOf(op).size = 0
<1> DEFINE x == OriginOf(op)
           c == Content(o, op)
<1>0. BlockSize \in Nat \ {0} /\ c \in Seq(Nat) /\ Len(c) \in Nat /\ Len(d) \in Nat
  BY BlockSizeIs, ContentType
<1>1. CASE op \in DataOps
  <2>1. c = op.data /\ x = [file |-> 0, offset |-> 0, size |-> Len(op.data)] /\ op.data \in Seq(Nat)
    BY <1>1 DEF DataOps, Content, OriginOf, Fresh
  <2>2. x \in Origins(o) /\ x.size = Len(c) /\ x.file = 0
    <3>1. Len(op.data) \in Nat
      BY <2>1
    <3>2. QED
      BY <2>1, <3>1 DEF Origins
  <2>3. Fits(o, x, d, p)
    BY <2>2 DEF Fits, FromOf, OffsetOf
  <2>4. d = << >> => Len(c) = 0
    <3>1. d = << >> => Len(d) = 0
      OBVIOUS
    <3> HIDE DEF c
    <3>2. QED
      BY <1>0, <3>1 DEF c
  <2>5. QED
    BY <1>0, <2>2, <2>3, <2>4
<1>2. CASE op \in BlockRanges(o)
  <2> DEFINE from == o[op.file]
             a == op.block * BlockSize
             n == op.span * BlockSize
             e == EndOf(o, op)
             l == Len(from)
  <2>1. /\ from \in Seq(Nat) /\ op.block \in Nat /\ op.span \in Nat \ {0} /\ op.type = "range"
        /\ a \in Nat /\ e \in a .. l
        /\ (op.block + op.span - 1) * BlockSize < l
        /\ c = SubSeq(from, a + 1, e)
    BY <1>2, RangeIs
  <2>2. op.file \in DOMAIN o /\ op.file # 0
    BY <1>2 DEF BlockRanges
  <2>3. n \in Nat /\ l \in Nat /\ (op.block + op.span) * BlockSize = a + n /\ (op.block + op.span - 1) * BlockSize = a + n - BlockSize
        /\ n >= BlockSize
    <3> DEFINE b == op.block
               k == op.span
               z == BlockSize
    <3>1. b \in Nat /\ k \in Nat \ {0} /\ z \in Nat \ {0} /\ from \in Seq(Nat)
      BY <1>0, <2>1
    <3>2. l \in Nat
      BY <3>1
    <3> HIDE DEF b, k, z
    <3>3. \A u, v, w \in Int : (u + v) * w = u * w + v * w /\ 1 * w = w /\ (-1) * w = -w
      OBVIOUS
    <3>4. k - 1 \in Nat /\ k = (k - 1) + 1 /\ b + k - 1 = (b + k) + (-1) /\ k \in Int /\ b \in Int /\ z \in Int /\ k - 1 \in Int /\ b + k \in Int
      BY <3>1
    <3>5. (b + k) * z = b * z + k * z
      BY <3>3, <3>4
    <3>6. (b + k - 1) * z = (b + k) * z - z
      <4> DEFINE u == b + k
      <4>1. u \in Int /\ b + k - 1 = u + (-1)
        BY <3>4
      <4> HIDE DEF u
      <4>2. (u + (-1)) * z = u * z + (-z)
        BY <3>3, <3>4, <4>1
      <4>3. QED
        BY <3>4, <4>1, <4>2 DEF u
    <3>7. k * z = (k - 1) * z + z
      <4> DEFINE u == k - 1
      <4>1. u \in Int /\ k = u + 1
        BY <3>4
      <4> HIDE DEF u
      <4>2. (u + 1) * z = u * z + z
        BY <3>3, <3>4, <4>1
      <4>3. QED
        BY <4>1, <4>2 DEF u
    <3>8. (k - 1) * z \in Nat /\ k * z \in Nat /\ b * z \in Nat
      BY <3>1, <3>4
    <3>9. k * z >= z
      BY <3>1, <3>7, <3>8
    <3>10. a = b * z /\ n = k * z
      BY DEF b, k, z
    <3>11. (b + k) * z = a + n
      BY <3>5, <3>10
    <3>12. (b + k - 1) * z = a + n - z
      <4>1. a \in Nat /\ n \in Nat /\ z \in Nat
        BY <3>1, <3>8, <3>10
      <4>2. (b + k - 1) * z = (a + n) - z
        BY <3>6, <3>11, Zenon
      <4> DEFINE w == (b + k - 1) * z
      <4> HIDE DEF a, n, w
      <4>3. w = a + n - z
        BY <4>1, <4>2 DEF w
      <4>4. QED
        BY <4>3 DEF w
    <3>13. QED
      BY <3>2, <3>8, <3>9, <3>10, <3>11, <3>12 DEF b, k, z
  <2>4. x = [file |-> op.file, offset |-> a, size |-> n]
    BY <2>1 DEF OriginOf
  <2>5. e = Least(a + n, l)
    BY <2>3 DEF EndOf
  <2>6. WholeRange(o, op) <=> a + n <= l
    BY <2>1, <2>3 DEF WholeRange
  <2> HIDE DEF from, a, n, e, l
  <2>7. x \in Origins(o) /\ x.size = n /\ FromOf(o, x, d) = from /\ OffsetOf(x, p) = a
    BY <2>1, <2>2, <2>3, <2>4, SMTT(60) DEF Origins, FromOf, OffsetOf, from
  <2>8. Len(c) = e - a /\ \A i \in 1 .. e - a : c[i] = from[a + i]
    <3>1. e \in a .. Len(from) /\ a \in Nat /\ from \in Seq(Nat)
      BY <2>1 DEF l
    <3>2. Len(SubSeq(from, a + 1, e)) = e - a /\ \A i \in 1 .. e - a : SubSeq(from, a + 1, e)[i] = from[a + i]
      BY <3>1, PartIs
    <3>3. c = SubSeq(from, a + 1, e)
      BY <2>1
    <3> HIDE DEF c
    <3>4. QED
      BY <3>2, <3>3, Zenon
  <2> HIDE DEF x, c
  <2>9. CASE a + n <= l
    <3>1. e = a + n /\ Len(c) = n
      BY <2>1, <2>3, <2>5, <2>8, <2>9 DEF Least
    <3>2. ASSUME NEW i \in 1 .. n
          PROVE  (a + i <= Len(from) <=> p + i <= Len(d)) /\ (p + i <= Len(d) => from[a + i] = d[p + i])
      <4>1. a + i <= Len(from) /\ p + i <= Len(d) /\ i \in 1 .. Len(c) /\ i \in 1 .. e - a
        <5>1. p + Len(c) <= Len(d) /\ Len(d) \in Nat
          BY <1>0 DEF c
        <5>2. a \in Nat /\ n \in Nat /\ l \in Nat /\ a + n <= l /\ e = a + n /\ Len(c) = n
          BY <2>1, <2>3, <2>9, <3>1
        <5>3. a + i <= l /\ p + i <= Len(d) /\ i \in 1 .. Len(c) /\ i \in 1 .. e - a
          BY <5>1, <5>2
        <5>4. QED
          BY <5>3 DEF l
      <4>2. d[p + i] = c[i] /\ c[i] = from[a + i]
        BY <2>8, <4>1 DEF c
      <4>3. QED
        BY <4>1, <4>2
    <3>3. Fits(o, x, d, p)
      BY <2>7, <3>2 DEF Fits
    <3>4. d = << >> => FALSE
      <4>1. d = << >> => Len(d) = 0
        OBVIOUS
      <4>2. p + Len(c) <= Len(d) /\ Len(c) >= 1
        BY <1>0, <2>3, <3>1 DEF c
      <4>3. QED
        BY <1>0, <4>1, <4>2
    <3>5. n \in Len(c) .. Len(c) + BlockSize - 1
      BY <1>0, <2>3, <3>1
    <3>6. QED
      BY <2>7, <3>1, <3>3, <3>4, <3>5 DEF x, c
  <2>10. CASE ~(a + n <= l)
    <3>1. e = l /\ Len(c) = l - a
      BY <2>1, <2>3, <2>5, <2>8, <2>10 DEF Least
    <3>2. p + Len(c) = Len(d)
      BY <2>6, <2>10 DEF c
    <3>3. ASSUME NEW i \in 1 .. n
          PROVE  (a + i <= Len(from) <=> p + i <= Len(d)) /\ (p + i <= Len(d) => from[a + i] = d[p + i])
      <4>1. a + i <= Len(from) <=> p + i <= Len(d)
        <5>1. a \in Nat /\ l \in Nat /\ Len(c) = l - a /\ p + Len(c) = Len(d)
          BY <2>1, <2>3, <3>1, <3>2
        <5>2. a + i <= l <=> p + i <= Len(d)
          BY <5>1
        <5>3. QED
          BY <5>2 DEF l
      <4>2. ASSUME p + i <= Len(d) PROVE from[a + i] = d[p + i]
        <5>1. i \in 1 .. Len(c) /\ i \in 1 .. e - a
          BY <1>0, <2>1, <2>3, <3>1, <3>2, <4>2, SMTT(60)
        <5>2. d[p + i] = c[i] /\ c[i] = from[a + i]
          BY <2>8, <5>1 DEF c
        <5>3. QED
          BY <5>2
      <4>3. QED
        BY <4>1, <4>2
    <3>4. Fits(o, x, d, p)
      BY <2>7, <3>3 DEF Fits
    <3>5. Len(c) >= 1 /\ n \in Len(c) .. Len(c) + BlockSize - 1
      BY <1>0, <2>1, <2>3, <2>10, <3>1
    <3>6. d = << >> => FALSE
      <4>1. d = << >> => Len(d) = 0
        OBVIOUS
      <4>2. QED
        BY <1>0, <3>2, <3>5, <4>1
    <3>7. QED
      BY <2>6, <2>7, <2>10, <3>4, <3>5, <3>6 DEF x, c
  <2>11. QED
    BY <2>9, <2>10
<1>3. QED
  BY <1>1, <1>2 DEF Ops

\* The operations of a file tell of all of it, and at most of its last block too much.
LEMMA OpsTell ==
  ASSUME NEW o \in Seq(Seq(Nat)), NEW ops \in Seq(Ops(o)), AllButLast(o, ops),
         NEW d, d = Contents(o, ops), NEW big \in Nat \ {0}
  PROVE  /\ Analyzed(ops, big) \in Tellings(o, big)
         /\ \E p \in Len(d) .. Len(d) + BlockSize - 1 :
              Tells(o, Analyzed(ops, big), big, d, p) /\ (d = << >> => p = 0)
<1> DEFINE n == Len(ops)
           s == [i \in DOMAIN ops |-> Content(o, ops[i])]
           from == [k \in 0 .. n |-> Len(Upto(s, k))]
           size(k) == OriginOf(ops[k]).size
           pos == [k \in 0 .. n |-> IF k = n /\ n # 0 THEN from[n - 1] + size(n) ELSE from[k]]
<1>1. n \in Nat /\ DOMAIN ops = 1 .. n /\ BlockSize \in Nat \ {0}
  BY BlockSizeIs
<1>2. s \in Seq(Seq(Nat)) /\ Len(s) = n /\ d \in Seq(Nat) /\ d = FlattenSeq(s) /\ \A i \in 1 .. n : s[i] = Content(o, ops[i])
  <2>1. s \in Seq(Seq(Nat)) /\ d \in Seq(Nat) /\ d = FlattenSeq(s)
    BY ContentsType DEF Contents
  <2>2. DOMAIN s = 1 .. n /\ \A i \in 1 .. n : s[i] = Content(o, ops[i])
    BY <1>1
  <2> HIDE DEF s
  <2>3. QED
    BY <1>1, <2>1, <2>2
<1> HIDE DEF s, n
<1>3. \A k \in 0 .. n : from[k] = Len(Upto(s, k)) /\ from[k] \in Nat
  <2>1. ASSUME NEW k \in 0 .. n PROVE Len(Upto(s, k)) \in Nat
    <3>1. k \in 0 .. Len(s)
      BY <1>2
    <3>2. Upto(s, k) \in Seq(Nat)
      BY <1>2, <3>1, UptoType
    <3>3. QED
      BY <3>2
  <2>2. QED
    BY <2>1
<1>4. from[0] = 0 /\ from[n] = Len(d)
  <2>1. 0 \in 0 .. n /\ n \in 0 .. n
    BY <1>1
  <2>2. Upto(s, 0) = << >> /\ Upto(s, n) = d
    BY <1>2, UptoNone, UptoAll
  <2>3. Len(<< >>) = 0
    OBVIOUS
  <2>4. QED
    BY <1>3, <2>1, <2>2, <2>3
<1> HIDE DEF from
<1>5. ASSUME NEW k \in 1 .. n
      PROVE  /\ from[k - 1] \in Nat /\ from[k] = from[k - 1] + Len(s[k]) /\ s[k] \in Seq(Nat)
             /\ from[k - 1] + Len(s[k]) <= Len(d)
             /\ \A i \in 1 .. Len(s[k]) : d[from[k - 1] + i] = s[k][i]
  <2>1. k - 1 \in 0 .. n /\ k \in 0 .. n /\ k - 1 \in 0 .. Len(s) - 1 /\ (k - 1) + 1 = k /\ k \in 0 .. Len(s) /\ Len(s) \in k .. Len(s)
    BY <1>1, <1>2
  <2>2. s[k] \in Seq(Nat)
    BY <1>2
  <2>3. from[k] = from[k - 1] + Len(s[k])
    <3>1. Len(Upto(s, (k - 1) + 1)) = Len(Upto(s, k - 1)) + Len(s[(k - 1) + 1])
      BY <1>2, <2>1, UptoStep, Zenon
    <3>2. QED
      BY <1>3, <2>1, <3>1
  <2>4. from[k] <= Len(d)
    <3>1. Continues(Upto(s, Len(s)), Upto(s, k))
      BY <1>2, <2>1, UptoContinues
    <3>2. Upto(s, Len(s)) = d
      BY <1>2, UptoAll
    <3>3. QED
      BY <1>3, <2>1, <3>1, <3>2, SMTT(60) DEF Continues
  <2>5. ASSUME NEW i \in 1 .. Len(s[k]) PROVE d[from[k - 1] + i] = s[k][i]
    <3>1. i \in 1 .. Len(s[(k - 1) + 1])
      BY <2>1
    <3>2. FlattenSeq(s)[Len(Upto(s, k - 1)) + i] = s[(k - 1) + 1][i]
      BY <1>2, <2>1, <3>1, FlattenAt, ZenonT(60)
    <3>3. QED
      BY <1>2, <1>3, <2>1, <3>2
  <2>6. QED
    BY <1>3, <2>1, <2>2, <2>3, <2>4, <2>5, SMTT(60)
<1>6. ASSUME NEW k \in 1 .. n
      PROVE  /\ OriginOf(ops[k]) \in Origins(o) /\ Fits(o, OriginOf(ops[k]), d, from[k - 1])
             /\ k # n => size(k) = Len(s[k])
             /\ size(k) \in Len(s[k]) .. Len(s[k]) + BlockSize - 1
             /\ d = << >> => size(k) = 0
  <2> DEFINE op == ops[k]
             p == from[k - 1]
  <2>1. op \in Ops(o) /\ Content(o, op) = s[k]
    BY <1>1, <1>2
  <2>2. k # n => WholeRange(o, op)
    <3>1. \A i \in DOMAIN ops : i < n => WholeRange(o, ops[i])
      BY DEF AllButLast, n
    <3>2. k \in DOMAIN ops /\ (k # n => k < n)
      BY <1>1
    <3>3. QED
      BY <3>1, <3>2
  <2>3. k = n => p + Len(s[k]) = Len(d)
    BY <1>4, <1>5
  <2>4. p \in Nat /\ p + Len(s[k]) <= Len(d) /\ \A i \in 1 .. Len(s[k]) : d[p + i] = s[k][i]
    BY <1>5
  <2> HIDE DEF op, p
  <2>5. /\ OriginOf(op) \in Origins(o) /\ Fits(o, OriginOf(op), d, p)
        /\ WholeRange(o, op) => OriginOf(op).size = Len(s[k])
        /\ OriginOf(op).size \in Len(s[k]) .. Len(s[k]) + BlockSize - 1
        /\ d = << >> => OriginOf(op).size = 0
    BY <1>2, <2>1, <2>2, <2>3, <2>4, OpFits, ZenonT(60)
  <2>6. QED
    BY <2>2, <2>5 DEF op, p
<1>7. \A k \in 1 .. n : size(k) \in Nat
  <2>1. TAKE k \in 1 .. n
  <2>2. OriginOf(ops[k]) \in Origins(o)
    BY <1>6
  <2>3. QED
    BY <2>2 DEF Origins
<1> HIDE DEF size
<1>8. /\ \A k \in 1 .. n : pos[k - 1] = from[k - 1] /\ pos[k] = pos[k - 1] + size(k)
      /\ pos \in [0 .. n -> Nat] /\ pos[0] = 0
      /\ pos[n] \in Len(d) .. Len(d) + BlockSize - 1
      /\ d = << >> => pos[n] = 0
  <2>1. n # 0 => n \in 1 .. n /\ n - 1 \in 0 .. n
    BY <1>1
  <2>2. \A k \in 0 .. n : pos[k] \in Nat
    BY <1>3, <1>7, <2>1, SMTT(60)
  <2>3. pos \in [0 .. n -> Nat]
    <3> DEFINE e(k) == IF k = n /\ n # 0 THEN from[n - 1] + size(n) ELSE from[k]
    <3>1. \A k \in 0 .. n : e(k) \in Nat
      BY <2>2
    <3>2. pos = [k \in 0 .. n |-> e(k)]
      OBVIOUS
    <3> HIDE DEF pos, e
    <3>3. QED
      BY <3>1, <3>2
  <2>4. pos[0] = 0
    BY <1>1, <1>4
  <2>5. ASSUME NEW k \in 1 .. n PROVE pos[k - 1] = from[k - 1] /\ pos[k] = pos[k - 1] + size(k)
    <3>1. k - 1 \in 0 .. n /\ k \in 0 .. n /\ k - 1 # n /\ n # 0
      BY <1>1
    <3>2. pos[k - 1] = from[k - 1]
      BY <3>1
    <3>3. CASE k = n
      BY <3>1, <3>2, <3>3
    <3>4. CASE k # n
      <4>1. pos[k] = from[k]
        BY <3>1, <3>4
      <4>2. size(k) = Len(s[k])
        BY <1>6, <3>4 DEF size
      <4>3. QED
        BY <1>5, <3>2, <4>1, <4>2
    <3>5. QED
      BY <3>2, <3>3, <3>4
  <2> HIDE DEF pos
  <2>6. CASE n = 0
    <3>1. pos[n] = 0 /\ Len(d) = 0
      BY <1>4, <2>4, <2>6
    <3>2. QED
      BY <1>1, <2>3, <2>4, <2>5, <3>1
  <2>7. CASE n # 0
    <3>1. n \in 1 .. n
      BY <1>1, <2>7
    <3>2. /\ pos[n] = from[n - 1] + size(n) /\ from[n] = from[n - 1] + Len(s[n]) /\ from[n - 1] \in Nat /\ Len(s[n]) \in Nat
          /\ size(n) \in Len(s[n]) .. Len(s[n]) + BlockSize - 1
          /\ d = << >> => size(n) = 0
      <4>1. pos[n] = from[n - 1] + size(n)
        BY <2>5, <3>1
      <4>2. from[n] = from[n - 1] + Len(s[n]) /\ from[n - 1] \in Nat /\ s[n] \in Seq(Nat)
        BY <1>5, <3>1
      <4>3. size(n) \in Len(s[n]) .. Len(s[n]) + BlockSize - 1 /\ (d = << >> => size(n) = 0)
        BY <1>6, <3>1, SMTT(60) DEF size
      <4>4. QED
        BY <4>1, <4>2, <4>3
    <3>3. d = << >> => Len(d) = 0
      OBVIOUS
    <3> DEFINE a == from[n - 1]
               b == Len(s[n])
               c == size(n)
               l == Len(d)
    <3>4. pos[n] = a + c /\ l = a + b /\ a \in Nat /\ b \in Nat /\ c \in b .. b + BlockSize - 1 /\ (d = << >> => c = 0 /\ l = 0)
      BY <1>4, <3>2, <3>3
    <3> HIDE DEF a, b, c, l
    <3>5. pos[n] \in l .. l + BlockSize - 1 /\ (d = << >> => pos[n] = 0)
      BY <1>1, <3>4
    <3>6. QED
      BY <2>3, <2>4, <2>5, <3>5 DEF l
  <2>8. QED
    BY <2>6, <2>7
<1> HIDE DEF pos
<1>9. \A k \in 1 .. n : /\ OriginOf(ops[k]) \in Origins(o)
                        /\ Fits(o, OriginOf(ops[k]), d, pos[k - 1]) /\ pos[k] = pos[k - 1] + OriginOf(ops[k]).size
  BY <1>6, <1>8 DEF size
<1>10. Analyzed(ops, big) \in Tellings(o, big) /\ Tells(o, Analyzed(ops, big), big, d, pos[n])
  <2>1. Len(ops) = n
    BY DEF n
  <2>2. QED
    BY <1>1, <1>8, <1>9, <2>1, AnalyzedTells, ZenonT(60)
<1>11. QED
  BY <1>8, <1>10

\* The compositions of a file whose operations are told of.
LEMMA ComposedIs ==
  ASSUME TypeInv, NEW n \in DOMAIN patch, NEW big \in Nat \ {0}, NEW d, d = case.new[n], d \in Seq(Nat),
         NEW g, g = Analyzed(patch[n], big), g \in Tellings(old, big),
         NEW p \in Len(d) .. Len(d) + BlockSize - 1, Tells(old, g, big, d, p), d = << >> => p = 0
  PROVE  LET comps == Compositions(n, big)
             all   == FlattenSeq(comps)
         IN /\ \A k \in 1 .. Len(comps) - 1 : Total(comps[k]) = big
            /\ Explained(old, all, d) /\ all \in Seq(Origins(old))
            /\ Total(all) \in Len(d) .. Len(d) + BlockSize - 1
<1> DEFINE comps == Compositions(n, big)
           all == FlattenSeq(comps)
           m == Len(g.told)
<1>1. /\ g.told \in Seq(Seq(Origins(old))) /\ g.comp \in Seq(Origins(old))
      /\ FlattenSeq(g.told) \in Seq(Origins(old)) /\ AllOf(g) \in Seq(Origins(old))
      /\ Total(FlattenSeq(g.told)) \in Nat /\ m \in Nat /\ DOMAIN g.told = 1 .. m
  BY TellingIs, SMTT(60)
<1>2. /\ \A k \in DOMAIN g.told : Total(g.told[k]) = big
      /\ Explained(old, FlattenSeq(g.told), d) /\ Total(FlattenSeq(g.told)) <= p
      /\ Explained(old, AllOf(g), d) /\ Total(AllOf(g)) = p
  BY DEF Tells
<1>3. comps = IF g.comp # << >> /\ d # << >> THEN OnComp(g).told ELSE g.told
  BY DEF Compositions
<1> HIDE DEF comps
<1>4. CASE g.comp # << >> /\ d # << >>
  <2>1. comps = Append(g.told, g.comp) /\ all = AllOf(g)
    BY <1>3, <1>4, OnCompTells
  <2>2. \A k \in 1 .. Len(comps) - 1 : Total(comps[k]) = big
    <3>1. Len(comps) - 1 = m /\ \A k \in 1 .. m : comps[k] = g.told[k]
      <4> DEFINE t == g.told
      <4>1. t \in Seq(Seq(Origins(old)))
        BY <1>1
      <4> HIDE DEF t
      <4>2. Len(Append(t, g.comp)) = Len(t) + 1 /\ Len(t) \in Nat /\ \A k \in 1 .. Len(t) : Append(t, g.comp)[k] = t[k]
        BY <1>1, <4>1
      <4>3. QED
        BY <2>1, <4>2 DEF t
    <3>2. \A k \in 1 .. m : Total(g.told[k]) = big
      BY <1>1, <1>2
    <3> HIDE DEF m
    <3>3. \A k \in 1 .. m : Total(comps[k]) = big
      BY <3>1, <3>2
    <3>4. QED
      BY <3>1, <3>3, SMTT(60)
  <2>3. QED
    BY <1>1, <1>2, <2>1, <2>2 DEF comps
<1>5. CASE g.comp = << >> \/ d = << >>
  <2>1. comps = g.told /\ all = FlattenSeq(g.told)
    BY <1>3, <1>5
  <2>2. \A k \in 1 .. Len(comps) - 1 : Total(comps[k]) = big
    <3>1. (\A k \in 1 .. m : Total(g.told[k]) = big) /\ Len(comps) = m
      BY <1>1, <1>2, <2>1
    <3> HIDE DEF m
    <3>2. QED
      BY <1>1, <2>1, <3>1, SMTT(60)
  <2>3. Total(all) \in Len(d) .. Len(d) + BlockSize - 1
    <3>1. CASE d = << >>
      <4>1. Len(d) = 0 /\ p = 0 /\ BlockSize \in Nat \ {0}
        BY <3>1, BlockSizeIs
      <4>2. Total(all) = 0
        BY <1>1, <1>2, <2>1, <4>1
      <4>3. QED
        BY <4>1, <4>2
    <3>2. CASE g.comp = << >>
      <4>1. AllOf(g) = FlattenSeq(g.told)
        <5>1. \A s \in Seq(Origins(old)) : s \o << >> = s
          OBVIOUS
        <5>2. QED
          BY <1>1, <3>2, <5>1 DEF AllOf
      <4>2. QED
        BY <1>2, <2>1, <4>1
    <3>3. QED
      BY <1>5, <3>1, <3>2
  <2>4. QED
    BY <1>1, <1>2, <2>1, <2>2, <2>3 DEF comps
<1>6. QED
  BY <1>4, <1>5

LEMMA BlocksExplained ==
  ASSUME IInv, WholeInv
  PROVE  ExplainsBlocks
<1>1. TypeInv /\ FilesInv
  BY DEF IInv
<1>2. old \in Seq(Seq(Nat)) /\ case.new \in Seq(Seq(Nat)) /\ patch \in Seq(Seq(Ops(old)))
  BY <1>1, OldIs DEF TypeInv
<1>3. SUFFICES ASSUME NEW n \in DOMAIN patch, NEW big \in BigBlockSizes
               PROVE  LET comps == Compositions(n, big)
                          d     == case.new[n]
                          all   == FlattenSeq(comps)
                          start == [i \in DOMAIN all |-> Total(SubSeq(all, 1, i - 1))]
                      IN /\ \A k \in 1 .. Len(comps) - 1 : Total(comps[k]) = big
                         /\ \A i \in DOMAIN all :
                              OriginBytes(all[i], d, start[i]) = SubSeq(d, start[i] + 1, Least(start[i] + all[i].size, Len(d)))
                         /\ Total(all) \in Len(d) .. Len(d) + BlockSize - 1
  BY DEF ExplainsBlocks
<1> DEFINE d == case.new[n]
           ops == patch[n]
           g == Analyzed(ops, big)
           comps == Compositions(n, big)
           all == FlattenSeq(comps)
           start == [i \in DOMAIN all |-> Total(SubSeq(all, 1, i - 1))]
<1>4. big \in Nat \ {0}
  BY BigBlocksAssumption
<1>5. ops \in Seq(Ops(old)) /\ AllButLast(old, ops) /\ Contents(old, ops) = d
  BY <1>1, <1>2 DEF FilesInv, WholeInv
<1>6. d \in Seq(Nat)
  BY <1>2, <1>5, ContentsType
<1>7. g \in Tellings(old, big) /\ \E p \in Len(d) .. Len(d) + BlockSize - 1 : Tells(old, g, big, d, p) /\ (d = << >> => p = 0)
  <2> HIDE DEF d, ops
  <2>1. QED
    BY <1>2, <1>4, <1>5, OpsTell
<1>8. PICK p \in Len(d) .. Len(d) + BlockSize - 1 : Tells(old, g, big, d, p) /\ (d = << >> => p = 0)
  BY <1>7
<1>9. /\ \A k \in 1 .. Len(comps) - 1 : Total(comps[k]) = big
      /\ Explained(old, all, d) /\ all \in Seq(Origins(old))
      /\ Total(all) \in Len(d) .. Len(d) + BlockSize - 1
  BY <1>1, <1>4, <1>6, <1>7, <1>8, ComposedIs
<1>10. ASSUME NEW i \in DOMAIN all
       PROVE  OriginBytes(all[i], d, start[i]) = SubSeq(d, start[i] + 1, Least(start[i] + all[i].size, Len(d)))
  <2> DEFINE x == all[i]
             q == Total(SubSeq(all, 1, i - 1))
  <2>1. start[i] = q
    OBVIOUS
  <2> HIDE DEF all, d
  <2>2. x \in Origins(old) /\ SubSeq(all, 1, i - 1) \in Seq(Origins(old))
    <3>1. i \in 1 .. Len(all) /\ i - 1 \in 0 .. Len(all) /\ 0 + 1 = 1
      BY <1>9, <1>10
    <3>2. SubSeq(all, 0 + 1, i - 1) \in Seq(Origins(old))
      BY <1>9, <3>1, PartIs
    <3>3. QED
      BY <1>9, <1>10, <3>1, <3>2
  <2>3. q \in Nat
    BY <2>2, TotalIs
  <2>4. Fits(old, x, d, q)
    BY <1>9, <1>10 DEF Explained
  <2> HIDE DEF x, q, start
  <2>5. OriginBytes(x, d, q) = SubSeq(d, q + 1, Least(q + x.size, Len(d)))
    BY <1>1, <1>6, <2>2, <2>3, <2>4, FitsBytes
  <2>6. QED
    BY <2>1, <2>5 DEF x
<1>11. QED
  BY <1>9, <1>10

\* genie.go:13: the compositions that are told of a patch are of the bytes that the
\* blocks of each file have.
THEOREM ExplainsBlocksHolds == Spec => []ExplainsBlocks
BY WholeHolds, BlocksExplained, PTL
=============================================================================
