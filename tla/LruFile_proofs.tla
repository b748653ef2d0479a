---------------------------- MODULE LruFile_proofs ----------------------------
(***************************************************************************)
(* Proofs about LruFile, for files, chunks, blocks and caches of any size. *)
(***************************************************************************)
EXTENDS LruFile, SequenceFacts, SequenceTheorems, FiniteSetTheorems

Bytes == [1..ChunkSize -> Nat]

\* The types of what TypeOK leaves out.
CacheTypes ==
  /\ recent \in Seq(Nat)
  /\ DOMAIN slot \subseteq Nat
  /\ allocations \in [Slots -> Nat \cup {Free}]
  /\ storage \in [Slots -> Bytes]
  /\ call \in [at : Nat, want : Nat, got : Seq(Nat)]

\* Where a call of Read is: what it got starts at the offset it began at.
Progress ==
  result \in {"reading", "done", "eof"} =>
    /\ file # 0
    /\ offset = call.at + Len(call.got)
    /\ Len(call.got) <= call.want
    /\ result = "done" => Len(call.got) = call.want
    /\ result = "eof" => offset = size /\ Len(call.got) < call.want

\* Unless a read has failed since Reset, it is what the file has there.
GotRight ==
  ~failed /\ result \in {"reading", "done", "eof"} =>
    \A i \in 1..Len(call.got) : call.got[i] = Disk[file][call.at + i]

IInv == TypeOK /\ CacheTypes /\ CacheCoherent /\ StoredRight /\ Progress /\ GotRight
-----------------------------------------------------------------------------
LEMMA DiskFacts ==
  ASSUME NEW f \in Files
  PROVE  f # 0 /\ Disk[f] \in Seq(Nat) /\ Len(Disk[f]) \in Nat
BY FilesAssumption DEF Files

LEMMA OffsetInFile ==
  ASSUME TypeOK
  PROVE  /\ size \in Nat /\ offset \in Nat /\ offset <= size
         /\ file # 0 => file \in Files /\ size = Len(Disk[file])
<1>1. CASE file = 0
  <2>1. size = 0 /\ offset \in 0..size
    BY <1>1 DEF TypeOK
  <2>2. QED
    BY <1>1, <2>1
<1>2. CASE file # 0
  <2>1. file \in Files /\ size = Len(Disk[file]) /\ offset \in 0..size
    BY <1>2 DEF TypeOK
  <2>2. size \in Nat
    BY <2>1, DiskFacts
  <2>3. QED
    BY <2>1, <2>2
<1>3. QED
  BY <1>1, <1>2

-----------------------------------------------------------------------------
(* The cache *)

\* An eviction leaves a slot free, and so does a list that is not full: else as many
\* chunks as there are slots would have slots of their own.
LEMMA RoomForOne == ASSUME CacheTypes, CacheCoherent PROVE HasRoom
<1> USE CacheAssumption
<1>1. CASE Len(recent) = NumEntries
  <2>1. slot[recent[Len(recent)]] \in Slots
    BY <1>1, LenProperties, SMTT(60) DEF CacheTypes, CacheCoherent
  <2>2. Freed[slot[recent[Len(recent)]]] = Free
    BY <1>1, <2>1 DEF Freed, CacheTypes
  <2>3. QED
    BY <2>1, <2>2 DEF HasRoom
<1>2. CASE Len(recent) # NumEntries
  <2>1. Len(recent) \in Nat /\ Len(recent) < NumEntries /\ DOMAIN recent = 1..Len(recent)
    BY <1>2, LenProperties DEF CacheTypes, CacheCoherent
  <2>2. SUFFICES ASSUME \A s \in Slots : allocations[s] # Free PROVE FALSE
    BY <1>2 DEF HasRoom, Freed
  <2> DEFINE place == [s \in Slots |-> CHOOSE i \in 1..Len(recent) : recent[i] = allocations[s]]
  <2>3. ASSUME NEW s \in Slots
        PROVE  place[s] \in 1..Len(recent) /\ recent[place[s]] = allocations[s]
    <3>1. \E i \in 1..Len(recent) : recent[i] = allocations[s]
      BY <2>1, <2>2 DEF CacheCoherent
    <3>2. QED
      BY <3>1
  <2>4. place \in [Slots -> 1..Len(recent)]
    BY <2>3
  <2>5. IsFiniteSet(Slots) /\ Cardinality(Slots) = NumEntries
    BY FS_Interval DEF Slots
  <2>6. /\ IsFiniteSet(1..Len(recent)) /\ Cardinality(1..Len(recent)) = Len(recent)
    <3> DEFINE n == Len(recent)
    <3>1. n \in Nat
      BY <2>1
    <3> HIDE DEF n
    <3>2. IsFiniteSet(1..n) /\ Cardinality(1..n) = n
      BY <3>1, FS_Interval
    <3>3. QED
      BY <3>2 DEF n
  <2> HIDE DEF place
  <2>7. PICK x \in Slots, y \in Slots : x # y /\ place[x] = place[y]
    BY <2>1, <2>4, <2>5, <2>6, FS_PigeonHole
  <2>8. slot[allocations[x]] = x /\ slot[allocations[y]] = y
    BY <2>2 DEF CacheCoherent
  <2>9. QED
    BY <2>3, <2>7, <2>8
<1>3. QED
  BY <1>1, <1>2

\* What adding a chunk does: it gets a free slot, the chunks that stay keep theirs.
LEMMA AddedCoherent ==
  ASSUME CacheTypes, CacheCoherent, NEW c \in Nat, c \notin DOMAIN slot, Added(c)
  PROVE  /\ CacheCoherent'
         /\ recent' \in Seq(Nat)
         /\ DOMAIN slot' \subseteq Nat
         /\ allocations' \in [Slots -> Nat \cup {Free}]
         /\ c \in DOMAIN slot'
         /\ \A d \in DOMAIN slot' \ {c} :
              d \in DOMAIN slot /\ slot'[d] = slot[d] /\ slot'[d] # slot'[c]
<1> USE CacheAssumption DEF CacheTypes
<1> DEFINE l == Len(recent)
           full == l = NumEntries
           last == recent[l]
           kept == DOMAIN slot \ (IF full THEN {last} ELSE {})
           n == IF full THEN l ELSE l + 1
<1>1. l \in Nat /\ DOMAIN recent = 1..l /\ l <= NumEntries /\ \A i \in 1..l : recent[i] \in Nat
  BY LenProperties, ElementOfSeq DEF CacheCoherent
<1>2. PICK s \in Slots :
        /\ Freed[s] = Free
        /\ slot' = [d \in kept \cup {c} |-> IF d = c THEN s ELSE slot[d]]
        /\ allocations' = [Freed EXCEPT ![s] = c]
  BY DEF Added
<1>3. recent' = [i \in 1..n |-> IF i = 1 THEN c ELSE recent[i - 1]]
  BY DEF Added
<1>4. Freed = IF full THEN [allocations EXCEPT ![slot[last]] = Free] ELSE allocations
  BY DEF Freed
<1> HIDE DEF l
<1>4a. Freed \in [Slots -> Nat \cup {Free}]
  BY <1>4
<1>5. DOMAIN slot = {recent[i] : i \in 1..l}
  BY <1>1 DEF CacheCoherent
<1>6. n \in Nat /\ n <= NumEntries /\ n >= 1
  BY <1>1
<1>7. recent' \in Seq(Nat) /\ Len(recent') = n /\ DOMAIN recent' = 1..n
  <2>1. recent' \in [1..n -> Nat]
    BY <1>1, <1>3, <1>6
  <2>2. recent' \in Seq(Nat)
    <3> HIDE DEF n
    <3>1. \E m \in Nat : recent' \in [1..m -> Nat]
      BY <2>1, <1>6
    <3>2. Seq(Nat) = UNION {[1..m -> Nat] : m \in Nat}
      BY SeqDef
    <3>3. QED
      BY <3>1, <3>2
  <2>3. QED
    BY <1>6, <2>1, <2>2, LenProperties
<1>8. full => last \in DOMAIN slot /\ slot[last] \in Slots
  BY <1>1, <1>5, SMTT(60) DEF CacheCoherent
<1>9. ASSUME NEW d \in kept
      PROVE  slot[d] \in Slots /\ slot[d] # s /\ Freed[slot[d]] = d
  <2>1. slot[d] \in Slots /\ allocations[slot[d]] = d /\ d \in Nat
    BY DEF CacheCoherent
  <2>2. CASE full
    <3>1. slot[last] # slot[d]
      BY <2>1, <2>2, <1>8 DEF CacheCoherent
    <3>2. Freed[slot[d]] = d
      BY <1>4, <2>1, <2>2, <3>1
    <3>3. QED
      BY <1>2, <2>1, <3>2 DEF Free
  <2>3. CASE ~full
    BY <1>4, <1>2, <2>1, <2>3 DEF Free
  <2>4. QED
    BY <2>2, <2>3
<1>10. ASSUME NEW r \in Slots, r # s, Freed[r] # Free
       PROVE  Freed[r] \in kept /\ slot[Freed[r]] = r
  <2>1. CASE full
    <3>1. r # slot[last] /\ Freed[r] = allocations[r]
      BY <1>4, <1>8, <1>10, <2>1
    <3>2. allocations[r] \in DOMAIN slot /\ slot[allocations[r]] = r
      BY <1>10, <3>1 DEF CacheCoherent
    <3>3. QED
      BY <3>1, <3>2
  <2>2. CASE ~full
    BY <1>4, <1>10, <2>2 DEF CacheCoherent
  <2>3. QED
    BY <2>1, <2>2
<1>11. DOMAIN slot' = kept \cup {c} /\ c \notin kept /\ slot'[c] = s
  BY <1>2
<1>12. \A d \in kept : slot'[d] = slot[d]
  BY <1>2, <1>11
<1>13. \A i, j \in 1..n : recent'[i] = recent'[j] => i = j
  <2>1. \A i \in 2..n : recent'[i] = recent[i - 1] /\ recent[i - 1] # c
    BY <1>1, <1>3, <1>5, <1>6
  <2>2. recent'[1] = c
    BY <1>3, <1>6
  <2>3. ASSUME NEW i \in 2..n, NEW j \in 2..n, recent'[i] = recent'[j] PROVE i = j
    <3>1. i - 1 \in DOMAIN recent /\ j - 1 \in DOMAIN recent
      BY <1>1, <1>6
    <3>2. i - 1 = j - 1
      BY <2>1, <2>3, <3>1, SMTT(60) DEF CacheCoherent
    <3>3. QED
      BY <3>2
  <2>4. \A i \in 1..n : i = 1 \/ i \in 2..n
    BY <1>6
  <2>5. QED
    BY <2>1, <2>2, <2>3, <2>4
<1>14. DOMAIN slot' = {recent'[i] : i \in 1..n}
  <2>1. ASSUME NEW d \in kept PROVE \E i \in 1..n : recent'[i] = d
    <3>1. PICK k \in 1..l : recent[k] = d
      BY <1>5
    <3>2. k + 1 \in 1..n
      BY <1>1, <3>1, SMTT(60)
    <3>3. recent'[k + 1] = d
      BY <1>1, <1>3, <3>1, <3>2
    <3>4. QED
      BY <3>2, <3>3
  <2>2. recent'[1] = c
    BY <1>3, <1>6
  <2>3. ASSUME NEW i \in 2..n PROVE recent'[i] \in kept
    <3>1. i - 1 \in 1..l /\ recent'[i] = recent[i - 1]
      BY <1>1, <1>3, <1>6
    <3>2. recent[i - 1] \in DOMAIN slot
      BY <1>5, <3>1
    <3>3. ASSUME full PROVE recent[i - 1] # last
      <4>1. l \in 1..l /\ i - 1 # l
        BY <1>1, <1>6, <3>1, <3>3
      <4>2. QED
        BY <1>1, <3>1, <4>1 DEF CacheCoherent
    <3>4. QED
      BY <3>1, <3>2, <3>3
  <2>4. \A i \in 1..n : i = 1 \/ i \in 2..n
    BY <1>6
  <2>5. 1 \in 1..n
    BY <1>6
  <2>6. \A i \in 1..n : recent'[i] \in DOMAIN slot'
    BY <1>11, <2>2, <2>3, <2>4
  <2>7. \A d \in DOMAIN slot' : \E i \in 1..n : recent'[i] = d
    BY <1>11, <2>1, <2>2, <2>5
  <2> HIDE DEF n
  <2>8. QED
    BY <2>6, <2>7, ZenonT(60)
<1>15. allocations' \in [Slots -> Nat \cup {Free}]
  BY <1>2, <1>4a
<1>16. \A d \in DOMAIN slot' : slot'[d] \in Slots /\ allocations'[slot'[d]] = d
  BY <1>2, <1>4a, <1>9, <1>11, <1>12
<1>17. \A r \in Slots : allocations'[r] # Free =>
         allocations'[r] \in DOMAIN slot' /\ slot'[allocations'[r]] = r
  BY <1>2, <1>4a, <1>10, <1>11, <1>12
<1> HIDE DEF full, last, kept, n
<1>18. CacheCoherent'
  BY <1>6, <1>7, <1>13, <1>14, <1>16, <1>17 DEF CacheCoherent
<1>19. DOMAIN slot' \subseteq Nat
  BY <1>11 DEF kept
<1>20. \A d \in DOMAIN slot' \ {c} :
         d \in DOMAIN slot /\ slot'[d] = slot[d] /\ slot'[d] # slot'[c]
  BY <1>9, <1>11, <1>12 DEF kept
<1>21. QED
  BY <1>7, <1>11, <1>15, <1>18, <1>19, <1>20

\* The chunks in the cache are the same ones in another order.
LEMMA ToFrontCoherent ==
  ASSUME CacheTypes, CacheCoherent, NEW c \in DOMAIN slot, recent' = ToFront(c),
         UNCHANGED <<slot, allocations>>
  PROVE  CacheCoherent' /\ recent' \in Seq(Nat)
<1> DEFINE l == Len(recent)
           k == CHOOSE i \in 1..l : recent[i] = c
<1>1. l \in Nat /\ DOMAIN recent = 1..l /\ l <= NumEntries /\ \A i \in 1..l : recent[i] \in Nat
  BY LenProperties, ElementOfSeq DEF CacheTypes, CacheCoherent
<1>2. recent' = [i \in 1..l |-> IF i = 1 THEN c ELSE IF i <= k THEN recent[i - 1] ELSE recent[i]]
  BY <1>1 DEF ToFront
<1>3. DOMAIN slot = {recent[i] : i \in 1..l} /\ \A i, j \in 1..l : recent[i] = recent[j] => i = j
  BY <1>1 DEF CacheCoherent
<1> HIDE DEF l
<1>4. k \in 1..l /\ recent[k] = c
  BY <1>3
<1> HIDE DEF k
<1>5. recent' \in [1..l -> Nat]
  <2>1. c \in Nat
    BY DEF CacheTypes
  <2>2. \A i \in 1..l : i # 1 => i - 1 \in 1..l
    BY <1>1
  <2>3. QED
    BY <1>1, <1>2, <2>1, <2>2
<1>6. recent' \in Seq(Nat) /\ Len(recent') = l /\ DOMAIN recent' = 1..l
  <2>1. \E m \in Nat : recent' \in [1..m -> Nat]
    BY <1>1, <1>5
  <2>2. Seq(Nat) = UNION {[1..m -> Nat] : m \in Nat}
    BY SeqDef
  <2>3. recent' \in Seq(Nat)
    BY <2>1, <2>2
  <2>4. QED
    BY <1>1, <1>5, <2>3, LenProperties
<1>7. \A i \in 1..l : recent'[i] = IF i = 1 THEN c ELSE IF i <= k THEN recent[i - 1] ELSE recent[i]
  BY <1>2
\* Where the chunk that is now at i was.
<1> DEFINE was(i) == IF i = 1 THEN k ELSE IF i <= k THEN i - 1 ELSE i
<1>8. \A i \in 1..l : was(i) \in 1..l /\ recent'[i] = recent[was(i)]
  BY <1>1, <1>4, <1>7
<1>9. \A i, j \in 1..l : was(i) = was(j) => i = j
  BY <1>1, <1>4
<1>10. ASSUME NEW j \in 1..l PROVE \E i \in 1..l : was(i) = j
  <2>1. CASE j = k
    BY <1>1, <2>1
  <2>2. CASE j < k
    <3>1. j + 1 \in 1..l /\ was(j + 1) = j
      BY <1>1, <1>4, <2>2
    <3>2. QED
      BY <3>1
  <2>3. CASE j > k
    <3>1. was(j) = j
      BY <1>4, <2>3
    <3>2. QED
      BY <3>1
  <2>4. QED
    BY <1>1, <1>4, <2>1, <2>2, <2>3
<1> HIDE DEF was
<1>11. \A i, j \in 1..l : recent'[i] = recent'[j] => i = j
  BY <1>3, <1>8, <1>9
<1>12. {recent[i] : i \in 1..l} = {recent'[i] : i \in 1..l}
  <2>1. \A i \in 1..l : recent'[i] \in {recent[j] : j \in 1..l}
    BY <1>8
  <2>2. \A j \in 1..l : \E i \in 1..l : recent'[i] = recent[j]
    BY <1>8, <1>10
  <2>3. QED
    BY <2>1, <2>2
<1>13. CacheCoherent'
  BY <1>1, <1>3, <1>6, <1>11, <1>12, ZenonT(60) DEF CacheCoherent
<1>14. QED
  BY <1>6, <1>13
-----------------------------------------------------------------------------
(* Read *)

\* A turn of the loop that has the right bytes of the chunk adds the right ones.
LEMMA DeliverRight ==
  ASSUME TypeOK, CacheTypes, Progress, GotRight, result = "reading", Remaining > 0,
         NEW b \in Bytes, Deliver(b), UNCHANGED <<file, size, failed>>,
         ~failed => \A i \in 1..ChunkSize :
           Chunk * ChunkSize + i <= size => b[i] = Disk[file][Chunk * ChunkSize + i]
  PROVE  /\ offset' \in 0..size'
         /\ result' \in {"reading", "done", "eof"}
         /\ call' \in [at : Nat, want : Nat, got : Seq(Nat)]
         /\ Progress'
         /\ GotRight'
<1> DEFINE k == Chunk * ChunkSize
           at == call.at
           want == call.want
           g == Len(call.got)
           m == Remaining
           end == Smaller(offset + m, ChunkEnd(Chunk))
           part == SubSeq(b, offset - k + 1, end - k)
           got == call.got \o part
<1>1. file # 0 /\ file \in Files /\ size \in Nat /\ offset \in Nat /\ offset <= size
  BY DiskFacts DEF TypeOK, Progress
<1>0. call.got \in Seq(Nat)
  BY DEF CacheTypes
<1>2. g \in Nat /\ at \in Nat /\ want \in Nat
  BY <1>0, LenProperties DEF CacheTypes
<1>3. offset = at + g /\ m = want - g /\ m > 0
  BY DEF Progress, Remaining
<1>4. k \in Nat /\ k <= offset /\ offset < k + ChunkSize /\ (Chunk + 1) * ChunkSize = k + ChunkSize
  BY <1>1, ChunkBounds, CacheAssumption DEF Chunk
<1>5. /\ call' = [call EXCEPT !.got = got]
      /\ offset' = end
      /\ result' = IF offset + m > ChunkEnd(Chunk) /\ (Chunk + 1) * ChunkSize > size THEN "eof"
                   ELSE IF Len(got) = want THEN "done" ELSE "reading"
  BY DEF Deliver
<1>6. ChunkEnd(Chunk) = IF k + ChunkSize < size THEN k + ChunkSize ELSE size
  BY <1>4 DEF ChunkEnd, Smaller
<1>7. end = IF offset + m < ChunkEnd(Chunk) THEN offset + m ELSE ChunkEnd(Chunk)
  BY DEF Smaller
<1>8. ChunkSize \in Nat
  BY CacheAssumption
<1> HIDE DEF at, want, m, g, k, end
<1>9. end \in Nat /\ offset <= end /\ end <= size /\ end <= k + ChunkSize /\ end <= at + want
  BY <1>1, <1>2, <1>3, <1>4, <1>6, <1>7, <1>8
<1>10. \A i \in offset - k + 1 .. end - k : i \in 1..ChunkSize /\ b[i] \in Nat
  BY <1>1, <1>4, <1>8, <1>9 DEF Bytes
<1>11. /\ part \in Seq(Nat)
       /\ Len(part) = end - offset
       /\ \A i \in 1 .. end - offset : part[i] = b[offset - k + i]
  <2>1. offset - k + 1 \in Int /\ end - k \in Int
    BY <1>1, <1>4, <1>9
  <2>2. /\ part \in Seq(Nat)
        /\ Len(part) = IF offset - k + 1 <= end - k THEN (end - k) - (offset - k + 1) + 1 ELSE 0
        /\ \A i \in 1 .. (end - k) - (offset - k + 1) + 1 : part[i] = b[(offset - k + 1) + i - 1]
    BY <1>10, <2>1, SubSeqProperties
  <2>3. /\ (end - k) - (offset - k + 1) + 1 = end - offset
        /\ \A i \in 1 .. end - offset : (offset - k + 1) + i - 1 = offset - k + i
        /\ ~(offset - k + 1 <= end - k) => end - offset = 0
    BY <1>1, <1>4, <1>9
  <2> HIDE DEF part
  <2>4. QED
    BY <2>2, <2>3
<1>12. /\ got \in Seq(Nat)
       /\ Len(got) = end - at
       /\ \A i \in 1 .. end - at :
            got[i] = IF i <= g THEN call.got[i] ELSE b[at - k + i]
  <2> HIDE DEF part
  <2>1. /\ got \in Seq(Nat)
        /\ Len(got) = g + (end - offset)
        /\ \A i \in 1 .. g + (end - offset) : got[i] = IF i <= g THEN call.got[i] ELSE part[i - g]
    <3>1. /\ got \in Seq(Nat)
          /\ Len(got) = Len(call.got) + Len(part)
          /\ \A i \in 1 .. Len(call.got) + Len(part) :
               got[i] = IF i <= Len(call.got) THEN call.got[i] ELSE part[i - Len(call.got)]
      BY <1>0, <1>11, ConcatProperties, ZenonT(60)
    <3>2. Len(call.got) = g
      BY DEF g
    <3>3. QED
      BY <1>11, <3>1, <3>2
  <2> HIDE DEF got
  <2>2. ASSUME NEW i \in 1 .. end - at, ~(i <= g)
        PROVE  part[i - g] = b[at - k + i]
    <3>1. i - g \in 1 .. end - offset /\ offset - k + (i - g) = at - k + i
      BY <1>2, <1>3, <1>4, <1>9, <2>2
    <3>2. QED
      BY <1>11, <3>1
  <2>3. g + (end - offset) = end - at
    BY <1>1, <1>2, <1>3, <1>9
  <2>4. QED
    BY <2>1, <2>2, <2>3
<1> HIDE DEF part, got
<1>13. call' \in [at : Nat, want : Nat, got : Seq(Nat)] /\ call'.got = got
       /\ call'.at = at /\ call'.want = want
  BY <1>5, <1>12 DEF CacheTypes, at, want
<1>14. offset' \in 0..size' /\ result' \in {"reading", "done", "eof"}
  BY <1>1, <1>5, <1>9
<1>15. Progress'
  <2>1. offset' = call'.at + Len(call'.got)
    BY <1>2, <1>5, <1>9, <1>12, <1>13, SMTT(60)
  <2>2. Len(call'.got) <= call'.want
    BY <1>2, <1>9, <1>12, <1>13
  <2>3. result' = "done" => Len(call'.got) = call'.want
    BY <1>5, <1>13
  <2>4. ASSUME result' = "eof" PROVE offset' = size /\ Len(call'.got) < call'.want
    <3>1. offset + m > ChunkEnd(Chunk) /\ k + ChunkSize > size
      BY <1>4, <1>5, <2>4
    <3>2. end = size /\ size < at + want
      BY <1>1, <1>2, <1>3, <1>4, <1>6, <1>7, <1>8, <3>1
    <3>3. QED
      BY <1>1, <1>2, <1>5, <1>12, <1>13, <3>2, SMTT(60)
  <2>5. QED
    BY <1>1, <2>1, <2>2, <2>3, <2>4 DEF Progress
<1>16. GotRight'
  <2> SUFFICES ASSUME ~failed, NEW i \in 1 .. end - at
               PROVE  got[i] = Disk[file][at + i]
    BY <1>12, <1>13 DEF GotRight
  <2>1. CASE i <= g
    <3>1. i \in 1..g
      BY <1>2, <2>1
    <3>2. call.got[i] = Disk[file][at + i]
      BY <3>1 DEF GotRight, g, at
    <3>3. QED
      BY <1>12, <2>1, <3>2
  <2>2. CASE ~(i <= g)
    <3>1. /\ at - k + i \in 1..ChunkSize /\ k + (at - k + i) <= size
          /\ k + (at - k + i) = at + i
      BY <1>1, <1>2, <1>3, <1>4, <1>8, <1>9, <2>2
    <3>2. b[at - k + i] = Disk[file][k + (at - k + i)]
      BY <3>1 DEF k
    <3>3. QED
      BY <1>12, <2>2, <3>1, <3>2
  <2>3. QED
    BY <2>1, <2>2
<1>17. QED
  BY <1>13, <1>14, <1>15, <1>16

\* What is stored for a chunk that was read: the bytes the file has there.
LEMMA FilledRight ==
  ASSUME NEW f \in Files, NEW k \in Nat, NEW s \in Slots, storage \in [Slots -> Bytes],
         storage' = [storage EXCEPT ![s] = [i \in 1..ChunkSize |->
           IF i <= Len(BytesAt(Disk[f], k, ChunkSize)) THEN BytesAt(Disk[f], k, ChunkSize)[i] ELSE @[i]]]
  PROVE  /\ storage' \in [Slots -> Bytes]
         /\ \A r \in Slots \ {s} : storage'[r] = storage[r]
         /\ \A i \in 1..ChunkSize : k + i <= Len(Disk[f]) => storage'[s][i] = Disk[f][k + i]
<1> USE CacheAssumption
<1> DEFINE d == Disk[f]
           l == Len(d)
           end == Smaller(k + ChunkSize, l)
           part == SubSeq(d, k + 1, end)
<1>1. d \in Seq(Nat) /\ l \in Nat
  BY DiskFacts
<1>2. \A i \in 1..l : d[i] \in Nat
  BY <1>1, ElementOfSeq
<1>3. end = IF k + ChunkSize < l THEN k + ChunkSize ELSE l
  BY DEF Smaller
<1>4. storage' = [storage EXCEPT ![s] = [i \in 1..ChunkSize |-> IF i <= Len(part) THEN part[i] ELSE @[i]]]
  BY DEF BytesAt
<1> HIDE DEF l, d, end
<1>5. end \in Nat /\ end <= l /\ end <= k + ChunkSize /\ (end < k + ChunkSize => end = l)
  BY <1>1, <1>3
<1>6. /\ part \in Seq(Nat)
      /\ Len(part) = IF k + 1 <= end THEN end - k ELSE 0
      /\ \A i \in 1 .. end - k : part[i] = d[k + i]
  <2>1. k + 1 \in Int /\ end \in Int /\ \A i \in k + 1 .. end : d[i] \in Nat
    BY <1>1, <1>2, <1>5
  <2>2. /\ part \in Seq(Nat)
        /\ Len(part) = IF k + 1 <= end THEN end - (k + 1) + 1 ELSE 0
        /\ \A i \in 1 .. end - (k + 1) + 1 : part[i] = d[(k + 1) + i - 1]
    BY <2>1, SubSeqProperties
  <2>3. end - (k + 1) + 1 = end - k /\ \A i \in Int : (k + 1) + i - 1 = k + i
    BY <1>5
  <2> HIDE DEF part
  <2>4. QED
    BY <1>5, <2>2, <2>3
<1> HIDE DEF part
<1>7. \A i \in 1..ChunkSize : i <= Len(part) => part[i] \in Nat
  <2> SUFFICES ASSUME NEW i \in 1..ChunkSize, i <= Len(part) PROVE part[i] \in Nat
    OBVIOUS
  <2>1. i \in 1 .. end - k /\ k + i \in 1..l
    BY <1>1, <1>5, <1>6
  <2>2. QED
    BY <1>2, <1>6, <2>1
<1>8. [i \in 1..ChunkSize |-> IF i <= Len(part) THEN part[i] ELSE storage[s][i]] \in Bytes
  BY <1>7 DEF Bytes
<1>9. storage' \in [Slots -> Bytes] /\ (\A r \in Slots \ {s} : storage'[r] = storage[r])
      /\ \A i \in 1..ChunkSize : i <= Len(part) => storage'[s][i] = part[i]
  BY <1>4, <1>8
<1>10. ASSUME NEW i \in 1..ChunkSize, k + i <= l PROVE storage'[s][i] = d[k + i]
  <2>1. i \in 1 .. end - k /\ i <= Len(part)
    BY <1>1, <1>5, <1>6, <1>10
  <2>2. QED
    BY <1>6, <1>9, <2>1
<1>11. QED
  BY <1>9, <1>10 DEF l, d
-----------------------------------------------------------------------------
(* The invariant *)

LEMMA InitIInv == Init => IInv
<1> SUFFICES ASSUME Init PROVE IInv
  OBVIOUS
<1> USE CacheAssumption DEF Init
<1>1. TypeOK
  <2>1. offset \in 0..size /\ failures \in 0..MaxFailures
    OBVIOUS
  <2>2. QED
    BY <2>1 DEF TypeOK
<1>2. CacheTypes
  BY EmptySeq DEF CacheTypes, NoCall, Bytes, Blank, Free, Slots
<1>3. CacheCoherent
  BY DEF CacheCoherent, Free, Slots
<1>4. StoredRight /\ Progress /\ GotRight
  BY DEF StoredRight, Progress, GotRight
<1>5. QED
  BY <1>1, <1>2, <1>3, <1>4 DEF IInv

LEMMA ResetIInv == ASSUME IInv, NEW f \in Files, Reset(f) PROVE IInv'
<1> USE CacheAssumption DEF IInv, Reset
<1>1. f # 0 /\ size' \in Nat
  BY DiskFacts
<1>2. TypeOK'
  <2>1. offset' \in 0..size' /\ size' = Len(Disk[file'])
    BY <1>1
  <2>2. QED
    BY <1>1, <2>1 DEF TypeOK
<1>3. CacheTypes'
  BY EmptySeq DEF CacheTypes, NoCall, Free
<1>4. CacheCoherent'
  BY DEF CacheCoherent, Free, Slots
<1>5. StoredRight' /\ Progress' /\ GotRight'
  BY DEF StoredRight, Progress, GotRight
<1>6. QED
  BY <1>2, <1>3, <1>4, <1>5

\* Steps that leave the cache and the file alone.
LEMMA CacheKept ==
  ASSUME CacheCoherent, StoredRight, UNCHANGED <<file, size, cache, failed>>
  PROVE  CacheCoherent' /\ StoredRight'
<1>1. UNCHANGED <<recent, slot, allocations, storage, file, size, failed>>
  BY DEF cache
<1>2. CacheCoherent'
  BY <1>1 DEF CacheCoherent
<1>3. StoredRight'
  BY <1>1 DEF StoredRight
<1>4. QED
  BY <1>2, <1>3

LEMMA SeekIInv == ASSUME IInv, NEW o \in Int, Seek(o) PROVE IInv'
<1>1. size \in Nat /\ size' = size /\ offset' = IF o \in 0..size THEN o ELSE 0
  BY OffsetInFile DEF IInv, Seek
<1>7. offset' \in 0..size'
  BY <1>1
<1> USE DEF IInv, Seek
<1>2. TypeOK'
  <2>1. offset' \in 0..size'
    BY <1>7
  <2>2. result' \in {"none", "bad seek"}
    OBVIOUS
  <2>3. QED
    BY <2>1, <2>2 DEF TypeOK
<1>3. CacheTypes'
  BY EmptySeq DEF CacheTypes, NoCall, cache
<1>4. CacheCoherent' /\ StoredRight'
  BY CacheKept
<1>5. Progress' /\ GotRight'
  BY DEF Progress, GotRight
<1>6. QED
  BY <1>2, <1>3, <1>4, <1>5

LEMMA ReadIInv == ASSUME IInv, NEW n \in 1 .. MaxRead, Read(n) PROVE IInv'
<1> USE DEF IInv, Read
<1>1. size \in Nat /\ offset \in Nat /\ n \in Nat
  BY OffsetInFile, CacheAssumption
<1>2. TypeOK'
  BY DEF TypeOK
<1>3. CacheTypes'
  BY <1>1, EmptySeq DEF CacheTypes, cache
<1>4. CacheCoherent' /\ StoredRight'
  BY CacheKept
<1>5. Progress'
  BY <1>1 DEF Progress
<1>6. GotRight'
  BY DEF GotRight
<1>7. QED
  BY <1>2, <1>3, <1>4, <1>5, <1>6

\* What a safe keeper knows after a read of the chunk, however it ends.
KeeperTypes ==
  /\ \A c \in DOMAIN verdicts : c[1] \in Files /\ c[2] \in Nat /\ verdicts[c] \in {"valid", "corrupt"}
  /\ signature \in {"closed", "open", "failed"}

LEMMA KeeperTypesKept ==
  ASSUME KeeperTypes, NEW f \in Files, NEW o \in Nat,
         \/ UNCHANGED <<verdicts, signature>>
         \/ SignatureFails(f, o) \/ BlockEnds(f, o) \/ BlockFails(f, o)
         \/ BlockJudged(f, o, "valid") \/ BlockJudged(f, o, "corrupt")
  PROVE  KeeperTypes'
<1>1. signature' \in {"closed", "open", "failed"}
  BY DEF KeeperTypes, SignatureFails, SignatureOpens, BlockEnds, BlockFails, BlockJudged
<1>2. CASE UNCHANGED verdicts
  BY <1>1, <1>2 DEF KeeperTypes
<1>3. CASE verdicts' = WithVerdict(f, o)
  <2>1. BlockOf(o) \in Nat
    BY BlockAssumption DEF BlockOf
  <2>2. Judge(f, BlockOf(o)) \in {"valid", "corrupt"}
    BY DEF Judge
  <2>3. QED
    BY <1>1, <1>3, <2>1, <2>2 DEF KeeperTypes, WithVerdict
<1>4. QED
  BY <1>2, <1>3 DEF SignatureFails, BlockEnds, BlockFails, BlockJudged

\* Where the chunk of the offset starts.
LEMMA ChunkStart ==
  ASSUME TypeOK
  PROVE  /\ Chunk \in Nat /\ Chunk * ChunkSize \in Nat
         /\ BlockOf(Chunk * ChunkSize) * BlockSize <= Chunk * ChunkSize
<1>1. Chunk \in Nat /\ Chunk * ChunkSize \in Nat
  BY OffsetInFile, ChunkBounds, CacheAssumption DEF Chunk
<1>2. QED
  BY <1>1, ChunkBounds, BlockAssumption DEF BlockOf

LEMMA HitIInv == ASSUME IInv, Hit PROVE IInv'
<1>1. /\ TypeOK /\ CacheTypes /\ CacheCoherent /\ StoredRight /\ Progress /\ GotRight
      /\ Chunk \in DOMAIN slot /\ result = "reading" /\ Remaining > 0
      /\ recent' = ToFront(Chunk) /\ Deliver(storage[slot[Chunk]])
      /\ UNCHANGED <<verdicts, signature, safe, file, size, slot, allocations, storage, failed, failures>>
  BY DEF IInv, Hit
<1>2. CacheCoherent' /\ recent' \in Seq(Nat)
  BY <1>1, ToFrontCoherent
<1>3. PICK b \in Bytes : b = storage[slot[Chunk]]
  BY <1>1 DEF CacheTypes, CacheCoherent
<1>4. ~failed => \A i \in 1..ChunkSize :
        Chunk * ChunkSize + i <= size => b[i] = Disk[file][Chunk * ChunkSize + i]
  BY <1>1, <1>3 DEF StoredRight
<1>5. Deliver(b) /\ UNCHANGED <<file, size, failed>>
  BY <1>1, <1>3
<1>6. /\ offset' \in 0..size' /\ result' \in {"reading", "done", "eof"}
      /\ call' \in [at : Nat, want : Nat, got : Seq(Nat)] /\ Progress' /\ GotRight'
  BY <1>1, <1>4, <1>5, DeliverRight
<1>7. TypeOK'
  BY <1>1, <1>6 DEF TypeOK
<1>8. CacheTypes'
  BY <1>1, <1>2, <1>6 DEF CacheTypes
<1>9. StoredRight'
  BY <1>1 DEF StoredRight
<1>10. QED
  BY <1>2, <1>6, <1>7, <1>8, <1>9 DEF IInv

\* What a read of the chunk that does not fail leaves in its slot; what the file
\* does not have may be left over from another chunk.
LEMMA MissStores ==
  ASSUME IInv, Miss
  PROVE  /\ storage' \in [Slots -> Bytes]
         /\ \A r \in Slots \ {slot'[Chunk]} : storage'[r] = storage[r]
         /\ \A i \in 1..ChunkSize : Chunk * ChunkSize + i <= size =>
              storage'[slot'[Chunk]][i] = Disk[file][Chunk * ChunkSize + i]
<1>1. TypeOK /\ CacheTypes /\ CacheCoherent /\ Progress /\ result = "reading"
      /\ Chunk \notin DOMAIN slot /\ Added(Chunk)
  BY DEF IInv, Miss, Missed
<1>2. Chunk \in Nat /\ Chunk * ChunkSize \in Nat
  BY <1>1, ChunkStart
<1>3. file \in Files /\ size = Len(Disk[file]) /\ size \in Nat
  BY <1>1, OffsetInFile DEF Progress
<1>4. slot'[Chunk] \in Slots /\ storage \in [Slots -> Bytes]
  BY <1>1, <1>2, AddedCoherent DEF CacheCoherent, CacheTypes
<1>5. CASE storage' = Filled(slot'[Chunk], FromFile)
  <2>1. storage' = [storage EXCEPT ![slot'[Chunk]] = [i \in 1..ChunkSize |->
          IF i <= Len(BytesAt(Disk[file], Chunk * ChunkSize, ChunkSize))
          THEN BytesAt(Disk[file], Chunk * ChunkSize, ChunkSize)[i] ELSE @[i]]]
    BY <1>5 DEF Filled, FromFile
  <2>2. PICK k \in Nat : k = Chunk * ChunkSize
    BY <1>2
  <2>3. PICK s \in Slots : s = slot'[Chunk]
    BY <1>4
  <2>4. storage' = [storage EXCEPT ![s] = [i \in 1..ChunkSize |->
          IF i <= Len(BytesAt(Disk[file], k, ChunkSize)) THEN BytesAt(Disk[file], k, ChunkSize)[i] ELSE @[i]]]
    BY <2>1, <2>2, <2>3
  <2>5. /\ storage' \in [Slots -> Bytes]
        /\ \A r \in Slots \ {s} : storage'[r] = storage[r]
        /\ \A i \in 1..ChunkSize : k + i <= Len(Disk[file]) => storage'[s][i] = Disk[file][k + i]
    BY <1>3, <1>4, <2>4, FilledRight, ZenonT(60)
  <2>6. QED
    BY <1>3, <2>2, <2>3, <2>5
<1>6. CASE BlockEnds(file, Chunk * ChunkSize) /\ UNCHANGED storage
  <2>1. Chunk * ChunkSize >= size
    <3>1. BlockOf(Chunk * ChunkSize) * BlockSize >= size
      BY <1>3, <1>6 DEF BlockEnds, BlockMissing
    <3>2. BlockOf(Chunk * ChunkSize) * BlockSize <= Chunk * ChunkSize
      BY <1>1, ChunkStart
    <3>3. BlockOf(Chunk * ChunkSize) \in Nat
      BY <1>2, BlockAssumption DEF BlockOf
    <3>4. BlockOf(Chunk * ChunkSize) * BlockSize \in Nat
      BY <3>3, BlockAssumption
    <3>5. QED
      BY <1>2, <1>3, <3>1, <3>2, <3>4
  <2>2. \A i \in 1..ChunkSize : ~(Chunk * ChunkSize + i <= size)
    BY <1>2, <1>3, <2>1, CacheAssumption
  <2>3. QED
    BY <1>4, <1>6, <2>2
<1>7. QED
  BY <1>5, <1>6 DEF Miss

LEMMA MissIInv == ASSUME IInv, Miss PROVE IInv'
<1>1. /\ TypeOK /\ CacheTypes /\ CacheCoherent /\ StoredRight /\ Progress /\ GotRight
      /\ Chunk \notin DOMAIN slot /\ result = "reading" /\ Remaining > 0 /\ Added(Chunk)
      /\ Deliver(storage'[slot'[Chunk]])
      /\ UNCHANGED <<safe, file, size, failed, failures>>
  BY DEF IInv, Miss, Missed
<1>2. Chunk \in Nat /\ Chunk * ChunkSize \in Nat /\ file \in Files
  BY <1>1, ChunkStart, OffsetInFile DEF Progress
<1>3. /\ CacheCoherent' /\ recent' \in Seq(Nat) /\ DOMAIN slot' \subseteq Nat
      /\ allocations' \in [Slots -> Nat \cup {Free}] /\ Chunk \in DOMAIN slot'
      /\ \A d \in DOMAIN slot' \ {Chunk} : d \in DOMAIN slot /\ slot'[d] = slot[d] /\ slot'[d] # slot'[Chunk]
  BY <1>1, <1>2, AddedCoherent
<1>4. /\ storage' \in [Slots -> Bytes]
      /\ \A r \in Slots \ {slot'[Chunk]} : storage'[r] = storage[r]
      /\ \A i \in 1..ChunkSize : Chunk * ChunkSize + i <= size =>
           storage'[slot'[Chunk]][i] = Disk[file][Chunk * ChunkSize + i]
  BY MissStores
<1>5. PICK b \in Bytes : b = storage'[slot'[Chunk]]
  BY <1>3, <1>4 DEF CacheCoherent
<1>6. Deliver(b) /\ UNCHANGED <<file, size, failed>>
  BY <1>1, <1>5
<1>7. \A i \in 1..ChunkSize : Chunk * ChunkSize + i <= size => b[i] = Disk[file][Chunk * ChunkSize + i]
  BY <1>4, <1>5
<1>8. /\ offset' \in 0..size' /\ result' \in {"reading", "done", "eof"}
      /\ call' \in [at : Nat, want : Nat, got : Seq(Nat)] /\ Progress' /\ GotRight'
  BY <1>1, <1>6, <1>7, DeliverRight
<1>9. KeeperTypes'
  <2>1. KeeperTypes
    BY <1>1 DEF TypeOK, KeeperTypes
  <2>2. \/ UNCHANGED <<verdicts, signature>>
        \/ BlockJudged(file, Chunk * ChunkSize, "valid")
        \/ BlockEnds(file, Chunk * ChunkSize)
    BY DEF Miss
  <2>3. QED
    BY <1>2, <2>1, <2>2, KeeperTypesKept
<1>10. TypeOK'
  BY <1>1, <1>8, <1>9 DEF TypeOK, KeeperTypes
<1>11. CacheTypes'
  BY <1>3, <1>4, <1>8 DEF CacheTypes
<1>12. StoredRight'
  <2> SUFFICES ASSUME ~failed, NEW c \in DOMAIN slot', NEW i \in 1..ChunkSize, c * ChunkSize + i <= size
               PROVE  storage'[slot'[c]][i] = Disk[file][c * ChunkSize + i]
    BY <1>1 DEF StoredRight
  <2>1. CASE c = Chunk
    BY <1>4, <2>1
  <2>2. CASE c # Chunk
    <3>1. c \in DOMAIN slot /\ slot'[c] = slot[c] /\ slot'[c] # slot'[Chunk]
      BY <1>3, <2>2
    <3>2. slot[c] \in Slots
      BY <1>1, <3>1 DEF CacheCoherent
    <3>3. storage'[slot'[c]] = storage[slot[c]]
      BY <1>4, <3>1, <3>2
    <3>4. QED
      BY <1>1, <3>1, <3>3 DEF StoredRight
  <2>3. QED
    BY <2>1, <2>2
<1>13. QED
  BY <1>3, <1>8, <1>10, <1>11, <1>12 DEF IInv

LEMMA MissFailsIInv == ASSUME IInv, MissFails PROVE IInv'
<1>1. /\ TypeOK /\ CacheTypes /\ CacheCoherent /\ Progress
      /\ Chunk \notin DOMAIN slot /\ result = "reading" /\ Added(Chunk)
      /\ result' = "failed" /\ failed' = TRUE
      /\ UNCHANGED <<safe, file, size, offset, storage, call>>
  BY DEF IInv, MissFails, Missed
<1>2. Chunk \in Nat /\ Chunk * ChunkSize \in Nat /\ file \in Files
  BY <1>1, ChunkStart, OffsetInFile DEF Progress
<1>3. /\ CacheCoherent' /\ recent' \in Seq(Nat) /\ DOMAIN slot' \subseteq Nat
      /\ allocations' \in [Slots -> Nat \cup {Free}]
  BY <1>1, <1>2, AddedCoherent
<1>4. KeeperTypes'
  <2>1. KeeperTypes
    BY <1>1 DEF TypeOK, KeeperTypes
  <2>2. \/ UNCHANGED <<verdicts, signature>>
        \/ BlockJudged(file, Chunk * ChunkSize, "corrupt")
        \/ BlockJudged(file, Chunk * ChunkSize, "valid")
        \/ SignatureFails(file, Chunk * ChunkSize)
        \/ BlockFails(file, Chunk * ChunkSize)
    BY DEF MissFails
  <2>3. QED
    BY <1>2, <2>1, <2>2, KeeperTypesKept
<1>5. failures' \in 0..MaxFailures
  <2>1. failures \in 0..MaxFailures
    BY <1>1 DEF TypeOK
  <2>2. UNCHANGED failures \/ (failures < MaxFailures /\ failures' = failures + 1)
    BY DEF MissFails
  <2>3. QED
    BY <2>1, <2>2, CacheAssumption
<1>6. TypeOK'
  BY <1>1, <1>4, <1>5 DEF TypeOK, KeeperTypes
<1>7. CacheTypes'
  BY <1>1, <1>3 DEF CacheTypes
<1>8. StoredRight' /\ Progress' /\ GotRight'
  BY <1>1 DEF StoredRight, Progress, GotRight
<1>9. QED
  BY <1>3, <1>6, <1>7, <1>8 DEF IInv

\* The invariant behind the properties.
THEOREM CacheInvariant == Spec => []IInv
<1>1. IInv /\ [Next]_vars => IInv'
  <2> SUFFICES ASSUME IInv, [Next]_vars PROVE IInv'
    OBVIOUS
  <2>1. CASE \E f \in Files : Reset(f)
    BY <2>1, ResetIInv
  <2>2. CASE \E o \in -1 .. size + 1 : Seek(o)
    <3>1. size \in Nat
      BY OffsetInFile DEF IInv
    <3>2. PICK o \in Int : Seek(o)
      BY <2>2, <3>1
    <3>3. QED
      BY <3>2, SeekIInv
  <2>3. CASE \E n \in 1 .. MaxRead : Read(n)
    BY <2>3, ReadIInv
  <2>4. CASE UNCHANGED vars
    <3>1. TypeOK'
      BY <2>4 DEF IInv, TypeOK, vars
    <3>2. CacheTypes'
      BY <2>4 DEF IInv, CacheTypes, vars, cache
    <3>3. CacheCoherent' /\ StoredRight'
      BY <2>4, CacheKept DEF IInv, vars
    <3>4. Progress'
      BY <2>4 DEF IInv, Progress, vars
    <3>5. GotRight'
      BY <2>4 DEF IInv, GotRight, vars
    <3>6. QED
      BY <3>1, <3>2, <3>3, <3>4, <3>5 DEF IInv
  <2>5. QED
    BY <2>1, <2>2, <2>3, <2>4, HitIInv, MissIInv, MissFailsIInv DEF Next
<1>2. QED
  BY <1>1, InitIInv, PTL DEF Spec

LEMMA ReadsRightFollows == ASSUME IInv PROVE ReadsRight
<1> SUFFICES ASSUME ~failed, result \in {"done", "eof"}
             PROVE  /\ call.got = BytesAt(Disk[file], call.at, call.want)
                    /\ (result = "eof") <=> (call.at + call.want > size)
  BY DEF ReadsRight
<1> DEFINE at == call.at
           want == call.want
           got == call.got
           l == Len(got)
           d == Disk[file]
           end == Smaller(at + want, Len(d))
           all == SubSeq(d, at + 1, end)
<1>1. file \in Files /\ size = Len(d) /\ size \in Nat /\ offset <= size
  BY OffsetInFile DEF IInv, Progress
<1>2. at \in Nat /\ want \in Nat /\ got \in Seq(Nat)
  BY DEF IInv, CacheTypes
<1>3. l \in Nat
  BY <1>2, LenProperties
<1>4. /\ offset = at + l /\ l <= want
      /\ result = "done" => l = want
      /\ result = "eof" => offset = size /\ l < want
  BY DEF IInv, Progress
<1>5. \A i \in 1..l : got[i] = d[at + i]
  BY DEF IInv, GotRight
<1>6. d \in Seq(Nat)
  BY <1>1, DiskFacts
<1>7. end = IF at + want < size THEN at + want ELSE size
  BY <1>1 DEF Smaller
<1>8. all = BytesAt(Disk[file], call.at, call.want)
  BY DEF BytesAt
<1> HIDE DEF at, want, l, end
<1>9. end = at + l
  BY <1>1, <1>2, <1>3, <1>4, <1>7, SMTT(60)
<1>10. (result = "eof") <=> (at + want > size)
  BY <1>1, <1>2, <1>3, <1>4
<1>11. \A i \in at + 1 .. end : i \in 1..size
  BY <1>1, <1>2, <1>3, <1>4, <1>9
<1>12. \A i \in at + 1 .. end : d[i] \in Nat
  BY <1>1, <1>6, <1>11, ElementOfSeq
<1>13. at + 1 \in Int /\ end \in Int
  BY <1>2, <1>3, <1>9
<1>14. /\ all \in Seq(Nat)
       /\ Len(all) = IF at + 1 <= end THEN end - (at + 1) + 1 ELSE 0
       /\ \A i \in 1 .. end - (at + 1) + 1 : all[i] = d[(at + 1) + i - 1]
  BY <1>12, <1>13, SubSeqProperties
<1> HIDE DEF all, got, d
<1>15. Len(all) = l /\ \A i \in 1..l : all[i] = d[at + i]
  <2>1. end - (at + 1) + 1 = l /\ \A i \in 1..l : (at + 1) + i - 1 = at + i
    BY <1>2, <1>3, <1>9
  <2>2. ~(at + 1 <= end) => l = 0
    BY <1>2, <1>3, <1>9
  <2>3. QED
    BY <1>14, <2>1, <2>2
<1>16. all = got
  BY <1>2, <1>5, <1>14, <1>15, SeqEqual DEF l
<1>17. QED
  BY <1>8, <1>10, <1>16 DEF at, want, got

\* Whatever is read, sought and reset, and whatever fails: the offset stays in the
\* file and the rest of the state has its type.
THEOREM TypeOKHolds == Spec => []TypeOK
  BY CacheInvariant, PTL DEF IInv

\* The list, the map and the marks of an lruFile's slots agree, for any number of
\* slots and through failed reads.
THEOREM CacheCoherentHolds == Spec => []CacheCoherent
  BY CacheInvariant, PTL DEF IInv

\* getChunk always finds room for a chunk.
THEOREM FindsRoomHolds == Spec => []FindsRoom
<1>1. IInv => FindsRoom
  BY RoomForOne DEF IInv, FindsRoom
<1>2. QED
  BY <1>1, CacheInvariant, PTL

\* For files, chunks, blocks and caches of any size, with or without a safe keeper:
\* Read returns the bytes of the file, and io.EOF exactly past its end.
THEOREM ReadsRightHolds == Spec => []ReadsRight
<1>1. IInv => ReadsRight
  BY ReadsRightFollows
<1>2. QED
  BY <1>1, CacheInvariant, PTL
-----------------------------------------------------------------------------
(* What the safe keeper lets through *)

\* What the file has at these positions is what was signed.
Guarded(p) == p <= size /\ p <= Len(Signed[file]) => Disk[file][p] = Signed[file][p]

\* The verdicts are those of the blocks; what is in the cache, and what the call
\* got, went through them.
Vouched ==
  /\ \A c \in DOMAIN verdicts : verdicts[c] = Judge(c[1], c[2])
  /\ signature = "failed" => failures > 0
  /\ result \in {"none", "bad seek"} => call.got = << >>
  /\ result = "failed" => failed
  /\ safe /\ ~failed =>
       /\ \A c \in DOMAIN slot : \A i \in 1..ChunkSize : Guarded(c * ChunkSize + i)
       /\ \A i \in 1..Len(call.got) : Guarded(call.at + i)

\* It refuses nothing else.
RefusesRightly ==
  result = "failed" /\ failures = 0 =>
    ~Intact(file) \/ (size % BlockSize = 0 /\ call.at + call.want > size)

GInv == IInv /\ Vouched /\ RefusesRightly

LEMMA SignedFacts ==
  ASSUME NEW f \in Files
  PROVE  Signed[f] \in Seq(Nat) /\ Len(Signed[f]) \in Nat
BY FilesAssumption DEF Files

LEMMA BytesAtFacts ==
  ASSUME NEW d \in Seq(Nat), NEW o \in Nat, NEW n \in Nat
  PROVE  LET end == IF o + n < Len(d) THEN o + n ELSE Len(d) IN
         /\ Len(BytesAt(d, o, n)) = IF end > o THEN end - o ELSE 0
         /\ \A i \in 1 .. end - o : BytesAt(d, o, n)[i] = d[o + i]
<1> DEFINE end == IF o + n < Len(d) THEN o + n ELSE Len(d)
<1>1. Len(d) \in Nat /\ end \in Nat /\ end <= Len(d)
  BY LenProperties
<1>2. BytesAt(d, o, n) = SubSeq(d, o + 1, end)
  BY DEF BytesAt, Smaller
<1> HIDE DEF end
<1>3. \A i \in o + 1 .. end : d[i] \in Nat
  <2>1. \A i \in o + 1 .. end : i \in 1..Len(d)
    BY <1>1
  <2>2. QED
    BY <2>1, ElementOfSeq
<1>4. o + 1 \in Int /\ end \in Int
  BY <1>1
<1>5. /\ SubSeq(d, o + 1, end) \in Seq(Nat)
      /\ Len(SubSeq(d, o + 1, end)) = IF o + 1 <= end THEN end - (o + 1) + 1 ELSE 0
      /\ \A i \in 1 .. end - (o + 1) + 1 : SubSeq(d, o + 1, end)[i] = d[(o + 1) + i - 1]
  BY <1>3, <1>4, SubSeqProperties, SMTT(60)
<1>6. end - (o + 1) + 1 = end - o /\ \A i \in 1 .. end - o : (o + 1) + i - 1 = o + i
  BY <1>1
<1>7. (o + 1 <= end) <=> (end > o)
  BY <1>1
<1>8. QED
  BY <1>2, <1>5, <1>6, <1>7 DEF end

\* The blocks of a file of l bytes.
LEMMA BlockSizes ==
  ASSUME NEW l \in Nat, NEW b \in Nat
  PROVE  /\ NumBlocks(l) \in Nat
         /\ b * BlockSize \in Nat
         /\ BlockSize * (b + 1) = b * BlockSize + BlockSize
         /\ ComputeBlockSize(l, b) \in Nat
         /\ b < NumBlocks(l) <=> (b = 0 \/ b * BlockSize < l)
         /\ b < NumBlocks(l) =>
              b * BlockSize + ComputeBlockSize(l, b)
                = IF b * BlockSize + BlockSize < l THEN b * BlockSize + BlockSize ELSE l
         /\ b * BlockSize = l => l % BlockSize = 0
<1> DEFINE s == BlockSize
           n == (l + s - 1) \div s
<1>1. s \in Nat \ {0} /\ NumBlocks(l) = IF l = 0 THEN 1 ELSE n
  BY BlockAssumption DEF NumBlocks
<1>2. /\ n \in Nat
      /\ b * s \in Nat
      /\ s * (b + 1) = b * s + s
      /\ l % s \in 0 .. s - 1
      /\ b < n <=> b * s < l
      /\ b * s <= l /\ b * s + s > l => b * s + (l % s) = l
      /\ b * s = l => l % s = 0
  BY <1>1, BlockArithmetic, ZenonT(60)
<1>3. ComputeBlockSize(l, b) = IF b * s + s > l THEN l % s ELSE s
  BY <1>2 DEF ComputeBlockSize
<1> HIDE DEF n, s
<1>4. b < NumBlocks(l) <=> (b = 0 \/ b * s < l)
  <2>1. ~(b * s < 0) /\ (b < 1 <=> b = 0)
    BY <1>2
  <2>2. CASE l = 0
    BY <1>1, <2>1, <2>2
  <2>3. CASE l # 0
    <3>1. b = 0 => b * s < l
      BY <1>1, <2>3
    <3>2. QED
      BY <1>1, <1>2, <2>3, <3>1
  <2>4. QED
    BY <2>2, <2>3
<1>5. ASSUME b < NumBlocks(l)
      PROVE  b * s + ComputeBlockSize(l, b) = IF b * s + s < l THEN b * s + s ELSE l
  <2>1. b * s <= l
    BY <1>1, <1>2, <1>4, <1>5
  <2>2. CASE b * s + s > l
    BY <1>1, <1>2, <1>3, <2>1, <2>2
  <2>3. CASE ~(b * s + s > l)
    BY <1>1, <1>2, <1>3, <2>3
  <2>4. QED
    BY <2>2, <2>3
<1>6. NumBlocks(l) \in Nat /\ ComputeBlockSize(l, b) \in Nat
  BY <1>1, <1>2, <1>3
<1>7. QED
  BY <1>2, <1>4, <1>5, <1>6 DEF s

\* A block that was found valid has what was signed.
LEMMA ValidBlock ==
  ASSUME NEW f \in Files, NEW b \in Nat, Judge(f, b) = "valid",
         NEW p \in Nat, b * BlockSize < p, p <= b * BlockSize + BlockSize,
         p <= Len(Disk[f]), p <= Len(Signed[f])
  PROVE  Disk[f][p] = Signed[f][p]
<1> DEFINE s == BlockSize
           o == b * s
           l == Len(Signed[f])
           n == ComputeBlockSize(l, b)
           d == Disk[f]
           g == Signed[f]
           read == BytesAt(d, o, n)
           want == BytesAt(g, o, s)
<1>1. s \in Nat \ {0} /\ l \in Nat /\ o \in Nat /\ d \in Seq(Nat) /\ g \in Seq(Nat) /\ Len(d) \in Nat
  BY BlockAssumption, DiskFacts, SignedFacts, BlockSizes
<1>2. b < NumBlocks(l) /\ read = want
  BY DEF Judge
<1>3. n \in Nat /\ o + n = IF o + s < l THEN o + s ELSE l
  BY <1>1, <1>2, BlockSizes
<1> HIDE DEF s, o, l, n, d, g
<1>4. o < p /\ p <= o + s /\ p <= Len(d) /\ p <= Len(g) /\ l = Len(g)
  BY DEF s, o, l, d, g
<1> DEFINE i == p - o
<1>5. i \in Nat /\ o + i = p
  BY <1>1, <1>4
<1>6. want[i] = g[o + i]
  <2>1. \A j \in 1 .. (IF o + s < Len(g) THEN o + s ELSE Len(g)) - o : want[j] = g[o + j]
    BY <1>1, BytesAtFacts, ZenonT(60)
  <2>2. i \in 1 .. (IF o + s < Len(g) THEN o + s ELSE Len(g)) - o
    BY <1>1, <1>4, <1>5
  <2> HIDE DEF want, i
  <2>3. QED
    BY <2>1, <2>2
<1>7. read[i] = d[o + i]
  <2>1. \A j \in 1 .. (IF o + n < Len(d) THEN o + n ELSE Len(d)) - o : read[j] = d[o + j]
    BY <1>1, <1>3, BytesAtFacts, ZenonT(60)
  <2>2. i \in 1 .. (IF o + n < Len(d) THEN o + n ELSE Len(d)) - o
    BY <1>1, <1>3, <1>4, <1>5
  <2> HIDE DEF read, i
  <2>3. QED
    BY <2>1, <2>2
<1>8. QED
  BY <1>2, <1>5, <1>6, <1>7 DEF d, g

\* The blocks of an intact file are valid.
LEMMA IntactBlock ==
  ASSUME NEW f \in Files, Intact(f), NEW b \in Nat, b < NumBlocks(Len(Signed[f]))
  PROVE  Judge(f, b) = "valid"
<1> DEFINE s == BlockSize
           o == b * s
           g == Signed[f]
           l == Len(g)
           n == ComputeBlockSize(l, b)
<1>1. s \in Nat \ {0} /\ l \in Nat /\ o \in Nat
  BY BlockAssumption, SignedFacts, BlockSizes
<1>2. n \in Nat /\ o + n = IF o + s < l THEN o + s ELSE l
  BY <1>1, BlockSizes
<1>3. BytesAt(g, o, n) = BytesAt(g, o, s)
  <2> HIDE DEF s, o, g, l, n
  <2>1. Smaller(o + n, l) = Smaller(o + s, l)
    BY <1>1, <1>2 DEF Smaller
  <2>2. QED
    BY <2>1 DEF BytesAt, l
<1>4. QED
  BY <1>3 DEF Judge, Intact

\* A chunk does not cross a block.
LEMMA ChunkInBlock ==
  ASSUME NEW c \in Nat
  PROVE  LET b == BlockOf(c * ChunkSize) IN
         /\ b \in Nat /\ b * BlockSize \in Nat
         /\ b * BlockSize <= c * ChunkSize
         /\ c * ChunkSize + ChunkSize <= b * BlockSize + BlockSize
<1> DEFINE b == BlockOf(c * ChunkSize)
<1>1. c * ChunkSize \in Nat /\ ChunkSize \in Nat \ {0} /\ BlockSize \in Nat \ {0}
  BY CacheAssumption, BlockAssumption
<1>2. /\ b \in Nat /\ b * BlockSize \in Nat /\ b * BlockSize <= c * ChunkSize
      /\ c * ChunkSize < b * BlockSize + BlockSize
      /\ (b + 1) * BlockSize = b * BlockSize + BlockSize
  BY <1>1, ChunkBounds DEF BlockOf
<1> HIDE DEF b
<1>3. PICK k \in Nat : BlockSize = k * ChunkSize
  BY <1>1, ChunksInBlocks
<1> DEFINE m == (b + 1) * k
<1>4. m \in Nat /\ (b + 1) * BlockSize = m * ChunkSize
  BY <1>1, <1>2, <1>3
<1> HIDE DEF m
<1>5. c < m
  <2> SUFFICES ASSUME ~(c < m) PROVE FALSE
    OBVIOUS
  <2>1. c - m \in Nat /\ c = m + (c - m)
    BY <1>4
  <2>2. PICK e \in Nat : c = m + e
    BY <2>1
  <2>3. c * ChunkSize = m * ChunkSize + e * ChunkSize /\ e * ChunkSize \in Nat /\ m * ChunkSize \in Nat
    BY <1>1, <1>4, <2>2
  <2>4. QED
    BY <1>1, <1>2, <1>4, <2>3
<1>6. c * ChunkSize + ChunkSize <= m * ChunkSize
  <2>1. m - (c + 1) \in Nat /\ m = (c + 1) + (m - (c + 1))
    BY <1>4, <1>5
  <2>2. PICK e \in Nat : m = (c + 1) + e
    BY <2>1
  <2>3. m * ChunkSize = c * ChunkSize + ChunkSize + e * ChunkSize /\ e * ChunkSize \in Nat
    BY <1>1, <2>2
  <2>4. QED
    BY <1>1, <2>3
<1>7. QED
  BY <1>2, <1>4, <1>6 DEF b

\* A verdict, kept or new, is that of the block.
LEMMA JudgedRightly ==
  ASSUME TypeOK, \A c \in DOMAIN verdicts : verdicts[c] = Judge(c[1], c[2]),
         NEW f \in Files, NEW o \in Nat, NEW v, BlockJudged(f, o, v)
  PROVE  /\ \A c \in DOMAIN verdicts' : verdicts'[c] = Judge(c[1], c[2])
         /\ Judge(f, BlockOf(o)) = v
         /\ signature' = "failed" => signature = "failed"
<1> DEFINE k == <<f, BlockOf(o)>>
<1>1. /\ verdicts' = WithVerdict(f, o) /\ WithVerdict(f, o)[k] = v
      /\ signature' = "failed" => signature = "failed"
  BY DEF BlockJudged, SignatureOpens
<1>2. k[1] = f /\ k[2] = BlockOf(o)
  OBVIOUS
<1>3. /\ DOMAIN verdicts' = DOMAIN verdicts \cup {k}
      /\ \A c \in DOMAIN verdicts' : verdicts'[c] = Judge(c[1], c[2])
  BY <1>1, <1>2 DEF WithVerdict
<1>4. QED
  BY <1>1, <1>2, <1>3

LEMMA InitGInv == Init => GInv
<1>1. Init => IInv
  BY InitIInv
<1>2. ASSUME Init PROVE Vouched
  <2>1. call.got = << >> /\ DOMAIN verdicts = {} /\ DOMAIN slot = {} /\ Len(call.got) = 0
        /\ signature = "closed" /\ result = "none"
    BY <1>2 DEF Init, NoCall
  <2>2. QED
    BY <2>1 DEF Vouched
<1>3. Init => RefusesRightly
  BY DEF Init, RefusesRightly
<1>4. QED
  BY <1>1, <1>2, <1>3 DEF GInv

\* Steps that begin or end a call, or nothing.
LEMMA QuietGInv ==
  ASSUME GInv, IInv',
         \/ \E f \in Files : Reset(f)
         \/ \E o \in Int : Seek(o)
         \/ \E n \in 1 .. MaxRead : Read(n)
         \/ UNCHANGED vars
  PROVE  GInv'
<1>1. UNCHANGED <<verdicts, signature, safe, failures>>
  BY DEF Reset, Seek, Read, vars, cache
<1>2. CASE \E f \in Files : Reset(f)
  <2>1. call'.got = << >> /\ Len(call'.got) = 0 /\ DOMAIN slot' = {} /\ result' = "none"
    BY <1>2 DEF Reset, NoCall
  <2>2. 1 .. Len(call'.got) = {}
    BY <2>1
  <2>3. Vouched'
    BY <1>1, <2>1, <2>2 DEF GInv, Vouched
  <2>4. QED
    BY <2>1, <2>3 DEF GInv, RefusesRightly
<1>3. CASE (\E o \in Int : Seek(o)) \/ (\E n \in 1 .. MaxRead : Read(n))
  <2>1. /\ call'.got = << >> /\ Len(call'.got) = 0 /\ result' \in {"none", "bad seek", "reading"}
        /\ UNCHANGED <<slot, file, size, failed>>
    <3>1. ASSUME NEW o \in Int, Seek(o)
          PROVE  /\ call' = NoCall /\ result' \in {"none", "bad seek"}
                 /\ UNCHANGED <<slot, file, size, failed>>
      BY <3>1 DEF Seek, cache
    <3>2. ASSUME NEW n \in 1 .. MaxRead, Read(n)
          PROVE  /\ call'.got = << >> /\ result' = "reading"
                 /\ UNCHANGED <<slot, file, size, failed>>
      BY <3>2 DEF Read, cache
    <3>3. NoCall.got = << >> /\ Len(<< >>) = 0
      BY DEF NoCall
    <3>4. QED
      BY <1>3, <3>1, <3>2, <3>3
  <2>2. 1 .. Len(call'.got) = {}
    <3>1. Len(call'.got) = 0
      BY <2>1
    <3>2. QED
      BY <3>1
  <2>3. Vouched'
    BY <1>1, <2>1, <2>2 DEF GInv, Vouched, Guarded
  <2>4. QED
    BY <2>1, <2>3 DEF GInv, RefusesRightly
<1>4. CASE UNCHANGED vars
  <2>1. UNCHANGED <<verdicts, signature, safe, file, size, slot, call, result, failed, failures>>
    BY <1>4 DEF vars, cache
  <2>2. Vouched'
    BY <2>1 DEF GInv, Vouched, Guarded
  <2>3. RefusesRightly'
    BY <2>1 DEF GInv, RefusesRightly
  <2>4. QED
    BY <2>2, <2>3 DEF GInv
<1>5. QED
  BY <1>2, <1>3, <1>4

\* A turn of the loop gets bytes of the offset's chunk.
LEMMA GotGuarded ==
  ASSUME GInv, IInv', result = "reading", Remaining > 0, NEW b \in Bytes, Deliver(b),
         UNCHANGED <<safe, file, size, failed>>, safe, ~failed,
         \A i \in 1..ChunkSize : Guarded(Chunk * ChunkSize + i)
  PROVE  \A i \in 1 .. Len(call'.got) : Guarded(call'.at + i)
<1> DEFINE k == Chunk * ChunkSize
<1>1. /\ size \in Nat /\ offset \in Nat /\ ChunkSize \in Nat
      /\ k \in Nat /\ k <= offset /\ offset < k + ChunkSize /\ (Chunk + 1) * ChunkSize = k + ChunkSize
  BY OffsetInFile, ChunkBounds, CacheAssumption DEF GInv, IInv, Chunk
<1>2. /\ offset = call.at + Len(call.got) /\ call.at \in Nat /\ Len(call.got) \in Nat
      /\ call.want \in Nat /\ Remaining \in Int
  <2>1. call.got \in Seq(Nat) /\ call.at \in Nat /\ call.want \in Nat
    BY DEF GInv, IInv, CacheTypes
  <2>2. QED
    BY <2>1, LenProperties DEF GInv, IInv, Progress, Remaining
<1>3. /\ offset' = call'.at + Len(call'.got) /\ call'.at = call.at
      /\ Len(call'.got) \in Nat
  <2>1. result' \in {"reading", "done", "eof"} /\ call'.at = call.at
    BY DEF Deliver, GInv, IInv, CacheTypes
  <2>2. call'.got \in Seq(Nat)
    BY DEF IInv, CacheTypes
  <2>3. QED
    BY <2>1, <2>2, LenProperties DEF IInv, Progress
<1>4. offset' <= k + ChunkSize
  <2>1. offset' = Smaller(offset + Remaining, ChunkEnd(Chunk)) /\ ChunkEnd(Chunk) = Smaller(k + ChunkSize, size)
    BY <1>1 DEF Deliver, ChunkEnd
  <2> HIDE DEF k
  <2>2. ChunkEnd(Chunk) \in Nat /\ ChunkEnd(Chunk) <= k + ChunkSize
    BY <1>1, <2>1 DEF Smaller
  <2>3. QED
    BY <1>1, <1>2, <2>1, <2>2 DEF Smaller
<1> HIDE DEF k
<1>5. ASSUME NEW i \in 1 .. Len(call'.got)
      PROVE  Guarded(call.at + i)
  <2>1. CASE i <= Len(call.got)
    <3>1. i \in 1 .. Len(call.got)
      BY <1>2, <2>1
    <3>2. QED
      BY <3>1 DEF GInv, Vouched
  <2>2. CASE ~(i <= Len(call.got))
    <3> DEFINE j == call.at + i - k
               a == call.at
               n == Len(call.got)
               m == Len(call'.got)
               s == ChunkSize
    <3>1. /\ a \in Nat /\ n \in Nat /\ m \in Nat /\ s \in Nat /\ k \in Nat
          /\ k <= a + n /\ a + m <= k + s
      BY <1>1, <1>2, <1>3, <1>4
    <3>2. i \in 1 .. m /\ ~(i <= n)
      BY <2>2
    <3> HIDE DEF a, n, m, s
    <3>3. a + i - k \in 1 .. s /\ k + (a + i - k) = a + i
      BY <3>1, <3>2
    <3>4. j \in 1..ChunkSize /\ k + j = call.at + i
      BY <3>3 DEF a, s
    <3>5. Guarded(k + j)
      BY <3>4 DEF k
    <3>6. QED
      BY <3>4, <3>5
  <2>3. QED
    BY <2>1, <2>2
<1>6. QED
  BY <1>3, <1>5

LEMMA HitGInv == ASSUME GInv, IInv', Hit PROVE GInv'
<1>1. /\ result = "reading" /\ Remaining > 0 /\ Chunk \in DOMAIN slot
      /\ Deliver(storage[slot[Chunk]]) /\ result' \in {"reading", "done", "eof"}
      /\ UNCHANGED <<verdicts, signature, safe, file, size, slot, failed, failures>>
  BY DEF Hit, Deliver
<1>2. PICK b \in Bytes : b = storage[slot[Chunk]]
  BY <1>1 DEF GInv, IInv, CacheTypes, CacheCoherent
<1>3. safe /\ ~failed => \A i \in 1 .. Len(call'.got) : Guarded(call'.at + i)
  BY <1>1, <1>2, GotGuarded DEF GInv, Vouched
<1>4. Vouched'
  BY <1>1, <1>3 DEF GInv, Vouched, Guarded
<1>5. QED
  BY <1>1, <1>4 DEF GInv, RefusesRightly

\* A read of the chunk that does not fail vouches for it.
LEMMA MissVouches ==
  ASSUME GInv, Miss, safe
  PROVE  \A i \in 1..ChunkSize : Guarded(Chunk * ChunkSize + i)
<1>1. TypeOK /\ Progress /\ result = "reading"
  BY DEF GInv, IInv, Miss, Missed
<1>2. Chunk \in Nat /\ Chunk * ChunkSize \in Nat /\ file \in Files /\ size = Len(Disk[file]) /\ size \in Nat
  BY <1>1, ChunkStart, OffsetInFile DEF Progress
<1> DEFINE k == Chunk * ChunkSize
           b == BlockOf(k)
<1>3. /\ b \in Nat /\ b * BlockSize \in Nat /\ b * BlockSize <= k
      /\ k + ChunkSize <= b * BlockSize + BlockSize /\ BlockSize \in Nat /\ ChunkSize \in Nat
  BY <1>2, ChunkInBlock, BlockAssumption, CacheAssumption
<1> SUFFICES ASSUME NEW i \in 1..ChunkSize, k + i <= size, k + i <= Len(Signed[file])
             PROVE  Disk[file][k + i] = Signed[file][k + i]
  BY DEF Guarded
<1>4. CASE BlockJudged(file, k, "valid")
  <2>1. Judge(file, b) = "valid"
    BY <1>1, <1>2, <1>4, JudgedRightly DEF GInv, Vouched
  <2> HIDE DEF b, k
  <2>2. k + i \in Nat /\ b * BlockSize < k + i /\ k + i <= b * BlockSize + BlockSize
    BY <1>2, <1>3 DEF k
  <2>3. QED
    BY <1>2, <1>3, <2>1, <2>2, ValidBlock
<1>5. CASE BlockEnds(file, k)
  <2>1. b * BlockSize >= size
    BY <1>2, <1>5 DEF BlockEnds, BlockMissing
  <2> HIDE DEF b, k
  <2>2. QED
    BY <1>2, <1>3, <2>1 DEF k
<1>6. QED
  BY <1>4, <1>5 DEF Miss

LEMMA MissGInv == ASSUME GInv, IInv', Miss PROVE GInv'
<1>1. /\ TypeOK /\ CacheTypes /\ CacheCoherent /\ Progress
      /\ result = "reading" /\ Remaining > 0 /\ Chunk \notin DOMAIN slot /\ Added(Chunk)
      /\ Deliver(storage'[slot'[Chunk]]) /\ result' \in {"reading", "done", "eof"}
      /\ UNCHANGED <<safe, file, size, failed, failures>>
  BY DEF GInv, IInv, Miss, Missed, Deliver
<1>2. Chunk \in Nat /\ Chunk * ChunkSize \in Nat /\ file \in Files
  BY <1>1, ChunkStart, OffsetInFile DEF Progress
<1>3. Chunk \in DOMAIN slot' /\ \A d \in DOMAIN slot' \ {Chunk} : d \in DOMAIN slot
  BY <1>1, <1>2, AddedCoherent
<1>4. PICK b \in Bytes : b = storage'[slot'[Chunk]]
  BY <1>3 DEF IInv, CacheTypes, CacheCoherent
<1>5. safe => \A i \in 1..ChunkSize : Guarded(Chunk * ChunkSize + i)
  BY MissVouches
<1>6. safe /\ ~failed => \A i \in 1 .. Len(call'.got) : Guarded(call'.at + i)
  BY <1>1, <1>4, <1>5, GotGuarded
<1>7. /\ \A c \in DOMAIN verdicts' : verdicts'[c] = Judge(c[1], c[2])
      /\ signature' = "failed" => signature = "failed"
  <2>1. CASE BlockJudged(file, Chunk * ChunkSize, "valid")
    BY <1>1, <1>2, <2>1, JudgedRightly DEF GInv, Vouched
  <2>2. CASE BlockEnds(file, Chunk * ChunkSize) \/ UNCHANGED <<verdicts, signature>>
    BY <2>2 DEF BlockEnds, SignatureOpens, GInv, Vouched
  <2>3. QED
    BY <2>1, <2>2 DEF Miss
<1>8. Vouched'
  <2>1. safe /\ ~failed => \A c \in DOMAIN slot' : \A i \in 1..ChunkSize : Guarded(c * ChunkSize + i)
    BY <1>3, <1>5 DEF GInv, Vouched
  <2>2. QED
    BY <1>1, <1>6, <1>7, <2>1 DEF GInv, Vouched, Guarded
<1>9. QED
  BY <1>1, <1>8 DEF GInv, RefusesRightly

\* A block found corrupt is one, or none: the call is past the end.
LEMMA CorruptReason ==
  ASSUME GInv, MissFails, BlockJudged(file, Chunk * ChunkSize, "corrupt"), Intact(file)
  PROVE  size % BlockSize = 0 /\ call.at + call.want > size
<1>1. TypeOK /\ CacheTypes /\ Progress /\ result = "reading" /\ Remaining > 0
  BY DEF GInv, IInv, MissFails, Missed
<1>2. Chunk \in Nat /\ Chunk * ChunkSize \in Nat /\ file \in Files /\ size = Len(Disk[file]) /\ size \in Nat
  BY <1>1, ChunkStart, OffsetInFile DEF Progress
<1> DEFINE k == Chunk * ChunkSize
           b == BlockOf(k)
<1>3. b \in Nat /\ b * BlockSize \in Nat /\ b * BlockSize <= k
  BY <1>2, ChunkInBlock
<1>4. Judge(file, b) = "corrupt"
  BY <1>1, <1>2, JudgedRightly DEF GInv, Vouched
<1>5. Len(Signed[file]) = size
  BY <1>2 DEF Intact
<1>6. ~(b < NumBlocks(size))
  BY <1>2, <1>3, <1>4, <1>5, IntactBlock
<1>7. ~(b * BlockSize < size) /\ (b * BlockSize = size => size % BlockSize = 0)
  BY <1>2, <1>3, <1>6, BlockSizes
<1>8. k <= offset /\ offset \in Nat /\ offset <= size
  BY <1>1, OffsetInFile, ChunkBounds, CacheAssumption DEF Chunk
<1> HIDE DEF b
<1>9. b * BlockSize = size /\ offset = size
  <2> HIDE DEF k
  <2>1. k \in Nat
    BY <1>2 DEF k
  <2>2. QED
    BY <1>2, <1>3, <1>7, <1>8, <2>1
<1>10. call.at + call.want > size
  <2>1. call.got \in Seq(Nat) /\ call.at \in Nat /\ call.want \in Nat
    BY <1>1 DEF CacheTypes
  <2>2. Len(call.got) \in Nat
    BY <2>1, LenProperties
  <2>3. offset = call.at + Len(call.got) /\ call.want - Len(call.got) > 0
    BY <1>1 DEF Progress, Remaining
  <2>4. QED
    BY <1>9, <2>1, <2>2, <2>3
<1>11. QED
  BY <1>7, <1>9, <1>10

LEMMA MissFailsGInv == ASSUME GInv, IInv', MissFails PROVE GInv'
<1>1. /\ TypeOK /\ Progress /\ result = "reading" /\ result' = "failed" /\ failed' = TRUE
      /\ UNCHANGED <<safe, file, size, call>>
  BY DEF GInv, IInv, MissFails, Missed
<1>2. Chunk \in Nat /\ Chunk * ChunkSize \in Nat /\ file \in Files /\ failures \in Nat
  BY <1>1, ChunkStart, OffsetInFile, CacheAssumption DEF Progress, TypeOK
<1>3. \A c \in DOMAIN verdicts' : verdicts'[c] = Judge(c[1], c[2])
  <2>1. CASE \E v : BlockJudged(file, Chunk * ChunkSize, v)
    BY <1>1, <1>2, <2>1, JudgedRightly DEF GInv, Vouched
  <2>2. CASE UNCHANGED verdicts
    BY <2>2 DEF GInv, Vouched
  <2>3. QED
    BY <2>1, <2>2 DEF MissFails, SignatureFails, BlockFails
<1>4. signature' = "failed" => failures' > 0
  <2>1. CASE failures' = failures + 1
    BY <1>2, <2>1
  <2>2. CASE failures' = failures
    <3>1. signature = "failed" \/ BlockJudged(file, Chunk * ChunkSize, "corrupt")
      BY <1>2, <2>2 DEF MissFails
    <3>2. signature' = "failed" => signature = "failed"
      BY <3>1 DEF BlockJudged, SignatureOpens
    <3>3. QED
      BY <2>2, <3>2 DEF GInv, Vouched
  <2>3. QED
    BY <2>1, <2>2 DEF MissFails
<1>5. Vouched'
  BY <1>1, <1>3, <1>4 DEF Vouched
<1>6. RefusesRightly'
  <2> SUFFICES ASSUME failures' = 0, Intact(file)
               PROVE  size % BlockSize = 0 /\ call.at + call.want > size
    BY <1>1 DEF RefusesRightly, Intact
  <2>1. failures' = failures /\ failures = 0
    BY <1>2 DEF MissFails
  <2>4. signature # "failed" /\ failures' # failures + 1
    <3>1. signature = "failed" => failures > 0
      BY DEF GInv, Vouched
    <3>2. QED
      BY <2>1, <3>1
  <2>2. BlockJudged(file, Chunk * ChunkSize, "corrupt")
    BY <2>4 DEF MissFails
  <2>3. QED
    BY <2>2, CorruptReason
<1>7. QED
  BY <1>5, <1>6 DEF GInv

LEMMA ReadsAreGuardedFollows == ASSUME GInv PROVE ReadsAreGuarded
<1>1. call.got \in Seq(Nat) /\ call.at \in Nat
  BY DEF GInv, IInv, CacheTypes
<1>2. DOMAIN call.got = 1..Len(call.got) /\ Len(call.got) \in Nat
  BY <1>1, LenProperties
<1>3. ASSUME safe, ~failed, NEW i \in DOMAIN call.got, call.at + i <= Len(Signed[file])
      PROVE  call.got[i] = Signed[file][call.at + i]
  <2>1. result \in {"reading", "done", "eof"}
    <3>1. result \notin {"none", "bad seek"}
      <4>1. Len(call.got) # 0
        BY <1>2
      <4>2. call.got # << >>
        BY <4>1
      <4>3. QED
        BY <4>2 DEF GInv, Vouched
    <3>2. result # "failed"
      BY <1>3 DEF GInv, Vouched
    <3>3. QED
      BY <3>1, <3>2 DEF GInv, IInv, TypeOK
  <2>2. call.got[i] = Disk[file][call.at + i]
    BY <1>2, <1>3, <2>1 DEF GInv, IInv, GotRight
  <2>3. call.at + i <= size
    <3>1. offset = call.at + Len(call.got) /\ offset <= size /\ size \in Nat
      BY <2>1, OffsetInFile DEF GInv, IInv, Progress
    <3>2. QED
      BY <1>1, <1>2, <3>1
  <2>4. QED
    BY <1>2, <1>3, <2>2, <2>3 DEF GInv, Vouched, Guarded
<1>4. QED
  BY <1>3 DEF GInv, RefusesRightly, ReadsAreGuarded

\* Through a safe keeper, no byte is handed out that differs from what was signed,
\* and no read of an intact file is refused, but at the very end of one of whole
\* blocks (safekeeper.go, validateBlock).
THEOREM ReadsAreGuardedHolds == Spec => []ReadsAreGuarded
<1>1. Init => GInv
  BY InitGInv
<1>2. GInv /\ IInv' /\ [Next]_vars => GInv'
  <2> SUFFICES ASSUME GInv, IInv', [Next]_vars PROVE GInv'
    OBVIOUS
  <2>1. size \in Nat
    BY OffsetInFile DEF GInv, IInv
  <2>2. (\E o \in -1 .. size + 1 : Seek(o)) => \E o \in Int : Seek(o)
    BY <2>1
  <2>3. QED
    BY <2>2, QuietGInv, HitGInv, MissGInv, MissFailsGInv DEF Next
<1>3. GInv => ReadsAreGuarded
  BY ReadsAreGuardedFollows
<1>4. QED
  BY <1>1, <1>2, <1>3, CacheInvariant, PTL DEF Spec
=============================================================================
