------------------------- MODULE ArchiveHealer_proofs -------------------------
(***************************************************************************)
(* Proofs about ArchiveHealer, for any container, target, archive, locks   *)
(* and capacity.  The target is healed through no link (Direct): what      *)
(* happens otherwise is shown by the run healer_through_link.              *)
(***************************************************************************)
EXTENDS ArchiveHealer, SequenceTheorems, TLAPS

Facts == INSTANCE SequenceFacts

WantedDirs == Kind(Wanted, "dir")
WantedLinks == Kind(Wanted, "link")
FileIndices == DOMAIN Files

Wounds ==
  [kind : {"dir"}, path : WantedDirs] \cup [kind : {"link"}, path : WantedLinks]
    \cup [kind : {"file"}, index : FileIndices]
    \cup [kind : {"closed"}, index : FileIndices, end : Nat]

TypeInv ==
  /\ tree \in Tree /\ WellFormed(tree) /\ Direct(tree)
  /\ locked \subseteq FileIndices
  /\ ctx \in {"live", "cancelled", "done"}
  /\ scanned \in 0 .. Len(Entries)
  /\ unsent \in Seq(Wounds)
  /\ wounds \in Seq(Wounds)
  /\ do \in {"receive", "process", "drain", "returned"}
  /\ do = "process" => wound \in Wounds
  /\ queued \subseteq FileIndices
  /\ queue \in Seq(queued)
  /\ healer \in [at : {"idle", "locked", "copy", "gone"}, file : FileIndices \cup {0}, copied : Nat]

\* The healing goroutine is at a file.
Busy == healer.at \in {"locked", "copy"}

\* The wounds Do has not processed yet.
Pending == Range(unsent) \cup Range(wounds) \cup (IF do = "process" THEN {wound} ELSE {})

\* The place of a file among the entries.
FileAt(i) == Len(Dirs) + Len(Symlinks) + i

\* Wounds come in the order of the entries: those of directories first.
IsDirWound(w) == w.kind = "dir"

DirsFirst ==
  /\ scanned <= Len(Dirs) => \A w \in Pending : IsDirWound(w)
  /\ scanned > Len(Dirs) => \A w \in Range(unsent) : ~IsDirWound(w)
  /\ \A j, k \in DOMAIN wounds : j < k /\ IsDirWound(wounds[k]) => IsDirWound(wounds[j])
  /\ do = "process" /\ ~IsDirWound(wound) => \A w \in Pending : ~IsDirWound(w)

DirsPlaced == \A p \in WantedDirs : tree[p] = Dir

\* A file is queued when the directories are in place.
PlacedBefore == queued # {} => DirsPlaced

\* Who still works on the file.
Queued(i) == i \in Range(queue) \/ (Busy /\ healer.file = i)

HealerInv ==
  /\ errs # << >> => healer.at = "gone" /\ errs \in {<<"nil">>, <<"failed">>, <<"cancelled">>}
  /\ Busy => /\ healer.file \in queued
             /\ healer.file \notin Range(queue)
  /\ \A j, k \in DOMAIN queue : queue[j] = queue[k] => j = k
  /\ healer.at = "locked" => healer.copied = 0
  /\ healer.at = "copy" =>
       /\ healer.file \notin locked
       /\ healer.copied \in 0 .. Size(healer.file)
       /\ DirsPlaced
       /\ tree[Files[healer.file]] = File(SubSeq(Data(healer.file), 1, healer.copied))

\* A file is wounded, or waits to be healed, only as it differs.
WoundedRightly ==
  \A i \in FileIndices :
    \/ FileWound(i) \in Pending /\ i \notin queued
    \/ i \in Range(queue)
    \/ healer.at = "locked" /\ healer.file = i
    => tree[Files[i]] # Wanted[Files[i]]

\* Only a file that was looked at is wounded or queued.
ScannedFirst ==
  \A i \in FileIndices : FileWound(i) \in Pending \/ i \in queued => FileAt(i) <= scanned

\* Do waits for the goroutine when all wounds are processed.
Drained == do = "drain" => scanned = Len(Entries) /\ unsent = << >> /\ wounds = << >>

\* A directory or link that was looked at is right, or its wound is on its way.
EntriesAccounted ==
  do # "returned" =>
    /\ \A k \in DOMAIN Dirs : k <= scanned =>
         tree[Dirs[k]] = Dir \/ EntryWound("dir", Dirs[k]) \in Pending
    /\ \A k \in DOMAIN Symlinks : Len(Dirs) + k <= scanned =>
         tree[Symlinks[k]] = Wanted[Symlinks[k]] \/ EntryWound("link", Symlinks[k]) \in Pending

\* So is a file, unless healing failed.
FilesAccounted ==
  do # "returned" /\ ctx = "live" =>
    /\ errs = <<"nil">> => do = "drain" /\ queue = << >>
    /\ healer.at = "gone" => errs # << >>
    /\ \A i \in FileIndices : FileAt(i) <= scanned =>
         \/ tree[Files[i]] = Wanted[Files[i]]
         \/ IF i \in queued THEN Queued(i) \/ errs \notin {<< >>, <<"nil">>}
            ELSE FileWound(i) \in Pending

AllRight == \A p \in Paths : Wanted[p] # None => tree[p] = Wanted[p]

\* Once Do has returned without an error nothing changes.
Ended ==
  /\ (ctx = "done") <=> (do = "returned" /\ ctx # "cancelled")
  /\ Succeeded => AllRight /\ healer.at = "gone"

IInv == TypeInv /\ DirsFirst /\ PlacedBefore /\ HealerInv /\ WoundedRightly
          /\ ScannedFirst /\ Drained /\ EntriesAccounted /\ FilesAccounted /\ Ended
-----------------------------------------------------------------------------
(* Sequences and nodes *)

LEMMA RangeOfAppend ==
  ASSUME NEW S, NEW s \in Seq(S), NEW e \in S
  PROVE  Range(Append(s, e)) = Range(s) \cup {e}
<1>1. Append(s, e) = s \o <<e>> /\ <<e>> \in Seq(S)
  BY AppendIsConcat
<1>2. Range(<<e>>) = {e}
  BY DEF Range
<1>3. Range(s \o <<e>>) = Range(s) \cup Range(<<e>>)
  BY <1>1, RangeConcatenation, ZenonT(60)
<1>4. QED
  BY <1>1, <1>2, <1>3

LEMMA RangeOfTail ==
  ASSUME NEW S, NEW s \in Seq(S), s # << >>
  PROVE  /\ Head(s) \in S /\ Tail(s) \in Seq(S)
         /\ Range(s) = Range(Tail(s)) \cup {Head(s)}
<1>1. /\ Head(s) \in S /\ Tail(s) \in Seq(S)
      /\ s = <<Head(s)>> \o Tail(s)
  OBVIOUS
<1>2. Range(<<Head(s)>>) = {Head(s)}
  BY DEF Range
<1>3. <<Head(s)>> \in Seq(S)
  BY <1>1
<1>4. Range(<<Head(s)>> \o Tail(s)) = Range(<<Head(s)>>) \cup Range(Tail(s))
  BY <1>1, <1>3, RangeConcatenation, ZenonT(60)
<1>5. QED
  BY <1>1, <1>2, <1>4

LEMMA NodeFacts ==
  ASSUME NEW n \in Node
  PROVE  /\ n.kind \in {"none", "dir", "link", "file"}
         /\ n.kind = "none" <=> n = None
         /\ n.kind = "dir" <=> n = Dir
         /\ n.kind = "link" => n = Link(n.to) /\ n.to \in Top
         /\ n.kind = "file" => n = File(n.data) /\ n.data \in Contents
BY DEF Node, None, Dir, Link, File

LEMMA PathFacts ==
  ASSUME NEW p \in Paths
  PROVE  \/ Len(p) = 1 /\ p[1] \in Top /\ p = <<p[1]>>
         \/ Len(p) = 2 /\ p[1] \in Top /\ p[2] \in Leaf /\ p = <<p[1], p[2]>> /\ <<p[1]>> \in Paths
<1>1. CASE p \in {<<n>> : n \in Top}
  BY <1>1
<1>2. CASE p \in Top \X Leaf
  <2>1. PICK n \in Top, l \in Leaf : p = <<n, l>>
    BY <1>2
  <2>2. QED
    BY <2>1 DEF Paths
<1>3. QED
  BY <1>1, <1>2 DEF Paths

LEMMA WantedNodes ==
  /\ WantedDirs \subseteq Paths /\ WantedLinks \subseteq Paths
  /\ \A p \in WantedDirs : Len(p) = 1 /\ p = <<p[1]>> /\ Wanted[p] = Dir
  /\ \A p \in WantedLinks : Len(p) = 1 /\ p = <<p[1]>> /\ Wanted[p] # Dir /\ Wanted[p].kind = "link"
<1>1. ASSUME NEW p \in Paths
      PROVE  Wanted[p] \in Node /\ Len(p) \in {1, 2}
  BY EntriesAssumption, PathFacts DEF Tree
<1>2. ASSUME NEW p \in Paths, Wanted[p].kind \in {"dir", "link"}
      PROVE  Len(p) = 1 /\ p = <<p[1]>>
  BY <1>1, <1>2, EntriesAssumption, PathFacts
<1>3. QED
  BY <1>1, <1>2, NodeFacts DEF WantedDirs, WantedLinks, Kind, Dir

LEMMA WantedFile ==
  ASSUME NEW i \in FileIndices
  PROVE  /\ Files[i] \in Paths /\ Files[i] \in Kind(Wanted, "file")
         /\ Wanted[Files[i]] = File(Data(i))
         /\ Data(i) \in Contents /\ Size(i) \in Nat
         /\ Files[i] \notin WantedDirs /\ Files[i] \notin WantedLinks
         /\ Len(Files[i]) = 2 => <<Files[i][1]>> \in WantedDirs
         /\ FileIndex(Files[i]) = i
<1>1. Files[i] \in Kind(Wanted, "file")
  BY EntriesAssumption DEF FileIndices
<1>2. Files[i] \in Paths /\ Wanted[Files[i]] \in Node /\ Wanted[Files[i]].kind = "file"
  BY <1>1, EntriesAssumption DEF Kind, Tree
<1>3. Wanted[Files[i]] = File(Data(i)) /\ Data(i) \in Contents
  BY <1>2, NodeFacts DEF Data
<1>4. Size(i) \in Nat
  BY <1>3 DEF Size, Contents
<1>5. Len(Files[i]) = 2 => <<Files[i][1]>> \in WantedDirs
  <2>1. Wanted[Files[i]] # None
    BY <1>3 DEF File, None
  <2>2. Len(Files[i]) = 2 => Wanted[<<Files[i][1]>>] = Dir /\ <<Files[i][1]>> \in Paths
    BY <1>2, <2>1, EntriesAssumption, PathFacts DEF WellFormed
  <2>3. QED
    BY <2>2 DEF WantedDirs, Kind, Dir
<1>6. FileIndex(Files[i]) = i
  BY EntriesAssumption DEF FileIndex, FileIndices
<1>7. QED
  BY <1>1, <1>2, <1>3, <1>4, <1>5, <1>6 DEF WantedDirs, WantedLinks, Kind

\* A file whose directory is no link is where its path says.
LEMMA FollowNoLink ==
  ASSUME NEW t \in Tree, NEW p \in Paths, t[p].kind # "link",
         Len(p) = 2 => t[<<p[1]>>].kind # "link"
  PROVE  Follow(t, p) = p /\ Entry(t, p) = p
<1>1. t[<<p[1]>>].kind # "link"
  BY PathFacts
<1>2. Resolve(t, p[1]) = p[1]
  BY <1>1 DEF Resolve, Hop
<1>3. Follow(t, p) = p
  BY <1>2, PathFacts DEF Follow
<1>4. QED
  BY <1>3 DEF Entry

\* Whatever a file's directory is, the file is found exactly when it is there, as itself.
LEMMA FileFound ==
  ASSUME NEW t \in Tree, WellFormed(t), Direct(t), NEW i \in FileIndices
  PROVE  LET p == Files[i] IN
         /\ t[Entry(t, p)].kind = "file" => Follow(t, p) = p /\ Entry(t, p) = p
         /\ t[Entry(t, p)].kind # "file" => t[p].kind # "file"
<1> DEFINE p == Files[i]
<1>1. p \in Paths /\ p \in Kind(Wanted, "file")
  BY WantedFile
<1>2. t[p].kind # "link"
  BY <1>1 DEF Direct
<1>3. CASE Len(p) = 2 /\ t[<<p[1]>>].kind = "link"
  <2>1. Entry(t, p) = Follow(t, p) /\ t[Follow(t, p)].kind # "file"
    BY <1>1, <1>3 DEF Direct, Entry
  <2>2. t[p] = None
    BY <1>1, <1>3 DEF WellFormed, Dir
  <2>3. QED
    BY <2>1, <2>2 DEF None
<1>4. CASE ~(Len(p) = 2 /\ t[<<p[1]>>].kind = "link")
  BY <1>1, <1>2, <1>4, FollowNoLink
<1>5. QED
  BY <1>3, <1>4
-----------------------------------------------------------------------------
(* What Validate sends for an entry *)

IsFileWound(w) == w.kind \in {"file", "closed"}

LEMMA WoundKinds ==
  /\ \A p \in WantedDirs : EntryWound("dir", p) \in Wounds /\ IsDirWound(EntryWound("dir", p))
  /\ \A p \in WantedLinks : EntryWound("link", p) \in Wounds /\ ~IsDirWound(EntryWound("link", p))
  /\ \A i \in FileIndices : FileWound(i) \in Wounds
  /\ \A i \in FileIndices, k \in Nat : ClosedFile(i, k) \in Wounds
  /\ \A i, j : FileWound(i) = FileWound(j) => i = j
  /\ \A i, j, k : ClosedFile(i, k) # FileWound(j)
  /\ \A i, k : IsFileWound(FileWound(i)) /\ IsFileWound(ClosedFile(i, k))
  /\ \A w : IsFileWound(w) => ~IsDirWound(w)
BY DEF EntryWound, FileWound, ClosedFile, Wounds, IsDirWound, IsFileWound

LEMMA BlockWoundsRight ==
  ASSUME NEW i \in FileIndices, NEW d \in Contents
  PROVE  /\ BlockWounds(i, d) \in Seq(Wounds)
         /\ Len(BlockWounds(i, d)) = Len(d)
         /\ \A w \in Range(BlockWounds(i, d)) :
              IsFileWound(w) /\ \A j : w = FileWound(j) => j = i
         /\ Len(d) = Size(i) => (FileWound(i) \in Range(BlockWounds(i, d)) <=> d # Data(i))
<1> DEFINE e(k) == IF k <= Size(i) /\ d[k] = Data(i)[k] THEN ClosedFile(i, k) ELSE FileWound(i)
           b == BlockWounds(i, d)
<1>1. Len(d) \in Nat /\ DOMAIN d = 1..Len(d)
  BY LenProperties DEF Contents
<1>2. b = [k \in 1..Len(d) |-> e(k)]
  BY <1>1 DEF BlockWounds
<1>3. \A k \in 1..Len(d) : e(k) \in Wounds /\ IsFileWound(e(k)) /\ \A j : e(k) = FileWound(j) => j = i
  BY <1>1, WoundKinds
<1>4. b \in Seq(Wounds) /\ Len(b) = Len(d) /\ DOMAIN b = 1..Len(d)
  <2> HIDE DEF e
  <2>1. [k \in 1..Len(d) |-> e(k)] \in Seq(Wounds)
    BY <1>1, <1>3, IsASeq
  <2>2. QED
    BY <1>1, <1>2, <2>1, LenProperties
<1>5. ASSUME NEW w \in Range(b)
      PROVE  IsFileWound(w) /\ \A j : w = FileWound(j) => j = i
  <2>1. PICK k \in 1..Len(d) : w = e(k)
    BY <1>2, <1>4 DEF Range
  <2>2. QED
    BY <1>3, <2>1
<1>6. ASSUME Len(d) = Size(i)
      PROVE  FileWound(i) \in Range(b) <=> d # Data(i)
  <2>1. d \in Seq(Chunk) /\ Data(i) \in Seq(Chunk) /\ Len(Data(i)) = Len(d)
    BY <1>6, WantedFile DEF Contents, Size
  <2>2. d # Data(i) <=> \E k \in 1..Len(d) : d[k] # Data(i)[k]
    BY <2>1, SeqEqual
  <2>3. \A k \in 1..Len(d) : d[k] # Data(i)[k] <=> e(k) = FileWound(i)
    BY <1>6, <1>1, WoundKinds
  <2>4. FileWound(i) \in Range(b) <=> \E k \in 1..Len(d) : e(k) = FileWound(i)
    BY <1>2, <1>4 DEF Range
  <2>5. QED
    BY <2>2, <2>3, <2>4
<1>7. QED
  BY <1>4, <1>5, <1>6

LEMMA InsertRight ==
  ASSUME NEW S, NEW s \in Seq(S), NEW e \in S, NEW k \in 1 .. Len(s) + 1
  PROVE  /\ Seqs!InsertAt(s, k, e) \in Seq(S)
         /\ Range(Seqs!InsertAt(s, k, e)) = Range(s) \cup {e}
<1> DEFINE front == SubSeq(s, 1, k - 1)
           back == SubSeq(s, k, Len(s))
<1>1. /\ Len(s) \in Nat /\ DOMAIN s = 1..Len(s)
      /\ \A j \in 1..Len(s) : s[j] \in S
  BY LenProperties, ElementOfSeq
<1>2. /\ front \in Seq(S) /\ DOMAIN front = 1 .. k - 1
      /\ \A j \in 1 .. k - 1 : front[j] = s[j]
  <2>1. \A j \in 1 .. k - 1 : s[j] \in S
    BY <1>1
  <2>2. QED
    BY <1>1, <2>1, SubSeqProperties
<1>3. /\ back \in Seq(S) /\ DOMAIN back = 1 .. Len(s) - k + 1
      /\ \A j \in 1 .. Len(s) - k + 1 : back[j] = s[k + j - 1]
  <2>1. \A j \in k .. Len(s) : s[j] \in S
    BY <1>1
  <2>2. QED
    BY <1>1, <2>1, SubSeqProperties, SMTT(60)
<1> HIDE DEF front, back
<1>4. Range(front) \cup Range(back) = Range(s)
  <2>1. Range(front) \subseteq Range(s) /\ Range(back) \subseteq Range(s)
    <3>1. \A j \in DOMAIN front : front[j] = s[j] /\ j \in DOMAIN s
      BY <1>1, <1>2
    <3>2. \A j \in DOMAIN back : back[j] = s[k + j - 1] /\ k + j - 1 \in DOMAIN s
      BY <1>1, <1>3, SMTT(60)
    <3>3. QED
      BY <3>1, <3>2 DEF Range
  <2>2. ASSUME NEW j \in 1..Len(s)
        PROVE  s[j] \in Range(front) \cup Range(back)
    <3>1. CASE j < k
      BY <1>2, <3>1 DEF Range
    <3>2. CASE j >= k
      <4>1. j - k + 1 \in 1 .. Len(s) - k + 1 /\ s[k + (j - k + 1) - 1] = s[j]
        BY <1>1, <3>2
      <4>2. j - k + 1 \in DOMAIN back /\ back[j - k + 1] = s[j]
        BY <1>3, <4>1
      <4>3. QED
        BY <4>2 DEF Range
    <3>3. QED
      BY <1>1, <3>1, <3>2
  <2>3. QED
    BY <1>1, <2>1, <2>2 DEF Range
<1>5. <<e>> \in Seq(S) /\ Range(<<e>>) = {e}
  BY DEF Range
<1>6. front \o <<e>> \in Seq(S) /\ Range(front \o <<e>>) = Range(front) \cup {e}
  <2>1. front \in Seq(S) /\ <<e>> \in Seq(S)
    BY <1>2, <1>5
  <2>2. Range(front \o <<e>>) = Range(front) \cup Range(<<e>>)
    BY <2>1, RangeConcatenation, ZenonT(60)
  <2>3. QED
    BY <1>5, <2>1, <2>2
<1>7. /\ (front \o <<e>>) \o back \in Seq(S)
      /\ Range((front \o <<e>>) \o back) = (Range(front) \cup {e}) \cup Range(back)
  <2> DEFINE most == front \o <<e>>
  <2>1. most \in Seq(S) /\ back \in Seq(S)
    BY <1>3, <1>6
  <2> HIDE DEF most
  <2>2. Range(most \o back) = Range(most) \cup Range(back) /\ most \o back \in Seq(S)
    BY <2>1, RangeConcatenation
  <2>3. QED
    BY <1>6, <2>2 DEF most
<1>8. QED
  BY <1>4, <1>7 DEF Seqs!InsertAt, front, back

LEMMA InspectFile ==
  ASSUME TypeInv, NEW i \in FileIndices, NEW u \in Inspect(Files[i])
  PROVE  /\ u \in Seq(Wounds)
         /\ \A w \in Range(u) : IsFileWound(w) /\ \A j : w = FileWound(j) => j = i
         /\ FileWound(i) \in Range(u) <=> tree[Files[i]] # Wanted[Files[i]]
<1> DEFINE p == Files[i]
<1>1. /\ p \in Paths /\ Wanted[p] = File(Data(i)) /\ FileIndex(p) = i
      /\ Data(i) \in Contents /\ Size(i) \in Nat
  BY WantedFile
<1>2. tree \in Tree /\ tree[p] \in Node
  BY <1>1 DEF TypeInv, Tree
<1>3. u \in IF tree[Entry(tree, p)].kind = "file" THEN WoundsOf(i, Read(tree, p)) ELSE {<<FileWound(i)>>}
  BY <1>1 DEF Inspect, File, Dir
<1>4. CASE tree[Entry(tree, p)].kind # "file"
  <2>1. u = <<FileWound(i)>>
    BY <1>3, <1>4
  <2>2. u \in Seq(Wounds) /\ Range(u) = {FileWound(i)}
    BY <2>1, WoundKinds DEF Range
  <2>3. tree[p] # Wanted[p]
    BY <1>1, <1>4, FileFound DEF TypeInv, File
  <2>4. IsFileWound(FileWound(i)) /\ \A j : FileWound(i) = FileWound(j) => i = j
    BY WoundKinds
  <2>5. \A w \in Range(u) : IsFileWound(w) /\ \A j : w = FileWound(j) => j = i
    BY <2>2, <2>4, Zenon
  <2>6. FileWound(i) \in Range(u) /\ tree[Files[i]] # Wanted[Files[i]]
    BY <2>2, <2>3
  <2>7. QED
    BY <2>2, <2>5, <2>6, Zenon
<1>5. CASE tree[Entry(tree, p)].kind = "file"
  <2> DEFINE d == Read(tree, p)
  <2>1. Entry(tree, p) = p /\ Follow(tree, p) = p
    BY <1>5, FileFound DEF TypeInv
  <2>2. tree[p] = File(d) /\ d \in Contents
    BY <1>2, <1>5, <2>1, NodeFacts DEF Read
  <2>3. tree[p] # Wanted[p] <=> d # Data(i)
    BY <1>1, <2>2 DEF File
  <2>4. u \in WoundsOf(i, d)
    BY <1>3, <1>5
  <2> HIDE DEF d
  <2>5. CASE Len(d) = Size(i)
    <3>1. u = BlockWounds(i, d)
      BY <2>4, <2>5 DEF WoundsOf
    <3>2. QED
      BY <2>2, <2>3, <2>5, <3>1, BlockWoundsRight
  <2>6. CASE Len(d) # Size(i)
    <3>1. PICK k \in 1 .. Len(d) + 1 : u = Seqs!InsertAt(BlockWounds(i, d), k, FileWound(i))
      BY <2>4, <2>6 DEF WoundsOf
    <3>2. u \in Seq(Wounds) /\ Range(u) = Range(BlockWounds(i, d)) \cup {FileWound(i)}
      BY <2>2, <3>1, BlockWoundsRight, InsertRight, WoundKinds, SMTT(60)
    <3>3. d # Data(i)
      BY <2>6 DEF Size
    <3>4. QED
      BY <2>2, <2>3, <3>2, <3>3, BlockWoundsRight, WoundKinds
  <2>7. QED
    BY <2>5, <2>6
<1>6. QED
  BY <1>4, <1>5
-----------------------------------------------------------------------------
(* What the target becomes *)

LEMMA DirHealed ==
  ASSUME TypeInv, NEW p \in WantedDirs, tree' = [tree EXCEPT ![p] = Dir]
  PROVE  /\ tree' \in Tree /\ WellFormed(tree') /\ Direct(tree')
         /\ tree'[p] = Dir
         /\ \A q \in Paths : q # p => tree'[q] = tree[q]
<1>1. p \in Paths /\ Len(p) = 1 /\ p = <<p[1]>>
  BY WantedNodes
<1>2. tree \in Tree /\ WellFormed(tree) /\ Direct(tree)
  BY DEF TypeInv
<1>3. /\ tree' \in Tree /\ tree'[p] = Dir
      /\ \A q \in Paths : q # p => tree'[q] = tree[q]
  BY <1>1, <1>2 DEF Tree, Node
<1>4. WellFormed(tree')
  BY <1>1, <1>2, <1>3, PathFacts DEF WellFormed
<1>5. ASSUME NEW f \in Kind(Wanted, "file")
      PROVE  tree'[f].kind # "link"
  <2>1. f \in Paths /\ tree[f].kind # "link" /\ Dir.kind # "link"
    BY <1>2 DEF Direct, Dir, Kind
  <2>2. QED
    BY <1>3, <2>1
<1>6. ASSUME NEW f \in Kind(Wanted, "file"), Len(f) = 2, tree'[<<f[1]>>].kind = "link"
      PROVE  tree'[Follow(tree', f)].kind # "file"
  <2>1. /\ f \in Paths /\ f[1] \in Top /\ f[2] \in Leaf /\ f = <<f[1], f[2]>>
        /\ <<f[1]>> \in Paths
    BY <1>6, PathFacts DEF Kind
  <2>2. /\ <<f[1]>> # p /\ tree[<<f[1]>>] = tree'[<<f[1]>>] /\ tree[Follow(tree, f)].kind # "file"
    BY <1>2, <1>3, <1>6, <2>1 DEF Direct, Dir
  <2> DEFINE b == tree[<<f[1]>>].to
  <2>3. b \in Top /\ Hop(tree, f[1]) = b /\ Hop(tree', f[1]) = b /\ <<b>> \in Paths
    <3>1. tree[<<f[1]>>] \in Node /\ tree[<<f[1]>>].kind = "link"
      BY <1>2, <1>6, <2>1, <2>2 DEF Tree
    <3>2. QED
      BY <1>6, <2>2, <3>1, NodeFacts DEF Hop, Paths
  <2> HIDE DEF b
  <2>4. /\ Follow(tree, f) = <<Hop(tree, b), f[2]>>
        /\ Follow(tree', f) = <<Hop(tree', b), f[2]>>
    BY <2>1, <2>3 DEF Follow, Resolve
  <2>5. CASE <<b>> # p
    <3>1. Hop(tree', b) = Hop(tree, b) /\ Hop(tree, b) \in Top
      <4>1. tree'[<<b>>] = tree[<<b>>] /\ tree[<<b>>] \in Node
        BY <1>2, <1>3, <2>3, <2>5 DEF Tree
      <4>2. QED
        BY <2>3, <4>1, NodeFacts DEF Hop
    <3>2. Follow(tree', f) \in Paths /\ Follow(tree', f) # p
      BY <1>1, <2>1, <2>4, <3>1 DEF Paths
    <3>3. QED
      BY <1>3, <2>2, <2>4, <3>1, <3>2
  <2>6. CASE <<b>> = p
    <3>1. Hop(tree', b) = b
      BY <1>3, <2>6 DEF Hop, Dir
    <3>2. <<b, f[2]>> \in Paths /\ <<b, f[2]>> # p /\ Len(<<b, f[2]>>) = 2 /\ <<b, f[2]>>[1] = b
      BY <1>1, <2>1, <2>3 DEF Paths
    <3>3. CASE tree[p] = Dir
      <4>1. tree'[<<b>>] = tree[<<b>>]
        BY <1>3, <2>6, <3>3
      <4>2. QED
        BY <1>3, <2>2, <2>4, <3>1, <3>2, <4>1 DEF Hop
    <3>4. CASE tree[p] # Dir
      <4>1. tree[<<b, f[2]>>] = None
        BY <1>2, <2>6, <3>2, <3>4 DEF WellFormed
      <4>2. QED
        BY <1>3, <2>4, <3>1, <3>2, <4>1 DEF None
    <3>5. QED
      BY <3>3, <3>4
  <2>7. QED
    BY <2>5, <2>6
<1>7. QED
  BY <1>3, <1>4, <1>5, <1>6 DEF Direct

\* With the directories in place, no file is reached through a link.
LEMMA PlacedIsDirect ==
  ASSUME NEW t \in Tree, \A p \in WantedDirs : t[p] = Dir,
         \A f \in Kind(Wanted, "file") : t[f].kind # "link"
  PROVE  Direct(t)
<1>1. ASSUME NEW f \in Kind(Wanted, "file"), Len(f) = 2
      PROVE  t[<<f[1]>>].kind # "link"
  <2>1. PICK i \in FileIndices : Files[i] = f
    BY EntriesAssumption DEF Range, FileIndices
  <2>2. t[<<f[1]>>] = Dir
    BY <1>1, <2>1, WantedFile
  <2>3. QED
    BY <2>2 DEF Dir
<1>2. QED
  BY <1>1 DEF Direct

LEMMA LinkHealed ==
  ASSUME TypeInv, DirsPlaced, NEW p \in WantedLinks,
         tree' = [RemoveAll(tree, p) EXCEPT ![p] = Wanted[p]]
  PROVE  /\ tree' \in Tree /\ WellFormed(tree') /\ Direct(tree')
         /\ tree'[p] = Wanted[p]
         /\ \A q \in Paths : q # p /\ Wanted[q] # None => tree'[q] = tree[q]
<1>1. p \in Paths /\ Len(p) = 1 /\ p = <<p[1]>> /\ Wanted[p] # Dir /\ Wanted[p] \in Node
  BY WantedNodes, EntriesAssumption DEF Tree
<1>2. tree \in Tree /\ WellFormed(tree) /\ Direct(tree)
  BY DEF TypeInv
<1>3. /\ tree' \in [Paths -> Node] /\ tree'[p] = Wanted[p]
      /\ \A q \in Paths : q # p => tree'[q] = IF q \in Inside(p) THEN None ELSE tree[q]
  BY <1>1, <1>2 DEF Tree, RemoveAll, Node
<1>4. ASSUME NEW q \in Paths, q # p, Wanted[q] # None
      PROVE  tree'[q] = tree[q]
  <2>1. q \notin Inside(p)
    BY <1>1, <1>4, EntriesAssumption DEF Inside, WellFormed
  <2>2. QED
    BY <1>3, <1>4, <2>1
<1>5. WellFormed(tree')
  <2> SUFFICES ASSUME NEW q \in Paths, Len(q) = 2, tree'[q] # None
               PROVE  tree'[<<q[1]>>] = Dir
    BY DEF WellFormed
  <2>1. q # p /\ q \notin Inside(p) /\ tree[q] # None
    BY <1>1, <1>3
  <2>2. q[1] # p[1] /\ <<q[1]>> \in Paths
    BY <1>1, <2>1, PathFacts DEF Inside
  <2>3. <<q[1]>> # p /\ <<q[1]>> \notin Inside(p)
    BY <1>1, <2>2 DEF Inside
  <2>4. tree[<<q[1]>>] = Dir
    BY <1>2, <2>1 DEF WellFormed
  <2>5. QED
    BY <1>3, <2>2, <2>3, <2>4
<1>6. \A q \in WantedDirs : tree'[q] = Dir
  BY <1>1, <1>4, WantedNodes DEF DirsPlaced, Dir, None
<1>7. \A f \in Kind(Wanted, "file") : tree'[f].kind # "link"
  <2> SUFFICES ASSUME NEW f \in Kind(Wanted, "file") PROVE tree'[f].kind # "link"
    OBVIOUS
  <2>1. f \in Paths /\ Wanted[f] # None /\ f # p
    BY WantedNodes DEF Kind, None
  <2>2. QED
    BY <1>2, <1>4, <2>1 DEF Direct
<1>8. QED
  BY <1>3, <1>4, <1>5, <1>6, <1>7, PlacedIsDirect DEF Tree

LEMMA FileWritten ==
  ASSUME TypeInv, DirsPlaced, NEW i \in FileIndices, NEW d \in Contents,
         tree[Files[i]].kind \in {"none", "file"},
         tree' = [tree EXCEPT ![Files[i]] = File(d)]
  PROVE  /\ tree' \in Tree /\ WellFormed(tree') /\ Direct(tree')
         /\ tree'[Files[i]] = File(d)
         /\ \A q \in Paths : q # Files[i] => tree'[q] = tree[q]
<1> DEFINE p == Files[i]
<1>1. p \in Paths /\ p \notin WantedDirs /\ p \in Kind(Wanted, "file")
  BY WantedFile
<1>2. tree \in Tree /\ WellFormed(tree) /\ Direct(tree)
  BY DEF TypeInv
<1>3. /\ tree' \in Tree /\ tree'[p] = File(d)
      /\ \A q \in Paths : q # p => tree'[q] = tree[q]
  BY <1>1, <1>2 DEF Tree, Node, File
<1>4. WellFormed(tree')
  <2> SUFFICES ASSUME NEW q \in Paths, Len(q) = 2, tree'[q] # None
               PROVE  tree'[<<q[1]>>] = Dir
    BY DEF WellFormed
  <2>1. <<q[1]>> \in Paths /\ Len(<<q[1]>>) = 1
    BY PathFacts
  <2>2. CASE q = p
    <3>1. <<q[1]>> \in WantedDirs
      BY <2>2, WantedFile
    <3>2. QED
      BY <1>1, <1>3, <2>1, <3>1 DEF DirsPlaced
  <2>3. CASE q # p
    <3>1. tree[<<q[1]>>] = Dir
      BY <1>2, <1>3, <2>3 DEF WellFormed
    <3>2. <<q[1]>> # p
      BY <3>1 DEF Dir
    <3>3. QED
      BY <1>3, <2>1, <3>1, <3>2
  <2>4. QED
    BY <2>2, <2>3
<1>5. \A q \in WantedDirs : tree'[q] = Dir
  BY <1>1, <1>3, WantedNodes DEF DirsPlaced
<1>6. ASSUME NEW f \in Kind(Wanted, "file")
      PROVE  tree'[f].kind # "link"
  <2>1. f \in Paths /\ tree[f].kind # "link" /\ File(d).kind # "link"
    BY <1>2 DEF Direct, File, Kind
  <2>2. QED
    BY <1>3, <2>1
<1>7. QED
  BY <1>3, <1>4, <1>5, <1>6, PlacedIsDirect

\* With the directories in place, a file's path reaches the file itself.
LEMMA PathReaches ==
  ASSUME TypeInv, DirsPlaced, NEW i \in FileIndices
  PROVE  /\ Follow(tree, Files[i]) = Files[i]
         /\ MkdirFor(tree, Files[i]) = tree
<1>1. Files[i] \in Paths /\ Files[i] \in Kind(Wanted, "file")
  BY WantedFile
<1>2. tree[Files[i]].kind # "link"
  BY <1>1 DEF TypeInv, Direct
<1>3. Len(Files[i]) = 2 => tree[<<Files[i][1]>>] = Dir
  BY WantedFile DEF DirsPlaced
<1>4. Follow(tree, Files[i]) = Files[i]
  BY <1>1, <1>2, <1>3, FollowNoLink DEF TypeInv, Dir
<1>5. QED
  BY <1>3, <1>4 DEF MkdirFor, Dir, None
-----------------------------------------------------------------------------
(* The invariant: Validate *)

LEMMA InitIInv == ASSUME \A t \in Disks : Direct(t), Init PROVE IInv
<1>1. Pending = {} /\ Range(unsent) = {} /\ Range(wounds) = {} /\ Range(queue) = {}
  BY DEF Init, Pending, Range
<1>2. Len(Entries) \in Nat /\ Len(Dirs) \in Nat /\ Len(Symlinks) \in Nat /\ DOMAIN Files \subseteq Nat \ {0}
      /\ DOMAIN Dirs \subseteq Nat \ {0} /\ DOMAIN Symlinks \subseteq Nat \ {0}
  BY EntriesAssumption DEF Entries
<1>3. TypeInv
  <2>1. tree \in Tree /\ WellFormed(tree) /\ Direct(tree) /\ locked \subseteq FileIndices
    BY TargetAssumption DEF Init, FileIndices
  <2>2. unsent \in Seq(Wounds) /\ wounds \in Seq(Wounds) /\ queue \in Seq(queued)
    BY EmptySeq DEF Init
  <2>3. healer \in [at : {"idle", "locked", "copy", "gone"}, file : FileIndices \cup {0}, copied : Nat]
    BY DEF Init, Idle
  <2>4. QED
    BY <1>2, <2>1, <2>2, <2>3 DEF Init, TypeInv
<1>4. DirsFirst /\ PlacedBefore /\ HealerInv
  BY <1>1 DEF Init, DirsFirst, PlacedBefore, HealerInv, Idle, Busy
<1>5. WoundedRightly /\ ScannedFirst /\ Drained
  BY <1>1 DEF Init, WoundedRightly, ScannedFirst, Drained, Idle
<1>6. EntriesAccounted /\ FilesAccounted /\ Ended
  BY <1>2 DEF Init, EntriesAccounted, FilesAccounted, Ended, Idle, FileAt, Succeeded, FileIndices
<1>7. QED
  BY <1>3, <1>4, <1>5, <1>6 DEF IInv

LEMMA EntryKinds ==
  ASSUME NEW k \in 1 .. Len(Entries)
  PROVE  /\ k <= Len(Dirs) => Entries[k] = Dirs[k] /\ Dirs[k] \in WantedDirs
         /\ k > Len(Dirs) /\ k <= Len(Dirs) + Len(Symlinks) =>
              Entries[k] = Symlinks[k - Len(Dirs)] /\ Symlinks[k - Len(Dirs)] \in WantedLinks
         /\ k > Len(Dirs) + Len(Symlinks) =>
              LET i == k - Len(Dirs) - Len(Symlinks) IN
              i \in FileIndices /\ FileAt(i) = k /\ Entries[k] = Files[i]
<1>1. /\ Dirs \in Seq(Paths) /\ Symlinks \in Seq(Paths) /\ Files \in Seq(Paths)
  BY EntriesAssumption DEF Kind
<1>2. /\ Dirs \o Symlinks \in Seq(Paths) /\ Len(Dirs \o Symlinks) = Len(Dirs) + Len(Symlinks)
      /\ Len(Entries) = Len(Dirs) + Len(Symlinks) + Len(Files)
      /\ Len(Dirs) \in Nat /\ Len(Symlinks) \in Nat /\ Len(Files) \in Nat
      /\ DOMAIN Dirs = 1..Len(Dirs) /\ DOMAIN Symlinks = 1..Len(Symlinks) /\ DOMAIN Files = 1..Len(Files)
  BY <1>1 DEF Entries
<1>3. Entries[k] = IF k <= Len(Dirs) + Len(Symlinks) THEN (Dirs \o Symlinks)[k]
                   ELSE Files[k - (Len(Dirs) + Len(Symlinks))]
  BY <1>1, <1>2, ConcatProperties DEF Entries
<1>4. k <= Len(Dirs) + Len(Symlinks) =>
        (Dirs \o Symlinks)[k] = IF k <= Len(Dirs) THEN Dirs[k] ELSE Symlinks[k - Len(Dirs)]
  BY <1>1, <1>2, ConcatProperties
<1>5. \A j \in 1..Len(Dirs) : Dirs[j] \in WantedDirs
  BY EntriesAssumption, <1>2 DEF WantedDirs
<1>6. \A j \in 1..Len(Symlinks) : Symlinks[j] \in WantedLinks
  BY EntriesAssumption, <1>2 DEF WantedLinks
<1>7. QED
  BY <1>2, <1>3, <1>4, <1>5, <1>6, SMTT(60) DEF FileAt, FileIndices

\* What Validate sends for the entries of each kind.
LEMMA InspectEntry ==
  ASSUME TypeInv, NEW k \in 1 .. Len(Entries), NEW u \in Inspect(Entries[k])
  PROVE  /\ u \in Seq(Wounds)
         /\ k <= Len(Dirs) =>
              /\ \A w \in Range(u) : IsDirWound(w)
              /\ tree[Dirs[k]] = Dir \/ EntryWound("dir", Dirs[k]) \in Range(u)
         /\ k > Len(Dirs) => \A w \in Range(u) : ~IsDirWound(w)
         /\ k > Len(Dirs) /\ k <= Len(Dirs) + Len(Symlinks) =>
              LET p == Symlinks[k - Len(Dirs)] IN
              tree[p] = Wanted[p] \/ EntryWound("link", p) \in Range(u)
         /\ \A i : FileWound(i) \in Range(u) => FileAt(i) = k /\ tree[Files[i]] # Wanted[Files[i]]
         /\ \A i \in FileIndices : FileAt(i) = k =>
              tree[Files[i]] = Wanted[Files[i]] \/ FileWound(i) \in Range(u)
<1>1. /\ Len(Dirs) \in Nat /\ Len(Symlinks) \in Nat /\ FileIndices \subseteq Nat \ {0}
  BY EntriesAssumption DEF FileIndices
<1>2. CASE k <= Len(Dirs)
  <2> DEFINE p == Dirs[k]
  <2>1. Entries[k] = p /\ p \in WantedDirs /\ Wanted[p] = Dir
    BY <1>2, EntryKinds, WantedNodes
  <2>2. u = IF tree[p] = Dir THEN << >> ELSE <<EntryWound("dir", p)>>
    BY <2>1 DEF Inspect, Dir
  <2>3. u \in Seq(Wounds) /\ Range(u) = IF tree[p] = Dir THEN {} ELSE {EntryWound("dir", p)}
    BY <2>1, <2>2, WoundKinds DEF Range
  <2>4. \A i : FileWound(i) # EntryWound("dir", p)
    BY DEF FileWound, EntryWound
  <2>5. \A i \in FileIndices : FileAt(i) # k
    BY <1>1, <1>2 DEF FileAt
  <2>6. QED
    BY <1>1, <1>2, <2>1, <2>3, <2>4, <2>5, WoundKinds
<1>3. CASE k > Len(Dirs) /\ k <= Len(Dirs) + Len(Symlinks)
  <2> DEFINE p == Symlinks[k - Len(Dirs)]
  <2>1. Entries[k] = p /\ p \in WantedLinks /\ Wanted[p] # Dir /\ Wanted[p].kind = "link"
    BY <1>3, EntryKinds, WantedNodes
  <2>2. u = IF tree[p] = Wanted[p] THEN << >> ELSE <<EntryWound("link", p)>>
    BY <2>1 DEF Inspect
  <2>3. u \in Seq(Wounds) /\ Range(u) = IF tree[p] = Wanted[p] THEN {} ELSE {EntryWound("link", p)}
    BY <2>1, <2>2, WoundKinds DEF Range
  <2>4. \A i : FileWound(i) # EntryWound("link", p)
    BY DEF FileWound, EntryWound
  <2>5. \A i \in FileIndices : FileAt(i) # k
    BY <1>1, <1>3 DEF FileAt
  <2>6. QED
    BY <1>1, <1>3, <2>1, <2>3, <2>4, <2>5, WoundKinds
<1>4. CASE k > Len(Dirs) + Len(Symlinks)
  <2>1. PICK i \in FileIndices : FileAt(i) = k /\ Entries[k] = Files[i]
    BY <1>4, EntryKinds
  <2>2. \A j \in FileIndices : FileAt(j) = k => j = i
    BY <1>1, <2>1 DEF FileAt
  <2>3. /\ u \in Seq(Wounds)
        /\ \A w \in Range(u) : IsFileWound(w) /\ \A j : w = FileWound(j) => j = i
        /\ FileWound(i) \in Range(u) <=> tree[Files[i]] # Wanted[Files[i]]
    BY <2>1, InspectFile
  <2>4. QED
    BY <1>1, <1>4, <2>1, <2>2, <2>3, WoundKinds
<1>5. QED
  BY <1>1, <1>2, <1>3, <1>4

LEMMA ScanIInv == ASSUME IInv, Scan PROVE IInv'
<1> DEFINE k == scanned + 1
           u == unsent'
<1>1. /\ k \in 1 .. Len(Entries) /\ scanned' = k /\ u \in Inspect(Entries[k])
      /\ scanned \in Nat /\ Len(Dirs) \in Nat /\ Len(Symlinks) \in Nat
  BY EntriesAssumption, SMTT(60) DEF IInv, TypeInv, Scan, Entries
<1>2. TypeInv
  BY DEF IInv
<1>3. u \in Seq(Wounds)
  BY <1>1, <1>2, InspectEntry
<1>4. Pending' = Pending \cup Range(u)
  <2>1. Range(unsent) = {}
    BY DEF Scan, Range
  <2>2. QED
    BY <2>1 DEF Scan, Pending, doing
<1>5. TypeInv'
  BY <1>1, <1>2, <1>3 DEF TypeInv, Scan, doing
<1>6. DirsFirst'
  <2>1. CASE k <= Len(Dirs)
    <3>1. \A w \in Range(u) : IsDirWound(w)
      BY <1>1, <1>2, <2>1, InspectEntry
    <3>2. \A w \in Pending : IsDirWound(w)
      BY <1>1, <2>1 DEF IInv, DirsFirst
    <3>3. do = "process" => wound \in Pending
      BY DEF Pending
    <3>4. QED
      BY <1>1, <1>4, <2>1, <3>1, <3>2, <3>3 DEF IInv, DirsFirst, Scan, doing
  <2>2. CASE k > Len(Dirs)
    <3>1. \A w \in Range(u) : ~IsDirWound(w)
      BY <1>1, <1>2, <2>2, InspectEntry
    <3>2. QED
      BY <1>1, <1>4, <2>2, <3>1 DEF IInv, DirsFirst, Scan, doing
  <2>3. QED
    BY <1>1, <2>1, <2>2
<1>7. (PlacedBefore /\ HealerInv)'
  BY DEF IInv, PlacedBefore, DirsPlaced, HealerInv, Busy, Scan, doing
<1>8. WoundedRightly'
  BY <1>1, <1>2, <1>4, InspectEntry DEF IInv, WoundedRightly, Scan, doing
<1>9. (ScannedFirst /\ Drained)'
  <2>1. \A i \in FileIndices : FileAt(i) \in Nat
    BY <1>1, EntriesAssumption DEF FileAt, FileIndices
  <2>2. QED
    BY <1>1, <1>2, <1>4, <2>1, InspectEntry DEF IInv, ScannedFirst, Drained, Scan, doing
<1>10. EntriesAccounted'
  <2>1. DOMAIN Dirs \subseteq Nat /\ DOMAIN Symlinks \subseteq Nat \ {0} /\ DOMAIN Symlinks = 1..Len(Symlinks)
    BY EntriesAssumption
  <2>2. SUFFICES ASSUME do # "returned" PROVE EntriesAccounted'
    BY DEF EntriesAccounted, Scan, doing
  <2>3. ASSUME NEW j \in DOMAIN Dirs, j <= k
        PROVE  tree[Dirs[j]] = Dir \/ EntryWound("dir", Dirs[j]) \in Pending'
    <3>1. j = k \/ j <= scanned
      BY <1>1, <2>1, <2>3
    <3>2. CASE j = k
      <4>1. k <= Len(Dirs)
        BY <3>2, EntriesAssumption
      <4>2. QED
        BY <1>1, <1>2, <1>4, <3>2, <4>1, InspectEntry
    <3>3. QED
      BY <1>4, <2>2, <3>1, <3>2 DEF IInv, EntriesAccounted
  <2>4. ASSUME NEW j \in DOMAIN Symlinks, Len(Dirs) + j <= k
        PROVE  tree[Symlinks[j]] = Wanted[Symlinks[j]] \/ EntryWound("link", Symlinks[j]) \in Pending'
    <3>1. Len(Dirs) + j = k \/ Len(Dirs) + j <= scanned
      BY <1>1, <2>1, <2>4
    <3>2. CASE Len(Dirs) + j = k
      <4>1. k > Len(Dirs) /\ k <= Len(Dirs) + Len(Symlinks) /\ k - Len(Dirs) = j
        BY <1>1, <2>1, <3>2
      <4>2. QED
        BY <1>1, <1>2, <1>4, <4>1, InspectEntry
    <3>3. QED
      BY <1>4, <2>2, <3>1, <3>2 DEF IInv, EntriesAccounted
  <2>5. QED
    BY <1>1, <2>3, <2>4 DEF EntriesAccounted, Scan, doing
<1>11. FilesAccounted'
  <2>1. SUFFICES ASSUME do # "returned", ctx = "live" PROVE FilesAccounted'
    BY DEF FilesAccounted, Scan, doing
  <2>2. errs = <<"nil">> => do = "drain" /\ queue = << >>
    BY <2>1 DEF IInv, FilesAccounted
  <2>3. healer.at = "gone" => errs # << >>
    BY <2>1 DEF IInv, FilesAccounted
  <2>4. ASSUME NEW i \in FileIndices, FileAt(i) <= k
        PROVE  \/ tree[Files[i]] = Wanted[Files[i]]
               \/ IF i \in queued THEN Queued(i) \/ errs \notin {<< >>, <<"nil">>}
                  ELSE FileWound(i) \in Pending'
    <3>1. FileAt(i) \in Nat
      BY <1>1, EntriesAssumption DEF FileAt, FileIndices
    <3>2. CASE FileAt(i) <= scanned
      BY <1>4, <2>1, <3>2 DEF IInv, FilesAccounted
    <3>3. CASE FileAt(i) = k
      <4>1. i \notin queued
        BY <1>1, <3>3 DEF IInv, ScannedFirst
      <4>2. tree[Files[i]] = Wanted[Files[i]] \/ FileWound(i) \in Range(u)
        BY <1>1, <1>2, <3>3, InspectEntry
      <4>3. QED
        BY <1>4, <4>1, <4>2
    <3>4. QED
      BY <1>1, <2>4, <3>1, <3>2, <3>3
  <2>5. QED
    BY <1>1, <2>1, <2>2, <2>3, <2>4 DEF FilesAccounted, Queued, Busy, Scan, doing
<1>12. Ended'
  BY DEF IInv, Ended, Succeeded, AllRight, Scan, doing
<1>13. QED
  BY <1>5, <1>6, <1>7, <1>8, <1>9, <1>10, <1>11, <1>12 DEF IInv

LEMMA SendWoundIInv == ASSUME IInv, SendWound PROVE IInv'
<1> DEFINE w == Head(unsent)
<1>1. TypeInv /\ unsent \in Seq(Wounds) /\ unsent # << >> /\ wounds \in Seq(Wounds)
  BY DEF IInv, TypeInv, SendWound
<1>2. w \in Wounds /\ unsent' \in Seq(Wounds) /\ Range(unsent) = Range(unsent') \cup {w}
  BY <1>1, RangeOfTail DEF SendWound
<1>3. wounds' \in Seq(Wounds) /\ Range(wounds') = Range(wounds) \cup {w}
  BY <1>1, <1>2, RangeOfAppend DEF SendWound
<1>4. Pending' = Pending
  BY <1>2, <1>3 DEF SendWound, Pending, doing
<1>5. TypeInv'
  BY <1>1, <1>2, <1>3 DEF TypeInv, SendWound, doing
<1>6. DirsFirst'
  <2>1. ASSUME NEW j \in DOMAIN wounds', NEW k \in DOMAIN wounds', j < k, IsDirWound(wounds'[k])
        PROVE  IsDirWound(wounds'[j])
    <3>1. /\ DOMAIN wounds = 1..Len(wounds) /\ Len(wounds) \in Nat
          /\ DOMAIN wounds' = 1 .. Len(wounds) + 1
          /\ \A n \in 1..Len(wounds) : wounds'[n] = wounds[n]
          /\ wounds'[Len(wounds) + 1] = w
      BY <1>1, <1>2, AppendProperties, LenProperties DEF SendWound
    <3>2. CASE k <= Len(wounds)
      BY <2>1, <3>1, <3>2 DEF IInv, DirsFirst
    <3>3. CASE k = Len(wounds) + 1
      <4>1. w \in Range(unsent) /\ IsDirWound(w) /\ wounds[j] \in Range(wounds)
        BY <1>2, <2>1, <3>1, <3>3 DEF Range
      <4>2. ~(scanned > Len(Dirs))
        BY <4>1 DEF IInv, DirsFirst
      <4>3. scanned <= Len(Dirs)
        BY <1>1, <4>2, EntriesAssumption DEF TypeInv
      <4>4. IsDirWound(wounds[j])
        BY <4>1, <4>3 DEF IInv, DirsFirst, Pending
      <4>5. QED
        BY <2>1, <3>1, <3>3, <4>4
    <3>4. QED
      BY <3>1, <3>2, <3>3
  <2>2. QED
    BY <1>2, <1>4, <2>1 DEF IInv, DirsFirst, SendWound, doing
<1>7. (PlacedBefore /\ HealerInv /\ WoundedRightly /\ ScannedFirst)'
  BY <1>4 DEF IInv, PlacedBefore, DirsPlaced, HealerInv, Busy, WoundedRightly, ScannedFirst, SendWound, doing
<1>8. (Drained /\ EntriesAccounted /\ FilesAccounted /\ Ended)'
  BY <1>4 DEF IInv, Drained, EntriesAccounted, FilesAccounted, Queued, Busy, Ended, Succeeded, AllRight,
              SendWound, doing
<1>9. QED
  BY <1>5, <1>6, <1>7, <1>8 DEF IInv

\* A wound is taken out of the channel: for processing, or to be thrown away.
LEMMA TakenInOrder ==
  ASSUME IInv, wounds # << >>, wounds' = Tail(wounds)
  PROVE  /\ Head(wounds) \in Wounds /\ wounds' \in Seq(Wounds)
         /\ Range(wounds) = Range(wounds') \cup {Head(wounds)}
         /\ \A j, k \in DOMAIN wounds' : j < k /\ IsDirWound(wounds'[k]) => IsDirWound(wounds'[j])
         /\ ~IsDirWound(Head(wounds)) => \A w \in Range(wounds') : ~IsDirWound(w)
<1>1. wounds \in Seq(Wounds)
  BY DEF IInv, TypeInv
<1>2. /\ Head(wounds) \in Wounds /\ wounds' \in Seq(Wounds)
      /\ Range(wounds) = Range(wounds') \cup {Head(wounds)}
  BY <1>1, RangeOfTail
<1>3. /\ Len(wounds) \in Nat \ {0} /\ DOMAIN wounds = 1..Len(wounds) /\ Head(wounds) = wounds[1]
      /\ DOMAIN wounds' = 1 .. Len(wounds) - 1
      /\ \A k \in 1 .. Len(wounds) - 1 : wounds'[k] = wounds[k + 1]
  BY <1>1, HeadTailProperties, LenProperties, EmptySeq
<1>4. \A j, k \in DOMAIN wounds : j < k /\ IsDirWound(wounds[k]) => IsDirWound(wounds[j])
  BY DEF IInv, DirsFirst
<1>5. ASSUME NEW j \in DOMAIN wounds', NEW k \in DOMAIN wounds', j < k, IsDirWound(wounds'[k])
      PROVE  IsDirWound(wounds'[j])
  BY <1>3, <1>4, <1>5
<1>6. ASSUME ~IsDirWound(Head(wounds)), NEW k \in DOMAIN wounds'
      PROVE  ~IsDirWound(wounds'[k])
  BY <1>3, <1>4, <1>6
<1>7. QED
  BY <1>2, <1>5, <1>6 DEF Range

LEMMA ThrowAwayIInv == ASSUME IInv, ThrowAway PROVE IInv'
<1>1. /\ wounds' \in Seq(Wounds)
      /\ \A j, k \in DOMAIN wounds' : j < k /\ IsDirWound(wounds'[k]) => IsDirWound(wounds'[j])
      /\ Range(wounds') \subseteq Range(wounds)
  BY TakenInOrder DEF ThrowAway
<1>2. Pending' \subseteq Pending
  BY <1>1 DEF ThrowAway, Pending, doing
<1>3. TypeInv'
  BY <1>1 DEF IInv, TypeInv, ThrowAway, doing
<1>4. DirsFirst'
  BY <1>1, <1>2 DEF IInv, DirsFirst, ThrowAway, doing
<1>5. (PlacedBefore /\ HealerInv /\ WoundedRightly /\ ScannedFirst)'
  BY <1>2 DEF IInv, PlacedBefore, DirsPlaced, HealerInv, Busy, WoundedRightly, ScannedFirst, ThrowAway, doing
<1>6. (Drained /\ EntriesAccounted /\ FilesAccounted /\ Ended)'
  BY DEF IInv, Drained, EntriesAccounted, FilesAccounted, Ended, Succeeded, AllRight, ThrowAway, doing
<1>7. QED
  BY <1>3, <1>4, <1>5, <1>6 DEF IInv
-----------------------------------------------------------------------------
(* The invariant: Do *)

LEMMA WoundShapes ==
  ASSUME NEW w \in Wounds
  PROVE  /\ w.kind = "dir" => w.path \in WantedDirs /\ w = EntryWound("dir", w.path)
         /\ w.kind = "link" => w.path \in WantedLinks /\ w = EntryWound("link", w.path)
         /\ w.kind = "file" => w.index \in FileIndices /\ w = FileWound(w.index)
         /\ w.kind = "closed" => w.index \in FileIndices /\ w.end \in Nat
         /\ w.kind \in {"dir", "link", "file", "closed"}
         /\ \A i : w = FileWound(i) => w.kind = "file"
         /\ \A p : w = EntryWound("dir", p) => w.kind = "dir"
         /\ \A p : w = EntryWound("link", p) => w.kind = "link"
BY DEF Wounds, EntryWound, FileWound

\* Past the wounds of directories, every directory is in place.
LEMMA PlacedWhenPast ==
  ASSUME IInv, do = "process", ~IsDirWound(wound)
  PROVE  DirsPlaced
<1>1. wound \in Pending
  BY DEF Pending
<1>2. scanned > Len(Dirs)
  BY <1>1, EntriesAssumption DEF IInv, TypeInv, DirsFirst
<1>3. \A w \in Pending : ~IsDirWound(w)
  BY DEF IInv, DirsFirst
<1>4. ASSUME NEW p \in WantedDirs
      PROVE  tree[p] = Dir
  <2>1. PICK k \in DOMAIN Dirs : Dirs[k] = p
    BY EntriesAssumption DEF WantedDirs, Range
  <2>2. k <= scanned
    BY <1>2, <2>1, EntriesAssumption DEF IInv, TypeInv
  <2>3. tree[p] = Dir \/ EntryWound("dir", p) \in Pending
    BY <2>1, <2>2 DEF IInv, EntriesAccounted
  <2>4. QED
    BY <1>3, <2>3, WoundKinds
<1>5. QED
  BY <1>4 DEF DirsPlaced

LEMMA ReceiveIInv == ASSUME IInv, Receive PROVE IInv'
<1>1. /\ Head(wounds) \in Wounds /\ wounds' \in Seq(Wounds)
      /\ Range(wounds) = Range(wounds') \cup {Head(wounds)}
      /\ \A j, k \in DOMAIN wounds' : j < k /\ IsDirWound(wounds'[k]) => IsDirWound(wounds'[j])
      /\ ~IsDirWound(Head(wounds)) => \A w \in Range(wounds') : ~IsDirWound(w)
  BY TakenInOrder DEF Receive
<1>2. CASE ctx = "live"
  <2>1. do' = "process" /\ wound' = Head(wounds) /\ ctx' = ctx /\ result' = result
    BY <1>2 DEF Receive
  <2>2. Pending' = Pending
    BY <1>1, <2>1 DEF Receive, Pending
  <2>3. TypeInv'
    BY <1>1, <2>1 DEF IInv, TypeInv, Receive
  <2>4. DirsFirst'
    <3>1. ~IsDirWound(Head(wounds)) => \A w \in Range(unsent) : ~IsDirWound(w)
      <4>1. Head(wounds) \in Pending
        BY <1>1 DEF Pending
      <4>2. ~IsDirWound(Head(wounds)) => scanned > Len(Dirs)
        BY <4>1, EntriesAssumption DEF IInv, TypeInv, DirsFirst
      <4>3. QED
        BY <4>2 DEF IInv, DirsFirst
    <3>2. QED
      BY <1>1, <2>1, <2>2, <3>1 DEF IInv, DirsFirst, Receive, Pending
  <2>5. (PlacedBefore /\ HealerInv /\ WoundedRightly /\ ScannedFirst)'
    BY <2>1, <2>2 DEF IInv, PlacedBefore, DirsPlaced, HealerInv, Busy, WoundedRightly, ScannedFirst, Receive
  <2>6. (Drained /\ EntriesAccounted /\ FilesAccounted /\ Ended)'
    BY <2>1, <2>2 DEF IInv, Drained, EntriesAccounted, FilesAccounted, Queued, Busy, Ended, Succeeded, Receive
  <2>7. QED
    BY <2>3, <2>4, <2>5, <2>6 DEF IInv
<1>3. CASE ctx # "live"
  <2>1. ctx = "cancelled" /\ do' = "returned" /\ ctx' = ctx
    BY <1>3 DEF IInv, TypeInv, Ended, Receive, Return
  <2>2. Pending' \subseteq Pending
    BY <1>1, <2>1 DEF Receive, Pending
  <2>3. TypeInv'
    BY <1>1, <2>1 DEF IInv, TypeInv, Receive
  <2>4. DirsFirst'
    BY <1>1, <2>1, <2>2 DEF IInv, DirsFirst, Receive
  <2>5. (PlacedBefore /\ HealerInv /\ WoundedRightly /\ ScannedFirst)'
    BY <2>1, <2>2 DEF IInv, PlacedBefore, DirsPlaced, HealerInv, Busy, WoundedRightly, ScannedFirst, Receive
  <2>6. (Drained /\ EntriesAccounted /\ FilesAccounted /\ Ended)'
    BY <2>1 DEF IInv, Drained, EntriesAccounted, FilesAccounted, Ended, Succeeded, Receive
  <2>7. QED
    BY <2>3, <2>4, <2>5, <2>6 DEF IInv
<1>4. QED
  BY <1>2, <1>3

\* What is left when Do has dealt with a wound.
LEMMA NextWoundPending ==
  ASSUME IInv, do = "process", do' # "process", UNCHANGED <<unsent, wounds, scanned>>
  PROVE  /\ wound \in Wounds /\ wound \in Pending
         /\ Pending = Pending' \cup {wound}
         /\ DirsFirst'
         /\ Pending' = Range(unsent) \cup Range(wounds)
<1>1. wound \in Wounds /\ wound \in Pending /\ Pending = Pending' \cup {wound}
      /\ Pending' = Range(unsent) \cup Range(wounds)
  BY DEF IInv, TypeInv, Pending
<1>2. QED
  BY <1>1 DEF IInv, DirsFirst

LEMMA HealDirIInv == ASSUME IInv, HealDir PROVE IInv'
<1> DEFINE p == wound.path
<1>1. do = "process" /\ do' = "receive" /\ wound.kind = "dir" /\ UNCHANGED <<unsent, wounds, scanned>>
  BY DEF HealDir, Processing, NextWound, validation
<1>2. /\ wound \in Wounds /\ DirsFirst' /\ Pending = Pending' \cup {wound}
  BY <1>1, NextWoundPending
<1>3. p \in WantedDirs /\ wound = EntryWound("dir", p)
  BY <1>1, <1>2, WoundShapes
<1>4. /\ tree' \in Tree /\ WellFormed(tree') /\ Direct(tree')
      /\ tree'[p] = Dir
      /\ \A q \in Paths : q # p => tree'[q] = tree[q]
  BY <1>3, DirHealed DEF IInv, HealDir
<1>5. TypeInv'
  BY <1>1, <1>4 DEF IInv, TypeInv, HealDir
<1>6. DirsPlaced => DirsPlaced'
  BY <1>3, <1>4, WantedNodes DEF DirsPlaced
<1>7. \A i \in FileIndices : tree'[Files[i]] = tree[Files[i]]
  BY <1>3, <1>4, WantedFile
<1>8. \A k \in DOMAIN Symlinks : tree'[Symlinks[k]] = tree[Symlinks[k]]
  <2>1. \A k \in DOMAIN Symlinks : Symlinks[k] \in WantedLinks
    BY EntriesAssumption DEF WantedLinks
  <2>2. QED
    BY <1>3, <1>4, <2>1, WantedNodes
<1>9. (PlacedBefore /\ HealerInv)'
  BY <1>1, <1>6, <1>7 DEF IInv, PlacedBefore, HealerInv, Busy, HealDir, TypeInv
<1>10. (WoundedRightly /\ ScannedFirst)'
  BY <1>1, <1>2, <1>7 DEF IInv, WoundedRightly, ScannedFirst, HealDir
<1>11. (Drained /\ Ended)'
  BY <1>1 DEF IInv, Drained, Ended, Succeeded, HealDir
<1>12. EntriesAccounted'
  <2>1. ASSUME NEW k \in DOMAIN Dirs, k <= scanned
        PROVE  tree'[Dirs[k]] = Dir \/ EntryWound("dir", Dirs[k]) \in Pending'
    <3>1. Dirs[k] \in WantedDirs /\ Dirs[k] \in Paths
      BY EntriesAssumption, WantedNodes DEF WantedDirs
    <3>2. tree[Dirs[k]] = Dir \/ EntryWound("dir", Dirs[k]) \in Pending
      BY <1>1, <2>1 DEF IInv, EntriesAccounted
    <3>3. Dirs[k] # p => EntryWound("dir", Dirs[k]) # wound
      BY <1>3 DEF EntryWound
    <3>4. QED
      BY <1>2, <1>4, <3>1, <3>2, <3>3
  <2>2. \A q : EntryWound("link", q) # wound
    BY <1>3 DEF EntryWound
  <2>3. QED
    BY <1>1, <1>2, <1>8, <2>1, <2>2 DEF IInv, EntriesAccounted
<1>13. FilesAccounted'
  <2>1. \A i : FileWound(i) # wound
    BY <1>3 DEF EntryWound, FileWound
  <2>2. QED
    BY <1>1, <1>2, <1>7, <2>1 DEF IInv, FilesAccounted, Queued, Busy, HealDir
<1>14. QED
  BY <1>2, <1>5, <1>9, <1>10, <1>11, <1>12, <1>13 DEF IInv

LEMMA HealSymlinkIInv == ASSUME IInv, HealSymlink PROVE IInv'
<1> DEFINE p == wound.path
<1>1. do = "process" /\ do' = "receive" /\ wound.kind = "link" /\ UNCHANGED <<unsent, wounds, scanned>>
  BY DEF HealSymlink, Processing, NextWound, validation
<1>2. /\ wound \in Wounds /\ DirsFirst' /\ Pending = Pending' \cup {wound}
  BY <1>1, NextWoundPending
<1>3. p \in WantedLinks /\ wound = EntryWound("link", p)
  BY <1>1, <1>2, WoundShapes
<1>4. DirsPlaced
  BY <1>1, PlacedWhenPast DEF IsDirWound
<1>5. /\ tree' \in Tree /\ WellFormed(tree') /\ Direct(tree')
      /\ tree'[p] = Wanted[p]
      /\ \A q \in Paths : q # p /\ Wanted[q] # None => tree'[q] = tree[q]
  BY <1>3, <1>4, LinkHealed DEF IInv, HealSymlink
<1>6. TypeInv'
  BY <1>1, <1>5 DEF IInv, TypeInv, HealSymlink
<1>7. \A q \in WantedDirs : tree'[q] = tree[q]
  BY <1>3, <1>5, WantedNodes DEF Dir, None
<1>8. \A i \in FileIndices : tree'[Files[i]] = tree[Files[i]]
  <2> SUFFICES ASSUME NEW i \in FileIndices PROVE tree'[Files[i]] = tree[Files[i]]
    OBVIOUS
  <2>1. Files[i] \in Paths /\ Files[i] # p /\ Wanted[Files[i]] = File(Data(i))
    BY <1>3, WantedFile
  <2>2. Wanted[Files[i]] # None
    BY <2>1 DEF File, None
  <2>3. QED
    BY <1>5, <2>1, <2>2
<1>9. (PlacedBefore /\ HealerInv)'
  BY <1>1, <1>4, <1>7, <1>8, SMTT(60) DEF IInv, PlacedBefore, DirsPlaced, HealerInv, Busy, HealSymlink, TypeInv
<1>10. (WoundedRightly /\ ScannedFirst)'
  BY <1>1, <1>2, <1>8 DEF IInv, WoundedRightly, ScannedFirst, HealSymlink
<1>11. (Drained /\ Ended)'
  BY <1>1 DEF IInv, Drained, Ended, Succeeded, HealSymlink
<1>12. EntriesAccounted'
  <2>1. ASSUME NEW k \in DOMAIN Symlinks, Len(Dirs) + k <= scanned
        PROVE  tree'[Symlinks[k]] = Wanted[Symlinks[k]] \/ EntryWound("link", Symlinks[k]) \in Pending'
    <3>1. Symlinks[k] \in WantedLinks /\ Symlinks[k] \in Paths
      BY EntriesAssumption, WantedNodes DEF WantedLinks
    <3>2. Wanted[Symlinks[k]] # None
      BY <3>1, WantedNodes DEF None
    <3>3. tree[Symlinks[k]] = Wanted[Symlinks[k]] \/ EntryWound("link", Symlinks[k]) \in Pending
      BY <1>1, <2>1 DEF IInv, EntriesAccounted
    <3>4. Symlinks[k] # p => EntryWound("link", Symlinks[k]) # wound
      BY <1>3 DEF EntryWound
    <3>5. QED
      BY <1>2, <1>5, <3>1, <3>2, <3>3, <3>4
  <2>2. \A k \in DOMAIN Dirs : tree'[Dirs[k]] = Dir
    BY <1>4, <1>7, EntriesAssumption DEF DirsPlaced, WantedDirs
  <2>3. QED
    BY <1>1, <2>1, <2>2 DEF EntriesAccounted
<1>13. FilesAccounted'
  <2>1. \A i : FileWound(i) # wound
    BY <1>3 DEF EntryWound, FileWound
  <2>2. QED
    BY <1>1, <1>2, <1>8, <2>1 DEF IInv, FilesAccounted, Queued, Busy, HealSymlink
<1>14. QED
  BY <1>2, <1>6, <1>9, <1>10, <1>11, <1>12, <1>13 DEF IInv

LEMMA QueueFileIInv == ASSUME IInv, QueueFile PROVE IInv'
<1> DEFINE n == wound.index
<1>1. /\ do = "process" /\ do' # "process" /\ wound.kind = "file"
      /\ UNCHANGED <<unsent, wounds, scanned, tree, archive, locked, healer>>
      /\ n \notin queued /\ queued' = queued \cup {n}
  BY DEF QueueFile, Processing, NextWound, Return, validation
<1>2. /\ wound \in Wounds /\ wound \in Pending /\ DirsFirst' /\ Pending = Pending' \cup {wound}
  BY <1>1, NextWoundPending
<1>3. n \in FileIndices /\ wound = FileWound(n)
  BY <1>1, <1>2, WoundShapes
<1>4. DirsPlaced
  BY <1>1, PlacedWhenPast DEF IsDirWound
<1>5. queue \in Seq(queued') /\ queued' \subseteq FileIndices /\ n \notin Range(queue)
  <2>1. queue \in Seq(queued) /\ queued \subseteq FileIndices
    BY DEF IInv, TypeInv
  <2>2. n \notin Range(queue)
    BY <1>1, <2>1, RangeOfSeq DEF Range
  <2>3. QED
    BY <1>1, <1>3, <2>1, <2>2, SeqMonotonic
<1>6. CASE queue' = queue
  <2>1. /\ errs # << >> /\ errs' = << >>
        /\ IF Head(errs) = "nil" THEN do' = "receive" /\ UNCHANGED <<ctx, result>>
           ELSE Return(Head(errs))
    <3>1. Append(queue, n) # queue
      BY <1>5, <1>1, AppendProperties, LenProperties
    <3>2. QED
      BY <1>6, <3>1 DEF QueueFile, NextWound
  <2>2. ctx # "done"
    BY <1>1 DEF IInv, Ended
  <2>3. do' = "returned" => ctx' # "live" /\ result' # "nil"
    BY <2>1 DEF Return
  <2>4. do' # "returned" => ctx' # "live" /\ ctx' = ctx
    <3>1. errs = <<"nil">> => ctx # "live"
      BY <1>1 DEF IInv, FilesAccounted
    <3>2. Head(errs) = "nil" => errs = <<"nil">>
      BY <2>1 DEF IInv, HealerInv
    <3>3. QED
      BY <2>1, <3>1, <3>2 DEF Return
  <2>5. TypeInv'
    BY <1>1, <1>5, <1>6, <2>1 DEF IInv, TypeInv, Return
  <2>6. (PlacedBefore /\ HealerInv)'
    BY <1>1, <1>4, <1>6, <2>1 DEF IInv, PlacedBefore, DirsPlaced, HealerInv, Busy
  <2>7. (WoundedRightly /\ ScannedFirst /\ Drained)'
    BY <1>1, <1>2, <1>3, <1>6, <2>1 DEF IInv, WoundedRightly, ScannedFirst, Drained, Return
  <2>8. EntriesAccounted'
    <3>1. \A q : EntryWound("dir", q) # wound /\ EntryWound("link", q) # wound
      BY <1>3 DEF EntryWound, FileWound
    <3>2. QED
      BY <1>1, <1>2, <3>1 DEF IInv, EntriesAccounted
  <2>9. (FilesAccounted /\ Ended)'
    <3>1. FilesAccounted'
      BY <2>3, <2>4 DEF FilesAccounted
    <3>2. Ended'
      <4>1. CASE Head(errs) = "nil"
        BY <2>1, <2>2, <4>1 DEF Ended, Succeeded
      <4>2. CASE Head(errs) # "nil"
        BY <2>1, <2>2, <4>2 DEF Return, Ended, Succeeded, IInv, TypeInv
      <4>3. QED
        BY <4>1, <4>2
    <3>3. QED
      BY <3>1, <3>2
  <2>10. QED
    BY <1>2, <2>5, <2>6, <2>7, <2>8, <2>9 DEF IInv
<1>7. CASE queue' # queue
  <2>1. queue' = Append(queue, n) /\ do' = "receive" /\ UNCHANGED <<errs, ctx, result>>
    BY <1>7 DEF QueueFile, NextWound
  <2>2. queue' \in Seq(queued') /\ Range(queue') = Range(queue) \cup {n}
    <3>1. n \in queued'
      BY <1>1
    <3>2. QED
      BY <1>5, <2>1, <3>1, RangeOfAppend
  <2>3. TypeInv'
    BY <1>1, <1>5, <2>1, <2>2 DEF IInv, TypeInv
  <2>4. HealerInv'
    <3>1. Busy' => healer'.file \in queued' /\ healer'.file \notin Range(queue')
      BY <1>1, <2>2 DEF IInv, HealerInv, Busy
    <3>2. ASSUME NEW j \in DOMAIN queue', NEW k \in DOMAIN queue', queue'[j] = queue'[k]
          PROVE  j = k
      <4>1. /\ Len(queue) \in Nat /\ DOMAIN queue = 1..Len(queue)
            /\ DOMAIN queue' = 1 .. Len(queue) + 1
            /\ \A m \in 1..Len(queue) : queue'[m] = queue[m] /\ queue[m] # n
            /\ queue'[Len(queue) + 1] = n
        <5>1. n \in queued'
          BY <1>1
        <5>2. \A m \in DOMAIN queue : queue[m] # n
          BY <1>5 DEF Range
        <5>3. QED
          BY <1>5, <2>1, <5>1, <5>2, AppendProperties, LenProperties
      <4>2. CASE j \in 1..Len(queue) /\ k \in 1..Len(queue)
        BY <3>2, <4>1, <4>2 DEF IInv, HealerInv
      <4>3. CASE j = Len(queue) + 1 \/ k = Len(queue) + 1
        BY <3>2, <4>1, <4>3
      <4>4. QED
        BY <4>1, <4>2, <4>3
    <3>3. QED
      BY <1>1, <2>1, <3>1, <3>2 DEF IInv, HealerInv, Busy, DirsPlaced
  <2>5. (PlacedBefore /\ WoundedRightly /\ ScannedFirst /\ Drained)'
    BY <1>1, <1>2, <1>3, <1>4, <2>1, <2>2
    DEF IInv, PlacedBefore, DirsPlaced, WoundedRightly, ScannedFirst, Drained
  <2>6. EntriesAccounted'
    <3>1. \A q : EntryWound("dir", q) # wound /\ EntryWound("link", q) # wound
      BY <1>3 DEF EntryWound, FileWound
    <3>2. QED
      BY <1>1, <1>2, <3>1 DEF IInv, EntriesAccounted
  <2>7. FilesAccounted'
    <3>1. \A i : FileWound(i) = wound => i = n
      BY <1>3, WoundKinds
    <3>2. \A i : Queued(i) => Queued(i)'
      BY <1>1, <2>2 DEF Queued, Busy
    <3>3. \A i \in Range(queue') : Queued(i)'
      BY DEF Queued
    <3>4. QED
      BY <1>1, <1>2, <2>1, <2>2, <3>1, <3>2, <3>3 DEF IInv, FilesAccounted
  <2>8. Ended'
    BY <1>1, <2>1 DEF IInv, Ended, Succeeded
  <2>9. QED
    BY <1>2, <2>3, <2>4, <2>5, <2>6, <2>7, <2>8 DEF IInv
<1>8. QED
  BY <1>6, <1>7

LEMMA SkipWoundIInv == ASSUME IInv, SkipWound PROVE IInv'
<1>1. /\ do = "process" /\ do' = "receive" /\ wound.kind \in {"file", "closed"}
      /\ wound.kind = "file" => wound.index \in queued
      /\ UNCHANGED <<unsent, wounds, scanned, tree, locked, ctx, result, queued, queue, healer, errs>>
  BY DEF SkipWound, Processing, NextWound, validation
<1>2. /\ wound \in Wounds /\ DirsFirst' /\ Pending = Pending' \cup {wound}
  BY <1>1, NextWoundPending
<1>3. /\ \A i : FileWound(i) = wound => i \in queued
      /\ \A q : EntryWound("dir", q) # wound /\ EntryWound("link", q) # wound
  BY <1>1, <1>2, WoundShapes DEF FileWound, EntryWound
<1>4. (TypeInv /\ PlacedBefore /\ HealerInv)'
  BY <1>1 DEF IInv, TypeInv, PlacedBefore, DirsPlaced, HealerInv, Busy
<1>5. (WoundedRightly /\ ScannedFirst /\ Drained /\ Ended)'
  BY <1>1, <1>2 DEF IInv, WoundedRightly, ScannedFirst, Drained, Ended, Succeeded
<1>6. EntriesAccounted'
  BY <1>1, <1>2, <1>3 DEF IInv, EntriesAccounted
<1>7. FilesAccounted'
  BY <1>1, <1>2, <1>3 DEF IInv, FilesAccounted, Queued, Busy
<1>8. QED
  BY <1>2, <1>4, <1>5, <1>6, <1>7 DEF IInv

LEMMA QueuedAllIInv == ASSUME IInv, QueuedAll PROVE IInv'
<1>1. Pending' = Pending
  BY DEF QueuedAll, Pending, validation
<1>2. TypeInv'
  BY DEF IInv, TypeInv, QueuedAll, validation
<1>3. (DirsFirst /\ PlacedBefore /\ HealerInv)'
  BY <1>1 DEF IInv, DirsFirst, PlacedBefore, DirsPlaced, HealerInv, Busy, QueuedAll, validation
<1>4. (WoundedRightly /\ ScannedFirst /\ Drained)'
  BY <1>1 DEF IInv, WoundedRightly, ScannedFirst, Drained, QueuedAll, WoundsClosed, validation
<1>5. (EntriesAccounted /\ FilesAccounted /\ Ended)'
  BY <1>1 DEF IInv, EntriesAccounted, FilesAccounted, Queued, Busy, Ended, Succeeded, QueuedAll, validation
<1>6. QED
  BY <1>2, <1>3, <1>4, <1>5 DEF IInv

\* When Do has waited for a goroutine that did not fail, all is right.
LEMMA DrainedIsRight ==
  ASSUME IInv, do = "drain", ctx = "live", errs = <<"nil">>
  PROVE  AllRight /\ healer.at = "gone"
<1>1. scanned = Len(Entries) /\ unsent = << >> /\ wounds = << >> /\ queue = << >>
  BY DEF IInv, Drained, FilesAccounted
<1>2. Pending = {} /\ Range(queue) = {}
  BY <1>1 DEF Pending, Range
<1>3. healer.at = "gone" /\ \A i : ~Queued(i)
  <2>1. errs # << >>
    OBVIOUS
  <2>2. QED
    BY <1>2, <2>1 DEF IInv, HealerInv, Queued, Busy
<1>4. /\ scanned = Len(Dirs) + Len(Symlinks) + Len(Files)
      /\ DOMAIN Dirs = 1..Len(Dirs) /\ DOMAIN Symlinks = 1..Len(Symlinks) /\ DOMAIN Files = 1..Len(Files)
      /\ Len(Dirs) \in Nat /\ Len(Symlinks) \in Nat /\ Len(Files) \in Nat
  BY <1>1, EntriesAssumption DEF Entries
<1>5. \A k \in DOMAIN Dirs : tree[Dirs[k]] = Dir
  BY <1>2, <1>4 DEF IInv, EntriesAccounted
<1>6. \A k \in DOMAIN Symlinks : tree[Symlinks[k]] = Wanted[Symlinks[k]]
  BY <1>2, <1>4 DEF IInv, EntriesAccounted
<1>7. \A i \in FileIndices : tree[Files[i]] = Wanted[Files[i]]
  <2>1. \A i \in FileIndices : FileAt(i) <= scanned
    BY <1>4 DEF FileAt, FileIndices
  <2>2. QED
    BY <1>2, <1>3, <2>1 DEF IInv, FilesAccounted
<1>8. ASSUME NEW p \in Paths, Wanted[p] # None
      PROVE  tree[p] = Wanted[p]
  <2>1. Wanted[p].kind \in {"dir", "link", "file"} /\ (Wanted[p].kind = "dir" => Wanted[p] = Dir)
    <3>1. Wanted[p] \in Node
      BY EntriesAssumption DEF Tree
    <3>2. QED
      BY <1>8, <3>1, NodeFacts
  <2>2. CASE Wanted[p].kind = "dir"
    <3>1. PICK k \in DOMAIN Dirs : Dirs[k] = p
      BY <2>2, EntriesAssumption DEF Kind, Range
    <3>2. QED
      BY <1>5, <2>1, <2>2, <3>1
  <2>3. CASE Wanted[p].kind = "link"
    <3>1. PICK k \in DOMAIN Symlinks : Symlinks[k] = p
      BY <2>3, EntriesAssumption DEF Kind, Range
    <3>2. QED
      BY <1>6, <3>1
  <2>4. CASE Wanted[p].kind = "file"
    <3>1. PICK i \in FileIndices : Files[i] = p
      BY <2>4, EntriesAssumption DEF Kind, Range, FileIndices
    <3>2. QED
      BY <1>7, <3>1
  <2>5. QED
    BY <2>1, <2>2, <2>3, <2>4
<1>9. QED
  BY <1>3, <1>8 DEF AllRight

LEMMA DoReturnsIInv == ASSUME IInv, DoReturns PROVE IInv'
<1>1. /\ do = "drain" /\ do' = "returned" /\ errs # << >> /\ errs' = << >> /\ result' = Head(errs)
      /\ ctx' = IF ctx = "live" THEN "done" ELSE ctx
      /\ UNCHANGED <<tree, locked, unsent, wounds, scanned, queued, queue, healer>>
  BY DEF DoReturns, Return, validation
<1>2. Pending' = Pending
  BY <1>1 DEF Pending
<1>3. ctx # "done"
  BY <1>1 DEF IInv, Ended
<1>4. TypeInv'
  BY <1>1 DEF IInv, TypeInv
<1>5. (DirsFirst /\ PlacedBefore /\ HealerInv /\ WoundedRightly /\ ScannedFirst)'
  BY <1>1, <1>2 DEF IInv, DirsFirst, PlacedBefore, DirsPlaced, HealerInv, Busy, WoundedRightly, ScannedFirst
<1>6. (Drained /\ EntriesAccounted /\ FilesAccounted)'
  BY <1>1 DEF Drained, EntriesAccounted, FilesAccounted
<1>7. Ended'
  <2>1. (ctx' = "done") <=> (do' = "returned" /\ ctx' # "cancelled")
    BY <1>1, <1>3 DEF IInv, TypeInv
  <2>2. ASSUME Succeeded'
        PROVE  (AllRight /\ healer.at = "gone")'
    <3>1. ctx = "live" /\ Head(errs) = "nil"
      BY <1>1, <1>3, <2>2 DEF Succeeded, IInv, TypeInv
    <3>2. errs = <<"nil">>
      BY <1>1, <3>1 DEF IInv, HealerInv
    <3>3. AllRight /\ healer.at = "gone"
      BY <1>1, <3>1, <3>2, DrainedIsRight
    <3>4. QED
      BY <1>1, <3>3 DEF AllRight
  <2>3. QED
    BY <2>1, <2>2 DEF Ended
<1>8. QED
  BY <1>4, <1>5, <1>6, <1>7 DEF IInv
-----------------------------------------------------------------------------
(* The invariant: the healing goroutine *)

\* While the goroutine has not ended, healing has not succeeded.
LEMMA NotEnded ==
  ASSUME IInv, healer.at # "gone", UNCHANGED <<ctx, do, result>>
  PROVE  Ended'
BY DEF IInv, Ended, Succeeded

\* The file that is taken from the queue was in it once.
LEMMA HeadTaken ==
  ASSUME IInv, queue # << >>, queue' = Tail(queue)
  PROVE  /\ queue \in Seq(queued) /\ queued \subseteq FileIndices
         /\ Head(queue) \in queued /\ queue' \in Seq(queued)
         /\ Range(queue) = Range(queue') \cup {Head(queue)}
         /\ Head(queue) \notin Range(queue')
         /\ \A j, k \in DOMAIN queue' : queue'[j] = queue'[k] => j = k
<1>1. queue \in Seq(queued) /\ queued \subseteq FileIndices
  BY DEF IInv, TypeInv
<1>2. /\ Head(queue) \in queued /\ queue' \in Seq(queued)
      /\ Range(queue) = Range(queue') \cup {Head(queue)}
  BY <1>1, RangeOfTail
<1>3. /\ Len(queue) \in Nat \ {0} /\ DOMAIN queue = 1..Len(queue) /\ Head(queue) = queue[1]
      /\ DOMAIN queue' = 1 .. Len(queue) - 1
      /\ \A k \in 1 .. Len(queue) - 1 : queue'[k] = queue[k + 1]
  BY <1>1, HeadTailProperties, LenProperties, EmptySeq
<1>4. \A j, k \in DOMAIN queue : queue[j] = queue[k] => j = k
  BY DEF IInv, HealerInv
<1>5. \A j, k \in DOMAIN queue' : queue'[j] = queue'[k] => j = k
  BY <1>3, <1>4
<1>6. \A k \in DOMAIN queue' : queue'[k] # Head(queue)
  BY <1>3, <1>4
<1>7. QED
  BY <1>1, <1>2, <1>5, <1>6 DEF Range

LEMMA TakeFileIInv == ASSUME IInv, TakeFile PROVE IInv'
<1>1. /\ healer.at = "idle" /\ queue # << >> /\ queue' = Tail(queue)
      /\ UNCHANGED <<tree, locked, ctx, scanned, unsent, wounds, do, wound, result, queued>>
  BY DEF TakeFile, validation, doing
<1>2. queue \in Seq(queued) /\ queued \subseteq FileIndices
  BY <1>1, HeadTaken
<1>3. /\ Head(queue) \in queued /\ queue' \in Seq(queued)
      /\ Range(queue) = Range(queue') \cup {Head(queue)}
  BY <1>1, HeadTaken
<1>4. \A j, k \in DOMAIN queue' : queue'[j] = queue'[k] => j = k
  BY <1>1, HeadTaken
<1>5. Head(queue) \notin Range(queue')
  BY <1>1, HeadTaken
<1>6. Pending' = Pending /\ errs = << >> /\ healer.at # "gone" /\ ~Busy
  BY <1>1 DEF Pending, IInv, HealerInv, Busy
<1>7. \/ /\ healer' = [at |-> "locked", file |-> Head(queue), copied |-> 0]
         /\ errs' = errs
      \/ /\ healer'.at = "gone" /\ errs' = <<"failed">>
         /\ healer'.file = healer.file /\ healer'.copied = healer.copied
  BY DEF TakeFile, Gone, IInv, TypeInv
<1>8. TypeInv'
  <2>1. healer' = [at |-> "locked", file |-> Head(queue), copied |-> 0] \/ healer' = [healer EXCEPT !.at = "gone"]
    BY DEF TakeFile, Gone
  <2>2. healer' \in [at : {"idle", "locked", "copy", "gone"}, file : FileIndices \cup {0}, copied : Nat]
    BY <1>2, <1>3, <2>1, SMTT(60) DEF IInv, TypeInv
  <2>3. QED
    BY <1>1, <1>3, <2>2 DEF IInv, TypeInv
<1>9. (DirsFirst /\ PlacedBefore /\ ScannedFirst /\ Drained /\ EntriesAccounted)'
  BY <1>1, <1>6 DEF IInv, DirsFirst, PlacedBefore, DirsPlaced, ScannedFirst, Drained, EntriesAccounted
<1>10. HealerInv'
  BY <1>1, <1>3, <1>4, <1>5, <1>6, <1>7 DEF HealerInv, Busy
<1>11. WoundedRightly'
  BY <1>1, <1>3, <1>6, <1>7 DEF IInv, WoundedRightly
<1>12. FilesAccounted'
  <2>1. \A i : Queued(i) <=> i \in Range(queue)
    BY <1>6 DEF Queued
  <2>2. healer'.at = "locked" => \A i \in Range(queue) : Queued(i)'
    BY <1>3, <1>7 DEF Queued, Busy
  <2>3. QED
    BY <1>1, <1>6, <1>7, <2>1, <2>2, SMTT(60) DEF IInv, FilesAccounted
<1>13. Ended'
  BY <1>1, <1>6, NotEnded
<1>14. QED
  BY <1>8, <1>9, <1>10, <1>11, <1>12, <1>13 DEF IInv

\* The goroutine ends: with an error, or nobody wants more, or no more is to do.
LEMMA GoneIInv ==
  ASSUME IInv, healer.at # "gone", NEW e \in {"nil", "failed", "cancelled"}, Gone(e),
         UNCHANGED <<tree, locked, ctx, scanned, unsent, wounds, do, wound, result, queued, queue>>,
         e = "failed" \/ ctx # "live"
           \/ (e = "nil" /\ do = "drain" /\ queue = << >> /\ healer.at = "idle")
  PROVE  IInv'
<1>1. /\ healer'.at = "gone" /\ healer'.file = healer.file /\ healer'.copied = healer.copied
      /\ healer' \in [at : {"idle", "locked", "copy", "gone"}, file : FileIndices \cup {0}, copied : Nat]
      /\ errs' = <<e>> /\ errs = << >>
  BY DEF Gone, IInv, TypeInv, HealerInv
<1>2. Pending' = Pending
  BY DEF Pending
<1>3. TypeInv'
  BY <1>1 DEF IInv, TypeInv
<1>4. (DirsFirst /\ PlacedBefore /\ ScannedFirst /\ Drained /\ EntriesAccounted)'
  BY <1>2 DEF IInv, DirsFirst, PlacedBefore, DirsPlaced, ScannedFirst, Drained, EntriesAccounted
<1>5. (HealerInv /\ WoundedRightly)'
  BY <1>1, <1>2 DEF IInv, HealerInv, Busy, WoundedRightly
<1>6. FilesAccounted'
  <2>1. CASE ctx # "live"
    BY <2>1 DEF FilesAccounted
  <2>2. CASE e = "failed"
    BY <1>1, <1>2, <2>2 DEF IInv, FilesAccounted
  <2>3. CASE e = "nil" /\ do = "drain" /\ queue = << >> /\ healer.at = "idle"
    <3>1. \A i : ~Queued(i)
      BY <2>3 DEF Queued, Busy, Range
    <3>2. QED
      BY <1>1, <1>2, <2>3, <3>1 DEF IInv, FilesAccounted
  <2>4. QED
    BY <2>1, <2>2, <2>3
<1>7. Ended'
  BY NotEnded
<1>8. QED
  BY <1>3, <1>4, <1>5, <1>6, <1>7 DEF IInv

LEMMA NoMoreFilesIInv == ASSUME IInv, NoMoreFiles PROVE IInv'
BY GoneIInv DEF NoMoreFiles, QueueClosed, validation, doing

LEMMA HealCancelledIInv == ASSUME IInv, HealCancelled PROVE IInv'
BY GoneIInv DEF HealCancelled, validation, doing

\* A write of the goroutine, to the file it is at.
LEMMA WriteIInv ==
  ASSUME IInv, Busy, NEW n \in 0 .. Size(healer.file),
         tree[Files[healer.file]].kind \in {"none", "file"},
         tree' = [tree EXCEPT ![Files[healer.file]] = File(SubSeq(Data(healer.file), 1, n))],
         healer' = [at |-> "copy", file |-> healer.file, copied |-> n],
         healer.file \notin locked,
         UNCHANGED <<locked, ctx, scanned, unsent, wounds, do, wound, result, queued, queue, errs>>
  PROVE  IInv'
<1> DEFINE i == healer.file
           d == SubSeq(Data(i), 1, n)
<1>1. i \in queued /\ i \in FileIndices /\ i \notin Range(queue)
  BY DEF IInv, TypeInv, HealerInv
<1>2. DirsPlaced
  BY <1>1 DEF IInv, PlacedBefore
<1>3. Data(i) \in Contents /\ Size(i) \in Nat /\ Files[i] \in Paths /\ Files[i] \notin WantedDirs
      /\ Files[i] \notin WantedLinks
  BY <1>1, WantedFile
<1>4. d \in Contents
  <2>1. Data(i) \in Seq(Chunk) /\ n \in 0 .. Len(Data(i))
    BY <1>3 DEF Contents, Size
  <2>2. \A k \in 1 .. n : Data(i)[k] \in Chunk
    BY <2>1, ElementOfSeq
  <2>3. QED
    BY <2>1, <2>2, SubSeqProperties DEF Contents
<1>5. /\ tree' \in Tree /\ WellFormed(tree') /\ Direct(tree')
      /\ tree'[Files[i]] = File(d)
      /\ \A q \in Paths : q # Files[i] => tree'[q] = tree[q]
  <2> HIDE DEF d
  <2>1. tree' = [tree EXCEPT ![Files[i]] = File(d)]
    BY DEF d
  <2> DEFINE j == i
  <2> HIDE DEF j
  <2>2. QED
    BY <1>1, <1>2, <1>4, <2>1, FileWritten DEF IInv
<1> HIDE DEF d
<1>6. Pending' = Pending /\ Busy' /\ healer'.file = i /\ healer.at # "gone" /\ errs = << >>
      /\ \A j : Queued(j)' <=> Queued(j)
  BY DEF Pending, Busy, Queued, IInv, HealerInv
<1>7. \A j \in FileIndices : j # i => tree'[Files[j]] = tree[Files[j]]
  <2>1. \A j \in FileIndices : j # i => Files[j] \in Paths /\ Files[j] # Files[i]
    BY <1>1, EntriesAssumption, WantedFile DEF FileIndices
  <2>2. QED
    BY <1>5, <2>1
<1>8. \A q \in WantedDirs \cup WantedLinks : tree'[q] = tree[q]
  BY <1>3, <1>5, WantedNodes
<1>9. TypeInv'
  BY <1>1, <1>5 DEF IInv, TypeInv
<1>10. (DirsFirst /\ PlacedBefore /\ ScannedFirst /\ Drained)'
  BY <1>2, <1>6, <1>8 DEF IInv, DirsFirst, PlacedBefore, DirsPlaced, ScannedFirst, Drained
<1>11. HealerInv'
  <2>1. DirsPlaced'
    BY <1>2, <1>8 DEF DirsPlaced
  <2>2. QED
    BY <1>1, <1>5, <1>6, <2>1 DEF IInv, HealerInv, d
<1>12. WoundedRightly'
  BY <1>1, <1>6, <1>7 DEF IInv, WoundedRightly
<1>13. EntriesAccounted'
  <2>1. (\A k \in DOMAIN Dirs : Dirs[k] \in WantedDirs) /\ \A k \in DOMAIN Symlinks : Symlinks[k] \in WantedLinks
    BY EntriesAssumption DEF WantedDirs, WantedLinks
  <2>2. QED
    BY <1>6, <1>8, <2>1 DEF IInv, EntriesAccounted
<1>14. FilesAccounted'
  <2>1. Queued(i)
    BY DEF Queued
  <2>2. QED
    BY <1>1, <1>6, <1>7, <2>1 DEF IInv, FilesAccounted
<1>15. Ended'
  BY <1>6, NotEnded
<1>16. QED
  BY <1>9, <1>10, <1>11, <1>12, <1>13, <1>14, <1>15 DEF IInv

\* What opening a file does to it, its directory being there.
LEMMA OpenFileEffect ==
  ASSUME IInv, OpenFile
  PROVE  /\ Busy /\ healer.at = "locked" /\ healer.file \in FileIndices /\ healer.file \notin locked
         /\ DirsPlaced
         /\ \/ Gone("failed") /\ tree' = tree
            \/ /\ tree[Files[healer.file]].kind \in {"none", "file"}
               /\ tree' = [tree EXCEPT ![Files[healer.file]] = File(<< >>)]
               /\ healer' = [at |-> "copy", file |-> healer.file, copied |-> 0]
               /\ errs' = errs
<1> DEFINE p == Files[healer.file]
<1>1. healer.at = "locked" /\ Busy /\ healer.file \in queued /\ healer.file \in FileIndices
      /\ healer.file \notin locked /\ healer.copied = 0
  BY DEF OpenFile, Busy, IInv, TypeInv, HealerInv
<1>2. DirsPlaced
  BY <1>1 DEF IInv, PlacedBefore
<1>3. MkdirFor(tree, p) = tree /\ Follow(tree, p) = p
  BY <1>1, <1>2, PathReaches DEF IInv
<1>4. \/ Gone("failed") /\ tree' = tree
      \/ /\ CanWrite(tree, p)
         /\ tree' = Write(tree, p, << >>)
         /\ healer' = [healer EXCEPT !.at = "copy"]
         /\ errs' = errs
  BY <1>3 DEF OpenFile, OpenReaderAndWriter
<1>5. healer' = [healer EXCEPT !.at = "copy"] =>
        healer' = [at |-> "copy", file |-> healer.file, copied |-> 0]
  BY <1>1 DEF IInv, TypeInv
<1>6. QED
  BY <1>1, <1>2, <1>3, <1>4, <1>5 DEF CanWrite, Write

LEMMA OpenFileIInv == ASSUME IInv, OpenFile PROVE IInv'
<1>1. UNCHANGED <<locked, ctx, scanned, unsent, wounds, do, wound, result, queued, queue>>
  BY DEF OpenFile, validation, doing
<1>2. CASE Gone("failed") /\ tree' = tree
  BY <1>1, <1>2, OpenFileEffect, GoneIInv DEF Busy
<1>3. CASE ~(Gone("failed") /\ tree' = tree)
  <2>1. Data(healer.file) \in Seq(Chunk) /\ Size(healer.file) \in Nat
    BY OpenFileEffect, WantedFile DEF Contents
  <2>2. 0 \in 0 .. Size(healer.file) /\ SubSeq(Data(healer.file), 1, 0) = << >>
    BY <2>1
  <2>3. QED
    BY <1>1, <1>3, <2>2, OpenFileEffect, WriteIInv
<1>4. QED
  BY <1>2, <1>3

\* What copying a chunk does.
LEMMA CopyChunkEffect ==
  ASSUME IInv, CopyChunk
  PROVE  /\ Busy /\ healer.at = "copy" /\ healer.file \in FileIndices /\ healer.file \notin locked
         /\ DirsPlaced
         /\ healer.copied + 1 \in 0 .. Size(healer.file) /\ healer.copied < Size(healer.file)
         /\ tree[Files[healer.file]] = File(SubSeq(Data(healer.file), 1, healer.copied))
         /\ tree' = [tree EXCEPT ![Files[healer.file]] = File(SubSeq(Data(healer.file), 1, healer.copied + 1))]
         /\ healer' = [at |-> "copy", file |-> healer.file, copied |-> healer.copied + 1]
<1>1. healer.at = "copy" /\ Busy /\ healer.file \in queued /\ healer.file \in FileIndices
  BY DEF CopyChunk, Busy, IInv, TypeInv, HealerInv
<1>2. /\ healer.file \notin locked /\ DirsPlaced
      /\ healer.copied \in 0 .. Size(healer.file) /\ healer.copied < Size(healer.file)
      /\ tree[Files[healer.file]] = File(SubSeq(Data(healer.file), 1, healer.copied))
  BY <1>1 DEF CopyChunk, IInv, HealerInv
<1>3. Size(healer.file) \in Nat
  BY <1>1, WantedFile
<1>4. healer' = [at |-> "copy", file |-> healer.file, copied |-> healer.copied + 1]
  BY <1>1 DEF CopyChunk, IInv, TypeInv
<1>5. Follow(tree, Files[healer.file]) = Files[healer.file]
  BY <1>1, <1>2, PathReaches DEF IInv
<1>6. healer.copied + 1 \in 0 .. Size(healer.file)
  BY <1>2, <1>3
<1>7. tree' = [tree EXCEPT ![Files[healer.file]] = File(SubSeq(Data(healer.file), 1, healer.copied + 1))]
  BY <1>5 DEF CopyChunk, Write
<1>8. QED
  BY <1>1, <1>2, <1>4, <1>6, <1>7

LEMMA CopyChunkIInv == ASSUME IInv, CopyChunk PROVE IInv'
<1>1. UNCHANGED <<locked, ctx, scanned, unsent, wounds, do, wound, result, queued, queue, errs>>
  BY DEF CopyChunk, validation, doing
<1>2. tree[Files[healer.file]].kind \in {"none", "file"}
  BY CopyChunkEffect DEF File
<1>3. QED
  BY <1>1, <1>2, CopyChunkEffect, WriteIInv

LEMMA CopiedIInv == ASSUME IInv, Copied PROVE IInv'
<1>1. /\ healer.at = "copy" /\ healer.copied = Size(healer.file) /\ healer' = Idle
      /\ UNCHANGED <<tree, locked, ctx, scanned, unsent, wounds, do, wound, result, queued, queue, errs>>
  BY DEF Copied, validation, doing
<1>2. healer.file \in FileIndices /\ healer.file \in queued
  BY <1>1 DEF IInv, TypeInv, HealerInv, Busy
<1>3. tree[Files[healer.file]] = Wanted[Files[healer.file]]
  <2>1. Data(healer.file) \in Seq(Chunk) /\ Wanted[Files[healer.file]] = File(Data(healer.file))
    BY <1>2, WantedFile DEF Contents
  <2>2. SubSeq(Data(healer.file), 1, Len(Data(healer.file))) = Data(healer.file)
    BY <2>1, SubSeqFull
  <2>3. QED
    BY <1>1, <2>1, <2>2 DEF IInv, HealerInv, Size
<1>4. Pending' = Pending /\ ~Busy' /\ healer'.at = "idle" /\ healer.at # "gone" /\ errs = << >>
  BY <1>1 DEF Pending, Busy, Idle, IInv, HealerInv
<1>5. TypeInv'
  BY <1>1 DEF IInv, TypeInv, Idle
<1>6. (DirsFirst /\ PlacedBefore /\ ScannedFirst /\ Drained /\ EntriesAccounted)'
  BY <1>1, <1>4 DEF IInv, DirsFirst, PlacedBefore, DirsPlaced, ScannedFirst, Drained, EntriesAccounted
<1>7. (HealerInv /\ WoundedRightly)'
  BY <1>1, <1>4 DEF IInv, HealerInv, WoundedRightly
<1>8. FilesAccounted'
  <2>1. \A i : Queued(i) => Queued(i)' \/ i = healer.file
    BY <1>1 DEF Queued
  <2>2. QED
    BY <1>1, <1>3, <1>4, <2>1 DEF IInv, FilesAccounted
<1>9. Ended'
  BY <1>1, <1>4, NotEnded
<1>10. QED
  BY <1>5, <1>6, <1>7, <1>8, <1>9 DEF IInv

LEMMA UserIInv ==
  ASSUME IInv, Unlock \/ Cancel \/ UNCHANGED vars
  PROVE  IInv'
<1>1. /\ UNCHANGED <<tree, scanned, unsent, wounds, do, wound, result, queued, queue, healer, errs>>
      /\ locked' \subseteq locked
      /\ ctx' = ctx \/ (ctx = "live" /\ do # "returned" /\ ctx' = "cancelled")
  BY DEF Unlock, Cancel, vars, validation, doing
<1>2. Pending' = Pending
  BY <1>1 DEF Pending
<1>3. TypeInv'
  BY <1>1 DEF IInv, TypeInv
<1>4. (DirsFirst /\ PlacedBefore /\ ScannedFirst /\ Drained /\ EntriesAccounted)'
  BY <1>1, <1>2 DEF IInv, DirsFirst, PlacedBefore, DirsPlaced, ScannedFirst, Drained, EntriesAccounted
<1>5. (HealerInv /\ WoundedRightly)'
  BY <1>1, <1>2 DEF IInv, HealerInv, Busy, DirsPlaced, WoundedRightly
<1>6. (FilesAccounted /\ Ended)'
  BY <1>1, <1>2 DEF IInv, FilesAccounted, Queued, Busy, Ended, Succeeded, AllRight
<1>7. QED
  BY <1>3, <1>4, <1>5, <1>6 DEF IInv

LEMMA StepIInv == IInv /\ [Next]_vars => IInv'
<1> SUFFICES ASSUME IInv, [Next]_vars PROVE IInv'
  OBVIOUS
<1>1. CASE ValidateNext
  BY <1>1, ScanIInv, SendWoundIInv, ThrowAwayIInv DEF ValidateNext
<1>2. CASE DoNext
  BY <1>2, ReceiveIInv, HealDirIInv, HealSymlinkIInv, QueueFileIInv, SkipWoundIInv, QueuedAllIInv, DoReturnsIInv
  DEF DoNext
<1>3. CASE HealNext
  BY <1>3, TakeFileIInv, NoMoreFilesIInv, OpenFileIInv, HealCancelledIInv, CopyChunkIInv, CopiedIInv DEF HealNext
<1>4. CASE Unlock \/ Cancel \/ Done \/ UNCHANGED vars
  BY <1>4, UserIInv DEF Done
<1>5. QED
  BY <1>1, <1>2, <1>3, <1>4 DEF Next
-----------------------------------------------------------------------------
(* The theorems *)

\* The inductive invariant holds of every execution whose target is healed through
\* no link.
THEOREM InvariantHolds == ASSUME \A t \in Disks : Direct(t) PROVE Spec => []IInv
<1>1. Init => IInv
  BY InitIInv
<1>2. QED
  BY <1>1, StepIInv, PTL DEF Spec

\* Do returns without an error only when every entry is what the signature says
\* and the goroutine has ended (archive_healer.go, Do).
THEOREM HealedHolds == ASSUME \A t \in Disks : Direct(t) PROVE Spec => []Healed
<1>1. IInv => Healed
  BY DEF IInv, Ended, AllRight, Healed
<1>2. QED
  BY <1>1, InvariantHolds, PTL

\* What a step does to the target: only a directory, a link or a file that is
\* wrong is touched, and a file only when its lock is closed.
LEMMA StepTouches ==
  ASSUME IInv, [Next]_vars
  PROVE  /\ \A p \in Paths : Wanted[p] # None /\ tree[p] = Wanted[p] => tree'[p] = Wanted[p]
         /\ \A i \in locked : tree'[Files[i]] = tree[Files[i]]
<1>1. CASE HealDir
  <2>1. wound \in Wounds /\ wound.kind = "dir" /\ tree' = [tree EXCEPT ![wound.path] = Dir]
    BY <1>1 DEF HealDir, Processing, IInv, TypeInv
  <2> DEFINE q == wound.path
  <2>2. q \in WantedDirs /\ Wanted[q] = Dir
    BY <2>1, WoundShapes, WantedNodes
  <2>3. tree'[q] = Dir /\ \A p \in Paths : p # q => tree'[p] = tree[p]
    BY <2>1, <2>2, DirHealed DEF IInv
  <2>4. \A i \in locked : Files[i] \in Paths /\ Files[i] # q
    BY <2>2, WantedFile DEF IInv, TypeInv
  <2>5. QED
    BY <2>2, <2>3, <2>4
<1>2. CASE HealSymlink
  <2>1. /\ do = "process" /\ wound \in Wounds /\ wound.kind = "link"
        /\ tree' = [RemoveAll(tree, wound.path) EXCEPT ![wound.path] = Wanted[wound.path]]
    BY <1>2 DEF HealSymlink, Processing, IInv, TypeInv
  <2>2. DirsPlaced
    BY <2>1, PlacedWhenPast DEF IsDirWound
  <2> DEFINE q == wound.path
  <2>3. q \in WantedLinks
    BY <2>1, WoundShapes
  <2>4. tree'[q] = Wanted[q] /\ \A p \in Paths : p # q /\ Wanted[p] # None => tree'[p] = tree[p]
    BY <2>1, <2>2, <2>3, LinkHealed DEF IInv
  <2>5. ASSUME NEW i \in locked
        PROVE  tree'[Files[i]] = tree[Files[i]]
    <3>1. Files[i] \in Paths /\ Files[i] # q /\ Wanted[Files[i]] = File(Data(i))
      BY <2>3, WantedFile DEF IInv, TypeInv
    <3>2. Wanted[Files[i]] # None
      BY <3>1 DEF File, None
    <3>3. QED
      BY <2>4, <3>1, <3>2
  <2>6. QED
    BY <2>4, <2>5
<1>3. ASSUME NEW d, healer.file \in FileIndices, healer.file \notin locked,
             tree[Files[healer.file]] # Wanted[Files[healer.file]],
             tree' = [tree EXCEPT ![Files[healer.file]] = d]
      PROVE  /\ \A p \in Paths : Wanted[p] # None /\ tree[p] = Wanted[p] => tree'[p] = Wanted[p]
             /\ \A i \in locked : tree'[Files[i]] = tree[Files[i]]
  <2>1. \A p \in Paths : p # Files[healer.file] => tree'[p] = tree[p]
    BY <1>3 DEF IInv, TypeInv, Tree
  <2>2. \A i \in locked : Files[i] \in Paths /\ Files[i] # Files[healer.file]
    BY <1>3, WantedFile, EntriesAssumption DEF IInv, TypeInv, FileIndices
  <2>3. QED
    BY <1>3, <2>1, <2>2
<1>4. CASE OpenFile
  <2>1. tree[Files[healer.file]] # Wanted[Files[healer.file]]
    BY <1>4, OpenFileEffect DEF IInv, WoundedRightly
  <2>2. QED
    BY <1>3, <1>4, <2>1, OpenFileEffect
<1>5. CASE CopyChunk
  <2>1. tree[Files[healer.file]] # Wanted[Files[healer.file]]
    <3>1. /\ healer.file \in FileIndices
          /\ healer.copied + 1 \in 0 .. Size(healer.file) /\ healer.copied < Size(healer.file)
          /\ tree[Files[healer.file]] = File(SubSeq(Data(healer.file), 1, healer.copied))
      BY <1>5, CopyChunkEffect
    <3>2. /\ Wanted[Files[healer.file]] = File(Data(healer.file)) /\ Data(healer.file) \in Seq(Chunk)
          /\ healer.copied \in Nat /\ Size(healer.file) = Len(Data(healer.file))
      BY <3>1, WantedFile DEF Contents, Size, IInv, TypeInv
    <3>3. Len(SubSeq(Data(healer.file), 1, healer.copied)) = healer.copied
      <4>1. \A k \in 1 .. healer.copied : Data(healer.file)[k] \in Chunk
        BY <3>1, <3>2, ElementOfSeq
      <4>2. QED
        BY <3>1, <3>2, <4>1, SubSeqProperties
    <3>4. SubSeq(Data(healer.file), 1, healer.copied) # Data(healer.file)
      BY <3>1, <3>2, <3>3
    <3>5. QED
      BY <3>1, <3>2, <3>4 DEF File
  <2>2. QED
    BY <1>3, <1>5, <2>1, CopyChunkEffect
<1>6. CASE ~(HealDir \/ HealSymlink \/ OpenFile \/ CopyChunk)
  <2>1. tree' = tree
    BY <1>6 DEF Next, ValidateNext, DoNext, HealNext, vars, Scan, SendWound, ThrowAway, Receive, QueueFile,
                SkipWound, QueuedAll, DoReturns, TakeFile, NoMoreFiles, HealCancelled, Copied, Unlock, Cancel,
                Done
  <2>2. QED
    BY <2>1
<1>7. QED
  BY <1>1, <1>2, <1>4, <1>5, <1>6

\* Healing never damages an entry that is right, and rewrites a file at most once
\* (archive_healer.go, heal).
THEOREM StaysRightHolds == ASSUME \A t \in Disks : Direct(t) PROVE Spec => StaysRight
<1>1. IInv /\ [Next]_vars =>
        [\A p \in Paths : Wanted[p] # None /\ tree[p] = Wanted[p] => tree'[p] = Wanted[p]]_tree
  BY StepTouches
<1>2. QED
  BY <1>1, InvariantHolds, PTL DEF Spec, StaysRight

\* No file is touched before its user has closed its lock (healer.go,
\* HasLockMap).
THEOREM LockedUntouchedHolds == ASSUME \A t \in Disks : Direct(t) PROVE Spec => LockedUntouched
<1>1. IInv /\ [Next]_vars => [\A i \in locked : tree'[Files[i]] = tree[Files[i]]]_tree
  BY StepTouches
<1>2. QED
  BY <1>1, InvariantHolds, PTL DEF Spec, LockedUntouched
-----------------------------------------------------------------------------
(* Progress                                                                 *)

\* What each file adds to SizesOf(S).
Terms(S) == [i \in 1 .. Len(Files) |-> IF i \in S THEN Size(i) ELSE 0]

LEMMA FilesCounted ==
  /\ Len(Files) \in Nat
  /\ FileIndices = 1 .. Len(Files)
  /\ \A S : Terms(S) \in [1 .. Len(Files) -> Nat]
<1>1. Len(Files) \in Nat /\ FileIndices = 1 .. Len(Files)
  BY EntriesAssumption, LenProperties DEF FileIndices
<1>2. \A i \in 1 .. Len(Files) : Size(i) \in Nat
  BY <1>1, WantedFile
<1>3. QED
  BY <1>1, <1>2 DEF Terms

LEMMA SizesAre ==
  ASSUME NEW S
  PROVE  \E g : Facts!Sums(g, Len(Files), Terms(S)) /\ SizesOf(S) = g[Len(Files) + 1]
<1> DEFINE n == Len(Files)
           before == CHOOSE g : g = [i \in 1 .. Len(Files) + 1 |->
                       IF i = 1 THEN 0 ELSE g[i - 1] + (IF i - 1 \in S THEN Size(i - 1) ELSE 0)]
<1>1. n \in Nat /\ Terms(S) \in [1 .. n -> Int]
  BY FilesCounted
<1>2. PICK g : Facts!Sums(g, n, Terms(S))
  <2> HIDE DEF n
  <2>1. QED
    BY <1>1, Facts!SumsExist
<1>3. \A i \in 1 .. n + 1 : i # 1 => Terms(S)[i - 1] = IF i - 1 \in S THEN Size(i - 1) ELSE 0
  <2>1. \A i \in 1 .. n + 1 : i # 1 => i - 1 \in 1 .. Len(Files)
    BY <1>1
  <2>2. QED
    BY <2>1 DEF Terms
<1>4. ASSUME NEW f
      PROVE  Facts!Sums(f, n, Terms(S)) <=>
               f = [i \in 1 .. Len(Files) + 1 |->
                     IF i = 1 THEN 0 ELSE f[i - 1] + (IF i - 1 \in S THEN Size(i - 1) ELSE 0)]
  BY <1>1, <1>3 DEF Facts!Sums
<1>5. Facts!Sums(before, n, Terms(S))
  BY <1>2, <1>4
<1>6. SizesOf(S) = before[Len(Files) + 1]
  BY DEF SizesOf
<1>7. QED
  BY <1>5, <1>6
\* Files of two sets that have none in common.
LEMMA SizesAdd ==
  ASSUME NEW S, NEW T, S \cap T \cap FileIndices = {}
  PROVE  SizesOf(S \cup T) = SizesOf(S) + SizesOf(T)
<1>1. PICK f : Facts!Sums(f, Len(Files), Terms(S)) /\ SizesOf(S) = f[Len(Files) + 1]
  BY SizesAre
<1>2. PICK g : Facts!Sums(g, Len(Files), Terms(T)) /\ SizesOf(T) = g[Len(Files) + 1]
  BY SizesAre
<1>3. PICK h : Facts!Sums(h, Len(Files), Terms(S \cup T)) /\ SizesOf(S \cup T) = h[Len(Files) + 1]
  BY SizesAre
<1>4. \A i \in 1 .. Len(Files) : Terms(S \cup T)[i] = Terms(S)[i] + Terms(T)[i]
  <2>1. ASSUME NEW i \in 1 .. Len(Files)
        PROVE  Terms(S \cup T)[i] = Terms(S)[i] + Terms(T)[i]
    <3>1. Size(i) \in Nat /\ ~(i \in S /\ i \in T)
      BY FilesCounted, WantedFile
    <3>2. /\ Terms(S \cup T)[i] = IF i \in S \/ i \in T THEN Size(i) ELSE 0
          /\ Terms(S)[i] = IF i \in S THEN Size(i) ELSE 0
          /\ Terms(T)[i] = IF i \in T THEN Size(i) ELSE 0
      BY DEF Terms
    <3>3. QED
      BY <3>1, <3>2
  <2>2. QED
    BY <2>1
<1>5. h[Len(Files) + 1] = f[Len(Files) + 1] + g[Len(Files) + 1]
  <2> DEFINE n == Len(Files)
             u == Terms(S)
             v == Terms(T)
             w == Terms(S \cup T)
  <2>1. /\ Facts!Sums(f, n, u) /\ Facts!Sums(g, n, v) /\ Facts!Sums(h, n, w)
        /\ Facts!Adds(w, u, v, n)
    BY <1>1, <1>2, <1>3, <1>4 DEF Facts!Adds
  <2> HIDE DEF n, u, v, w
  <2>2. h[n + 1] = f[n + 1] + g[n + 1]
    BY <2>1, Facts!SumsAdd
  <2>3. QED
    BY <2>2 DEF n
<1>6. QED
  BY <1>1, <1>2, <1>3, <1>5

LEMMA SizesNat == ASSUME NEW S PROVE SizesOf(S) \in Nat
<1>1. PICK g : Facts!Sums(g, Len(Files), Terms(S)) /\ SizesOf(S) = g[Len(Files) + 1]
  BY SizesAre
<1>2. Len(Files) \in Nat /\ Terms(S) \in [1 .. Len(Files) -> Nat]
  BY FilesCounted
<1>3. QED
  BY <1>1, <1>2, Facts!SumsNat

LEMMA SizesNone == ASSUME NEW S, S \cap FileIndices = {} PROVE SizesOf(S) = 0
<1>1. PICK g : Facts!Sums(g, Len(Files), Terms(S)) /\ SizesOf(S) = g[Len(Files) + 1]
  BY SizesAre
<1>2. Len(Files) \in Nat /\ Terms(S) \in [1 .. Len(Files) -> Int]
  BY FilesCounted
<1>3. \A i \in 1 .. Len(Files) : Terms(S)[i] = 0
  BY FilesCounted DEF Terms
<1>4. QED
  BY <1>1, <1>2, <1>3, Facts!SumsNone

LEMMA SizesOne == ASSUME NEW i \in FileIndices PROVE SizesOf({i}) = Size(i)
<1>1. PICK g : Facts!Sums(g, Len(Files), Terms({i})) /\ SizesOf({i}) = g[Len(Files) + 1]
  BY SizesAre
<1>2. Len(Files) \in Nat /\ Terms({i}) \in [1 .. Len(Files) -> Int] /\ i \in 1 .. Len(Files)
  BY FilesCounted
<1>3. Terms({i})[i] = Size(i) /\ \A j \in 1 .. Len(Files) : j # i => Terms({i})[j] = 0
  BY <1>2 DEF Terms
<1>4. QED
  BY <1>1, <1>2, <1>3, Facts!SumsSingle, ZenonT(60)

\* One file more.
LEMMA SizesMore ==
  ASSUME NEW S, NEW i \in FileIndices, i \notin S
  PROVE  SizesOf(S \cup {i}) = SizesOf(S) + Size(i)
<1>1. S \cap {i} \cap FileIndices = {}
  OBVIOUS
<1>2. SizesOf(S \cup {i}) = SizesOf(S) + SizesOf({i})
  BY <1>1, SizesAdd, Zenon
<1>3. QED
  BY <1>2, SizesOne

LEMMA SizesLess ==
  ASSUME NEW S, NEW T, T \subseteq S
  PROVE  SizesOf(T) <= SizesOf(S)
<1>1. S = T \cup (S \ T) /\ T \cap (S \ T) \cap FileIndices = {}
  OBVIOUS
<1>2. SizesOf(S) = SizesOf(T) + SizesOf(S \ T)
  BY <1>1, SizesAdd
<1>3. QED
  BY <1>2, SizesNat
\* The files that were looked at and count as healthy.
Settled ==
  {i \in FileIndices : /\ FileAt(i) <= scanned
                       /\ i \notin queued
                       /\ FileWound(i) \notin Pending
                       /\ ClosedFile(i, Size(i)) \notin Pending}

\* What the goroutine has still to copy of the file it is at.
ToCopy == IF Busy THEN Size(healer.file) - healer.copied ELSE 0

\* What is queued is to be healed; what was copied is healed; what is neither nor
\* has a wound on its way was counted as healthy.
ProgressInv ==
  /\ healthy \in Nat /\ healed \in Nat
  /\ healing = SizesOf(queued)
  /\ do # "returned" => healthy >= SizesOf(Settled)
  /\ healer.at # "gone" => healed + SizesOf(Range(queue)) + ToCopy = healing
  /\ do # "returned" /\ ctx = "live" /\ errs = <<"nil">> => healed = healing
  /\ Accounted

\* A file that is found right has its last block reported, unless it is empty.
LEMMA InspectCloses ==
  ASSUME TypeInv, NEW i \in FileIndices, NEW u \in Inspect(Files[i]), FileWound(i) \notin Range(u)
  PROVE  Size(i) = 0 \/ ClosedFile(i, Size(i)) \in Range(u)
<1> DEFINE p == Files[i]
           d == Data(i)
<1>1. /\ p \in Paths /\ Wanted[p] = File(d) /\ FileIndex(p) = i
      /\ d \in Contents /\ Size(i) \in Nat /\ Size(i) = Len(d)
  BY WantedFile DEF Size
<1>2. tree \in Tree /\ WellFormed(tree) /\ Direct(tree) /\ tree[p] = File(d)
  BY <1>1, InspectFile DEF TypeInv
<1>3. tree[Entry(tree, p)].kind = "file" /\ Follow(tree, p) = p
  BY <1>2, FileFound DEF File
<1>4. Read(tree, p) = d
  BY <1>2, <1>3 DEF Read, File
<1>5. u = BlockWounds(i, d)
  BY <1>1, <1>3, <1>4 DEF Inspect, WoundsOf, File, Dir
<1>6. DOMAIN d = 1 .. Len(d) /\ DOMAIN BlockWounds(i, d) = 1 .. Len(d)
  BY <1>1, LenProperties DEF Contents, BlockWounds
<1>7. CASE Size(i) # 0
  <2>1. Size(i) \in DOMAIN d /\ u[Size(i)] = ClosedFile(i, Size(i))
    BY <1>1, <1>5, <1>6, <1>7 DEF BlockWounds
  <2>2. QED
    BY <1>5, <1>6, <2>1 DEF Range
<1>8. QED
  BY <1>7

\* Steps after which no further file counts as healthy and that count nothing.
LEMMA ProgressFrame ==
  ASSUME IInv, ProgressInv, UNCHANGED <<totals, queued, queue, healer, errs>>,
         do' # "returned" => do # "returned" /\ Settled' \subseteq Settled,
         ctx' = "live" => ctx = "live",
         Succeeded' => Succeeded
  PROVE  ProgressInv'
<1>1. /\ healthy' = healthy /\ healing' = healing /\ healed' = healed /\ queued' = queued /\ queue' = queue
      /\ healer' = healer /\ errs' = errs
  BY DEF totals
<1>2. ToCopy' = ToCopy
  BY <1>1 DEF ToCopy, Busy
<1>3. do' # "returned" => healthy' >= SizesOf(Settled')
  <2>1. do' # "returned" => SizesOf(Settled') <= SizesOf(Settled) /\ healthy >= SizesOf(Settled)
    BY SizesLess DEF ProgressInv
  <2>2. SizesOf(Settled) \in Nat /\ SizesOf(Settled') \in Nat /\ healthy \in Nat
    BY SizesNat DEF ProgressInv
  <2>3. QED
    BY <1>1, <2>1, <2>2
<1>4. Accounted'
  BY <1>1 DEF ProgressInv, Accounted
<1>5. QED
  BY <1>1, <1>2, <1>3, <1>4 DEF ProgressInv

\* The wound that was processed is not one of a file not queued yet.
LEMMA SettledShrinks ==
  ASSUME UNCHANGED <<scanned, queued>>,
         \A i \in FileIndices : i \notin queued =>
           /\ FileWound(i) \in Pending => FileWound(i) \in Pending'
           /\ ClosedFile(i, Size(i)) \in Pending => ClosedFile(i, Size(i)) \in Pending'
  PROVE  Settled' \subseteq Settled
BY DEF Settled
LEMMA ScanProgress == ASSUME IInv, ProgressInv, Scan PROVE ProgressInv'
<1> DEFINE k == scanned + 1
           u == unsent'
<1>1. /\ k \in 1 .. Len(Entries) /\ scanned' = k /\ u \in Inspect(Entries[k]) /\ unsent = << >>
      /\ scanned \in Nat /\ TypeInv
      /\ UNCHANGED <<tree, ctx, wounds, do, wound, result, queued, queue, healer, errs, healthy, healing, healed>>
  BY EntriesAssumption DEF IInv, TypeInv, Scan, Entries, doing, totals
<1>2. Pending' = Pending \cup Range(u)
  BY <1>1 DEF Pending, Range
<1>3. ASSUME NEW i \in Settled' \ Settled PROVE FileAt(i) = k /\ i \in FileIndices /\ Size(i) = 0
  <2>1. i \in FileIndices /\ FileAt(i) = k /\ FileWound(i) \notin Range(u) /\ ClosedFile(i, Size(i)) \notin Range(u)
    <3>1. i \in FileIndices /\ FileAt(i) <= k /\ FileAt(i) \in Int
      BY <1>1, EntriesAssumption DEF Settled, FileAt, FileIndices
    <3>2. FileWound(i) \notin Pending' /\ ClosedFile(i, Size(i)) \notin Pending' /\ i \notin queued
      BY <1>1 DEF Settled
    <3>3. ~(FileAt(i) <= scanned)
      BY <1>2, <3>1, <3>2 DEF Settled
    <3>4. QED
      BY <1>1, <1>2, <3>1, <3>2, <3>3
  <2>2. Entries[k] = Files[i]
    <3>1. Len(Dirs) \in Nat /\ Len(Symlinks) \in Nat /\ i \in Nat \ {0}
      BY <2>1, EntriesAssumption DEF FileIndices
    <3>2. k > Len(Dirs) + Len(Symlinks) /\ k - Len(Dirs) - Len(Symlinks) = i
      BY <2>1, <3>1 DEF FileAt
    <3>3. QED
      BY <1>1, <3>2, EntryKinds
  <2>3. u \in Inspect(Files[i])
    BY <1>1, <2>2
  <2>4. QED
    BY <1>1, <2>1, <2>3, InspectCloses
<1>4. SizesOf(Settled') <= SizesOf(Settled)
  <2>1. CASE Settled' \subseteq Settled
    BY <2>1, SizesLess
  <2>2. CASE ~(Settled' \subseteq Settled)
    <3>1. PICK i \in Settled' : i \notin Settled
      BY <2>2
    <3>2. i \in FileIndices /\ Size(i) = 0 /\ Settled' \subseteq Settled \cup {i}
      <4>1. \A j \in Settled' \ Settled : FileAt(j) = FileAt(i) /\ j \in Int /\ i \in Int
        BY <1>3, <3>1, EntriesAssumption DEF FileIndices
      <4>2. \A j \in Settled' \ Settled : j = i
        BY <4>1, EntriesAssumption DEF FileAt
      <4>3. QED
        BY <1>3, <3>1, <4>2
    <3>3. SizesOf(Settled \cup {i}) = SizesOf(Settled) + 0
      BY <3>1, <3>2, SizesMore
    <3>4. QED
      BY <3>2, <3>3, SizesLess, SizesNat
  <2>3. QED
    BY <2>1, <2>2
<1>5. do' # "returned" => healthy' >= SizesOf(Settled')
  <2>1. SizesOf(Settled) \in Nat /\ SizesOf(Settled') \in Nat /\ healthy \in Nat
    BY SizesNat DEF ProgressInv
  <2>2. QED
    BY <1>1, <1>4, <2>1 DEF ProgressInv
<1>6. ToCopy' = ToCopy /\ Accounted'
  BY <1>1 DEF ToCopy, Busy, ProgressInv, Accounted, Succeeded
<1>7. QED
  BY <1>1, <1>5, <1>6 DEF ProgressInv

LEMMA SendWoundProgress == ASSUME IInv, ProgressInv, SendWound PROVE ProgressInv'
<1>1. /\ unsent \in Seq(Wounds) /\ unsent # << >> /\ wounds \in Seq(Wounds)
      /\ unsent' = Tail(unsent) /\ wounds' = Append(wounds, Head(unsent))
      /\ UNCHANGED <<ctx, scanned, do, wound, result, queued, queue, healer, errs, totals>>
  BY DEF IInv, TypeInv, SendWound, doing
<1>2. Head(unsent) \in Wounds /\ Range(unsent) = Range(unsent') \cup {Head(unsent)}
  BY <1>1, RangeOfTail
<1>3. Range(wounds') = Range(wounds) \cup {Head(unsent)}
  BY <1>1, <1>2, RangeOfAppend
<1>4. Pending' = Pending
  BY <1>1, <1>2, <1>3 DEF Pending
<1>5. Settled' \subseteq Settled
  BY <1>1, <1>4, SettledShrinks
<1>6. Succeeded' => Succeeded
  BY <1>1 DEF Succeeded
<1>7. QED
  BY <1>1, <1>5, <1>6, ProgressFrame

LEMMA ThrowAwayProgress == ASSUME IInv, ProgressInv, ThrowAway PROVE ProgressInv'
<1>1. do' = "returned" /\ UNCHANGED <<ctx, do, result, queued, queue, healer, errs, totals>>
  BY DEF ThrowAway, doing
<1>2. Succeeded' => Succeeded
  BY <1>1 DEF Succeeded
<1>3. QED
  BY <1>1, <1>2, ProgressFrame

LEMMA ReceiveProgress == ASSUME IInv, ProgressInv, Receive PROVE ProgressInv'
<1>1. UNCHANGED <<scanned, unsent, queued, queue, healer, errs, totals>> /\ do = "receive"
  BY DEF Receive
<1>2. CASE ctx = "live"
  <2>1. do' = "process" /\ wound' = Head(wounds) /\ ctx' = ctx /\ wounds # << >> /\ wounds' = Tail(wounds)
    BY <1>2 DEF Receive
  <2>2. Range(wounds) = Range(wounds') \cup {Head(wounds)}
    BY <2>1, RangeOfTail DEF IInv, TypeInv
  <2>3. Pending' = Pending
    BY <1>1, <2>1, <2>2 DEF Pending
  <2>4. Settled' \subseteq Settled
    BY <1>1, <2>3, SettledShrinks
  <2>5. QED
    BY <1>1, <2>1, <2>4, ProgressFrame DEF Succeeded
<1>3. CASE ctx # "live"
  <2>1. do' = "returned" /\ result' = "cancelled" /\ ctx' # "live"
    BY <1>3 DEF Receive, Return
  <2>2. ~Succeeded'
    BY <2>1 DEF Succeeded
  <2>3. QED
    BY <1>1, <2>1, <2>2, ProgressFrame
<1>4. QED
  BY <1>2, <1>3

\* Processing a wound that queues and counts nothing.
LEMMA ProcessedProgress ==
  ASSUME IInv, ProgressInv, do = "process", do' = "receive",
         wound.kind = "file" => wound.index \in queued,
         \A i \in FileIndices : wound = ClosedFile(i, Size(i)) => i \in queued,
         UNCHANGED <<scanned, unsent, wounds, ctx, queued, queue, healer, errs, totals>>
  PROVE  ProgressInv'
<1>1. wound \in Wounds /\ Pending = Pending' \cup {wound}
  BY NextWoundPending
<1>2. \A i \in FileIndices : wound = FileWound(i) => i \in queued
  BY <1>1, WoundShapes DEF FileWound
<1>3. Settled' \subseteq Settled
  BY <1>1, <1>2, SettledShrinks
<1>4. ~Succeeded'
  BY DEF Succeeded
<1>5. QED
  BY <1>3, <1>4, ProgressFrame

LEMMA HealEntryProgress ==
  ASSUME IInv, ProgressInv, HealDir \/ HealSymlink
  PROVE  ProgressInv'
<1>1. /\ do = "process" /\ do' = "receive" /\ wound.kind \in {"dir", "link"}
      /\ UNCHANGED <<scanned, unsent, wounds, ctx, queued, queue, healer, errs, totals>>
  BY DEF HealDir, HealSymlink, Processing, NextWound, validation
<1>2. \A i : wound # ClosedFile(i, Size(i))
  BY <1>1 DEF ClosedFile
<1>3. QED
  BY <1>1, <1>2, ProcessedProgress
LEMMA SkipWoundProgress == ASSUME IInv, ProgressInv, SkipWound PROVE ProgressInv'
<1>1. /\ do = "process" /\ do' = "receive"
      /\ UNCHANGED <<scanned, unsent, wounds, ctx, queued, queue, healer, errs, healing, healed>>
  BY DEF SkipWound, Processing, NextWound, validation
<1>2. CASE wound.kind = "file" /\ wound.index \in queued /\ UNCHANGED healthy
  <2>1. \A i : wound # ClosedFile(i, Size(i))
    BY <1>2 DEF ClosedFile
  <2>2. QED
    BY <1>1, <1>2, <2>1, ProcessedProgress DEF totals
<1>3. CASE wound.kind = "closed" /\ healthy' = healthy + CountHealthy(wound)
  <2> DEFINE n == wound.index
  <2>1. wound \in Wounds /\ Pending = Pending' \cup {wound}
    BY <1>1, NextWoundPending
  <2>2. n \in FileIndices /\ wound.end \in Nat /\ \A i : wound # FileWound(i)
    BY <1>3, <2>1, WoundShapes DEF FileWound
  <2>3. CASE n \in queued \/ wound.end # Size(n)
    <3>1. healthy' = healthy
      BY <1>3, <2>3 DEF CountHealthy, ProgressInv
    <3>2. \A i \in FileIndices : wound = ClosedFile(i, Size(i)) => i \in queued
      BY <2>3 DEF ClosedFile
    <3>3. wound.kind # "file"
      BY <1>3
    <3>4. QED
      BY <1>1, <3>1, <3>2, <3>3, ProcessedProgress DEF totals
  <2>4. CASE n \notin queued /\ wound.end = Size(n)
    <3>1. healthy' = healthy + Size(n) /\ Size(n) \in Nat
      BY <1>3, <2>2, <2>4, WantedFile DEF CountHealthy
    <3>2. Settled' \subseteq Settled \cup {n}
      <4>1. ASSUME NEW i \in Settled', i # n PROVE i \in Settled
        <5>1. wound # ClosedFile(i, Size(i)) /\ wound # FileWound(i)
          BY <2>2, <4>1 DEF ClosedFile
        <5>2. QED
          BY <1>1, <2>1, <5>1 DEF Settled
      <4>2. QED
        BY <4>1
    <3>3. SizesOf(Settled') <= SizesOf(Settled \cup {n})
      BY <3>2, SizesLess
    <3>4. SizesOf(Settled \cup {n}) <= SizesOf(Settled) + Size(n)
      <4>1. CASE n \in Settled
        <5>1. Settled \cup {n} = Settled
          BY <4>1
        <5>2. SizesOf(Settled \cup {n}) = SizesOf(Settled)
          BY <5>1, Zenon
        <5>3. SizesOf(Settled) \in Nat
          BY SizesNat
        <5>4. QED
          BY <3>1, <5>2, <5>3
      <4>2. CASE n \notin Settled
        <5>1. SizesOf(Settled \cup {n}) = SizesOf(Settled) + Size(n)
          BY <2>2, <4>2, SizesMore
        <5>2. QED
          BY <3>1, <5>1, SizesNat
      <4>3. QED
        BY <4>1, <4>2
    <3>5. healthy \in Nat /\ healthy >= SizesOf(Settled)
      BY <1>1 DEF ProgressInv
    <3>6. healthy' \in Nat /\ healthy' >= SizesOf(Settled')
      <4>1. SizesOf(Settled) \in Nat /\ SizesOf(Settled') \in Nat /\ SizesOf(Settled \cup {n}) \in Nat
        BY SizesNat
      <4>2. QED
        BY <3>1, <3>3, <3>4, <3>5, <4>1
    <3>7. ToCopy' = ToCopy /\ ~Succeeded'
      BY <1>1 DEF ToCopy, Busy, Succeeded
    <3>8. QED
      BY <1>1, <3>6, <3>7 DEF ProgressInv, Accounted
  <2>5. QED
    BY <2>3, <2>4
<1>4. QED
  BY <1>2, <1>3 DEF SkipWound, Processing

LEMMA QueueFileProgress == ASSUME IInv, ProgressInv, QueueFile PROVE ProgressInv'
<1> DEFINE n == wound.index
<1>1. /\ do = "process" /\ do' # "process" /\ wound.kind = "file" /\ n \notin queued
      /\ queued' = queued \cup {n} /\ healing' = healing + Size(n)
      /\ UNCHANGED <<scanned, unsent, wounds, healer, healthy, healed>>
  BY DEF QueueFile, Processing, NextWound, Return, validation
<1>2. wound \in Wounds /\ Pending = Pending' \cup {wound}
  BY <1>1, NextWoundPending
<1>3. n \in FileIndices /\ Size(n) \in Nat /\ wound = FileWound(n)
  BY <1>1, <1>2, WoundShapes, WantedFile
<1>4. Settled' \subseteq Settled
  <2>1. \A i \in FileIndices : i # n => FileWound(i) # wound
    BY <1>3 DEF FileWound
  <2>2. \A i \in FileIndices : ClosedFile(i, Size(i)) # wound
    BY <1>3 DEF FileWound, ClosedFile
  <2>3. QED
    BY <1>1, <1>2, <2>1, <2>2 DEF Settled
<1>5. healthy' \in Nat /\ healthy' >= SizesOf(Settled')
  BY <1>1, <1>4, SizesLess, SizesNat DEF ProgressInv
<1>6. healing' = SizesOf(queued')
  BY <1>1, <1>3, SizesMore DEF ProgressInv
<1>7. ToCopy' = ToCopy /\ ToCopy \in Int
  <2>1. Busy => Size(healer.file) \in Nat /\ healer.copied \in Nat
    BY WantedFile DEF IInv, TypeInv, HealerInv
  <2>2. QED
    BY <1>1, <2>1 DEF ToCopy, Busy
<1>8. CASE queue' = Append(queue, n) /\ NextWound /\ UNCHANGED <<errs, ctx, result>>
  <2>1. Range(queue') = Range(queue) \cup {n} /\ n \notin Range(queue)
    <3>1. queue \in Seq(queued) /\ queued \subseteq FileIndices
      BY DEF IInv, TypeInv
    <3>2. queue \in Seq(FileIndices) /\ Range(queue) \subseteq queued
      BY <3>1, ElementOfSeq DEF Range
    <3>3. QED
      BY <1>1, <1>3, <1>8, <3>2, RangeOfAppend
  <2>2. SizesOf(Range(queue')) = SizesOf(Range(queue)) + Size(n)
    BY <1>3, <2>1, SizesMore
  <2>3. healer'.at # "gone" => healed' + SizesOf(Range(queue')) + ToCopy' = healing'
    <3>1. SizesOf(Range(queue)) \in Nat /\ SizesOf(queued) \in Nat
      BY SizesNat
    <3>2. QED
      BY <1>1, <1>3, <1>7, <2>2, <3>1 DEF ProgressInv
  <2>4. ctx' = "live" => errs' # <<"nil">>
    BY <1>1, <1>8 DEF IInv, FilesAccounted
  <2>5. ~Succeeded'
    BY <1>8 DEF Succeeded, NextWound
  <2>6. QED
    BY <1>1, <1>5, <1>6, <2>3, <2>4, <2>5 DEF ProgressInv, Accounted
<1>9. CASE errs # << >> /\ errs' = << >>
  <2>1. healer'.at = "gone"
    BY <1>1, <1>9 DEF IInv, HealerInv
  <2>2. ~Succeeded'
    <3>1. do' = "receive" \/ (Head(errs) # "nil" /\ result' = Head(errs))
      BY <1>1, <1>9 DEF QueueFile, NextWound, Return
    <3>2. QED
      BY <3>1 DEF Succeeded
  <2>3. QED
    BY <1>1, <1>5, <1>6, <1>9, <2>1, <2>2 DEF ProgressInv, Accounted
<1>10. QED
  BY <1>8, <1>9 DEF QueueFile

LEMMA QueuedAllProgress == ASSUME IInv, ProgressInv, QueuedAll PROVE ProgressInv'
<1>1. /\ do = "receive" /\ do' = "drain"
      /\ UNCHANGED <<ctx, scanned, unsent, wounds, wound, queued, queue, healer, errs, totals>>
  BY DEF QueuedAll, validation
<1>2. Pending' = Pending
  BY <1>1 DEF Pending
<1>3. Settled' \subseteq Settled
  BY <1>1, <1>2, SettledShrinks
<1>4. ~Succeeded'
  BY <1>1 DEF Succeeded
<1>5. QED
  BY <1>1, <1>3, <1>4, ProgressFrame

LEMMA DoReturnsProgress == ASSUME IInv, ProgressInv, DoReturns PROVE ProgressInv'
<1>1. /\ do = "drain" /\ do' = "returned" /\ errs # << >> /\ errs' = << >> /\ result' = Head(errs)
      /\ ctx' = IF ctx = "live" THEN "done" ELSE ctx
      /\ UNCHANGED <<scanned, queued, queue, healer, healthy, healing, healed>>
  BY DEF DoReturns, Return, validation, totals
<1>2. ToCopy' = ToCopy
  BY <1>1 DEF ToCopy, Busy
<1>3. ASSUME Succeeded' PROVE healed = healing /\ healthy + healed >= SizesOf(FileIndices)
  <2>1. errs = <<"nil">> /\ ctx = "live"
    BY <1>1, <1>3 DEF Succeeded, IInv, HealerInv, Ended, TypeInv
  <2>2. healed = healing /\ healthy >= SizesOf(Settled) /\ healing = SizesOf(queued)
    BY <1>1, <2>1 DEF ProgressInv
  <2>3. Pending = {} /\ scanned = Len(Entries)
    BY <1>1 DEF IInv, Drained, Pending, Range
  <2>4. \A i \in FileIndices : FileAt(i) <= scanned
    <3>1. Len(Entries) = Len(Dirs) + Len(Symlinks) + Len(Files)
      <4>1. Dirs \in Seq(Paths) /\ Symlinks \in Seq(Paths) /\ Files \in Seq(Paths)
        BY EntriesAssumption DEF Kind
      <4>2. Dirs \o Symlinks \in Seq(Paths) /\ Len(Dirs \o Symlinks) = Len(Dirs) + Len(Symlinks)
        BY <4>1, ConcatProperties
      <4>3. QED
        BY <4>1, <4>2, ConcatProperties DEF Entries
    <3>2. QED
      BY <2>3, <3>1, EntriesAssumption, FilesCounted DEF FileAt
  <2>5. FileIndices = Settled \cup queued /\ Settled \cap queued \cap FileIndices = {}
    BY <2>3, <2>4 DEF Settled, IInv, TypeInv
  <2>6. SizesOf(FileIndices) = SizesOf(Settled) + SizesOf(queued)
    BY <2>5, SizesAdd
  <2>7. SizesOf(Settled) \in Nat /\ SizesOf(queued) \in Nat /\ healthy \in Nat
    BY SizesNat DEF ProgressInv
  <2>8. QED
    BY <2>2, <2>6, <2>7
<1>4. Accounted'
  BY <1>1, <1>3 DEF Accounted, FileIndices, SizesOf
<1>5. QED
  BY <1>1, <1>2, <1>4 DEF ProgressInv

LEMMA TakeFileProgress == ASSUME IInv, ProgressInv, TakeFile PROVE ProgressInv'
<1>1. /\ healer.at = "idle" /\ queue # << >> /\ queue' = Tail(queue)
      /\ UNCHANGED <<ctx, scanned, unsent, wounds, do, wound, result, queued, healthy, healing, healed>>
  BY DEF TakeFile, validation, doing, totals
<1>2. /\ Head(queue) \in FileIndices /\ Head(queue) \notin Range(queue')
      /\ Range(queue) = Range(queue') \cup {Head(queue)}
  BY <1>1, HeadTaken
<1>3. Settled' = Settled
  BY <1>1 DEF Settled, Pending
<1>4. SizesOf(Range(queue)) = SizesOf(Range(queue')) + Size(Head(queue))
  BY <1>2, SizesMore
<1>5. ~Succeeded /\ ~Succeeded'
  BY <1>1 DEF IInv, Ended, Succeeded
<1>6. CASE archive.opens
  <2>1. healer' = [at |-> "locked", file |-> Head(queue), copied |-> 0] /\ errs' = errs
    BY <1>6 DEF TakeFile
  <2>2. Size(Head(queue)) \in Nat
    BY <1>2, WantedFile
  <2>3. ToCopy = 0 /\ ToCopy' = Size(Head(queue))
    BY <1>1, <2>1, <2>2 DEF ToCopy, Busy
  <2>4. healed' + SizesOf(Range(queue')) + ToCopy' = healing'
    BY <1>1, <1>4, <2>2, <2>3, SizesNat DEF ProgressInv
  <2>5. QED
    BY <1>1, <1>3, <1>5, <2>1, <2>4 DEF ProgressInv, Accounted
<1>7. CASE ~archive.opens
  <2>1. healer'.at = "gone" /\ errs' = <<"failed">>
    BY <1>7 DEF TakeFile, Gone, IInv, TypeInv
  <2>2. QED
    BY <1>1, <1>3, <1>5, <2>1 DEF ProgressInv, Accounted
<1>8. QED
  BY <1>6, <1>7
\* The goroutine ends, having nothing left to do if it says so to one who waits.
LEMMA GoneProgress ==
  ASSUME IInv, ProgressInv, healer.at # "gone", NEW e \in {"nil", "failed", "cancelled"}, Gone(e),
         UNCHANGED <<ctx, scanned, unsent, wounds, do, wound, result, queued, queue, totals>>,
         e # "nil" \/ ctx # "live" \/ (do = "drain" /\ queue = << >> /\ healer.at = "idle")
  PROVE  ProgressInv'
<1>1. healer'.at = "gone" /\ errs' = <<e>>
  BY DEF Gone, IInv, TypeInv
<1>2. Settled' = Settled
  BY DEF Settled, Pending
<1>3. ~Succeeded /\ ~Succeeded'
  BY DEF IInv, Ended, Succeeded
<1>4. do = "drain" /\ queue = << >> /\ healer.at = "idle" => healed = healing
  <2>1. SizesOf(Range(<< >>)) = 0
    BY SizesNone DEF Range
  <2>2. QED
    BY <2>1 DEF ProgressInv, ToCopy, Busy
<1>5. e = "nil" /\ do' # "returned" /\ ctx' = "live" => healed = healing
  BY <1>4
<1>6. UNCHANGED <<healthy, healing, healed>>
  BY DEF totals
<1>7. e # "nil" => errs' # <<"nil">>
  BY <1>1
<1>8. QED
  BY <1>1, <1>2, <1>3, <1>5, <1>6, <1>7 DEF ProgressInv, Accounted

LEMMA NoMoreFilesProgress == ASSUME IInv, ProgressInv, NoMoreFiles PROVE ProgressInv'
BY GoneProgress DEF NoMoreFiles, QueueClosed, validation, doing

LEMMA HealCancelledProgress == ASSUME IInv, ProgressInv, HealCancelled PROVE ProgressInv'
BY GoneProgress DEF HealCancelled, validation, doing

\* Steps of the goroutine within a file.
LEMMA CopyProgress ==
  ASSUME IInv, ProgressInv, healer.at # "gone", healer'.at # "gone",
         healed' \in Nat, healed' + ToCopy' = healed + ToCopy, ToCopy \in Int, ToCopy' \in Int,
         UNCHANGED <<ctx, scanned, unsent, wounds, do, wound, result, queued, queue, errs, healthy, healing>>
  PROVE  ProgressInv'
<1>1. Settled' = Settled
  BY DEF Settled, Pending
<1>2. ~Succeeded /\ ~Succeeded' /\ errs = << >>
  BY DEF IInv, Ended, Succeeded, HealerInv
<1>3. healed' + SizesOf(Range(queue')) + ToCopy' = healing'
  <2>1. healed + SizesOf(Range(queue)) + ToCopy = healing /\ healed \in Nat
    BY DEF ProgressInv
  <2>2. SizesOf(Range(queue)) \in Nat
    BY SizesNat
  <2>3. queue' = queue /\ healing' = healing
    OBVIOUS
  <2>4. SizesOf(Range(queue')) = SizesOf(Range(queue))
    BY <2>3, Zenon
  <2>5. healed' + SizesOf(Range(queue)) + ToCopy' = healing
    <3> DEFINE left == SizesOf(Range(queue))
               copy == ToCopy
               after == ToCopy'
               sum == healed'
    <3>1. /\ sum \in Nat /\ healed \in Nat /\ left \in Nat /\ copy \in Int /\ after \in Int
          /\ sum + after = healed + copy
          /\ healed + left + copy = healing
      BY <2>1, <2>2
    <3> HIDE DEF left, copy, after, sum
    <3>2. sum + left + after = healing
      BY <3>1
    <3>3. QED
      BY <3>2 DEF left, after, sum
  <2>6. QED
    BY <2>3, <2>4, <2>5, Zenon
<1>4. QED
  BY <1>1, <1>2, <1>3 DEF ProgressInv, Accounted

LEMMA OpenFileProgress == ASSUME IInv, ProgressInv, OpenFile PROVE ProgressInv'
<1>1. UNCHANGED <<ctx, scanned, unsent, wounds, do, wound, result, queued, queue, totals>>
  BY DEF OpenFile, validation, doing
<1>2. healer.at = "locked" /\ healer.copied = 0 /\ Size(healer.file) \in Nat
  BY OpenFileEffect, WantedFile DEF IInv, HealerInv
<1>3. CASE Gone("failed")
  BY <1>1, <1>2, <1>3, GoneProgress
<1>4. CASE healer' = [at |-> "copy", file |-> healer.file, copied |-> 0] /\ errs' = errs
  <2>1. ToCopy = Size(healer.file) /\ ToCopy' = Size(healer.file)
    BY <1>2, <1>4 DEF ToCopy, Busy
  <2>2. healed' = healed /\ healed \in Nat
    BY <1>1 DEF totals, ProgressInv
  <2>3. healer.at # "gone" /\ healer'.at # "gone"
    BY <1>2, <1>4
  <2>4. UNCHANGED <<healthy, healing>>
    BY <1>1 DEF totals
  <2>5. QED
    BY <1>1, <1>2, <1>4, <2>1, <2>2, <2>3, <2>4, CopyProgress
<1>5. QED
  BY <1>3, <1>4, OpenFileEffect

LEMMA CopyChunkProgress == ASSUME IInv, ProgressInv, CopyChunk PROVE ProgressInv'
<1>1. UNCHANGED <<ctx, scanned, unsent, wounds, do, wound, result, queued, queue, errs, healthy, healing>>
      /\ healed' = healed + 1
  BY DEF CopyChunk, validation, doing
<1>2. /\ healer.at = "copy" /\ healer' = [at |-> "copy", file |-> healer.file, copied |-> healer.copied + 1]
      /\ Size(healer.file) \in Nat /\ healer.copied \in Nat
  BY CopyChunkEffect, WantedFile DEF IInv, TypeInv
<1>3. ToCopy = Size(healer.file) - healer.copied /\ ToCopy' = Size(healer.file) - (healer.copied + 1)
  BY <1>2 DEF ToCopy, Busy
<1>4. healed \in Nat
  BY DEF ProgressInv
<1>5. healer.at # "gone" /\ healer'.at # "gone"
  BY <1>2
<1>6. healed' \in Nat /\ healed' + ToCopy' = healed + ToCopy /\ ToCopy \in Int /\ ToCopy' \in Int
  BY <1>1, <1>2, <1>3, <1>4
<1>7. QED
  BY <1>1, <1>5, <1>6, CopyProgress

LEMMA CopiedProgress == ASSUME IInv, ProgressInv, Copied PROVE ProgressInv'
<1>1. /\ healer.at = "copy" /\ healer.copied = Size(healer.file) /\ healer' = Idle
      /\ UNCHANGED <<ctx, scanned, unsent, wounds, do, wound, result, queued, queue, errs, healthy, healing, healed>>
  BY DEF Copied, validation, doing, totals
<1>2. healer.copied \in Nat
  BY DEF IInv, TypeInv
<1>3. ToCopy = 0 /\ ToCopy' = 0
  BY <1>1, <1>2 DEF ToCopy, Busy, Idle
<1>4. healer.at # "gone" /\ healer'.at # "gone" /\ healed \in Nat
  BY <1>1 DEF Idle, ProgressInv
<1>5. QED
  BY <1>1, <1>3, <1>4, CopyProgress

LEMMA UserProgress ==
  ASSUME IInv, ProgressInv, Unlock \/ Cancel \/ UNCHANGED vars
  PROVE  ProgressInv'
<1>1. /\ UNCHANGED <<scanned, unsent, wounds, do, wound, result, queued, queue, healer, errs, totals>>
      /\ ctx' = ctx \/ (do # "returned" /\ ctx' = "cancelled")
  BY DEF Unlock, Cancel, vars, validation, doing
<1>2. Pending' = Pending
  BY <1>1 DEF Pending
<1>3. Settled' \subseteq Settled
  BY <1>1, <1>2, SettledShrinks
<1>4. Succeeded' => Succeeded
  BY <1>1 DEF Succeeded
<1>5. QED
  BY <1>1, <1>3, <1>4, ProgressFrame

LEMMA StepProgress == IInv /\ ProgressInv /\ [Next]_vars => ProgressInv'
<1> SUFFICES ASSUME IInv, ProgressInv, [Next]_vars PROVE ProgressInv'
  OBVIOUS
<1>1. CASE ValidateNext
  BY <1>1, ScanProgress, SendWoundProgress, ThrowAwayProgress DEF ValidateNext
<1>2. CASE DoNext
  BY <1>2, ReceiveProgress, HealEntryProgress, QueueFileProgress, SkipWoundProgress, QueuedAllProgress,
     DoReturnsProgress
  DEF DoNext
<1>3. CASE HealNext
  BY <1>3, TakeFileProgress, NoMoreFilesProgress, OpenFileProgress, HealCancelledProgress, CopyChunkProgress,
     CopiedProgress
  DEF HealNext
<1>4. CASE Unlock \/ Cancel \/ Done \/ UNCHANGED vars
  BY <1>4, UserProgress DEF Done
<1>5. QED
  BY <1>1, <1>2, <1>3, <1>4 DEF Next

LEMMA InitProgress == Init => ProgressInv
<1> SUFFICES ASSUME Init PROVE ProgressInv
  OBVIOUS
<1>1. SizesOf({}) = 0 /\ Range(queue) = {}
  BY SizesNone DEF Init, Range
<1>2. Settled = {}
  <2>1. \A i \in FileIndices : ~(FileAt(i) <= scanned)
    BY EntriesAssumption, FilesCounted DEF Init, FileAt
  <2>2. QED
    BY <2>1 DEF Settled
<1>3. ToCopy = 0 /\ ~Succeeded
  BY DEF Init, ToCopy, Busy, Idle, Succeeded
<1>4. /\ healthy = 0 /\ healing = 0 /\ healed = 0 /\ queued = {} /\ errs = << >>
  BY DEF Init
<1>5. SizesOf(queued) = 0 /\ SizesOf(Range(queue)) = 0 /\ SizesOf(Settled) = 0
  BY <1>1, <1>2, <1>4, Zenon
<1>6. errs # <<"nil">>
  BY <1>4
<1>7. QED
  BY <1>3, <1>4, <1>5, <1>6 DEF ProgressInv, Accounted

\* The numbers a healing that succeeds reports: what was to be healed was healed,
\* and every file was either healed or counted as healthy (archive_healer.go,
\* Do, heal and updateProgress).
THEOREM AccountedHolds == ASSUME \A t \in Disks : Direct(t) PROVE Spec => []Accounted
<1>1. ProgressInv => Accounted
  BY DEF ProgressInv
<1>2. QED
  BY <1>1, InvariantHolds, InitProgress, StepProgress, PTL DEF Spec
=============================================================================
