-------------------------------- MODULE LruFile --------------------------------
(***************************************************************************)
(* The old file a binary patch reads from: a cache of chunks               *)
(* (bsdiff/lrufile) in front of a reader that may be a safe keeper's.      *)
(* Chunks are entered into a list of recently used ones, and stored in a   *)
(* free slot; evicting a chunk frees its slot.  One cache serves one file  *)
(* after another.  One byte of a file is one value.                        *)
(***************************************************************************)
EXTENDS SafeKeeper, FiniteSets

CONSTANTS
  ChunkSize,    \* bytes in a chunk
  NumEntries,   \* slots of the cache
  MaxRead,      \* bytes a caller asks for at once
  MaxFailures   \* bound on the reads that fail

ASSUME CacheAssumption ==
  /\ ChunkSize \in Nat \ {0}
  /\ NumEntries \in Nat \ {0}
  /\ MaxRead \in Nat
  /\ MaxFailures \in Nat

\* bsdiff/patch.go, pwr/constants.go: a chunk has 32 kB, a block 64 kB.
ASSUME ChunksInBlocks == \E k \in 1..BlockSize : BlockSize = k * ChunkSize

VARIABLES
  safe,         \* whether a safe keeper guards the old files
  file,         \* the file Reset was called with, 0 at first
  size,         \* its size
  offset,       \* where the next read is
  recent,       \* the chunks in the cache, last used first
  slot,         \* where each of them is stored
  allocations,  \* the chunk in every slot, Free if none
  storage,      \* the bytes of every slot
  call,         \* the Read in progress: [at, want, got]
  result,       \* "none", "reading", or how the last call ended
  failed,       \* whether a read has failed since Reset
  failures      \* reads that failed so far

cache == <<recent, slot, allocations, storage>>
vars == <<verdicts, signature, safe, file, size, offset, cache, call, result, failed, failures>>

Slots == 0 .. NumEntries - 1
Free == -1
Blank == 0      \* storage that was never written

NoCall == [at |-> 0, want |-> 0, got |-> << >>]

Init ==
  /\ verdicts = [c \in {} |-> "valid"]
  /\ signature = "closed"
  /\ safe \in BOOLEAN
  /\ file = 0
  /\ size = 0
  /\ offset = 0
  /\ recent = << >>
  /\ slot = [c \in {} |-> 0]
  /\ allocations = [s \in Slots |-> Free]
  /\ storage = [s \in Slots |-> [i \in 1..ChunkSize |-> Blank]]
  /\ call = NoCall
  /\ result = "none"
  /\ failed = FALSE
  /\ failures = 0

\* Mutant: the chunks of the file before stay.
ResetOffsetOnly(f) ==
  /\ result # "reading"
  /\ file' = f
  /\ size' = Len(Disk[f])
  /\ offset' = 0
  /\ call' = NoCall
  /\ result' = "none"
  /\ failed' = FALSE
  /\ UNCHANGED <<verdicts, signature, safe, cache, failures>>

\* Reset: the slots become free, their bytes stay.
Reset(f) ==
  /\ result # "reading"
  /\ file' = f
  /\ size' = Len(Disk[f])
  /\ offset' = 0
  /\ recent' = << >>
  /\ slot' = [c \in {} |-> 0]
  /\ allocations' = [s \in Slots |-> Free]
  /\ call' = NoCall
  /\ result' = "none"
  /\ failed' = FALSE
  /\ UNCHANGED <<verdicts, signature, safe, storage, failures>>

\* Mutant: the offset is kept although it is invalid.
SeekUnchecked(o) ==
  /\ file # 0
  /\ result # "reading"
  /\ offset' = o
  /\ result' = IF o \in 0..size THEN "none" ELSE "bad seek"
  /\ call' = NoCall
  /\ UNCHANGED <<verdicts, signature, safe, file, size, cache, failed, failures>>

\* Seek; outside of the file it goes to the start and returns an error.
Seek(o) ==
  /\ file # 0
  /\ result # "reading"
  /\ offset' = IF o \in 0..size THEN o ELSE 0
  /\ result' = IF o \in 0..size THEN "none" ELSE "bad seek"
  /\ call' = NoCall
  /\ UNCHANGED <<verdicts, signature, safe, file, size, cache, failed, failures>>

Read(n) ==
  /\ file # 0
  /\ result # "reading"
  /\ call' = [at |-> offset, want |-> n, got |-> << >>]
  /\ result' = "reading"
  /\ UNCHANGED <<verdicts, signature, safe, file, size, offset, cache, failed, failures>>

-----------------------------------------------------------------------------
(* One turn of Read's loop                                                   *)

Chunk == offset \div ChunkSize
ChunkEnd(c) == Smaller((c + 1) * ChunkSize, size)

Remaining == call.want - Len(call.got)

\* The bytes of the chunk that were asked for, and the end of the file when
\* more was asked for than its last chunk has.
Deliver(bytes) ==
  LET end  == Smaller(offset + Remaining, ChunkEnd(Chunk))
      part == SubSeq(bytes, offset - Chunk * ChunkSize + 1, end - Chunk * ChunkSize)
      eof  == offset + Remaining > ChunkEnd(Chunk) /\ (Chunk + 1) * ChunkSize > size
      got  == call.got \o part
  IN /\ call' = [call EXCEPT !.got = got]
     /\ offset' = end
     /\ result' = IF eof THEN "eof" ELSE IF Len(got) = call.want THEN "done" ELSE "reading"

\* Chunk c becomes the one last used.
ToFront(c) ==
  LET k == CHOOSE i \in DOMAIN recent : recent[i] = c
  IN [i \in DOMAIN recent |-> IF i = 1 THEN c ELSE IF i <= k THEN recent[i - 1] ELSE recent[i]]

Hit ==
  /\ result = "reading"
  /\ Remaining > 0
  /\ Chunk \in DOMAIN slot
  /\ recent' = ToFront(Chunk)
  /\ Deliver(storage[slot[Chunk]])
  /\ UNCHANGED <<verdicts, signature, safe, file, size, slot, allocations, storage, failed, failures>>

\* Mutant: eviction leaves the slot taken.
FreedNothing == allocations

\* Adding a chunk to a full list evicts the one used longest ago: its slot is free.
Freed == IF Len(recent) = NumEntries
         THEN [allocations EXCEPT ![slot[recent[Len(recent)]]] = Free]
         ELSE allocations

\* Mutant: the slot is not marked as taken.
AddedUnmarked(c) ==
  LET full == Len(recent) = NumEntries
      kept == DOMAIN slot \ (IF full THEN {recent[Len(recent)]} ELSE {})
  IN /\ recent' = [i \in 1 .. (IF full THEN Len(recent) ELSE Len(recent) + 1) |->
                     IF i = 1 THEN c ELSE recent[i - 1]]
     /\ \E s \in Slots :
          /\ Freed[s] = Free
          /\ \A r \in 0 .. s - 1 : Freed[r] # Free
          /\ slot' = [d \in kept \cup {c} |-> IF d = c THEN s ELSE slot[d]]
          /\ allocations' = Freed

\* Chunk c goes to the first free slot.
Added(c) ==
  LET full == Len(recent) = NumEntries
      kept == DOMAIN slot \ (IF full THEN {recent[Len(recent)]} ELSE {})
  IN /\ recent' = [i \in 1 .. (IF full THEN Len(recent) ELSE Len(recent) + 1) |->
                     IF i = 1 THEN c ELSE recent[i - 1]]
     /\ \E s \in Slots :
          /\ Freed[s] = Free
          /\ \A r \in 0 .. s - 1 : Freed[r] # Free
          /\ slot' = [d \in kept \cup {c} |-> IF d = c THEN s ELSE slot[d]]
          /\ allocations' = [Freed EXCEPT ![s] = c]

HasRoom == \E s \in Slots : Freed[s] = Free

Missed == result = "reading" /\ Remaining > 0 /\ Chunk \notin DOMAIN slot

Filled(s, bytes) ==
  [storage EXCEPT ![s] = [i \in 1..ChunkSize |-> IF i <= Len(bytes) THEN bytes[i] ELSE @[i]]]

\* The chunk is read whole; what a safe keeper finds missing, or the file does
\* not have, leaves the bytes of the slot as they were.
FromFile == BytesAt(Disk[file], Chunk * ChunkSize, ChunkSize)

Miss ==
  /\ Missed
  /\ Added(Chunk)
  /\ \/ /\ IF safe THEN BlockJudged(file, Chunk * ChunkSize, "valid") ELSE UNCHANGED <<verdicts, signature>>
        /\ storage' = Filled(slot'[Chunk], FromFile)
     \/ /\ safe
        /\ BlockEnds(file, Chunk * ChunkSize)
        /\ UNCHANGED storage
  /\ Deliver(storage'[slot'[Chunk]])
  /\ UNCHANGED <<safe, file, size, failed, failures>>

\* The read of the chunk fails; it is in the cache all the same.
MissFails ==
  /\ Missed
  /\ Added(Chunk)
  /\ \/ safe /\ BlockJudged(file, Chunk * ChunkSize, "corrupt") /\ UNCHANGED failures
     \/ safe /\ signature = "failed" /\ SignatureFails(file, Chunk * ChunkSize) /\ UNCHANGED failures
     \/ /\ failures < MaxFailures
        /\ failures' = failures + 1
        /\ IF safe
             THEN \/ SignatureFails(file, Chunk * ChunkSize)
                  \/ BlockFails(file, Chunk * ChunkSize)
                  \/ BlockJudged(file, Chunk * ChunkSize, "valid")
             ELSE UNCHANGED <<verdicts, signature>>
  /\ result' = "failed"
  /\ failed' = TRUE
  /\ UNCHANGED <<safe, file, size, offset, storage, call>>

Next ==
  \/ \E f \in Files : Reset(f)
  \/ \E o \in -1 .. size + 1 : Seek(o)
  \/ \E n \in 1 .. MaxRead : Read(n)
  \/ Hit
  \/ Miss
  \/ MissFails

Spec == Init /\ [][Next]_vars
-----------------------------------------------------------------------------
(* Properties *)

\* Type invariant; the offset stays inside the file.
TypeOK ==
  /\ \A c \in DOMAIN verdicts : c[1] \in Files /\ c[2] \in Nat /\ verdicts[c] \in {"valid", "corrupt"}
  /\ signature \in {"closed", "open", "failed"}
  /\ safe \in BOOLEAN
  /\ file \in Files \cup {0}
  /\ size = IF file = 0 THEN 0 ELSE Len(Disk[file])
  /\ offset \in 0..size
  /\ result \in {"none", "reading", "done", "eof", "bad seek", "failed"}
  /\ failed \in BOOLEAN
  /\ failures \in 0..MaxFailures

\* lrufile.go: the three records of the cache agree. The chunks in the list are
\* those that have a slot, no two share one, and a slot is marked as taken exactly
\* when a chunk has it; so does a chunk whose read failed.
CacheCoherent ==
  /\ Len(recent) <= NumEntries
  /\ DOMAIN slot = {recent[i] : i \in DOMAIN recent}
  /\ \A i, j \in DOMAIN recent : recent[i] = recent[j] => i = j
  /\ \A c \in DOMAIN slot : slot[c] \in Slots /\ allocations[slot[c]] = c
  /\ \A s \in Slots : allocations[s] # Free => allocations[s] \in DOMAIN slot /\ slot[allocations[s]] = s

\* lrufile.go:190: "could not find room in lrufile cache" cannot happen: after an
\* eviction there is a free slot.
FindsRoom == Missed => HasRoom

\* Unless a read has failed since Reset, what is stored for a chunk is what the
\* file has there, although slots are never cleared and serve file after file.
StoredRight ==
  ~failed => \A c \in DOMAIN slot : \A i \in 1..ChunkSize :
               c * ChunkSize + i <= size => storage[slot[c]][i] = Disk[file][c * ChunkSize + i]

\* A read that succeeds returns the bytes of the file at the offset, and says it
\* is at the end exactly when more was asked for than the file has.
ReadsRight ==
  ~failed /\ result \in {"done", "eof"} =>
    /\ call.got = BytesAt(Disk[file], call.at, call.want)
    /\ (result = "eof") <=> (call.at + call.want > size)

Intact(f) == Disk[f] = Signed[f]

\* safekeeper.go: no byte that differs from the signed file is handed out through
\* a safe keeper, although it validates only the block at the offset of a read:
\* the cache asks for chunks that do not cross blocks. And it refuses no other: a
\* read fails only if reading failed, a block of the file is not what was signed,
\* or it reached the end of a file of whole blocks, where validating the block at
\* the offset fails instead of saying so.
ReadsAreGuarded ==
  /\ safe /\ ~failed =>
       \A i \in DOMAIN call.got :
         call.at + i <= Len(Signed[file]) => call.got[i] = Signed[file][call.at + i]
  /\ result = "failed" /\ failures = 0 =>
       \/ ~Intact(file)
       \/ size % BlockSize = 0 /\ call.at + call.want > size
=============================================================================
