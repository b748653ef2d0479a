-------------------------------- MODULE Bsdiff --------------------------------
(***************************************************************************)
(* DiffContext.Do of bsdiff/diff.go: the blocks of a new file (BsdiffScan) *)
(* scanned by a ring of workers (ScanRing).                                *)
(***************************************************************************)
EXTENDS ScanRing, BsdiffScan

CONSTANTS
  Cases,         \* [old, new, partitions, fails]: the files, the setting, and whether
                 \* writing a message may fail
  BlockLen,      \* the length of a block (128 KiB in the code)
  PerPartition   \* workers per partition (12 in the code)

VARIABLE case

\* Matches; what says that a block is over is none.
MatchSet == [addOldStart : Nat, addNewStart : Nat, addLength : Nat, copyEnd : Nat]

ASSUME EocAssumption == Eoc \notin MatchSet

ASSUME BlockLenAssumption == BlockLen \in Nat \ {0}

ASSUME PerPartitionAssumption == PerPartition \in Nat \ {0}

Ceil(n, d) == (n + d - 1) \div d

Partitions(c) ==
  IF c.partitions = 0 \/ c.partitions >= Len(c.old) - 1 THEN 1 ELSE c.partitions

BlockSize(c) ==
  IF Ceil(Len(c.new), BlockLen) < Partitions(c) THEN Len(c.new) \div Partitions(c) ELSE BlockLen

NumBlocks(c) == Ceil(Len(c.new), BlockSize(c))

NumWorkers(c) == Lesser(PerPartition * Partitions(c), NumBlocks(c))

ASSUME FilesAssumption ==
  \A c \in Cases :
    c.old \in Seq(Bytes) /\ c.new \in Seq(Bytes) /\ c.partitions \in Nat /\ c.fails \in BOOLEAN

\* The old file is not empty, and there is at least a byte for every partition:
\* Do divides by zero otherwise.
ASSUME CasesAssumption == \A c \in Cases : c.old # << >> /\ Len(c.new) >= Partitions(c)

\* What the worker of a block will find; the last block has what is left.
Matches(c) ==
  LET n == BlockSize(c)
      psa == NewPSA(c.old, Partitions(c))
  IN [b \in 1 .. NumBlocks(c) |->
       AnalyzeBlock(c.old, psa,
         Slice(c.new, (b - 1) * n, IF b = NumBlocks(c) THEN Len(c.new) ELSE b * n), (b - 1) * n)]

DiffInit ==
  /\ case \in Cases
  /\ failing = case.fails
  /\ Start(Matches(case), NumWorkers(case))

DiffSpec == DiffInit /\ [][RingNext /\ UNCHANGED case]_<<ring, case>>

\* Every goroutine runs on.
FairDiffSpec ==
  /\ DiffSpec
  /\ WF_ring(DispatcherNext)
  /\ \A w \in UNION {0 .. NumWorkers(c) - 1 : c \in Cases} : WF_ring(w \in Workers /\ WorkerNext(w))
  /\ WF_ring(CollectorNext)
  /\ WF_ring(WriterNext)
-----------------------------------------------------------------------------
(* Properties *)

\* The messages of a Do that returned nil make the new file of the old one.
DiffIsRight ==
  result = "nil" => Applied(case.old, Controls(case.old, case.new, written)) = case.new

\* Do returns; after one without an error every goroutine it started has ended.
Settles == <>(Left)
=============================================================================
