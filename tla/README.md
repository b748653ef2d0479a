# wharf: models and proofs

wharf is the patching library of the itch.io client: it compares two builds, writes a patch, applies it (into a new folder or
in place), resumes a patch that was interrupted, validates and heals an installed build against a signature, and extracts archives. This
directory holds TLA+ models of its stateful parts, the TLC runs that check them on small instances, and theorems checked by TLAPS.

Every module is written from the Go sources; `PROJECT.json` maps each definition to the lines it stands for, lists the runs,
the mutants (a plausible bug for every property, under which the property must fail), the hazards of the code and the findings.

    tlc -workers 2 -config bowl.cfg MCOverlayBowl     # one run
    tlapm LruFile_proofs.tla                          # one module of proofs

## 1. The system and its parts

| Part | State it keeps | Operations | Talks to |
|---|---|---|---|
| In-place bowl `pwr/bowl/bowl_overlay.go` | transpositions, overlay files, move files; staging folder; output folder | GetWriter, Transpose, Save, Resume, Commit | the patcher calls it; overlay writers below it |
| Fresh bowl `pwr/bowl/bowl_fresh.go` | the output folder | the same; Transpose copies at once, Commit does nothing | the patcher |
| Pool and dry bowls `pwr/bowl/bowl_pool.go`, `bowl_dry.go` | a writable pool; nothing | the same; no Save and no Resume | the patcher |
| Overlay writer and patch `pwr/overlay` | buffer, read offset, overlay offset | Write, Save, Finalize, Patch | in-place bowl |
| Patcher `pwr/patcher` | file index, kind of series, offsets, open entry writer | Resume with its save loops, skipping | wire reader, bowl, save consumer |
| Wire reader `wire/read_context.go` | offset, save state, the source's checkpoint | ReadMessage, WantSave, PopCheckpoint, Resume | a (decompressing) savior source, by callbacks |
| Validator `pwr/validator.go` | goroutines of four kinds and the channels between them | Validate | validating pool, aggregator, wounds consumers |
| Wounds `pwr/wounds.go`, `validatingpool.go`, `blockvalidator.go`, `drip`, `onclose` | a wound held back; a partial block | AggregateWounds, the guardian, writer and printer | validator |
| Archive healer `pwr/archive_healer.go` | set of files to heal, lock map, progress under a mutex | Do, heal, healOne | is a wounds consumer of the validator |
| Rsync algorithm `wsync` | a window over one buffer, a pending operation | ComputeDiff, ApplySingle, CreateSignature | differ, signatures, patcher |
| Differ `pwr/diff.go`, `multiread`, `taskgroup`, `ctxcopy` | three tasks over two pipes | WritePatch | rsync algorithm, signatures |
| Binary differ `bsdiff/diff.go`, `psa.go` | a ring of blocks, dispatcher, workers, collector | Do | rediffer |
| Chunk cache `bsdiff/lrufile` | allocations, slots, recency, one pending error | Reset, Seek, Read | binary patcher |
| Safe keeper `pwr/safekeeper.go` | offset, verdict of every block | GetReader, Seek, Read | under the chunk cache, as the patcher's target pool |
| Rediffer `pwr/rediff` | byte counts per pair of files, chosen pairs | AnalyzePatch, OptimizePatch | reads patches, calls the binary differ |
| Genie `pwr/genie` | the composition of a block, being filled | ParseHeader, ParseContents | readers of patches |
| Archiver `archiver` | worker pool, counters, resume file | ExtractZip, ExtractTar, CompressZip | callers |
| Signatures, compression, copying, messages, generated code | none worth the name | | all |

How they interact. The patcher drives everything in a patching session, sequentially: it reads messages through the wire
reader, gives each file to the bowl either as a *transposition* (the file exists in the old build) or as writes to an entry
writer, and when its consumer wants a save it puts one checkpoint together out of four: the reader's, the bowl's, the entry
writer's and, for a bsdiff series, the offset in the old file. Old files are read through the chunk cache, which may read through a
safe keeper. Only after the session does the in-place bowl change the installed build, in `Commit`. Validation is concurrent: one
goroutine scans and feeds, one worker reads files, two more per open file merge and relay wounds, one consumes them; only channels
connect them, and the consumer may be the healer, which changes the folder under the validator. Making a patch is concurrent twice: per
file a copier feeds a differ and a signer; per bsdiff series a dispatcher, workers, a collector and a writer share a ring.

Hard behaviours and what makes each part correct:

* **In-place commit.** Old files are sources and destinations at once, groups of transpositions come in the random order of a Go
  map, directories and links change kind under them. Correct: the result is the new build, and until then each new file can
  still be made from what is on disk.
* **Resuming.** The decompressor saves somewhere inside a read, the context hands out its checkpoint messages later, writers
  buffer, a crash leaves units on disk that the checkpoint does not know of. Correct: from the last checkpoint the result is
  what an undisturbed session produces.
* **Validation.** Errors of any goroutine while others block on channels, a wound that overtakes others, cancellation.
  Correct: Validate returns, never sends on a closed channel, and what it returns and reports is what is wrong with the target.
* **Healing.** Files are queued while wounds arrive, the folder changes while it is scanned, locks are opened by a user. Correct: nil
  only if everything is as signed, nothing right is damaged, nothing locked is touched.
* **Diffing.** A buffer that wraps under live indices; pipes whose readers stop early; a ring shared by a dispatcher and a
  collector. Correct: applying the diff yields the new file, and an error ends the call.
* **Caching.** A hit must return the bytes of the file though slots are reused and never cleared; a verdict must be that of the bytes
  read. Correct: a cached reader reads as a plain one, and through a safe keeper never hands out an unsigned byte.
* **Extraction.** Workers finish out of order and record their index, a crash comes at any point. Correct: what a finished extraction
  says is there is there.

## 2. Modules

| Module | Models | Lines of the code |
|---|---|---|
| `FileTree` | the file-system calls of the others: create, remove, rename, open through links | as `os` and `screw` are used there |
| `OverlayBowl`, `MCOverlayBowl` | the in-place bowl: recording, saving and resuming, and every step of Commit | `bowl_overlay.go` |
| `Folders_proofs` | theorems about the recorded lists, about Commit and about extraction | |
| `WireReader` | `wire.ReadContext`, as a module others extend | `read_context.go` |
| `WireClient`, `Streams_proofs` | what the user of a reader may do: read, fail inside a message, ask, pop, restart from the last checkpoint; the abstract specification that `PatchSession` implements as a reader's user | `read_context.go` |
| `PatchFormat` | what a patch stands for: messages, operations, the overlay encoding, and the reference result | `patcher_*.go`, `bsdiff/patch.go`, `overlay_*.go`, `wsync.ApplySingle` |
| `PatchSession`, `MCPatchSession`, `PatchSession_proofs` | the patcher with its wire reader, entry writers, files on disk, saves, stops, crashes and power losses; composes `WireReader` and `PatchFormat` | `patcher*.go`, `bowl_fresh.go`, writers of `bowl_overlay.go` |
| `ResumableJob` | the abstract specification of a session: N steps in order, resumed from the last save | |
| `Validator`, `MCValidator`, `Validator_proofs` | goroutines and channels of a validation | `validator.go`, `validatingpool.go`, `wounds.go`, `blockvalidator.go`, `drip`, `onclose` |
| `ArchiveHealer`, `MCArchiveHealer`, `ArchiveHealer_proofs` | Do and the healing goroutine, with the scan that feeds them, on a `FileTree` | `archive_healer.go`, the scan of `validator.go` |
| `SafeKeeper` | the verdicts of a file's blocks | `safekeeper.go` |
| `LruFile`, `MCLruFile`, `LruFile_proofs` | the chunk cache over a file, or over a `SafeKeeper` | `lrufile.go` (and the LRU map it imports) |
| `Rsync` | ComputeDiff with its buffer, rolling hash and pending operation; signatures and the block library | `wsync` |
| `WritePatch`, `MCWritePatch`, `WritePatch_proofs` | the tasks of each file of a patch, around `Rsync` | `diff.go`, `multiread`, `taskgroup`, `ctxcopy` |
| `Rediff`, `WritePatch_proofs` | from a finished patch of `WritePatch`, the old file each new one is mapped to | `rediff.go` |
| `Genie`, `WritePatch_proofs` | from a finished patch of `WritePatch`, what each big block is made of | `genie.go` |
| `ScanRing`, `Streams_proofs` | dispatcher, workers, collector and writer round the ring | `bsdiff/diff.go` |
| `BsdiffScan` | the search in the partitioned suffix array, the matches of a block, the control messages and their application | `bsdiff/diff.go`, `psa.go`, `math.go` |
| `Bsdiff`, `MCBsdiff` | `Do`: `ScanRing` run on what `BsdiffScan` computes | `bsdiff/diff.go` |
| `ZipExtract`, `MCZipExtract`, `Folders_proofs` | the extraction of an archive, with its resume file, on a `FileTree` | `zip.go`, `archiver.go` |
| `SequenceFacts` | lemmas the proofs share: induction by sets of numbers, recursive functions, blocks and chunks, concatenation and flattening | |

### FileTree and OverlayBowl

A tree maps each path (one or two names) to nothing, a file with its contents, a directory or a link to a top-level name; opening,
renaming and removing resolve links as POSIX does. The state of the bowl is what the Go struct has: `transpositions` (the code
keeps them grouped by source; `Grouped` recovers the groups), `overlayFiles`, `moveFiles`; plus the two folders, the
`.butler-rename-N` files (`safe`) and `checkpoint`. `Transpose` and `WriteEntry` process one new file; the choice between
them is the patch's (`plan`, all legal ones). `Commit` is one action per entry and phase, in the order of the code: `EnsureDir`,
`EnsureSymlink`, `ApplyTransposition` (`Copy` or `Move`, redirected or not), `CleanupRename`, `ApplyMove`, `ApplyOverlay`,
`DeleteGhost`. Within a phase entries are taken in any order, except where the code fixes one that matters (groups are finished before
the next begins, ghosts go longest path first); the sorted orders of the code are among them. A step that fails ends the
commit, with what it had already done left in place.

### WireReader, PatchFormat and PatchSession

A message is a number of bytes. The source, when asked, gives its checkpoint at any place inside a read; on resuming it may start
anywhere before that, and the context reads and discards the difference. `PatchSession` extends this reader, reads the stream of
a given patch one message per action, and follows the code's control: `ReadHeader`, `SkipMessage`, `ReadTransposition` and
`ReadTail`, `ReadFirst`, `ReadBsdiffHeader`, then the loop `GoOn`/`AskSave`/`SaveCheckpoint` and `ReadOp` or
`ReadControl`, `ReadSentinel`. A file is a sequence of small numbers, one per rsync block; bsdiff adds them modulo `Values`, the code
modulo 256. An overlay on disk is a sequence of cells, an operation or a unit each, so that a stale tail left by a crashed session,
with other operation boundaries, is really there to be misread. `disk` is what the process has written, `synced` what a power loss
leaves. Any error of a single call has the effect of a crash: the session ends and the last checkpoint is what remains. A read that fails may have taken a part of its message,
and the source may have saved in it (`ReadPart` in `Crash`).

`ResumableJob` is what all this is for, in 20 lines; `PatchSession` implements it with `done` the number of messages read,
`saved` the number the last checkpoint covers. Seen from the reader the session implements `WireClient`: `broken` is an offset inside a message, `popped` the message part of the last
checkpoint. The patcher is the only user of a `ReadContext` that asks for checkpoints (`patcher_rsync.go:144`, `patcher_bsdiff.go:110`), so the reader is checked under its sessions, and proved
about for any use that `WireClient` allows and messages of any lengths.

### Validator

`Main`, `Worker`, `Pipeline` and `Consumer` are the goroutines. The channel of wounds is a bounded queue, feeding a file index is a
rendezvous with an idle worker, the aggregator and relay hold at most what the code's locals hold. `Cancel` is the caller's context. A
file's bytes are modelled because what is reported depends on block arithmetic; a hash is the block it stands for (no collisions).
Directories and links are one kind of entry.

### ArchiveHealer

The validator's scan is reduced to what the healer can tell apart: it looks at the directories, links and files of the container in
turn, at what the tree holds *then*, and sends their wounds one by one. `Do` receives, repairs directories and links itself and
queues files, each at most once (`queued` is the set `files` of the code); the other goroutine waits for a file's lock, empties the file
and copies it chunk by chunk. `healthy`, `healing` and `healed` are the counters of the progress. A file's contents are read in one step: after
the first difference its further wounds change nothing.

### SafeKeeper and LruFile

The cache has the fields of the struct: `allocations` and `storage` per slot, `slot` (the map of the LRU) and `recent` (its list). `Read` is a
loop of one chunk per step; a chunk is entered into the cache before it is read, one step earlier, as in the code, so that a failed read
leaves an entry whose slot still holds old bytes. `SafeKeeper` validates the block at the offset of each read and remembers the
verdict of every block, also that its signature could not be opened. The same properties are asked with and without it.

### Rsync, WritePatch, Rediff and Genie

`Rsync` keeps the code's indices into one buffer: `window` and `pending` are `sum.tail` and `data.tail`, `validTo` is where what was
read ends, and `Wrap` moves the rest to the front. `sent` has the operation kept for combining and those that were sent. `WritePatch`
composes it with the copier (which hands each chunk to the differ's pipe, then to the signer's, and waits each time until it was
read), the signer, and the task group, whose first error returns while the others go on. `Rediff` and `Genie` are functions of a finished patch, so their
properties are checked on every patch the run produces rather than on patches someone made up.

### ScanRing, BsdiffScan and Bsdiff

`ScanRing` is the concurrency of `Do` for any matches: per worker a channel of blocks, of matches and of one token (`consumed`); dispatcher
and collector walk the ring independently. `BsdiffScan` is the computation with the code's indices; reading outside a file is an error
TLC reports. The suffix array has the suffixes in order (the sorter is a library; no two suffixes are equal, so there is one order); its search, the partitions, the
scoring, the extension of matches both ways and the resolution of overlaps are the code's. `Bsdiff` runs the first on the second and reads its
messages back. Loops are recursive functions of the number of turns taken (`ScanOn` is one turn of the outer loop, `Halved` one of the search), which stop changing
once the code's loop has ended; the inner loop, which keeps a running score, is `NextMatch`: the first place whose match is good, the score of a place being a count.

### ZipExtract

A feeder passes indices to workers; a worker makes a directory or link at once and creates a file before it fills it; then it writes its index into
the resume file. The process may die between any two steps, also while the resume file is being written; the next call
reads what is there. `torn` remembers entries that were left unfinished, for the properties only.

## 3. Runs

| Run | Instance | Shows |
|---|---|---|
| `bowl` | all pairs of builds of up to three plain files with three contents (up to renaming), all pairs of trees with two top-level names and a name inside (files, directories, links), and output folders that are not the old build, links included; all plans, one crash; about 3 M states | `RecordedOnce`, `CommitIsFaithful`, `CommitSucceeds`, `NothingLost`, `WrittenFilesInPlace` |
| `bowl_file_becomes_link` | one upgrade | `InPlaceCommit` fails (finding 1) |
| `session` | an rsync series, a renamed file, a bsdiff series and a skipped one; fresh and in-place bowl; messages of two bytes, a source that saves and reads that fail anywhere in them; two crashes, which are power losses with the in-place bowl; 351 k states | `PatchedFaithfully`, `WriterInStep`, `CheckpointHolds`, `ReaderInStep`, `WaitsForSource`; refinements `Resumable` and `ReadsAsClient`; liveness `Finishes` |
| `validator` | two files in 64 combinations of right, missing, cut, long, changed and unreadable; one entry; failing pool and signature; three consumers; cancellation | `NoSendOnClosed`, `TrueVerdict`, `AllReported`, `ProgressAddsUp`; liveness `Returns` |
| `validator_close` | a pool whose Close fails | `Returns` fails (finding 2) |
| `healer` | a directory, a file in it, a file and a link, each in every wrong state that keeps the preconditions below; archives that lack a file or do not open; one or two locks; cancellation | `Healed`, `Accounted`; action properties `StaysRight`, `LockedUntouched`; liveness `Returns` |
| `healer_through_link` | a directory that is a link to one holding the same file | `Healed` fails (finding 3) |
| `old_file` | four files (short last block, whole blocks, cut, changed), chunks of half a block, two slots, reads of up to three bytes, one failing read; with and without safe keeper | `TypeOK`, `CacheCoherent`, `FindsRoom`, `ReadsRight`, `ReadsAreGuarded` |
| `write_patch` | all new files of up to five bytes of three values and of six to eight of two, against four old builds; two-file builds with failing reads, writes and cancellation; 335 k states | `PatchIsRight`, `RolledIsHash`, `UntouchedIsOneRange`, `MapsNaturally`, `ExplainsBlocks`; liveness `Returns` |
| `data_op_too_long` | blocks of two bytes, `MaxDataOp` 4, a new file of five bytes that matches nothing | `DataBounded` fails (finding 4) |
| `bsdiff` | all new files of two to six bytes against five old files, one and two partitions; three and four blocks with one to three workers and failing writes; 136 k states | `DiffIsRight`, `InOrder`; liveness `Settles` |
| `zip` | an archive of a directory, a file in it, a file and a link, over every folder; one and two workers, a crash, a failing read; 523 k states | `ExtractsAll`; liveness `EveryCallEnds` |

**Preconditions.**

* `CommitIsFaithful`, `CommitSucceeds` and `NothingLost` assume `Committable`: the output folder is the old build and
  four shapes of upgrade are absent, each of which really makes the code's commit fail or go wrong (`SourcesSurvive`, `NoCopyOntoLink`,
  `NoLinkOverDir`, which also looks through old links the new build drops, `NoFileOverDir`). The run contains thousands of upgrades that satisfy them, kind changes included, and dropping
  any of the four makes it fail. `InPlaceCommit` is the claim without them.
* `WrittenFilesInPlace` keeps the four and gives up the first: the folder may hold anything, but a link in it that the old build does not account for lies where the new build has a
  directory or a link (`LinksYield`). Any other one leads the copy, overlay or removal of one path to another path, and TLC then finds a written file wrong.
* Power losses are only asked of the in-place bowl (see the known limits), and the skipped series does not name the old file whose index is the end marker.
* `healer`: no file of the container is found as a link and no directory as a link to a directory; finding 3 is what happens otherwise.
* `ReadsRight` is about readers none of whose reads has failed since `Reset`; `ReadsAreGuarded` takes chunks that divide blocks (the code has
  32 KiB and 64 KiB), and allows for an error at the end of a file of whole blocks.
* `bsdiff`: the old file is not empty, and the new one has a byte for every partition.
* `ExtractsAll` with more than one worker excepts what an earlier call left unfinished, and folders with a file where the archive has a directory. Several
  workers write the resume file at the same time, so that with them the archive has ten entries at most and an index is one digit (`ConcurrencyAssumption`; see the known limits); one
  worker may have any number. A call is repeated only after the workers of the last have ended; clearing an entry's path, making its parent and opening it is one step.

**Bounds.** Three files and two non-empty contents besides the concatenation are enough for a chain, a swap, a three-cycle, a duplication and a
rename onto an overlaid file, which is what `applyTranspositions` distinguishes; one crash is enough because the state after a resume is
the checkpoint's, whichever crash led to it. Two top-level names and a child suffice for every change of kind of an entry, its
parent and its link target. A session's patch holds each kind of series; buffers hold two units, so that overlay writers fill, flush and keep a
rest within one file; two crashes let a session resume over what another resumed session left. Files of the validator have two blocks and a
short one, so that every boundary of size and wound merging (`MaxWoundSize` is two blocks) occurs; channels have capacity 1 or 2, where the code has
256 or 1024: senders block more often, and every interleaving of a larger buffer that keeps the queue short is included. Two slots
and files of three chunks make every second miss evict. With blocks of two bytes and `MaxDataOp` 3 the buffer of `ComputeDiff` has seven places, so
that files of six bytes wrap it; `Modulus` 2 makes weak hashes collide. Blocks of four bytes and six-byte files give bsdiff two blocks; `Slack`
1 (8 in the code) lets matches be dropped and taken. Two workers are enough for one to overtake the other.

**Deadlock** is checked in every run but two: in `validator_close` Validate hangs indeed, and a healing that was cancelled at the wrong moment
does (see the known limits). Calls that ended stutter.

**Fairness.** `PatchSession!FairSpec` assumes weak fairness of the patcher's next step: it is one sequential loop and its caller
resumes a stopped session. Nothing is assumed of crashes (they are bounded), of the consumer's wish to save (`ShouldSave` may
always say no, or stop the session each time) or of the source (it may never give its checkpoint). `Validator`, `ArchiveHealer`, `WritePatch`, `Bsdiff` and
`ZipExtract` assume weak fairness of each of their goroutines, which the Go scheduler gives, and nothing of cancellation, failures and crashes; the healer
also assumes that its user opens every lock in the end, whatever became of the other files (`Unlock`).

## 4. Findings

1. *A file renamed while a link takes its place is lost* (`bowl_overlay.go:376`). `ensureDirsAndSymlinks` clears the path before the pending
   transposition has read it; Commit returns nil.
2. *A pool whose Close fails hangs Validate* (`validator.go:311`): the worker leaves without sending.
3. *A directory that is a link loses its files* (`archive_healer.go:113`). Its files are validated through the link, the directory's wound replaces the
   link by an empty directory, and Do returns nil.
4. *A data operation may be longer than the documented maximum* (`algo.go:315`). `algo.go:28-29` calls `MaxDataOp` "the maximum number of 'fresh bytes' that can be contained in a single
   Data operation", but the last operation of a file takes all that is left: a new file of 4 MiB and one byte that matches nothing is one operation of 4 MiB and one byte.
   `ExcessBoundedHolds` proves how far this goes: only the last operation of a file, and by less than two blocks.

### Known limits

What the models show besides; the properties except them. But for the genie's second line, nothing in the repository says otherwise.

* Bowls: fresh files are not synced when they are finished, so a power loss may take a file that a later checkpoint counts as done (`bowl_fresh.go:199`);
  copies go through a link at the destination (`bowl_overlay.go:629`), ghosts are looked up through a new link, or one that leads over a dropped old link (`bowl_overlay.go:849`), a file cannot replace a
  directory that holds ghosts (`bowl_overlay.go:646`); a crash inside Commit cannot be repaired.
* Patcher: skipping a bsdiff series of old file 2049 stops at its header, since 2049 is the end marker of the messages it is mistaken for (`patcher.go:217`);
  a checkpoint object must not be used twice, Resume changes it (`patcher.go:199`); a failed close of an entry writer goes into a
  shadowed variable (`patcher_rsync.go:53`).
* Validator: a cancelled FailFast validation returns nil, as for an intact folder (`wounds.go:76`); an error while entries are scanned returns without closing the
  wounds, and the consumer stays (`validator.go:178`); a file's goroutines stay when its hashes cannot be computed (`validatingpool.go:82`); a truncated
  signature panics before its check (`hashinfo.go:35`); the size wound of a file that is too long has a negative size (`validator.go:402`).
* Healer: once its context is done the healing goroutine returns nil. Do may then return nil with wounded files left, or wait for ever to queue a file or for the
  answer it has already taken (`archive_healer.go:175`, `archive_healer.go:248`). Files are healed in the order of their first wounds, each waiting for its lock: a user who opens the lock of one file only once
  another is healed may wait for ever (`archive_healer.go:291`).
* Chunk cache: after a failed read a hit returns what the slot held before (`lrufile.go:200`). Safe keeper: at the end of a file of whole blocks a read fails where a
  plain file says `EOF` (`safekeeper.go:154`).
* Differ: WritePatch returns at the first error while other tasks still write to its outputs; the error of the pool's Close is lost; ComputeDiff may lose the error of a read (`algo.go:178`), WritePatch does not. A copy that comes out short is no
  error (`algo.go:112`).
* Binary differ: with fewer bytes than partitions in the new file Do divides by zero (`diff.go:324`), and the rediffer does not keep such pairs from it; a write that fails leaves goroutines behind (`diff.go:407`).
* Rediffer: a range is counted as a block more than it has, less one byte (`rediff.go:215`), so several ranges of an old file count for more than one range of the same size elsewhere,
  and the file with the most bytes in common is not always taken. `MapsNaturally` speaks of the counts. Between files of equal counts none of which has the path of the new one, the order of a Go map decides (`rediff.go:245`).
* Genie: a short last block counts in full, so the last composition may be too long (`genie.go:112`).
  One more may be told of after the file's last block, where `genie.go:61` has "a Composition for each block of the source container": `ExplainsBlocks` allows it, and no run of its own refutes that line.
* Zip: two workers that write the resume file at once may leave a mix of two indices there (12 and 3 make 32), of an entry nobody extracted (`zip.go:73`); with two workers a call resumed after a crash may skip an entry that was not finished, a late worker writes the resume file after it was removed, and a file may come before
  its directory and fail on what is in the directory's place (`zip.go:222`); the error of reading a link's name is lost (`zip.go:173`); the workers share counters without a lock
  (`zip.go:165`), and the resume file goes away even when an extraction fails (`zip.go:88`).

## 5. Proofs

Each theorem holds for all values of the constants under the named assumptions: any builds, sizes, capacities, numbers of operations,
sessions and crashes. Each is proved from an inductive invariant, with a lemma per action.

* `Folders_proofs!RecordedOnceHolds`: `RecordedOnce`, for any upgrades and any number of crashes. `RecordedOnce` is not
  inductive: after a resume, the lists are the checkpoint's. `RecordInv` says of both the current lists and the saved ones that they agree
  with the plan on processed files *and hold nothing of files still to do* (or a file processed again would be in two lists). All steps of
  Commit share a frame lemma.
* `Folders_proofs!CommitSucceedsHolds`, `CommitIsFaithfulHolds`, `NothingLostHolds`: for every upgrade that is `Committable` (the preconditions above;
  `UpgradesAssumption`, `ChunkAssumption`). `BowlInv` follows one path at a time through the phases: each path is *due* in one of
  them, holds its old entry until that step and its new one from then on (`Settled`). Three kinds of old entries go earlier, and nobody
  needs them then: a file moved to the last of its users (`Spent`), what was in a directory that became a link (`Buried`) and what is found through such a link
  (`Swept`). What is staged or set aside waits for its phase (`StagedFor`, `SafeInv`). In every order the phases allow, no step fails.
* `Folders_proofs!WrittenFilesInPlaceHolds`: the same upgrades with an output folder that holds anything, as long as its links lie where the new build has a
  directory or a link (`LinksYield`). `DiskInv` says nothing of what is at a path except what the files the patch writes need: a link that is left is one Commit
  is about to replace or one of the new build; no file set aside is a link; a file with an overlay to come is the one the overlay was made
  against, or is gone (it was reached through a link, the directory took the link's place, and the overlay fails instead of landing on another file);
  a written file is right once its turn has passed. Each step of Commit is reduced to four things it may do to a path (`Changed`).
* `Folders_proofs!ExtractsAllHolds`: for any archive as `CompressZip` makes it (`EntriesAssumption`: each path once, a directory before what is in it), any folder (`DisksAssumption`), and any number of
  workers (`ConcurrencyAssumption`), crashes and failing reads. `EntriesInv` is about each entry by itself: one that was handed out is complete or has its worker at it, and so is every one up to the index in
  the resume file, whatever digits a crash left of it, which is why skipping is right. `Assigned` says that no two workers have the same entry, also when one of them is left over from a call that returned, so that a
  file is filled where it was opened (`Opened`). One worker has the directory of an entry in place before the entry, and nothing else writes the resume file (`Alone`); several do not, and then `DirsClear` keeps links out
  of the way of what an entry clears and makes. `CallInv` counts: the results in the channel are no more than the workers that have gone (`GoneWorkers`), so that as many `nil` as there are workers mean that no entry is
  still being worked on.
* `Streams_proofs!InStepHolds`, `AlwaysResumableHolds`, `WaitsForSourceHolds`, `TypeOKHolds`: of `WireClient`, for any message boundaries (`BoundaryAssumption`: naturals, with 0)
  and a source that saves and resumes anywhere. The invariant `IInv` joins them with `SourceBehind`: a source checkpoint that has been given and not yet
  handed out is not after the context's offset, which is what the subtraction in `Resume` relies on.
* `PatchSession_proofs!ResumableHolds`: a session implements `ResumableJob`, every step being a step of the job or a stutter. `ControlInv` ties the place in
  the patch, the reader's offset and what is left of a series to the message the code must read next, and says the same of the last checkpoint.
* `PatchSession_proofs!ReadsAsClientHolds`: a session implements `WireClient`, so that the theorems about it are about sessions; `ReaderInStepHolds` and `NeverWaitsInVain` state two of them for sessions. From the
  same `ControlInv`: whatever failed, a session that goes on is at a message boundary, and what it resumes from is what was popped last (`StepIsClients`).
* `PatchSession_proofs!PatchedFaithfullyHolds`, `CheckpointAlwaysHolds`, `WriterInStepHolds`: for any patch of any length. `DataInv` says of every finished file that
  its record, its contents on disk and those a power loss leaves amount to the new file (`DoneInv`), of the open one that writer and file together have exactly what the
  operations read so far amount to (`SessionInv`), and of the saved one that what it needs is synced and was only ever written over *from the saved
  position on* (`SavedInv`): a later session may have left a stale tail, with other boundaries, and the checkpoint still resumes. Two hypotheses.
  `SkipsWhole`: the skipped series does not name the old file that the end marker is mistaken for. `Durable`: what a power loss can take has no finished file that will only
  be moved, since the code does not sync those (known limits).
* `Validator_proofs!NoSendOnClosedHolds`: for any signature, target, consumer, capacity and cancellation. `ClosedInv` adds why: an error is in the worker's channel only
  when the worker is gone, the worker is gone only with the pipeline empty, and the channel is closed only after that error was
  received.
* `Validator_proofs!TrueVerdictHolds`, `AllReportedHolds`, `ProgressAddsUpHolds`: for any files, block size and capacity (`SizeAssumption`, `ExpectedAssumption`, `TargetsAssumption`,
  `ConsumersAssumption`). `ValidatorInv` follows the wounds, wherever they are (`Flow`: the worker's pipeline, the merger's last wound, the relay, the channel, the consumer):
  all are true (`Sound`), and while nothing failed and nobody cancelled, each step keeps or covers every one of them (`Grows`), so every entry, finished file, validated block
  and size difference stays reported (`Complete`). `VerdictInv` says which errors and cancellations are behind a verdict.
* `ArchiveHealer_proofs!HealedHolds`, `StaysRightHolds`, `LockedUntouchedHolds`, `AccountedHolds`: for any container, disk, archive and locks such that the disk holds each entry itself
  (`Direct`; finding 3 is what happens otherwise). `IInv` says that an entry that was looked at is right, queued, being healed or has its wound on the way. For the numbers,
  `ProgressInv`: what is queued is to be healed, what was copied is healed, and files that are neither and have no wound on the way were counted as healthy.
* `LruFile_proofs!TypeOKHolds`, `CacheCoherentHolds`, `FindsRoomHolds`, `ReadsRightHolds`: for files of any contents, chunks of any size, any number of slots, reads of any
  length, with and without a safe keeper (`CacheAssumption`, `BlockAssumption`, `FilesAssumption`). `IInv` is a conjunction of what the cache holds and where a read is:
  `CacheTypes`; `CacheCoherent` (the map, the list and the slots name the same chunks, once each); `StoredRight` (unless a read failed, a slot holds the bytes of the file at
  its chunk, though it is entered before it is filled: the chunk being filled is the exception `Progress` keeps track of); and `GotRight` (what was copied so far is what the file
  has from the offset of the call). `FindsRoom` is the pigeonhole: fewer chunks in the list than slots leave a slot that no chunk names.
* `LruFile_proofs!ReadsAreGuardedHolds`: for chunks that divide blocks (`ChunksInBlocks`). `GInv` adds that verdicts are those of the blocks and that a chunk in the cache is of a
  block found valid.

* `WritePatch_proofs!PatchIsRightHolds`, `RolledIsHashHolds`, `UntouchedIsOneRangeHolds`, `ExcessBoundedHolds`: for any builds, sizes of blocks, of data operations and of the
  copier's chunks, any modulus and any order of the goroutines (`RsyncAssumption`: the sizes are positive; `CasesAssumption`: a case has sequences of naturals and names files it has).
  `IInv` accounts for every byte. The buffer holds the bytes of the file from `Origin` on, which is what the copier has handed out less what is in the buffer, so that `Wrap` only moves the origin
  (`SearchInv`); what was sent, with the range that is kept, stands for the bytes before the pending data (`MadeInv`); the hash that is kept is that of the window one byte before (`RollInv`,
  with modular arithmetic for any modulus); the signer has the blocks of what it was given and less than one block over (`SignInv`). When ComputeDiff loses the error of a read,
  `DiffedInv` promises nothing of its operations: `TasksInv` counts results, so that `collected` reaches three only when the copier, too, came to the end of the file. For an untouched file
  `UntouchedInv` says that the window is always at a block boundary, where the preferred file has just that block; the blocks being distinct makes it the next one.
* `WritePatch_proofs!MapsNaturallyHolds`: for any builds, any size limit and any order of the map. It follows from the same `IInv`: a range is of a file that holds something (`BlockRanges`), so
  none of the files that are counted is empty, and an untouched file is one range, which is not diffed. `BestIs` is the loop over the map: once the file of the same path is met it stays the best,
  if no other is counted for more. The loop and the count are folds of the library, for which `FoldExists` and `SubsetInduction` give a function on the subsets of a finite set, and its values.
* `WritePatch_proofs!ExplainsBlocksHolds`: for any builds and any sizes of small and of big blocks (`BigBlocksAssumption`: they are positive, or the loop would not end). `IInv` does not suffice. The genie counts the short
  block at the end of an old file in full, and that would shift all that follows: `WholeInv` adds to the steps of ComputeDiff that a range with a short block is the last operation of its file, because a short block is only looked for
  once the new file has ended. `Tells` goes through the operations: what was told so far is whole blocks of origins that each fit (`Fits`) where those before them end, byte by byte, and a cut keeps both
  halves fitting (`FitsCut`). `SplitTells` is also why the loop of cuts ends: only its first cut may take nothing.

* `Streams_proofs!InOrderHolds`, `AllWritten`: for any matches, any number of blocks and of workers (`RingSpec`, whose initial states include those of `Bsdiff`: `Do` has at least one worker and a match
  is never `Eoc`), channels of any capacity (`CapacityAssumption`) and writes that fail or not. Nothing in the code names the block a match is of. `RingInv` shows why none is needed: the dispatcher
  is never more than once round the ring ahead of the collector, a worker's next block being given only for its token (`Tokens`), and with places counted along the line of the blocks instead of modulo
  the ring (`Turn`) each worker has at most one block on its way. `Pipes`: the worker's channel and what it has left to send are an end of that block's matches, with `Eoc` last. `Current`: what was
  handed on, followed by what the collector's worker still has for it, is the matches up to the collector's block; no match is `Eoc`, so the collector goes to the next worker exactly at the end of a block.
* `Streams_proofs!DiffIsRightHolds`: for any files of bytes, any partitions, length of a block and workers. It supposes what `Do` needs: the old file is not empty and the new one has a byte for every
  partition (`CasesAssumption`; `Do` divides by zero otherwise), and a match is told from the end of a block (`EocAssumption`). The argument has four steps. A search gives a place of the old file
  and a length that the rest of the new one has (`SearchIs`, `SearchAllIs`), and that is all that is needed of it: how good a match is decides the size of the patch, not what it makes.
  Extending both ways stays within both files and what is left of an overlap starts no sooner than the last match and ends no later than the next (`OverlapIs`, `ExtendedIs`). So a turn of the loop leaves the matches
  of a block a chain, each beginning where the one before ended (`Scans`, `ScanOnIs`), every turn passes a byte, and the chain ends with the block (`AnalyzeBlockIs`); chains of successive blocks make one of the whole file
  (`AllMatchesAre`). Applying the messages of a chain (`AppliedIs`, by induction over them) makes the bytes it covers: the sum with the old byte modulo `Values` undoes the difference (`ByteBack`), and the
  seeks bring the old file to where the next match begins. `AllWritten` says that the writer got just that chain, whatever order the workers ran in.

`SequenceFacts` has what the library does not: induction over sets of numbers, that a recursive function exists, its type, sums, concatenation and flattening. The library's induction
theorems take operators, which the provers cannot instantiate; with the *set* of numbers for which a claim holds, induction is a plain lemma. That is how the theorems reach the recursive functions
of `PatchFormat`, the sizes of `Validator` and the sums of `ArchiveHealer`.

Model-checked only: liveness (`Finishes`, `Returns`, `Settles`, `EveryCallEnds`), because the prover has no support for it (nor for ENABLED). Every invariant, action property and refinement that a
passing run checks is also stated by a theorem.

## 6. Not modelled

* Fixing the case of existing paths, file modes, disk-full errors in the middle of a write, and a crash inside Commit: the code does not recover
  from the last, and no document says it does.
* Retrying `Resume` with the in-memory checkpoint that the failed call has already changed; the models read it back as delivered.
* The healer that `HealPath` sets up from a string, the file a wounds writer writes, a validating pool without a channel of wounds.
* Writing the optimised patch (`Optimize`): one loop that copies messages or calls the binary differ for the pairs `Rediff` maps.
* Suffix sorting: `gosaca` is a library, and the sorters of this package are used by its tests only.
* Pool and dry bowls, tar, CompressZip, compression, copying, signature files, message encoding, generated code, errors and test helpers: sequential I/O or no state.

## 7. What could come next

1. `Optimize` as a stream of messages between `Rediff`, `Bsdiff` and the patcher's reader.
2. A crash inside Commit, should the code learn to recover from it.

Runs stay one per question; instances of a module that differ only in inputs share a run.
