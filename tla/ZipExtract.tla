------------------------------ MODULE ZipExtract ------------------------------
(***************************************************************************)
(* Extracting a zip archive (ExtractZip of archiver/zip.go): a feeder and  *)
(* a number of workers that extract one entry at a time, and the resume    *)
(* file, which holds the index of the entry that was finished last.  The   *)
(* process may die at any point, and reading the archive may fail; the     *)
(* caller may then extract again.                                          *)
(*                                                                         *)
(* Bounds: a call that failed is repeated once its last worker has ended;  *)
(* several workers extract ten entries at most: they write the resume file *)
(* at the same time, and indices of several digits could get mixed.        *)
(***************************************************************************)
EXTENDS FileTree, FiniteSets, Integers

CONSTANTS
  Entries,      \* the archive: a sequence of [path, node], indices from 0 in the code
  Disks,        \* what the folder may hold before
  Concurrency,  \* the numbers of workers
  MaxKills,     \* bound on the deaths of the process
  MaxFailures   \* bound on the reads of the archive that fail

\* An archive as CompressZip makes it: every path once, a directory before what is in
\* it.
ASSUME EntriesAssumption ==
  /\ Entries \in Seq([path : Paths, node : Node \ {None}])
  /\ \A i, j \in DOMAIN Entries : Entries[i].path = Entries[j].path => i = j
  /\ \A i \in DOMAIN Entries :
       Len(Entries[i].path) = 2 =>
         /\ Entries[i].node.kind = "file"
         /\ \E j \in 1 .. i - 1 : Entries[j] = [path |-> <<Entries[i].path[1]>>, node |-> Dir]

ASSUME DisksAssumption == Disks \subseteq Tree

ASSUME ConcurrencyAssumption ==
  /\ Concurrency \subseteq Nat \ {0}
  /\ \A n \in Concurrency : n > 1 => Len(Entries) <= 10

VARIABLES
  size,      \* the number of workers
  folder,       \* the folder
  ready,     \* whether every directory of the archive was a directory or missing
  resume,    \* the index in the resume file, Unreadable or NoResume
  main,      \* "none", "feed", "wait" or "returned"
  result,    \* "none", "nil" or "failed"
  fed,       \* entries given to workers
  closed,    \* whether the channel of entries is closed
  lastDone,  \* the index read from the resume file, or -1
  workers,   \* [at, entry]: "new", "idle", "create", "fill", "record" or "gone"
  errs,      \* the channel of the workers' results
  torn,      \* entries a crash or a failure has left unfinished
  misread,   \* links made with a name that could not be read to its end
  kills,
  failures

call == <<size, ready>>
feeding == <<main, result, fed, closed, lastDone>>
faults == <<torn, misread, kills, failures>>
extraction == <<call, folder, resume, feeding, workers, errs, faults>>

NoResume == -2
Unreadable == -1

N == Len(Entries)

Path(e) == Entries[e + 1].path
Wanted(e) == Entries[e + 1].node

ExtractInit ==
  /\ size \in Concurrency
  /\ folder \in Disks
  /\ ready = \A e \in 0 .. N - 1 : Wanted(e) = Dir => folder[Path(e)] \in {None, Dir}
  /\ resume = NoResume
  /\ main = "none"
  /\ result = "none"
  /\ fed = 0
  /\ closed = FALSE
  /\ lastDone = -1
  /\ workers = [w \in 1 .. size |-> [at |-> "gone", entry |-> 0]]
  /\ errs = << >>
  /\ torn = {}
  /\ misread = {}
  /\ kills = 0
  /\ failures = 0
-----------------------------------------------------------------------------
(* Entries *)

Parent(t, p) == t[Follow(t, <<p[1]>>)].kind

\* RemoveAll and MkdirAll of the parent succeed.
CanMakeRoom(t, p) ==
  Len(p) = 2 => t[<<p[1]>>] = None \/ Parent(t, p) = "dir"

MadeRoom(t, p) == MkdirFor(RemoveAll(t, Entry(t, p)), p)

\* Mkdir: what is in the way is removed.
MadeDir(t, p) == IF t[p] = Dir THEN t ELSE [t EXCEPT ![p] = Dir]

\* A link is made at once; a file is opened and still empty.
Begun(t, e) ==
  CASE Wanted(e) = Dir           -> MadeDir(t, Path(e))
    [] Wanted(e).kind = "link"   -> [MadeRoom(t, Path(e)) EXCEPT ![Path(e)] = Wanted(e)]
    [] Wanted(e).kind = "file"   -> Write(MadeRoom(t, Path(e)), Path(e), << >>)

Working(w, at) == workers[w].at = at

Goto(w, at) == workers' = [workers EXCEPT ![w].at = at]

Fails(w) ==
  /\ errs' = Append(errs, "failed")
  /\ Goto(w, "gone")
  /\ torn' = IF Working(w, "new") THEN torn ELSE torn \cup {workers[w].entry}
-----------------------------------------------------------------------------
(* Workers *)

\* The worker's own reader of the archive may fail.
OpenFails(w) ==
  /\ Working(w, "new")
  /\ failures < MaxFailures
  /\ failures' = failures + 1
  /\ Fails(w)
  /\ UNCHANGED <<call, folder, resume, feeding, misread, kills>>

BeginEntry(w) ==
  LET e == workers[w].entry IN
  /\ Working(w, "create")
  /\ IF CanMakeRoom(folder, Path(e))
       THEN /\ folder' = Begun(folder, e)
            /\ Goto(w, IF Wanted(e).kind = "file" THEN "fill" ELSE "record")
            /\ UNCHANGED <<errs, torn>>
       ELSE Fails(w) /\ UNCHANGED folder
  /\ UNCHANGED <<call, resume, feeding, misread, kills, failures>>

\* An entry that cannot be opened in the archive leaves what is there alone.
OpenEntryFails(w) ==
  /\ Working(w, "create")
  /\ Wanted(workers[w].entry) # Dir
  /\ failures < MaxFailures
  /\ failures' = failures + 1
  /\ Fails(w)
  /\ UNCHANGED <<call, folder, resume, feeding, misread, kills>>

\* The error of reading a link's name is lost: the link is made with what was read.
MisreadLink(w) ==
  LET e == workers[w].entry IN
  /\ Working(w, "create")
  /\ Wanted(e).kind = "link"
  /\ CanMakeRoom(folder, Path(e))
  /\ failures < MaxFailures
  /\ failures' = failures + 1
  /\ \E n \in Top \ {Wanted(e).to} : folder' = [MadeRoom(folder, Path(e)) EXCEPT ![Path(e)] = Link(n)]
  /\ misread' = misread \cup {e}
  /\ Goto(w, "record")
  /\ UNCHANGED <<call, resume, feeding, errs, torn, kills>>

\* The open file gets its contents; it is where it was opened unless someone put
\* something else there.
FillFile(w) ==
  LET e == workers[w].entry IN
  /\ Working(w, "fill")
  /\ \/ /\ folder' = IF folder[Follow(folder, Path(e))].kind = "file"
                    THEN Write(folder, Path(e), Wanted(e).data) ELSE folder
        /\ Goto(w, "record")
        /\ UNCHANGED <<errs, torn, failures>>
     \/ /\ failures < MaxFailures
        /\ failures' = failures + 1
        /\ Fails(w)
        /\ UNCHANGED folder
  /\ UNCHANGED <<call, resume, feeding, misread, kills>>

\* Mutant: the entry that comes next is recorded.
WriteNextProgress(w) ==
  /\ Working(w, "record")
  /\ resume' = workers[w].entry + 1
  /\ Goto(w, "idle")
  /\ UNCHANGED <<call, folder, feeding, errs, faults>>

\* Whichever entry was recorded before is forgotten, also after the call returned.
WriteProgress(w) ==
  /\ Working(w, "record")
  /\ resume' = workers[w].entry
  /\ Goto(w, "idle")
  /\ UNCHANGED <<call, folder, feeding, errs, faults>>

Leave(w) ==
  /\ workers[w].at \in {"new", "idle"}
  /\ closed
  /\ errs' = Append(errs, "nil")
  /\ Goto(w, "gone")
  /\ UNCHANGED <<call, folder, resume, feeding, faults>>
-----------------------------------------------------------------------------
(* ExtractZip *)

\* The resume file is read, the workers are started.
Call ==
  /\ main = "none"
  /\ main' = "feed"
  /\ result' = "none"
  /\ fed' = 0
  /\ closed' = FALSE
  /\ lastDone' = IF resume < 0 THEN -1 ELSE resume
  /\ workers' = [w \in 1 .. size |-> [at |-> "new", entry |-> 0]]
  /\ errs' = << >>
  /\ UNCHANGED <<call, folder, resume, faults>>

\* An idle worker gets the next entry; one the resume file covers is skipped.
Feed(w) ==
  /\ main = "feed"
  /\ fed < N
  /\ workers[w].at \in {"new", "idle"}
  /\ fed' = fed + 1
  /\ workers' = [workers EXCEPT ![w] = [at |-> IF fed <= lastDone THEN "idle" ELSE "create",
                                        entry |-> fed]]
  /\ UNCHANGED <<call, folder, resume, main, result, closed, lastDone, errs, faults>>

Return(r) ==
  /\ main' = "returned"
  /\ result' = r
  /\ resume' = NoResume

\* A worker that failed ends the feeding, the others go on.
Abort ==
  /\ main = "feed"
  /\ fed < N
  /\ errs # << >>
  /\ errs' = Tail(errs)
  /\ closed' = TRUE
  /\ Return(Head(errs))
  /\ UNCHANGED <<call, folder, fed, lastDone, workers, faults>>

\* Mutant: the feeder does not tell the workers that there are no more entries.
AllFedOpen ==
  /\ main = "feed"
  /\ fed = N
  /\ main' = "wait"
  /\ UNCHANGED <<call, folder, resume, result, fed, closed, lastDone, workers, errs, faults>>

AllFed ==
  /\ main = "feed"
  /\ fed = N
  /\ closed' = TRUE
  /\ main' = "wait"
  /\ UNCHANGED <<call, folder, resume, result, fed, lastDone, workers, errs, faults>>

\* Every worker's result is waited for, up to the first error.
Wait ==
  /\ main = "wait"
  /\ errs # << >>
  /\ \/ /\ Head(errs) = "failed"
        /\ errs' = Tail(errs)
        /\ Return("failed")
     \/ /\ errs = [i \in 1 .. size |-> "nil"]
        /\ errs' = << >>
        /\ Return("nil")
     \/ /\ Head(errs) = "nil"
        /\ \E i \in DOMAIN errs : errs[i] = "failed"
        /\ errs' = Tail(errs)
        /\ UNCHANGED <<main, result, resume>>
  /\ UNCHANGED <<call, folder, fed, closed, lastDone, workers, faults>>
-----------------------------------------------------------------------------
(* The caller *)

AllGone == \A w \in 1 .. size : Working(w, "gone")

\* A resume file that was being written may be empty or end after any digit.
Partial(e) == {Unreadable} \cup {d \in 1 .. e - 1 : \E k \in 1 .. e : d = e \div 10^k}

Recording == {w \in 1 .. size : Working(w, "record")}

\* The process ends.
Crash ==
  /\ main # "none"
  /\ main # "returned" \/ ~AllGone
  /\ kills < MaxKills
  /\ kills' = kills + 1
  /\ main' = "none"
  /\ resume' \in {resume} \cup UNION {Partial(workers[w].entry) : w \in Recording}
  /\ torn' = torn \cup {workers[w].entry : w \in {v \in 1 .. size : workers[v].at \in {"create", "fill"}}}
  /\ workers' = [w \in 1 .. size |-> [at |-> "gone", entry |-> 0]]
  /\ UNCHANGED <<call, folder, result, fed, closed, lastDone, errs, misread, failures>>

Retry ==
  /\ main = "returned"
  /\ result = "failed"
  /\ AllGone
  /\ main' = "none"
  /\ UNCHANGED <<call, folder, resume, result, fed, closed, lastDone, workers, errs, faults>>

WorkerNext(w) ==
  \/ OpenFails(w) \/ OpenEntryFails(w) \/ BeginEntry(w) \/ MisreadLink(w)
  \/ FillFile(w) \/ WriteProgress(w) \/ Leave(w)

MainNext == (\E w \in 1 .. size : Feed(w)) \/ Abort \/ AllFed \/ Wait

Idle == main = "returned" /\ AllGone /\ UNCHANGED extraction

ExtractNext ==
  \/ Call
  \/ MainNext
  \/ \E w \in 1 .. size : WorkerNext(w)
  \/ Crash
  \/ Retry
  \/ Idle

ExtractSpec == ExtractInit /\ [][ExtractNext]_extraction

\* The goroutines of a call run on.
FairSpec ==
  /\ ExtractSpec
  /\ WF_extraction(MainNext)
  /\ \A w \in UNION {1 .. n : n \in Concurrency} : WF_extraction(w <= size /\ WorkerNext(w))
-----------------------------------------------------------------------------
(* Properties *)

InPlace(e) == folder[Path(e)] = Wanted(e)

\* zip.go: with one worker, whatever was in the folder and however often the process
\* died, an extraction only fails if reading fails, and one that succeeds has put
\* every entry in place, but for a link whose name it could not read.  With more
\* workers that takes a folder without a file or link where the archive has a
\* directory, and an entry that was left unfinished while a later one was recorded
\* may stay so.
ExtractsAll ==
  size = 1 \/ ready =>
    /\ failures = 0 => result # "failed"
    /\ result = "nil" => \A e \in 0 .. N - 1 : InPlace(e) \/ e \in misread \/ (size > 1 /\ e \in torn)

\* Every call returns and leaves no worker behind, also when it fails early.
EveryCallEnds == (main \in {"feed", "wait"}) ~> (main \in {"none", "returned"} /\ AllGone)
=============================================================================
