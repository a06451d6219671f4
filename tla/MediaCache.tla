----------------------------- MODULE MediaCache -----------------------------
(***************************************************************************)
(* The media cache of the browser, for one URL: MediaSource of             *)
(* src/src/browser/media_source.cpp (a worker that fills a sparse file by  *)
(* Range requests, and the decoder threads that read from it), the players *)
(* that choose between the file and a MediaSource (renderer.cpp), and      *)
(* prune_media_cache (globals.cpp).                                        *)
(*                                                                         *)
(* The disk survives a crash of the process.  A step is what one thread    *)
(* does between two points where another thread, or a crash, can see it: a *)
(* section under mutex_, a section under file_mutex_, a file operation.    *)
(* Any open, truncation, resize, removal or write of a file may fail;      *)
(* nobody is told of most of these failures.                               *)
(***************************************************************************)
EXTENDS Integers, Sequences, SequencesExt, FiniteSets

CONSTANTS
  Players,    \* players of the media, in all tabs
  Readers,    \* threads that call read_at on a player's source
  NChunks,    \* chunk_count_
  Batch,      \* kPrefetchChunks
  Readahead,  \* kReadaheadChunks
  SaveEvery,  \* chunks requested between two saves of the index
  Radix       \* the sidecar writes chunk numbers in this base: 10

ASSUME MediaAssumption ==
  /\ NChunks \in Nat \ {0} /\ Batch \in Nat \ {0}
  /\ Readahead \in Nat \ {0} /\ SaveEvery \in Nat \ {0}
  /\ Radix \in Nat \ {0, 1}

Chunks == 0..NChunks - 1
Spans == {s \in Chunks \X Chunks : s[1] <= s[2]}
Covered(span) == span[1]..span[2]
NoIndex == {-1}

VARIABLES
  file,     \* "absent", "short" or "sized" (to total_, whatever it holds)
  stored,   \* SUBSET Chunks, chunks whose bytes were written to the file
  index,    \* what the ".ranges" sidecar lists, NoIndex if there is none
  pruning,  \* prune_media_cache is between the file and its sidecar
  mode,     \* [Players -> ...], "closed", "local" (plays the file), "stream"
  src,      \* [Players -> record], the MediaSource of a streaming player
  reading,  \* [Players -> [Readers -> record]], calls of read_at
  torn,     \* history: "holes" once a file with holes was left without an index,
            \* "lies" once an index was left whose file is not as it says
  mishap    \* history: a crash, or a file operation that failed

disk == <<file, stored, index, pruning>>
history == <<torn, mishap>>
vars == <<disk, mode, src, reading, history>>

NewSource ==
  [wk |-> "probe", after |-> "run", probed |-> FALSE, trusts |-> FALSE,
   present |-> {}, cursor |-> 0, before |-> 0, next |-> 0, to |-> 0, since |-> 0,
   ready |-> FALSE, failed |-> FALSE, cancel |-> FALSE, waiters |-> << >>]
NoRead == [at |-> "out", span |-> <<0, 0>>]

Init ==
  /\ file = "absent" /\ stored = {} /\ index = NoIndex /\ pruning = FALSE
  /\ mode = [p \in Players |-> "closed"]
  /\ src = [p \in Players |-> NewSource]
  /\ reading = [p \in Players |-> [r \in Readers |-> NoRead]]
  /\ torn = {} /\ mishap = FALSE

Whole == file = "sized" /\ stored = Chunks
Complete(p) == src[p].present = Chunks
Has(p, span) == Covered(span) \subseteq src[p].present
Worker(p, at) == mode[p] = "stream" /\ src[p].wk = at

-----------------------------------------------------------------------------
(* Players: make_media_player and the destructors.                         *)

\* Mutant: existence alone is tested.
FileIsThere == file # "absent"

\* A file without an index is taken for the whole media.
PlaysFile == file # "absent" /\ index = NoIndex

Open(p) ==
  /\ mode[p] = "closed" /\ ~pruning
  /\ mode' = [mode EXCEPT ![p] = IF PlaysFile THEN "local" ELSE "stream"]
  /\ src' = [src EXCEPT ![p] = NewSource]
  /\ UNCHANGED <<disk, reading, history>>

CloseLocal(p) ==
  /\ mode[p] = "local"
  /\ mode' = [mode EXCEPT ![p] = "closed"]
  /\ UNCHANGED <<disk, src, reading, history>>

\* cancel(): by the player's destructor, and again by ~MediaSource.
Cancel(p) ==
  /\ mode[p] = "stream" /\ ~src[p].cancel
  /\ src' = [src EXCEPT ![p].cancel = TRUE]
  /\ UNCHANGED <<disk, mode, reading, history>>

\* ~MediaSource, once its worker is joined and no reader is left: what is held
\* is saved, unless that is everything or the size was never learnt.
Destroy(p) ==
  /\ Worker(p, "done") /\ src[p].cancel
  /\ \A r \in Readers : reading[p][r].at = "out"
  /\ src' = [src EXCEPT
       ![p].wk = IF Complete(p) \/ ~src[p].probed THEN "gone" ELSE "save",
       ![p].after = "gone"]
  /\ UNCHANGED <<disk, mode, reading, history>>

Destroyed(p) ==
  /\ Worker(p, "gone")
  /\ mode' = [mode EXCEPT ![p] = "closed"]
  /\ UNCHANGED <<disk, src, reading, history>>

-----------------------------------------------------------------------------
(* The worker: probe_and_open, then prefetch_loop.                         *)

WorkerMoves(p, to) == src' = [src EXCEPT ![p].wk = to]

\* The probe fails, is answered without 206, or the backing file cannot be
\* created, sized or opened.
GiveUp(p) == src' = [src EXCEPT ![p].wk = "done", ![p].ready = TRUE, ![p].failed = TRUE]

ProbeFails(p) ==
  /\ Worker(p, "probe") /\ GiveUp(p)
  /\ UNCHANGED <<disk, mode, reading, history>>

\* Mutant: a file of the right size is enough.
SizedAlready == file = "sized"

\* already_complete, decided before the file is touched.
AlreadyComplete == index = NoIndex /\ file = "sized"

Probed(p) ==
  /\ Worker(p, "probe")
  /\ src' = [src EXCEPT ![p].wk = "open", ![p].probed = TRUE,
                        ![p].trusts = AlreadyComplete]
  /\ UNCHANGED <<disk, mode, reading, history>>

\* open_backing: the file is opened if it is there ...
TryBacking(p) ==
  /\ Worker(p, "open")
  /\ WorkerMoves(p, IF file = "absent" THEN "create" ELSE "resize")
  /\ UNCHANGED <<disk, mode, reading, history>>

\* ... and taken for missing if it will not open ...
Unopened(p) ==
  /\ Worker(p, "open") /\ file # "absent"
  /\ WorkerMoves(p, "create") /\ mishap' = TRUE
  /\ UNCHANGED <<disk, mode, reading, torn>>

\* An operation on the backing file is done and the file open again after it,
\* or it is not and the source gives up.
Reopens(p, to) ==
  \/ WorkerMoves(p, to) /\ mishap' = mishap
  \/ GiveUp(p) /\ mishap' = TRUE

\* ... else created, which empties what is there, made by another source
\* meanwhile or not opened just now ...
CreateBacking(p) ==
  /\ Worker(p, "create") /\ Reopens(p, "resize")
  /\ file' = "short" /\ stored' = {}
  /\ torn' = IF stored = {} THEN torn ELSE torn \cup {"lies"}
  /\ UNCHANGED <<index, pruning, mode, reading>>

\* ... and sized up front, holes and all.
ResizeBacking(p) ==
  /\ Worker(p, "resize") /\ Reopens(p, "load")
  /\ file' = "sized"
  /\ UNCHANGED <<stored, index, pruning, mode, reading, torn>>

\* It can be neither created nor sized.
OpenFails(p) ==
  /\ Worker(p, "create") \/ Worker(p, "resize")
  /\ GiveUp(p)
  /\ mishap' = TRUE
  /\ UNCHANGED <<disk, mode, reading, torn>>

\* What a source starts with: load_index, or everything if already_complete.
Held(p) ==
  IF src[p].trusts THEN Chunks ELSE IF index = NoIndex THEN {} ELSE index

\* The index is there but will not open: everything is fetched again.
IndexUnread(p) ==
  /\ Worker(p, "load") /\ ~src[p].trusts /\ index # NoIndex
  /\ src' = [src EXCEPT ![p].wk = "run", ![p].ready = TRUE]
  /\ mishap' = TRUE
  /\ UNCHANGED <<disk, mode, reading, torn>>

\* A complete source has nothing to fetch and skips prefetch_loop.
LoadIndex(p) ==
  /\ Worker(p, "load")
  /\ src' = [src EXCEPT ![p].wk = IF Held(p) = Chunks THEN "done" ELSE "run",
                        ![p].present = Held(p), ![p].ready = TRUE]
  /\ UNCHANGED <<disk, mode, reading, history>>

\* next_wanted_chunk: the first missing chunk of the first waiter short of one.
Wanted(p) ==
  LET w == src[p].waiters
      starved == {i \in DOMAIN w : ~Has(p, w[i])}
  IN IF starved = {} THEN -1 ELSE Min(Covered(w[Min(starved)]) \ src[p].present)

\* The first missing chunk from the cursor on, inside the window.
Ahead(p) ==
  LET missing == {c \in Chunks \ src[p].present : c >= src[p].cursor}
  IN IF missing # {} /\ Min(missing) < src[p].cursor + Readahead THEN Min(missing) ELSE -1

\* Parked readers outrank the sequential fill.
Start(p) == IF Wanted(p) >= 0 THEN Wanted(p) ELSE Ahead(p)

\* A batch stops short of the first chunk that is held.
RunEnd(p, c) ==
  Max({e \in c..NChunks - 1 : e < c + Batch /\ c..e \cap src[p].present = {}})

Looping(p) == Worker(p, "run") /\ ~src[p].cancel /\ ~Complete(p)

FetchBatch(p) ==
  /\ Looping(p) /\ Start(p) >= 0
  /\ LET e == RunEnd(p, Start(p)) IN
       src' = [src EXCEPT ![p].wk = "fetch", ![p].next = Start(p), ![p].to = e,
                          ![p].since = @ + e - Start(p) + 1]
  /\ UNCHANGED <<disk, mode, reading, history>>

Idle(p) ==
  /\ Looping(p) /\ Start(p) < 0
  /\ src' = [src EXCEPT ![p].wk = "idle", ![p].before = src[p].cursor]
  /\ UNCHANGED <<disk, mode, reading, history>>

\* Mutant: only a moved cursor or cancel wakes the worker.
RousedByCursor(p) == src[p].cancel \/ src[p].cursor # src[p].before

\* The predicate of the worker's wait.
Roused(p) == src[p].cancel \/ src[p].waiters # << >> \/ src[p].cursor # src[p].before

WakeUp(p) ==
  /\ Worker(p, "idle") /\ Roused(p)
  /\ src' = [src EXCEPT ![p].wk = "run", ![p].before = 0]
  /\ UNCHANGED <<disk, mode, reading, history>>

\* Mutant: the loop leaves the index as it is.
LeavesIndex(p) == WorkerMoves(p, "done")

\* The last save_index of prefetch_loop.
SavesIndex(p) ==
  src' = [src EXCEPT ![p].wk = "save", ![p].after = "done", ![p].since = 0]

LoopEnds(p) ==
  /\ Worker(p, "run") /\ (src[p].cancel \/ Complete(p))
  /\ SavesIndex(p)
  /\ UNCHANGED <<disk, mode, reading, history>>

-----------------------------------------------------------------------------
(* fetch_chunks.                                                           *)

\* The body sink writes up to a chunk boundary and flushes ...
WriteChunk(p) ==
  /\ Worker(p, "fetch") /\ ~src[p].cancel /\ src[p].next <= src[p].to
  /\ stored' = stored \cup {src[p].next}
  /\ file' = IF src[p].next = NChunks - 1 THEN "sized" ELSE file
  /\ WorkerMoves(p, "wrote")
  /\ UNCHANGED <<index, pruning, mode, reading, history>>

\* Mutant: everything requested is published with the first chunk.
PublishesBatch(p) == src[p].next..src[p].to

\* Chunks below the boundary are published.
Publishes(p) == {src[p].next}

\* ... then publishes the chunk.
PublishChunk(p) ==
  /\ Worker(p, "wrote")
  /\ src' = [src EXCEPT ![p].wk = "fetch", ![p].next = @ + 1,
                        ![p].present = @ \cup Publishes(p)]
  /\ UNCHANGED <<disk, mode, reading, history>>

\* A 206 with all or some of what was asked for; now and then the index is saved.
Fetched(p) ==
  /\ Worker(p, "fetch")
  /\ LET saves == src[p].since >= SaveEvery IN
       src' = [src EXCEPT ![p].wk = IF saves THEN "save" ELSE "run", ![p].next = 0,
                          ![p].to = 0, ![p].since = IF saves THEN 0 ELSE @]
  /\ UNCHANGED <<disk, mode, reading, history>>

\* The exchange failed, at any point of the body, or its status was not 206,
\* or the sink gave it up after cancel.
FetchFails(p) ==
  /\ Worker(p, "fetch")
  /\ src' = [src EXCEPT ![p].wk = "save", ![p].after = "done", ![p].next = 0, ![p].to = 0,
                        ![p].since = 0, ![p].failed = ~src[p].cancel]
  /\ UNCHANGED <<disk, mode, reading, history>>

\* save_index: with everything held the sidecar is removed, otherwise it is
\* truncated first ...
SaveIndex(p) ==
  /\ Worker(p, "save")
  /\ index' = IF Complete(p) THEN NoIndex ELSE {}
  /\ WorkerMoves(p, IF Complete(p) THEN src[p].after ELSE "saving")
  /\ UNCHANGED <<file, stored, pruning, mode, reading, history>>

\* ... and then written.
WriteIndex(p) ==
  /\ Worker(p, "saving")
  /\ index' = src[p].present
  /\ WorkerMoves(p, src[p].after)
  /\ UNCHANGED <<file, stored, pruning, mode, reading, history>>

\* A file with holes and no index, which the next player takes for whole.
Unindexed == IF file # "absent" /\ index = NoIndex /\ ~Whole THEN {"holes"} ELSE {}

\* A sidecar that cannot be removed or opened stays as it is; the save of the
\* destructor is the last.
SaveFails(p) ==
  /\ Worker(p, "save") /\ WorkerMoves(p, src[p].after)
  /\ torn' = IF src[p].after = "gone" THEN torn \cup Unindexed ELSE torn
  /\ mishap' = TRUE
  /\ UNCHANGED <<disk, mode, reading>>

\* The numbers a cut leaves of the digits of c.
Leads(c) == {d \in 1..c - 1 : \E k \in 1..c : d = c \div (Radix ^ k)}

\* What can be read of a list that was cut while c was written.
Cut(held, c) == {{d \in held : d < c} \cup last : last \in {{}} \cup {{d} : d \in Leads(c)}}

\* The list goes out in several writes: a full disk, which is not noticed, or a
\* kill (with Crash as the next step) leaves a part.
CutIndex(p) ==
  /\ Worker(p, "saving") /\ WorkerMoves(p, src[p].after)
  /\ \E c \in src[p].present : index' \in Cut(src[p].present, c)
  /\ torn' = IF index' \subseteq src[p].present THEN torn ELSE torn \cup {"lies"}
  /\ mishap' = TRUE
  /\ UNCHANGED <<file, stored, pruning, mode, reading>>

WorkerStep(p) ==
  \/ ProbeFails(p) \/ Probed(p)
  \/ TryBacking(p) \/ Unopened(p) \/ CreateBacking(p) \/ ResizeBacking(p) \/ OpenFails(p)
  \/ IndexUnread(p) \/ LoadIndex(p)
  \/ FetchBatch(p) \/ Idle(p) \/ WakeUp(p) \/ LoopEnds(p)
  \/ WriteChunk(p) \/ PublishChunk(p) \/ Fetched(p) \/ FetchFails(p)
  \/ SaveIndex(p) \/ WriteIndex(p) \/ SaveFails(p) \/ CutIndex(p)

-----------------------------------------------------------------------------
(* Readers: read_at, and hint_seek.                                        *)

At(p, r, where) == mode[p] = "stream" /\ reading[p][r].at = where
Moves(p, r, where) ==
  reading' = [reading EXCEPT ![p][r] = IF where = "out" THEN NoRead ELSE [@ EXCEPT !.at = where]]

\* A call inside the media.  One made after cancel is the same as one that
\* cancel overtakes.
Read(p, r, span) ==
  /\ At(p, r, "out") /\ ~src[p].cancel
  /\ reading' = [reading EXCEPT ![p][r] = [at |-> "asking", span |-> span]]
  /\ UNCHANGED <<disk, mode, src, history>>

\* wait_ready returned FALSE: -1.
NotReady(p, r) ==
  /\ At(p, r, "asking")
  /\ \/ src[p].ready /\ src[p].failed
     \/ ~src[p].ready /\ src[p].cancel
  /\ Moves(p, r, "out")
  /\ UNCHANGED <<disk, mode, src, history>>

\* Mutant: the cursor runs off the end.
CursorPast(span) == span[2] + 1

\* Where a read leaves the cursor.
CursorAfter(span) == Min({span[2] + 1, NChunks - 1})

\* The caller is let on: the cursor follows it, and it gets its bytes unless
\* the source was cancelled or has failed.
LetOn(p, r, waiters) ==
  LET span == reading[p][r].span IN
  /\ src' = [src EXCEPT ![p].cursor = CursorAfter(span), ![p].waiters = waiters]
  /\ Moves(p, r, IF src[p].cancel \/ src[p].failed THEN "out" ELSE "copying")

Ready(p, r) == At(p, r, "asking") /\ src[p].ready /\ ~src[p].failed

ReadHit(p, r) ==
  /\ Ready(p, r) /\ Has(p, reading[p][r].span)
  /\ LetOn(p, r, src[p].waiters)
  /\ UNCHANGED <<disk, mode, history>>

Park(p, r) ==
  /\ Ready(p, r) /\ ~Has(p, reading[p][r].span)
  /\ src' = [src EXCEPT ![p].waiters = Append(@, reading[p][r].span)]
  /\ Moves(p, r, "parked")
  /\ UNCHANGED <<disk, mode, history>>

\* Mutant: a reader is let on as soon as its first chunk is there.
MayUnparkEarly(p, r) ==
  src[p].cancel \/ src[p].failed \/ reading[p][r].span[1] \in src[p].present

\* Mutant: cancel does not reach parked readers.
MayUnparkUncancelled(p, r) == src[p].failed \/ Has(p, reading[p][r].span)

\* The predicate of the reader's wait.
MayUnpark(p, r) == src[p].cancel \/ src[p].failed \/ Has(p, reading[p][r].span)

Unpark(p, r) ==
  /\ At(p, r, "parked") /\ MayUnpark(p, r)
  /\ LetOn(p, r, RemoveFirst(src[p].waiters, reading[p][r].span))
  /\ UNCHANGED <<disk, mode, history>>

\* The bytes are read under file_mutex_.
Copy(p, r) ==
  /\ At(p, r, "copying") /\ Moves(p, r, "out")
  /\ UNCHANGED <<disk, mode, src, history>>

ReaderStep(p, r) ==
  NotReady(p, r) \/ ReadHit(p, r) \/ Park(p, r) \/ Unpark(p, r) \/ Copy(p, r)

\* hint_seek; before the size is known every offset is clamped to 0.
Seek(p, c) ==
  /\ mode[p] = "stream" /\ ~src[p].cancel /\ (src[p].probed \/ c = 0)
  /\ src' = [src EXCEPT ![p].cursor = c]
  /\ UNCHANGED <<disk, mode, reading, history>>

-----------------------------------------------------------------------------
(* The process.                                                            *)

\* prune_media_cache at startup evicts the file ...
PruneFile ==
  /\ \A p \in Players : mode[p] = "closed"
  /\ ~pruning /\ file # "absent"
  /\ file' = "absent" /\ stored' = {} /\ pruning' = TRUE
  /\ UNCHANGED <<index, mode, src, reading, history>>

\* ... and its sidecar with it ...
PruneIndex ==
  /\ pruning /\ pruning' = FALSE
  /\ index' = NoIndex
  /\ UNCHANGED <<file, stored, mode, src, reading, history>>

\* An index whose file was just evicted.
Evicted == IF pruning /\ index # NoIndex THEN {"lies"} ELSE {}

\* ... unless it cannot be removed.
PruneFails ==
  /\ pruning /\ pruning' = FALSE
  /\ torn' = torn \cup Evicted /\ mishap' = TRUE
  /\ UNCHANGED <<file, stored, index, mode, src, reading>>

\* What a crash makes of the windows it can hit.
Tears == Unindexed \cup Evicted

\* The process is killed and started again.
Crash ==
  /\ mode' = [p \in Players |-> "closed"]
  /\ src' = [p \in Players |-> NewSource]
  /\ reading' = [p \in Players |-> [r \in Readers |-> NoRead]]
  /\ pruning' = FALSE
  /\ torn' = torn \cup Tears /\ mishap' = TRUE
  /\ UNCHANGED <<file, stored, index>>

Next ==
  \/ \E p \in Players :
       \/ Open(p) \/ CloseLocal(p) \/ Cancel(p) \/ Destroy(p) \/ Destroyed(p)
       \/ WorkerStep(p)
       \/ \E r \in Readers : ReaderStep(p, r) \/ \E s \in Spans : Read(p, r, s)
       \/ \E c \in Chunks : Seek(p, c)
  \/ PruneFile \/ PruneIndex \/ PruneFails \/ Crash

\* Threads run, a request of the network layer times out, and a server that is
\* asked again and again for missing chunks does not answer 206 forever
\* without one whole chunk.
Fairness ==
  /\ WF_vars(PruneIndex)
  /\ \A p \in Players :
       /\ WF_vars(WorkerStep(p)) /\ SF_vars(WriteChunk(p))
       /\ WF_vars(Destroy(p)) /\ WF_vars(Destroyed(p))
       /\ \A r \in Readers : WF_vars(ReaderStep(p, r))

Spec == Init /\ [][Next]_vars
FairSpec == Spec /\ Fairness

-----------------------------------------------------------------------------
Sources ==
  [wk : {"probe", "open", "create", "resize", "load", "run", "idle", "fetch", "wrote",
         "save", "saving", "done", "gone"},
   after : {"run", "done", "gone"}, probed : BOOLEAN, trusts : BOOLEAN,
   present : SUBSET Chunks, cursor : Chunks, before : Chunks, next : 0..NChunks,
   to : Chunks, since : Nat, ready : BOOLEAN, failed : BOOLEAN, cancel : BOOLEAN,
   waiters : Seq(Spans)]
Reads == [at : {"out", "asking", "parked", "copying"}, span : Chunks \X Chunks]

TypeOK ==
  /\ file \in {"absent", "short", "sized"}
  /\ stored \in SUBSET Chunks
  /\ index \in (SUBSET Chunks) \cup {NoIndex}
  /\ pruning \in BOOLEAN
  /\ mode \in [Players -> {"closed", "local", "stream"}]
  /\ src \in [Players -> Sources]
  /\ reading \in [Players -> [Readers -> Reads]]
  /\ torn \in SUBSET {"holes", "lies"}
  /\ mishap \in BOOLEAN

\* The sidecar lists only chunks that are in the file, through crashes, failed
\* saves and aborted transfers.  Three things break it: prune_media_cache that
\* did not get to the sidecar of a file it removed, a chunk number that lost
\* digits, and a file that would not open, or was made meanwhile, and was emptied.
IndexTruthful ==
  index # NoIndex /\ ~pruning /\ "lies" \notin torn => index \subseteq stored

\* A source publishes, and takes over from disk, only chunks that are in the
\* file, unless one of those three came about or a file with holes was left
\* without an index, by a crash or by a last save that failed.
PublishedIsStored ==
  torn = {} => \A p \in Players : mode[p] = "stream" => src[p].present \subseteq stored

\* read_at copies only bytes that were written, with the same exceptions.
ReadsStored ==
  torn = {} => \A p \in Players, r \in Readers :
    At(p, r, "copying") => Covered(reading[p][r].span) \subseteq stored

\* A player that plays the file itself has the whole media ("absence [of the
\* sidecar] means complete"), with the same exceptions.
LocalPlayIsWhole == torn = {} => \A p \in Players : mode[p] = "local" => Whole

\* As long as nothing crashes and no file operation fails, no chunk is downloaded
\* twice, over however many openings of the media.
NoRefetch ==
  ~mishap => \A p \in Players :
    Worker(p, "fetch") => src[p].next..src[p].to \cap stored = {}

\* Every call of read_at returns: with its bytes, or because the source failed
\* or was cancelled.
ReadsEnd ==
  \A p \in Players, r \in Readers : reading[p][r].at # "out" ~> reading[p][r].at = "out"

\* Destroying a player never hangs on its worker or its readers.
CloseEnds ==
  \A p \in Players : mode[p] = "stream" /\ src[p].cancel ~> mode[p] = "closed"
=============================================================================
