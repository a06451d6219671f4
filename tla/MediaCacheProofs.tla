--------------------------- MODULE MediaCacheProofs ---------------------------
(***************************************************************************)
(* Proofs about MediaCache for any numbers of players, readers and chunks. *)
(***************************************************************************)
EXTENDS MediaCache, WellFoundedInduction, TLAPS

-----------------------------------------------------------------------------
(* What the operators return.                                              *)

\* The least and the greatest of a set of chunks.
LEMMA MinIs ==
  ASSUME NEW S \in SUBSET Nat, S # {}
  PROVE  Min(S) \in S /\ \A y \in S : Min(S) <= y
<1> DEFINE R == {ss \in Nat \X Nat : ss[1] < ss[2]}
<1>1. IsWellFoundedOn(R, Nat)
  BY NatLessThanWellFounded, Zenon DEF OpToRel
<1>2. PICK x \in S : \A y \in S : ~ (<<y, x>> \in R)
  <2> HIDE DEF R
  <2> QED
    BY <1>1, WFMin, Zenon
<1>3. ASSUME NEW y \in S PROVE x <= y
  <2>1. <<y, x>> \in Nat \X Nat /\ ~(y < x)
    BY <1>2
  <2> QED
    BY <2>1
<1> QED
  BY <1>3, Zenon DEF Min

\* ... which a bound gives.
LEMMA MaxIs ==
  ASSUME NEW b \in Nat, NEW S \in SUBSET 0..b, S # {}
  PROVE  Max(S) \in S /\ \A y \in S : Max(S) >= y
<1> DEFINE T == {b - y : y \in S}
<1>1. T \in SUBSET Nat /\ T # {}
  <2>1. \A y \in S : b - y \in Nat
    OBVIOUS
  <2> QED
    BY <2>1
<1>2. PICK m \in T : \A y \in T : m <= y
  <2> HIDE DEF T
  <2> QED
    BY <1>1, MinIs
<1>3. PICK x \in S : m = b - x
  BY <1>2
<1>4. \A y \in S : x >= y
  <2>1. TAKE y \in S
  <2>2. m <= b - y
    BY <1>2
  <2> QED
    BY <1>3, <2>2
<1> QED
  BY <1>4, Zenon DEF Max

\* Taking a span out of the waiters leaves spans.
LEMMA RemoveFirstIs ==
  ASSUME NEW S, NEW w \in Seq(S), NEW x
  PROVE  RemoveFirst(w, x) \in Seq(S)
<1> DEFINE I == {i \in 1..Len(w) : w[i] = x}
<1>1. CASE I = {}
  BY <1>1 DEF RemoveFirst
<1>2. CASE I # {}
  <2>1. Min(I) \in I
    <3>1. I \in SUBSET Nat
      OBVIOUS
    <3> HIDE DEF I
    <3> QED
      BY <1>2, <3>1, MinIs
  <2>2. RemoveFirst(w, x) = RemoveAt(w, Min(I))
    BY <1>2 DEF RemoveFirst, SelectInSeq
  <2>3. PICK i \in 1..Len(w) : i = Min(I)
    BY <2>1
  <2>4. SubSeq(w, 1, i - 1) \in Seq(S) /\ SubSeq(w, i + 1, Len(w)) \in Seq(S)
    OBVIOUS
  <2> QED
    BY <2>2, <2>3, <2>4 DEF RemoveAt
<1> QED
  BY <1>1, <1>2

\* What the worker fetches next is a chunk it has not got ...
LEMMA StartIs ==
  ASSUME NEW p \in Players, src[p] \in Sources, Start(p) >= 0
  PROVE  Start(p) \in Chunks \ src[p].present
<1> DEFINE w == src[p].waiters
           starved == {i \in DOMAIN w : ~Has(p, w[i])}
           missing == {c \in Chunks \ src[p].present : c >= src[p].cursor}
<1>1. w \in Seq(Spans) /\ NChunks \in Nat
  BY MediaAssumption DEF Sources
<1>2. CASE starved # {}
  <2>1. starved \in SUBSET Nat
    BY <1>1
  <2>2. PICK i \in starved : i = Min(starved)
    <3> HIDE DEF starved
    <3> QED
      BY <1>2, <2>1, MinIs
  <2>3. w[i] \in Spans /\ Covered(w[i]) \ src[p].present # {}
    BY <1>1 DEF Has
  <2>4. Covered(w[i]) \in SUBSET Chunks /\ Covered(w[i]) \in SUBSET Nat
    <3>1. PICK a \in Chunks, b \in Chunks : a = w[i][1] /\ b = w[i][2]
      BY <2>3 DEF Spans
    <3>2. a..b \in SUBSET Chunks /\ a..b \in SUBSET Nat
      BY <1>1 DEF Chunks
    <3> QED
      BY <3>1, <3>2 DEF Covered
  <2>5. Min(Covered(w[i]) \ src[p].present) \in Covered(w[i]) \ src[p].present
    BY <2>3, <2>4, MinIs
  <2>6. Wanted(p) = Min(Covered(w[i]) \ src[p].present)
    BY <1>2, <2>2 DEF Wanted
  <2>7. Wanted(p) \in Chunks \ src[p].present
    BY <2>4, <2>5, <2>6
  <2> QED
    BY <2>7 DEF Start, Chunks
<1>3. CASE starved = {}
  <2>1. Start(p) = Ahead(p)
    BY <1>3 DEF Start, Wanted
  <2>2. missing # {} /\ Start(p) = Min(missing)
    BY <2>1 DEF Ahead
  <2>3. missing \in SUBSET Nat
    BY <1>1 DEF Chunks
  <2>4. Min(missing) \in missing
    <3> HIDE DEF missing
    <3> QED
      BY <2>2, <2>3, MinIs
  <2> QED
    BY <2>2, <2>4
<1> QED
  BY <1>2, <1>3

\* ... and a batch consists of such chunks.
LEMMA RunEndIs ==
  ASSUME NEW p \in Players, src[p] \in Sources, NEW c \in Chunks \ src[p].present
  PROVE  /\ RunEnd(p, c) \in c..NChunks - 1 /\ RunEnd(p, c) \in Chunks
         /\ c..RunEnd(p, c) \cap src[p].present = {}
<1> DEFINE S == {e \in c..NChunks - 1 : e < c + Batch /\ c..e \cap src[p].present = {}}
<1>1. NChunks - 1 \in Nat /\ Batch \in Nat /\ Batch > 0 /\ c \in 0..NChunks - 1
  BY MediaAssumption DEF Chunks
<1>2. c \in S /\ S \in SUBSET 0..NChunks - 1
  BY <1>1
<1>3. RunEnd(p, c) = Max(S)
  BY DEF RunEnd
<1>4. Max(S) \in S
  <2> HIDE DEF S
  <2> QED
    BY <1>1, <1>2, MaxIs
<1> QED
  BY <1>1, <1>3, <1>4 DEF Chunks

\* The cursor stays inside the media.
LEMMA CursorIs ==
  ASSUME NEW span \in Spans
  PROVE  CursorAfter(span) \in Chunks
<1> DEFINE S == {span[2] + 1, NChunks - 1}
<1>1. span[2] \in 0..NChunks - 1 /\ NChunks - 1 \in Nat
  BY MediaAssumption DEF Spans, Chunks
<1>2. S \in SUBSET Nat /\ S # {}
  BY <1>1
<1>3. Min(S) \in S /\ \A y \in S : Min(S) <= y
  <2> HIDE DEF S
  <2> QED
    BY <1>2, MinIs
<1> QED
  BY <1>1, <1>3 DEF CursorAfter, Chunks

\* A list that was cut names chunks of the media.
LEMMA CutIs ==
  ASSUME NEW held \in SUBSET Chunks, NEW c \in held, NEW part \in Cut(held, c)
  PROVE  part \in SUBSET Chunks
<1>1. c \in 0..NChunks - 1 /\ NChunks \in Nat
  BY MediaAssumption DEF Chunks
<1>2. 1..c - 1 \in SUBSET Chunks
  BY <1>1 DEF Chunks
<1>3. Leads(c) \in SUBSET Chunks
  BY <1>2 DEF Leads
<1>4. PICK last \in {{}} \cup {{d} : d \in Leads(c)} : part = {d \in held : d < c} \cup last
  BY DEF Cut
<1>5. last \in SUBSET Chunks
  BY <1>3, <1>4
<1> QED
  BY <1>4, <1>5

-----------------------------------------------------------------------------
(* The invariant.                                                          *)

Streams(p) == mode[p] = "stream"

\* What holds of the worker of p and of its readers, whoever else is there.
SourceOK(p) ==
  LET s == src[p] IN
  /\ ~s.probed => s.wk \in {"probe", "done", "gone"} /\ s.present = {}
  /\ s.probed => s.wk # "probe"
  /\ s.wk \in {"open", "create", "resize", "load"} => s.present = {}
  /\ s.wk = "fetch" => s.next..s.to \cap s.present = {}
  /\ s.wk = "wrote" => s.next <= s.to /\ s.next..s.to \cap s.present = {}
  /\ s.wk = "saving" => ~Complete(p)
  /\ s.wk \notin {"save", "saving", "done", "gone"} => s.after = "run"
  /\ s.wk = "gone" \/ (s.wk \in {"save", "saving"} /\ s.after = "gone") =>
       s.cancel /\ \A r \in Readers : reading[p][r].at = "out"

ReadsOK(p) ==
  \A r \in Readers :
    /\ ~Streams(p) => reading[p][r].at = "out"
    /\ reading[p][r].at # "out" => reading[p][r].span \in Spans
    /\ reading[p][r].at = "copying" => Has(p, reading[p][r].span)

TypeInv == TypeOK /\ \A p \in Players : ReadsOK(p) /\ (Streams(p) => SourceOK(p))

\* A player with a source has the media to itself: no other source is there, and
\* nobody plays the file.
SourceAlone ==
  \A p, q \in Players : Streams(p) /\ mode[q] # "closed" => p = q

\* The source is to leave an index behind, or everything.
Owes(p) == Streams(p) /\ src[p].probed /\ src[p].wk # "gone"

\* ... and has not done so yet.
Busy(p) == Owes(p) /\ src[p].wk # "done"

\* The disk, as the sources that are not at work have left it.
DiskOK ==
  /\ file = "absent" => stored = {}
  /\ pruning => file = "absent" /\ \A p \in Players : mode[p] = "closed"
  /\ "lies" \notin torn /\ ~pruning /\ index # NoIndex => index \subseteq stored
  /\ torn = {} /\ file # "absent" /\ index = NoIndex =>
       Whole \/ \E p \in Players : Owes(p)
  /\ ~mishap /\ ~pruning /\ index # NoIndex =>
       stored \subseteq index \/ \E p \in Players : Busy(p)
  /\ ~mishap => torn = {}

\* All that may be in the file, as far as the source of p knows.
Known(p) ==
  LET s == src[p] IN
  IF s.wk \in {"open", "create", "resize", "load"} THEN Held(p)
  ELSE IF s.wk = "wrote" THEN s.present \cup {s.next} ELSE s.present

\* A source and the disk, when the source is alone.
HoldsOK(p) ==
  LET s == src[p] IN
  /\ s.wk = "create" /\ ~mishap => file = "absent"
  /\ s.wk = "resize" => file # "absent"
  /\ s.wk \in {"load", "run", "idle", "fetch", "wrote"} => file = "sized"
  /\ s.wk \in {"save", "saving"} /\ s.after = "run" => file = "sized"
  /\ s.present # {} => file = "sized"
  /\ s.wk = "wrote" => s.next \in stored
  /\ s.trusts /\ s.wk \in {"open", "create", "resize", "load"} => index = NoIndex
  /\ torn = {} /\ s.trusts => Whole
  /\ "lies" \notin torn => s.present \subseteq stored \/ (s.trusts /\ Complete(p))
  /\ ~mishap /\ s.probed /\ s.wk # "gone" => stored \subseteq Known(p)

IInv ==
  /\ TypeInv
  /\ DiskOK
  /\ \A p \in Players : Streams(p) => HoldsOK(p)
  /\ \A p \in Players : torn = {} /\ mode[p] = "local" => Whole

-----------------------------------------------------------------------------
(* Types, and what holds of each source by itself.                         *)

\* A step of the source of p: of its own record and of the disk.
RecordStep(p) == src' = [src EXCEPT ![p] = src'[p]] /\ src'[p] \in Sources
DiskStep ==
  /\ UNCHANGED <<mode, pruning>>
  /\ file' \in {"absent", "short", "sized"} /\ stored' \in SUBSET Chunks
  /\ index' \in (SUBSET Chunks) \cup {NoIndex}
  /\ torn' \in SUBSET {"holes", "lies"} /\ mishap' \in BOOLEAN
SourceStep(p) == RecordStep(p) /\ DiskStep

\* A step of the worker of p.
LEMMA WorkerStepTypes ==
  ASSUME TypeInv, NEW p \in Players, Streams(p), WorkerStep(p)
  PROVE  /\ SourceStep(p) /\ SourceOK(p)' /\ reading' = reading
         /\ src[p].present \subseteq src'[p].present
<1> USE DEF RecordStep, DiskStep, Worker, WorkerMoves, disk, history
<1>0. /\ TypeOK /\ SourceOK(p) /\ src \in [Players -> Sources] /\ src[p] \in Sources
      /\ 0 \in Chunks /\ Chunks = 0..NChunks - 1 /\ 0 \in 0..NChunks /\ NChunks \in Nat
  BY MediaAssumption DEF TypeInv, TypeOK, Chunks
<1>00. src \in [Players -> Sources] /\ src[p] \in Sources /\ 0 \in Chunks /\ 0 \in 0..NChunks
  BY <1>0
<1>1. CASE ProbeFails(p)
  <2>1. RecordStep(p)
    BY <1>00, <1>1 DEF ProbeFails, GiveUp, Sources
  <2>2. /\ src[p].wk = "probe"
        /\ src'[p].wk = "done" /\ src'[p].probed = src[p].probed
        /\ src'[p].present = src[p].present /\ src'[p].after = src[p].after
    BY <1>00, <1>1 DEF ProbeFails, GiveUp, Sources
  <2>3. DiskStep /\ reading' = reading
    BY <1>0, <1>1 DEF ProbeFails, TypeOK
  <2> QED
    BY <1>0, <2>1, <2>2, <2>3 DEF SourceStep, SourceOK, Complete, Sources
<1>2. CASE Probed(p)
  <2>1. RecordStep(p)
    BY <1>00, <1>2 DEF Probed, AlreadyComplete, Sources
  <2>2. /\ src[p].wk = "probe"
        /\ src'[p].wk = "open" /\ src'[p].present = src[p].present
        /\ src'[p].after = src[p].after /\ src'[p].probed = TRUE
    BY <1>00, <1>2 DEF Probed, AlreadyComplete, Sources
  <2>3. DiskStep /\ reading' = reading
    BY <1>0, <1>2 DEF Probed, TypeOK
  <2> QED
    BY <1>0, <2>1, <2>2, <2>3 DEF SourceStep, SourceOK, Complete, Sources
<1>3. CASE TryBacking(p) \/ Unopened(p)
  <2>1. RecordStep(p)
    <3>1. PICK w \in {"create", "resize"} : src' = [src EXCEPT ![p].wk = w]
      BY <1>3 DEF TryBacking, Unopened
    <3> QED
      BY <1>00, <3>1 DEF Sources
  <2>2. /\ src[p].wk = "open"
        /\ src'[p].wk \in {"create", "resize"} /\ src'[p].probed = src[p].probed
        /\ src'[p].present = src[p].present /\ src'[p].after = src[p].after
    BY <1>00, <1>3 DEF TryBacking, Unopened, Sources
  <2>3. DiskStep /\ reading' = reading
    BY <1>0, <1>3 DEF TryBacking, Unopened, TypeOK
  <2> QED
    BY <1>0, <2>1, <2>2, <2>3 DEF SourceStep, SourceOK, Complete, Sources
<1>4. CASE CreateBacking(p)
  <2>1. RecordStep(p)
    <3>1. CASE src' = [src EXCEPT ![p].wk = "resize"]
      BY <1>00, <3>1 DEF Sources
    <3>2. CASE GiveUp(p)
      BY <1>00, <3>2 DEF GiveUp, Sources
    <3> QED
      BY <1>4, <3>1, <3>2 DEF CreateBacking, Reopens
  <2>2. /\ src[p].wk = "create"
        /\ src'[p].wk \in {"resize", "done"} /\ src'[p].probed = src[p].probed
        /\ src'[p].present = src[p].present /\ src'[p].after = src[p].after
    BY <1>00, <1>4 DEF CreateBacking, Reopens, GiveUp, Sources
  <2>3. DiskStep /\ reading' = reading
    BY <1>0, <1>4 DEF CreateBacking, Reopens, TypeOK
  <2> QED
    BY <1>0, <2>1, <2>2, <2>3 DEF SourceStep, SourceOK, Complete, Sources
<1>5. CASE ResizeBacking(p)
  <2>1. RecordStep(p)
    <3>1. CASE src' = [src EXCEPT ![p].wk = "load"]
      BY <1>00, <3>1 DEF Sources
    <3>2. CASE GiveUp(p)
      BY <1>00, <3>2 DEF GiveUp, Sources
    <3> QED
      BY <1>5, <3>1, <3>2 DEF ResizeBacking, Reopens
  <2>2. /\ src[p].wk = "resize"
        /\ src'[p].wk \in {"load", "done"} /\ src'[p].probed = src[p].probed
        /\ src'[p].present = src[p].present /\ src'[p].after = src[p].after
    BY <1>00, <1>5 DEF ResizeBacking, Reopens, GiveUp, Sources
  <2>3. DiskStep /\ reading' = reading
    BY <1>0, <1>5 DEF ResizeBacking, Reopens, TypeOK
  <2> QED
    BY <1>0, <2>1, <2>2, <2>3 DEF SourceStep, SourceOK, Complete, Sources
<1>6. CASE OpenFails(p)
  <2>1. RecordStep(p)
    BY <1>00, <1>6 DEF OpenFails, GiveUp, Sources
  <2>2. /\ src[p].wk \in {"create", "resize"}
        /\ src'[p].wk = "done" /\ src'[p].probed = src[p].probed
        /\ src'[p].present = src[p].present /\ src'[p].after = src[p].after
    BY <1>00, <1>6 DEF OpenFails, GiveUp, Sources
  <2>3. DiskStep /\ reading' = reading
    BY <1>0, <1>6 DEF OpenFails, TypeOK
  <2> QED
    BY <1>0, <2>1, <2>2, <2>3 DEF SourceStep, SourceOK, Complete, Sources
<1>7. CASE LoadIndex(p)
  <2>1. Held(p) \in SUBSET Chunks
    <3>1. index \in SUBSET Chunks \/ index = NoIndex
      BY <1>0 DEF TypeOK
    <3> QED
      BY <3>1 DEF Held
  <2>2. PICK h \in SUBSET Chunks : h = Held(p)
    BY <2>1
  <2>3. RecordStep(p)
    BY <1>00, <1>7, <2>2 DEF LoadIndex, Sources
  <2>4. /\ src'[p].wk \in {"done", "run"}
        /\ src[p].wk = "load"
        /\ src'[p].probed = src[p].probed /\ src'[p].after = src[p].after
    BY <1>00, <1>7, <2>2 DEF LoadIndex, Sources
  <2>5. DiskStep /\ reading' = reading
    BY <1>0, <1>7 DEF LoadIndex, TypeOK
  <2> QED
    BY <1>0, <2>1, <2>3, <2>4, <2>5 DEF SourceStep, SourceOK
<1>8. CASE FetchBatch(p)
  <2>1. Start(p) \in Chunks \ src[p].present
    BY <1>0, <1>8, StartIs DEF FetchBatch
  <2>2. PICK c \in Chunks \ src[p].present, e \in Chunks :
          /\ c = Start(p) /\ e = RunEnd(p, Start(p)) /\ e \in c..NChunks - 1
          /\ c..e \cap src[p].present = {}
    BY <1>0, <2>1, RunEndIs
  <2>3. c \in Nat /\ e \in Nat /\ c <= e /\ c \in 0..NChunks
    BY <1>0, <2>2 DEF Chunks
  <2>4. src[p].since + e - c + 1 \in Nat
    BY <1>0, <2>3 DEF Sources
  <2>5. RecordStep(p)
    BY <1>00, <1>8, <2>2, <2>3, <2>4 DEF FetchBatch, Sources
  <2>6. /\ src[p].wk = "run" /\ src'[p].wk = "fetch"
        /\ src'[p].next = c /\ src'[p].to = e
        /\ src'[p].probed = src[p].probed /\ src'[p].present = src[p].present
        /\ src'[p].after = src[p].after
    BY <1>00, <1>8, <2>2 DEF FetchBatch, Looping, Sources
  <2>7. DiskStep /\ reading' = reading
    BY <1>0, <1>8 DEF FetchBatch, TypeOK
  <2> QED
    BY <1>0, <2>2, <2>5, <2>6, <2>7 DEF SourceStep, SourceOK
<1>9. CASE Idle(p)
  <2>1. RecordStep(p)
    BY <1>00, <1>9 DEF Idle, Looping, Sources
  <2>2. /\ src[p].wk = "run"
        /\ src'[p].wk = "idle" /\ src'[p].probed = src[p].probed
        /\ src'[p].present = src[p].present /\ src'[p].after = src[p].after
    BY <1>00, <1>9 DEF Idle, Looping, Sources
  <2>3. DiskStep /\ reading' = reading
    BY <1>0, <1>9 DEF Idle, TypeOK
  <2> QED
    BY <1>0, <2>1, <2>2, <2>3 DEF SourceStep, SourceOK, Complete, Sources
<1>10. CASE WakeUp(p)
  <2>1. RecordStep(p)
    BY <1>00, <1>10 DEF WakeUp, Sources
  <2>2. /\ src[p].wk = "idle"
        /\ src'[p].wk = "run" /\ src'[p].probed = src[p].probed
        /\ src'[p].present = src[p].present /\ src'[p].after = src[p].after
    BY <1>00, <1>10 DEF WakeUp, Sources
  <2>3. DiskStep /\ reading' = reading
    BY <1>0, <1>10 DEF WakeUp, TypeOK
  <2> QED
    BY <1>0, <2>1, <2>2, <2>3 DEF SourceStep, SourceOK, Complete, Sources
<1>11. CASE LoopEnds(p)
  <2>1. RecordStep(p)
    BY <1>00, <1>11 DEF LoopEnds, SavesIndex, Sources
  <2>2. /\ src[p].wk = "run"
        /\ src'[p].wk = "save" /\ src'[p].probed = src[p].probed
        /\ src'[p].present = src[p].present /\ src'[p].after = "done"
    BY <1>00, <1>11 DEF LoopEnds, SavesIndex, Sources
  <2>3. DiskStep /\ reading' = reading
    BY <1>0, <1>11 DEF LoopEnds, TypeOK
  <2> QED
    BY <1>0, <2>1, <2>2, <2>3 DEF SourceStep, SourceOK, Complete, Sources
<1>12. CASE WriteChunk(p)
  <2>1. src[p].next \in Chunks /\ src[p].next <= src[p].to
    BY <1>0, <1>12 DEF WriteChunk, Sources
  <2>2. RecordStep(p)
    BY <1>00, <1>12 DEF WriteChunk, Sources
  <2>3. /\ src[p].wk = "fetch" /\ src'[p].wk = "wrote"
        /\ src'[p].probed = src[p].probed /\ src'[p].present = src[p].present
        /\ src'[p].after = src[p].after
        /\ src'[p].next = src[p].next /\ src'[p].to = src[p].to
    BY <1>00, <1>12 DEF WriteChunk, Sources
  <2>4. DiskStep /\ reading' = reading
    BY <1>0, <1>12, <2>1 DEF WriteChunk, TypeOK
  <2> QED
    BY <1>0, <2>1, <2>2, <2>3, <2>4 DEF SourceStep, SourceOK
<1>13. CASE PublishChunk(p)
  <2>1. src[p].next \in Chunks /\ src[p].next + 1 \in 0..NChunks /\ src[p].next \in Nat
        /\ src[p].to \in Nat
    BY <1>0, <1>13 DEF PublishChunk, SourceOK, Sources, Chunks
  <2>2. RecordStep(p)
    BY <1>00, <1>13, <2>1 DEF PublishChunk, Publishes, Sources
  <2>3. /\ src[p].wk = "wrote" /\ src'[p].wk = "fetch"
        /\ src'[p].next = src[p].next + 1 /\ src'[p].to = src[p].to
        /\ src'[p].probed = src[p].probed /\ src'[p].present = src[p].present \cup {src[p].next}
        /\ src'[p].after = src[p].after
    BY <1>00, <1>13 DEF PublishChunk, Publishes, Sources
  <2>4. DiskStep /\ reading' = reading
    BY <1>0, <1>13 DEF PublishChunk, TypeOK
  <2>5. (src[p].next + 1)..src[p].to \cap (src[p].present \cup {src[p].next}) = {}
    BY <1>0, <2>1, <2>2, <2>3, <2>4 DEF SourceOK
  <2> QED
    BY <1>0, <2>2, <2>3, <2>4, <2>5 DEF SourceStep, SourceOK
<1>14. CASE Fetched(p)
  <2> DEFINE saves == src[p].since >= SaveEvery
  <2>1. PICK n \in Nat, w \in {"save", "run"} :
          src' = [src EXCEPT ![p].wk = w, ![p].next = 0, ![p].to = 0, ![p].since = n]
    <3>1. src[p].since \in Nat /\ 0 \in Nat
      BY <1>0 DEF Sources
    <3>2. CASE saves
      BY <1>14, <3>1, <3>2, Zenon DEF Fetched
    <3>3. CASE ~saves
      <4>1. src[p].since = src[p].since /\ "run" \in {"save", "run"}
        OBVIOUS
      <4>2. src' = [src EXCEPT ![p].wk = "run", ![p].next = 0, ![p].to = 0, ![p].since = src[p].since]
        BY <1>14, <3>3 DEF Fetched
      <4> QED
        BY <3>1, <4>1, <4>2, Zenon
    <3> QED
      BY <3>2, <3>3
  <2>2. src[p].wk = "fetch" /\ UNCHANGED <<disk, mode, reading, history>>
    BY <1>14 DEF Fetched
  <2>3. RecordStep(p)
    BY <1>00, <2>1 DEF Sources
  <2>4. /\ src'[p].wk \in {"save", "run"} /\ src'[p].probed = src[p].probed
        /\ src'[p].present = src[p].present /\ src'[p].after = src[p].after
    BY <1>00, <2>1, <2>2 DEF Sources
  <2>5. DiskStep /\ reading' = reading
    BY <1>0, <2>1, <2>2 DEF Fetched, TypeOK
  <2> QED
    BY <1>0, <2>2, <2>3, <2>4, <2>5 DEF SourceStep, SourceOK
<1>15. CASE FetchFails(p)
  <2>1. RecordStep(p)
    BY <1>00, <1>15 DEF FetchFails, Sources
  <2>2. /\ src[p].wk = "fetch"
        /\ src'[p].wk = "save" /\ src'[p].probed = src[p].probed
        /\ src'[p].present = src[p].present /\ src'[p].after = "done"
    BY <1>00, <1>15 DEF FetchFails, Sources
  <2>3. DiskStep /\ reading' = reading
    BY <1>0, <1>15 DEF FetchFails, TypeOK
  <2> QED
    BY <1>0, <2>1, <2>2, <2>3 DEF SourceStep, SourceOK, Complete, Sources
<1>16. CASE SaveIndex(p)
  <2>1. RecordStep(p)
    BY <1>00, <1>16 DEF SaveIndex, Complete, Sources
  <2>2. /\ src[p].wk = "save"
        /\ src'[p].wk = IF Complete(p) THEN src[p].after ELSE "saving"
        /\ src'[p].probed = src[p].probed /\ src'[p].present = src[p].present
        /\ src'[p].cancel = src[p].cancel /\ src'[p].after = src[p].after
    BY <1>00, <1>16 DEF SaveIndex, Sources
  <2>3. DiskStep /\ reading' = reading
    BY <1>0, <1>16 DEF SaveIndex, TypeOK
  <2>4. src[p].after \in {"run", "done", "gone"} /\ src[p].probed
    BY <1>0, <2>2 DEF SourceOK, Sources
  <2>5. CASE Complete(p)
    BY <1>0, <2>1, <2>2, <2>3, <2>4, <2>5 DEF SourceStep, SourceOK
  <2>6. CASE ~Complete(p)
    BY <1>0, <2>1, <2>2, <2>3, <2>4, <2>6 DEF SourceStep, SourceOK, Complete
  <2> QED
    BY <2>5, <2>6
<1>17. CASE WriteIndex(p)
  <2>1. RecordStep(p)
    BY <1>00, <1>17 DEF WriteIndex, Sources
  <2>2. /\ src[p].wk = "saving"
        /\ src'[p].wk = src[p].after /\ src'[p].probed = src[p].probed
        /\ src'[p].present = src[p].present /\ src'[p].cancel = src[p].cancel
        /\ src'[p].after = src[p].after
    BY <1>00, <1>17 DEF WriteIndex, Sources
  <2>3. DiskStep /\ reading' = reading
    BY <1>0, <1>17 DEF WriteIndex, Sources, TypeOK
  <2> QED
    BY <1>0, <2>1, <2>2, <2>3 DEF SourceStep, SourceOK, Complete, Sources
<1>18. CASE IndexUnread(p)
  <2>1. RecordStep(p)
    BY <1>00, <1>18 DEF IndexUnread, Sources
  <2>2. /\ src[p].wk = "load"
        /\ src'[p].wk = "run" /\ src'[p].probed = src[p].probed
        /\ src'[p].present = src[p].present /\ src'[p].after = src[p].after
    BY <1>00, <1>18 DEF IndexUnread, Sources
  <2>3. DiskStep /\ reading' = reading
    BY <1>0, <1>18 DEF IndexUnread, TypeOK
  <2> QED
    BY <1>0, <2>1, <2>2, <2>3 DEF SourceStep, SourceOK, Complete, Sources
<1>19. CASE SaveFails(p)
  <2>1. RecordStep(p)
    BY <1>00, <1>19 DEF SaveFails, Sources
  <2>2. /\ src[p].wk = "save"
        /\ src'[p].wk = src[p].after /\ src'[p].probed = src[p].probed
        /\ src'[p].present = src[p].present /\ src'[p].cancel = src[p].cancel
        /\ src'[p].after = src[p].after
    BY <1>00, <1>19 DEF SaveFails, Sources
  <2>3. DiskStep /\ reading' = reading
    BY <1>0, <1>19 DEF SaveFails, Unindexed, TypeOK
  <2> QED
    BY <1>0, <2>1, <2>2, <2>3 DEF SourceStep, SourceOK, Complete, Sources
<1>20. CASE CutIndex(p)
  <2>1. RecordStep(p)
    BY <1>00, <1>20 DEF CutIndex, Sources
  <2>2. /\ src[p].wk = "saving"
        /\ src'[p].wk = src[p].after /\ src'[p].probed = src[p].probed
        /\ src'[p].present = src[p].present /\ src'[p].cancel = src[p].cancel
        /\ src'[p].after = src[p].after
    BY <1>00, <1>20 DEF CutIndex, Sources
  <2>3. index' \in SUBSET Chunks
    BY <1>0, <1>20, CutIs DEF CutIndex, Sources
  <2>4. DiskStep /\ reading' = reading
    BY <1>0, <1>20, <2>3 DEF CutIndex, TypeOK
  <2> QED
    BY <1>0, <2>1, <2>2, <2>4 DEF SourceStep, SourceOK, Complete, Sources
<1> QED
  BY <1>1, <1>2, <1>3, <1>4, <1>5, <1>6, <1>7, <1>8, <1>9, <1>10, <1>11, <1>12, <1>13,
     <1>14, <1>15, <1>16, <1>17, <1>18, <1>19, <1>20 DEF WorkerStep

\* A step that leaves alone all that tells what the source of p holds.
SideStep(p) ==
  /\ src' = [src EXCEPT ![p] = src'[p]] /\ src'[p] \in Sources
  /\ UNCHANGED <<disk, mode, history>>
  /\ LET s == src[p]  t == src'[p] IN
       /\ t.wk = s.wk /\ t.after = s.after /\ t.probed = s.probed /\ t.trusts = s.trusts
       /\ t.present = s.present /\ t.next = s.next /\ t.to = s.to
       /\ s.cancel => t.cancel

\* What it leaves of the other calls of read_at.
ReadsKept(p) ==
  /\ reading' \in [Players -> [Readers -> Reads]]
  /\ \A q \in Players \ {p} : reading'[q] = reading[q]
  /\ ReadsOK(p)' /\ SourceOK(p)'

\* The record of no call.
LEMMA NoReadIs == NoRead \in Reads
<1>1. 0 \in Chunks
  BY MediaAssumption DEF Chunks
<1>2. <<0, 0>> \in Chunks \X Chunks
  BY <1>1
<1> QED
  BY <1>2 DEF NoRead, Reads

\* One call of read_at goes on to x.
LEMMA ReadMoves ==
  ASSUME TypeInv, NEW p \in Players, Streams(p), SideStep(p), NEW r \in Readers,
         NEW x \in Reads, reading' = [reading EXCEPT ![p][r] = x],
         x.at # "out" => x.span \in Spans, x.at = "copying" => Has(p, x.span),
         reading[p][r].at # "out" \/ ~src[p].cancel
  PROVE  ReadsKept(p)
<1>1. /\ reading \in [Players -> [Readers -> Reads]] /\ ReadsOK(p) /\ SourceOK(p)
      /\ mode' = mode
  BY DEF TypeInv, TypeOK, SideStep
<1>2. /\ reading' \in [Players -> [Readers -> Reads]]
      /\ \A q \in Players \ {p} : reading'[q] = reading[q]
      /\ \A o \in Readers : reading'[p][o] = IF o = r THEN x ELSE reading[p][o]
  BY <1>1
<1>3. \A span : Has(p, span)' <=> Has(p, span)
  BY DEF SideStep, Has
<1>4. ReadsOK(p)'
  BY <1>1, <1>2, <1>3 DEF ReadsOK, Streams
<1>5. ~(src[p].wk = "gone" \/ (src[p].wk \in {"save", "saving"} /\ src[p].after = "gone"))
  BY <1>1 DEF SourceOK
<1>6. SourceOK(p)'
  BY <1>1, <1>5 DEF SourceOK, SideStep, Complete
<1> QED
  BY <1>2, <1>4, <1>6 DEF ReadsKept

\* The steps of readers, of hint_seek and of cancel().
LEMMA SideStepTypes ==
  ASSUME TypeInv, NEW p \in Players,
         \/ \E r \in Readers : ReaderStep(p, r) \/ \E span \in Spans : Read(p, r, span)
         \/ \E c \in Chunks : Seek(p, c)
         \/ Cancel(p)
  PROVE  Streams(p) /\ SideStep(p) /\ ReadsKept(p)
<1>0. /\ src \in [Players -> Sources] /\ src[p] \in Sources /\ ReadsOK(p)
      /\ reading \in [Players -> [Readers -> Reads]]
      /\ \A r \in Readers : reading[p][r] \in Reads
  BY DEF TypeInv, TypeOK
<1>1. ASSUME NEW r \in Readers, NEW span \in Spans, Read(p, r, span)
      PROVE  Streams(p) /\ SideStep(p) /\ ReadsKept(p)
  <2>1. PICK x \in Reads : x = [at |-> "asking", span |-> span]
    BY DEF Reads, Spans
  <2>2. Streams(p) /\ SideStep(p)
    BY <1>0, <1>1 DEF Read, At, Streams, SideStep
  <2> QED
    BY <1>1, <2>1, <2>2, ReadMoves DEF Read
<1>2. ASSUME NEW r \in Readers, NotReady(p, r) \/ Copy(p, r)
      PROVE  Streams(p) /\ SideStep(p) /\ ReadsKept(p)
  <2>1. PICK x \in Reads : x = NoRead
    BY NoReadIs
  <2>2. Streams(p) /\ SideStep(p) /\ reading[p][r].at # "out"
    BY <1>0, <1>2 DEF NotReady, Copy, At, Streams, SideStep
  <2>3. reading' = [reading EXCEPT ![p][r] = x] /\ x.at = "out"
    BY <1>2, <2>1 DEF NotReady, Copy, Moves, NoRead
  <2> QED
    BY <2>2, <2>3, ReadMoves
<1>3. ASSUME NEW r \in Readers, NEW w \in Seq(Spans), LetOn(p, r, w),
             UNCHANGED <<disk, mode, history>>, Streams(p), reading[p][r].at # "out",
             src[p].cancel \/ src[p].failed \/ Has(p, reading[p][r].span)
      PROVE  Streams(p) /\ SideStep(p) /\ ReadsKept(p)
  <2>1. reading[p][r].span \in Spans /\ CursorAfter(reading[p][r].span) \in Chunks
    BY <1>0, <1>3, CursorIs DEF ReadsOK
  <2>2. SideStep(p)
    BY <1>0, <1>3, <2>1 DEF LetOn, SideStep, Sources
  <2>3. CASE src[p].cancel \/ src[p].failed
    <3>1. PICK x \in Reads : x = NoRead
      BY NoReadIs
    <3>2. reading' = [reading EXCEPT ![p][r] = x] /\ x.at = "out"
      BY <1>3, <2>3, <3>1 DEF LetOn, Moves, NoRead
    <3> QED
      BY <1>3, <2>2, <3>2, ReadMoves
  <2>4. CASE ~(src[p].cancel \/ src[p].failed)
    <3>1. PICK x \in Reads : x = [reading[p][r] EXCEPT !.at = "copying"]
      BY <1>0 DEF Reads
    <3>2. reading' = [reading EXCEPT ![p][r] = x]
      BY <1>0, <1>3, <2>4, <3>1 DEF LetOn, Moves
    <3>3. x.span = reading[p][r].span
      BY <1>0, <3>1 DEF Reads
    <3> QED
      BY <1>3, <2>1, <2>2, <2>4, <3>2, <3>3, ReadMoves
  <2> QED
    BY <1>3, <2>2, <2>3, <2>4
<1>4. ASSUME NEW r \in Readers, ReadHit(p, r)
      PROVE  Streams(p) /\ SideStep(p) /\ ReadsKept(p)
  <2>1. /\ Streams(p) /\ reading[p][r].at # "out" /\ Has(p, reading[p][r].span)
        /\ UNCHANGED <<disk, mode, history>> /\ LetOn(p, r, src[p].waiters)
    BY <1>4 DEF ReadHit, Ready, At, Streams
  <2>2. src[p].waiters \in Seq(Spans)
    BY <1>0 DEF Sources
  <2> QED
    BY <1>3, <2>1, <2>2
<1>5. ASSUME NEW r \in Readers, Unpark(p, r)
      PROVE  Streams(p) /\ SideStep(p) /\ ReadsKept(p)
  <2>1. /\ Streams(p) /\ reading[p][r].at # "out"
        /\ src[p].cancel \/ src[p].failed \/ Has(p, reading[p][r].span)
        /\ UNCHANGED <<disk, mode, history>>
        /\ LetOn(p, r, RemoveFirst(src[p].waiters, reading[p][r].span))
    BY <1>5 DEF Unpark, MayUnpark, At, Streams
  <2>2. RemoveFirst(src[p].waiters, reading[p][r].span) \in Seq(Spans)
    BY <1>0, RemoveFirstIs DEF Sources
  <2> QED
    BY <1>3, <2>1, <2>2
<1>6. ASSUME NEW r \in Readers, Park(p, r)
      PROVE  Streams(p) /\ SideStep(p) /\ ReadsKept(p)
  <2>1. Streams(p) /\ reading[p][r].at = "asking" /\ reading[p][r].span \in Spans
    BY <1>0, <1>6 DEF Park, Ready, At, Streams, ReadsOK
  <2>2. Append(src[p].waiters, reading[p][r].span) \in Seq(Spans)
    BY <1>0, <2>1 DEF Sources
  <2>3. SideStep(p)
    BY <1>0, <1>6, <2>2 DEF Park, SideStep, Sources
  <2>4. PICK x \in Reads : x = [reading[p][r] EXCEPT !.at = "parked"]
    BY <1>0 DEF Reads
  <2>5. reading' = [reading EXCEPT ![p][r] = x] /\ x.at = "parked" /\ x.span \in Spans
    BY <1>0, <1>6, <2>1, <2>4 DEF Park, Moves, Reads
  <2> QED
    BY <2>1, <2>3, <2>5, ReadMoves
<1>7. ASSUME (\E c \in Chunks : Seek(p, c)) \/ Cancel(p)
      PROVE  Streams(p) /\ SideStep(p) /\ ReadsKept(p)
  <2>1. Streams(p) /\ SideStep(p) /\ reading' = reading
    <3>1. CASE Cancel(p)
      BY <1>0, <3>1 DEF Cancel, Streams, SideStep, Sources
    <3>2. CASE \E c \in Chunks : Seek(p, c)
      <4>1. PICK c \in Chunks : Seek(p, c)
        BY <3>2
      <4>2. src' = [src EXCEPT ![p].cursor = c] /\ Streams(p)
        BY <4>1 DEF Seek, Streams
      <4>3. UNCHANGED <<disk, mode, reading, history>>
        BY <4>1, Zenon DEF Seek
      <4>4. SideStep(p)
        BY <1>0, <4>2, <4>3 DEF SideStep, Sources
      <4> QED
        BY <4>2, <4>3, <4>4
    <3> QED
      BY <1>7, <3>1, <3>2
  <2>2. SourceOK(p) /\ mode' = mode
    BY <2>1 DEF TypeInv, SideStep
  <2>3. SourceOK(p)'
    BY <2>1, <2>2 DEF SourceOK, SideStep, Complete
  <2>4. ReadsOK(p)'
    BY <1>0, <2>1, <2>2 DEF ReadsOK, SideStep, Streams, Has
  <2> QED
    BY <1>0, <2>1, <2>3, <2>4 DEF ReadsKept
<1> QED
  BY <1>1, <1>2, <1>4, <1>5, <1>6, <1>7 DEF ReaderStep

\* Only a source has a worker.
LEMMA WorkerStreams ==
  ASSUME NEW p \in Players, WorkerStep(p)
  PROVE  Streams(p)
BY DEF WorkerStep, ProbeFails, Probed, TryBacking, CreateBacking, ResizeBacking, OpenFails,
   LoadIndex, FetchBatch, Idle, WakeUp, LoopEnds, WriteChunk, PublishChunk, Fetched, FetchFails,
   SaveIndex, WriteIndex, Unopened, IndexUnread, SaveFails, CutIndex, Looping, Worker, Streams

\* The other players keep what is theirs.
LEMMA OthersKeep ==
  ASSUME TypeInv, NEW p \in Players, NEW q \in Players \ {p},
         mode'[q] = mode[q], src'[q] = src[q], reading'[q] = reading[q]
  PROVE  ReadsOK(q)' /\ (Streams(q)' => SourceOK(q)')
<1>1. ReadsOK(q) /\ (Streams(q) => SourceOK(q))
  BY DEF TypeInv
<1> QED
  BY <1>1 DEF ReadsOK, SourceOK, Streams, Has, Complete

\* Types and the sources' own order hold after every step.
LEMMA TypeNext ==
  ASSUME TypeInv, [Next]_vars
  PROVE  TypeInv'
<1> USE DEF disk, history
<1>0. /\ TypeOK /\ mode \in [Players -> {"closed", "local", "stream"}]
      /\ src \in [Players -> Sources] /\ reading \in [Players -> [Readers -> Reads]]
      /\ \A p \in Players : ReadsOK(p) /\ (Streams(p) => SourceOK(p))
  BY DEF TypeInv, TypeOK
<1>1. NewSource \in Sources
  <2>1. 0 \in Chunks /\ 0 \in 0..NChunks
    BY MediaAssumption DEF Chunks
  <2>2. << >> \in Seq(Spans)
    OBVIOUS
  <2> QED
    BY <2>1, <2>2 DEF NewSource, Sources
<1>2. ASSUME NEW p \in Players, WorkerStep(p)
      PROVE  TypeInv'
  <2>1. Streams(p)
    BY <1>2, WorkerStreams
  <2>2. /\ SourceStep(p) /\ SourceOK(p)' /\ reading' = reading
        /\ src[p].present \subseteq src'[p].present
    BY <1>2, <2>1, WorkerStepTypes
  <2>3. TypeOK' /\ \A q \in Players \ {p} : src'[q] = src[q]
    BY <1>0, <2>2 DEF SourceStep, RecordStep, DiskStep, TypeOK
  <2>4. ReadsOK(p)'
    BY <1>0, <2>2 DEF SourceStep, RecordStep, DiskStep, ReadsOK, Streams, Has
  <2>5. \A q \in Players \ {p} : ReadsOK(q)' /\ (Streams(q)' => SourceOK(q)')
    BY <2>2, <2>3, OthersKeep DEF SourceStep, RecordStep, DiskStep
  <2> QED
    BY <2>2, <2>3, <2>4, <2>5 DEF TypeInv
<1>3. ASSUME NEW p \in Players,
             \/ \E r \in Readers : ReaderStep(p, r) \/ \E span \in Spans : Read(p, r, span)
             \/ \E c \in Chunks : Seek(p, c)
             \/ Cancel(p)
      PROVE  TypeInv'
  <2>1. SideStep(p) /\ ReadsKept(p)
    BY <1>3, SideStepTypes
  <2>2. TypeOK' /\ \A q \in Players \ {p} : src'[q] = src[q]
    BY <1>0, <2>1 DEF SideStep, ReadsKept, TypeOK
  <2>3. \A q \in Players \ {p} : ReadsOK(q)' /\ (Streams(q)' => SourceOK(q)')
    BY <2>1, <2>2, OthersKeep DEF SideStep, ReadsKept
  <2> QED
    BY <2>1, <2>2, <2>3 DEF TypeInv, ReadsKept
<1>4. ASSUME NEW p \in Players, Open(p)
      PROVE  TypeInv'
  <2>1. /\ mode[p] = "closed" /\ mode'[p] \in {"local", "stream"}
        /\ mode' = [mode EXCEPT ![p] = mode'[p]]
        /\ src' = [src EXCEPT ![p] = NewSource] /\ reading' = reading
    BY <1>0, <1>4 DEF Open
  <2>2. TypeOK'
    BY <1>0, <1>1, <1>4, <2>1 DEF Open, TypeOK
  <2>3. ReadsOK(p)' /\ SourceOK(p)'
    <3>1. \A r \in Readers : reading'[p][r].at = "out"
      BY <1>0, <2>1 DEF ReadsOK, Streams
    <3>2. src'[p] = NewSource
      BY <1>0, <2>1
    <3> QED
      BY <3>1, <3>2 DEF ReadsOK, SourceOK, NewSource
  <2>4. \A q \in Players \ {p} : ReadsOK(q)' /\ (Streams(q)' => SourceOK(q)')
    BY <1>0, <2>1, OthersKeep
  <2> QED
    BY <2>2, <2>3, <2>4 DEF TypeInv
<1>5. ASSUME NEW p \in Players, CloseLocal(p) \/ Destroyed(p)
      PROVE  TypeInv'
  <2>1. /\ mode' = [mode EXCEPT ![p] = "closed"] /\ UNCHANGED <<disk, src, reading, history>>
        /\ mode[p] = "local" \/ (Streams(p) /\ src[p].wk = "gone")
    BY <1>5 DEF CloseLocal, Destroyed, Worker, Streams
  <2>2. TypeOK' /\ mode'[p] = "closed"
    BY <1>0, <2>1 DEF TypeOK
  <2>3. \A r \in Readers : reading[p][r].at = "out"
    BY <1>0, <2>1 DEF ReadsOK, SourceOK, Streams
  <2>4. ReadsOK(p)' /\ ~Streams(p)'
    BY <2>1, <2>2, <2>3 DEF ReadsOK, Streams
  <2>5. \A q \in Players \ {p} : ReadsOK(q)' /\ (Streams(q)' => SourceOK(q)')
    BY <1>0, <2>1, OthersKeep
  <2> QED
    BY <2>2, <2>4, <2>5 DEF TypeInv
<1>6. ASSUME NEW p \in Players, Destroy(p)
      PROVE  TypeInv'
  <2>1. /\ UNCHANGED <<disk, mode, reading, history>> /\ Streams(p) /\ src[p].wk = "done"
        /\ src[p].cancel /\ \A r \in Readers : reading[p][r].at = "out"
    BY <1>6 DEF Destroy, Worker, Streams
  <2>2. PICK w \in {"gone", "save"} :
          /\ w = IF Complete(p) \/ ~src[p].probed THEN "gone" ELSE "save"
          /\ src' = [src EXCEPT ![p].wk = w, ![p].after = "gone"]
    BY <1>6 DEF Destroy
  <2>3. src' = [src EXCEPT ![p] = src'[p]] /\ src'[p] \in Sources
    <3>1. src \in [Players -> Sources] /\ src[p] \in Sources
      BY <1>0
    <3>2. src' = [src EXCEPT ![p].wk = w, ![p].after = "gone"]
      BY <2>2
    <3> QED
      BY <3>1, <3>2 DEF Sources
  <2>4. /\ src'[p].wk = w /\ src'[p].after = "gone" /\ src'[p].cancel = src[p].cancel
        /\ src'[p].present = src[p].present /\ src'[p].probed = src[p].probed
    <3>1. src \in [Players -> Sources] /\ src[p] \in Sources
      BY <1>0
    <3> QED
      BY <2>2, <3>1 DEF Sources
  <2>5. TypeOK' /\ \A q \in Players \ {p} : src'[q] = src[q]
    BY <1>0, <2>1, <2>3 DEF TypeOK
  <2>6. ReadsOK(p)' /\ SourceOK(p)'
    BY <1>0, <2>1, <2>2, <2>4 DEF ReadsOK, SourceOK
  <2>7. \A q \in Players \ {p} : ReadsOK(q)' /\ (Streams(q)' => SourceOK(q)')
    BY <2>1, <2>5, OthersKeep
  <2> QED
    BY <2>5, <2>6, <2>7 DEF TypeInv
<1>7. CASE PruneFile \/ PruneIndex \/ PruneFails
  <2>1. /\ UNCHANGED <<mode, src, reading>> /\ TypeOK'
    BY <1>0, <1>7 DEF PruneFile, PruneIndex, PruneFails, Evicted, TypeOK
  <2>2. \A p \in Players : ReadsOK(p)' /\ (Streams(p)' => SourceOK(p)')
    BY <1>0, <2>1 DEF ReadsOK, SourceOK, Streams, Has, Complete
  <2> QED
    BY <2>1, <2>2 DEF TypeInv
<1>8. CASE Crash
  <2>1. TypeOK'
    BY <1>0, <1>1, <1>8, NoReadIs DEF Crash, Tears, Unindexed, Evicted, TypeOK
  <2>2. \A p \in Players : ReadsOK(p)' /\ ~Streams(p)'
    BY <1>8 DEF Crash, ReadsOK, Streams, NoRead
  <2> QED
    BY <2>1, <2>2 DEF TypeInv
<1>9. CASE UNCHANGED vars
  <2>1. UNCHANGED <<file, stored, index, pruning, mode, src, reading, torn, mishap>>
    BY <1>9 DEF vars
  <2>2. \A p \in Players : ReadsOK(p)' /\ (Streams(p)' => SourceOK(p)')
    BY <1>0, <2>1 DEF ReadsOK, SourceOK, Streams, Has, Complete
  <2> QED
    BY <1>0, <2>1, <2>2 DEF TypeInv, TypeOK
<1> QED
  BY <1>2, <1>3, <1>4, <1>5, <1>6, <1>7, <1>8, <1>9, Zenon DEF Next

-----------------------------------------------------------------------------
(* A source that has the media to itself, and the disk.                    *)

\* The invariant as the source of p sees it, when nobody else is there.
Sole(p) ==
  /\ HoldsOK(p)
  /\ file = "absent" => stored = {}
  /\ "lies" \notin torn /\ index # NoIndex => index \subseteq stored
  /\ torn = {} /\ file # "absent" /\ index = NoIndex => Whole \/ Owes(p)
  /\ ~mishap /\ index # NoIndex => stored \subseteq index \/ Busy(p)
  /\ ~mishap => torn = {}

Alone(p) == Streams(p) /\ (\A q \in Players \ {p} : mode[q] = "closed") /\ ~pruning

\* It says no less ...
LEMMA SoleNow ==
  ASSUME IInv, SourceAlone, NEW p \in Players, Streams(p)
  PROVE  Sole(p) /\ Alone(p)
<1>1. \A q \in Players \ {p} : mode[q] = "closed"
  BY DEF SourceAlone
<1>2. \A q \in Players : (Owes(q) \/ Busy(q)) => q = p
  BY <1>1 DEF Owes, Busy, Streams
<1>3. ~pruning
  BY DEF IInv, DiskOK, Streams
<1> QED
  BY <1>1, <1>2, <1>3 DEF Sole, Alone, IInv, DiskOK

\* ... and, after a step in which nobody comes or goes, no more.
LEMMA SoleNext ==
  ASSUME NEW p \in Players, Alone(p), mode' = mode, pruning' = pruning, TypeInv', Sole(p)'
  PROVE  IInv'
<1>1. Alone(p)' /\ mode'[p] = "stream"
  BY DEF Alone, Streams
<1>2. DiskOK'
  BY <1>1 DEF Alone, Sole, DiskOK, HoldsOK
<1>3. \A q \in Players : Streams(q)' => HoldsOK(q)'
  BY <1>1 DEF Alone, Sole, Streams
<1>4. \A q \in Players : mode'[q] # "local"
  BY <1>1 DEF Alone
<1> QED
  BY <1>2, <1>3, <1>4 DEF IInv

\* A source that holds everything has the whole media in the file.
LEMMA CompleteIsWhole ==
  ASSUME TypeInv, NEW p \in Players, Sole(p), Complete(p), torn = {}
  PROVE  Whole
<1>1. 0 \in Chunks /\ stored \in SUBSET Chunks
  BY MediaAssumption DEF TypeInv, TypeOK, Chunks
<1> QED
  BY <1>1 DEF Sole, HoldsOK, Complete, Whole

\* A step of the worker of a source that is alone.
LEMMA WorkerSole ==
  ASSUME TypeInv, NEW p \in Players, Alone(p), Sole(p), WorkerStep(p), SourceStep(p)
  PROVE  Sole(p)'
<1> DEFINE s == src[p]
           t == src'[p]
<1> USE DEF Worker, WorkerMoves, disk, history
<1>0. /\ TypeOK /\ SourceOK(p) /\ src \in [Players -> Sources] /\ s \in Sources /\ t \in Sources
      /\ stored \in SUBSET Chunks /\ stored' \in SUBSET Chunks /\ mode' = mode
      /\ mode'[p] = "stream" /\ mishap \in BOOLEAN /\ mishap' \in BOOLEAN
      /\ torn \in SUBSET {"holes", "lies"} /\ torn' \in SUBSET {"holes", "lies"}
      /\ -1 \notin Chunks /\ 0 \in Chunks /\ Chunks \in SUBSET Int
  BY MediaAssumption DEF TypeInv, TypeOK, SourceStep, RecordStep, DiskStep, Chunks, Alone,
     Streams
<1>1. CASE ProbeFails(p)
  <2>1. UNCHANGED <<file, stored, index, torn, mishap>>
    BY <1>1 DEF ProbeFails
  <2>2. /\ s.wk = "probe" /\ t.wk = "done"
        /\ t.after = s.after /\ t.probed = s.probed /\ t.trusts = s.trusts /\ t.present = s.present
    BY <1>0, <1>1 DEF ProbeFails, GiveUp, Sources
  <2> QED
    BY <1>0, <2>1, <2>2 DEF Sole, HoldsOK, SourceOK, Known, Held, Owes, Busy, Streams, Whole,
       Complete, NoIndex, Sources
<1>2. CASE Probed(p)
  <2>1. UNCHANGED <<file, stored, index, torn, mishap>>
    BY <1>2 DEF Probed
  <2>2. /\ s.wk = "probe" /\ t.wk = "open"
        /\ t.probed = TRUE
        /\ t.trusts = (index = NoIndex /\ file = "sized")
        /\ t.after = s.after /\ t.present = s.present
    BY <1>0, <1>2 DEF Probed, AlreadyComplete, Sources
  <2> QED
    BY <1>0, <2>1, <2>2 DEF Sole, HoldsOK, SourceOK, Known, Held, Owes, Busy, Streams, Whole,
       Complete, NoIndex, Sources
<1>3. CASE TryBacking(p) \/ Unopened(p)
  <2>1. UNCHANGED <<file, stored, index, torn>> /\ (mishap => mishap')
    BY <1>3 DEF TryBacking, Unopened
  <2>2. /\ s.wk = "open" /\ t.wk \in {"create", "resize"}
        /\ t.wk = "resize" => file # "absent"
        /\ t.wk = "create" => file = "absent" \/ mishap'
        /\ t.after = s.after /\ t.probed = s.probed /\ t.trusts = s.trusts /\ t.present = s.present
    BY <1>0, <1>3 DEF TryBacking, Unopened, Sources
  <2>3. HoldsOK(p)'
    BY <1>0, <2>1, <2>2 DEF Sole, HoldsOK, SourceOK, Known, Held, Whole, Complete, Sources
  <2>4. Owes(p) /\ Busy(p)
    BY <1>0, <2>2 DEF SourceOK, Owes, Busy, Alone
  <2>5. Owes(p)' /\ (Busy(p)' \/ mishap')
    BY <1>0, <2>2, <2>4 DEF Owes, Busy, Streams
  <2> QED
    BY <1>0, <2>1, <2>2, <2>3, <2>4, <2>5 DEF Sole, Whole
<1>4. CASE CreateBacking(p)
  <2>1. /\ index' = index /\ (mishap => mishap')
        /\ file' = "short" /\ stored' = {} /\ torn \subseteq torn'
        /\ ("lies" \in torn' /\ stored # {}) \/ (stored = {} /\ torn' = torn)
    BY <1>4 DEF CreateBacking, Reopens
  <2>2. /\ s.wk = "create" /\ t.wk \in {"resize", "done"}
        /\ t.wk = "done" => mishap'
        /\ t.after = s.after /\ t.probed = s.probed /\ t.trusts = s.trusts /\ t.present = s.present
    BY <1>0, <1>4 DEF CreateBacking, Reopens, GiveUp, Sources
  <2>3. HoldsOK(p)'
    BY <1>0, <2>1, <2>2 DEF Sole, HoldsOK, SourceOK, Known, Held, Whole, Complete, Sources
  <2>4. Owes(p) /\ Busy(p)
    BY <1>0, <2>2 DEF SourceOK, Owes, Busy, Alone
  <2>5. Owes(p)' /\ (Busy(p)' \/ mishap')
    BY <1>0, <2>2, <2>4 DEF Owes, Busy, Streams
  <2>6. ~mishap => torn' = {}
    BY <2>1, <2>2 DEF Sole, HoldsOK
  <2> QED
    BY <1>0, <2>1, <2>2, <2>3, <2>4, <2>5, <2>6 DEF Sole, Whole
<1>5. CASE ResizeBacking(p)
  <2>1. UNCHANGED <<stored, index, torn>> /\ file' = "sized" /\ (mishap => mishap')
    BY <1>5 DEF ResizeBacking, Reopens
  <2>2. /\ s.wk = "resize" /\ t.wk \in {"load", "done"}
        /\ t.wk = "done" => mishap'
        /\ t.after = s.after /\ t.probed = s.probed /\ t.trusts = s.trusts /\ t.present = s.present
    BY <1>0, <1>5 DEF ResizeBacking, Reopens, GiveUp, Sources
  <2>3. HoldsOK(p)'
    BY <1>0, <2>1, <2>2 DEF Sole, HoldsOK, SourceOK, Known, Held, Whole, Complete, Sources
  <2>4. Owes(p) /\ Busy(p)
    BY <1>0, <2>2 DEF SourceOK, Owes, Busy, Alone
  <2>5. Owes(p)' /\ (Busy(p)' \/ mishap')
    BY <1>0, <2>2, <2>4 DEF Owes, Busy, Streams
  <2> QED
    BY <1>0, <2>1, <2>2, <2>3, <2>4, <2>5 DEF Sole, Whole
<1>6. CASE OpenFails(p)
  <2>1. UNCHANGED <<file, stored, index, torn>> /\ mishap' = TRUE
    BY <1>6 DEF OpenFails
  <2>2. /\ s.wk \in {"create", "resize"} /\ t.wk = "done"
        /\ t.after = s.after /\ t.probed = s.probed /\ t.trusts = s.trusts /\ t.present = s.present
    BY <1>0, <1>6 DEF OpenFails, GiveUp, Sources
  <2> QED
    BY <1>0, <2>1, <2>2 DEF Sole, HoldsOK, SourceOK, Known, Held, Owes, Busy, Streams, Whole,
       Complete, NoIndex, Sources
<1>7. CASE LoadIndex(p)
  <2>1. UNCHANGED <<file, stored, index, torn, mishap>>
    BY <1>7 DEF LoadIndex
  <2>2. /\ s.wk = "load" /\ t.wk \in {"done", "run"}
        /\ t.present = Held(p)
        /\ t.after = s.after /\ t.probed = s.probed /\ t.trusts = s.trusts
    BY <1>0, <1>7 DEF LoadIndex, Sources
  <2> QED
    BY <1>0, <2>1, <2>2 DEF Sole, HoldsOK, SourceOK, Known, Held, Owes, Busy, Streams, Whole,
       Complete, NoIndex, Sources
<1>8. CASE FetchBatch(p)
  <2>1. UNCHANGED <<file, stored, index, torn, mishap>>
    BY <1>8 DEF FetchBatch
  <2>2. /\ s.wk = "run" /\ t.wk = "fetch"
        /\ t.after = s.after /\ t.probed = s.probed /\ t.trusts = s.trusts /\ t.present = s.present
    BY <1>0, <1>8 DEF FetchBatch, Looping, Sources
  <2> QED
    BY <1>0, <2>1, <2>2 DEF Sole, HoldsOK, SourceOK, Known, Held, Owes, Busy, Streams, Whole,
       Complete, NoIndex, Sources
<1>9. CASE Idle(p)
  <2>1. UNCHANGED <<file, stored, index, torn, mishap>>
    BY <1>9 DEF Idle
  <2>2. /\ s.wk = "run" /\ t.wk = "idle"
        /\ t.after = s.after /\ t.probed = s.probed /\ t.trusts = s.trusts /\ t.present = s.present
    BY <1>0, <1>9 DEF Idle, Looping, Sources
  <2> QED
    BY <1>0, <2>1, <2>2 DEF Sole, HoldsOK, SourceOK, Known, Held, Owes, Busy, Streams, Whole,
       Complete, NoIndex, Sources
<1>10. CASE WakeUp(p)
  <2>1. UNCHANGED <<file, stored, index, torn, mishap>>
    BY <1>10 DEF WakeUp
  <2>2. /\ s.wk = "idle" /\ t.wk = "run"
        /\ t.after = s.after /\ t.probed = s.probed /\ t.trusts = s.trusts /\ t.present = s.present
    BY <1>0, <1>10 DEF WakeUp, Sources
  <2> QED
    BY <1>0, <2>1, <2>2 DEF Sole, HoldsOK, SourceOK, Known, Held, Owes, Busy, Streams, Whole,
       Complete, NoIndex, Sources
<1>11. CASE LoopEnds(p)
  <2>1. UNCHANGED <<file, stored, index, torn, mishap>>
    BY <1>11 DEF LoopEnds
  <2>2. /\ s.wk = "run" /\ t.wk = "save"
        /\ t.after = "done"
        /\ t.probed = s.probed /\ t.trusts = s.trusts /\ t.present = s.present
    BY <1>0, <1>11 DEF LoopEnds, SavesIndex, Sources
  <2> QED
    BY <1>0, <2>1, <2>2 DEF Sole, HoldsOK, SourceOK, Known, Held, Owes, Busy, Streams, Whole,
       Complete, NoIndex, Sources
<1>12. CASE WriteChunk(p)
  <2>1. UNCHANGED <<index, torn, mishap>> /\ stored' = stored \cup {s.next} /\ file' \in {file, "sized"}
    BY <1>12 DEF WriteChunk
  <2>2. /\ s.wk = "fetch" /\ t.wk = "wrote" /\ t.next = s.next
        /\ t.after = s.after /\ t.probed = s.probed /\ t.trusts = s.trusts /\ t.present = s.present
    BY <1>0, <1>12 DEF WriteChunk, Sources
  <2> QED
    BY <1>0, <2>1, <2>2 DEF Sole, HoldsOK, SourceOK, Known, Held, Owes, Busy, Streams, Whole,
       Complete, NoIndex, Sources
<1>13. CASE PublishChunk(p)
  <2>1. UNCHANGED <<file, stored, index, torn, mishap>>
    BY <1>13 DEF PublishChunk
  <2>2. /\ s.wk = "wrote" /\ t.wk = "fetch"
        /\ t.present = s.present \cup {s.next}
        /\ t.after = s.after /\ t.probed = s.probed /\ t.trusts = s.trusts
    BY <1>0, <1>13 DEF PublishChunk, Publishes, Sources
  <2> QED
    BY <1>0, <2>1, <2>2 DEF Sole, HoldsOK, SourceOK, Known, Held, Owes, Busy, Streams, Whole,
       Complete, NoIndex, Sources
<1>14. CASE Fetched(p)
  <2>1. UNCHANGED <<file, stored, index, torn, mishap>>
    BY <1>14 DEF Fetched
  <2>2. /\ s.wk = "fetch" /\ t.wk \in {"save", "run"}
        /\ t.after = s.after /\ t.probed = s.probed /\ t.trusts = s.trusts /\ t.present = s.present
    BY <1>0, <1>14 DEF Fetched, Sources
  <2> QED
    BY <1>0, <2>1, <2>2 DEF Sole, HoldsOK, SourceOK, Known, Held, Owes, Busy, Streams, Whole,
       Complete, NoIndex, Sources
<1>15. CASE FetchFails(p)
  <2>1. UNCHANGED <<file, stored, index, torn, mishap>>
    BY <1>15 DEF FetchFails
  <2>2. /\ s.wk = "fetch" /\ t.wk = "save"
        /\ t.after = "done"
        /\ t.probed = s.probed /\ t.trusts = s.trusts /\ t.present = s.present
    BY <1>0, <1>15 DEF FetchFails, Sources
  <2> QED
    BY <1>0, <2>1, <2>2 DEF Sole, HoldsOK, SourceOK, Known, Held, Owes, Busy, Streams, Whole,
       Complete, NoIndex, Sources
<1>16. CASE SaveIndex(p)
  <2>1. UNCHANGED <<file, stored, torn, mishap>> /\ index' = (IF Complete(p) THEN NoIndex ELSE {})
    BY <1>16 DEF SaveIndex
  <2>2. /\ s.wk = "save" /\ t.wk = (IF Complete(p) THEN s.after ELSE "saving")
        /\ t.after = s.after /\ t.probed = s.probed /\ t.trusts = s.trusts /\ t.present = s.present
    BY <1>0, <1>16 DEF SaveIndex, Sources
  <2>3. CASE Complete(p)
    <3>1. torn = {} => Whole
      BY <2>3, CompleteIsWhole
    <3>2. HoldsOK(p)'
      BY <1>0, <2>1, <2>2, <2>3 DEF Sole, HoldsOK, SourceOK, Known, Whole, Complete, Sources
    <3> QED
      BY <1>0, <2>1, <2>2, <2>3, <3>1, <3>2 DEF Sole, Whole
  <2>4. CASE ~Complete(p)
    <3>1. HoldsOK(p)'
      BY <1>0, <2>1, <2>2, <2>4 DEF Sole, HoldsOK, SourceOK, Known, Whole, Complete
    <3>2. Busy(p)' /\ index' = {} /\ index' # NoIndex
      BY <1>0, <2>1, <2>2, <2>4 DEF SourceOK, Busy, Owes, Streams, NoIndex
    <3> QED
      BY <1>0, <2>1, <3>1, <3>2 DEF Sole
  <2> QED
    BY <2>3, <2>4
<1>17. CASE WriteIndex(p)
  <2>1. UNCHANGED <<file, stored, torn, mishap>> /\ index' = s.present
    BY <1>17 DEF WriteIndex
  <2>2. /\ s.wk = "saving" /\ t.wk = s.after
        /\ t.after = s.after /\ t.probed = s.probed /\ t.trusts = s.trusts /\ t.present = s.present
    BY <1>0, <1>17 DEF WriteIndex, Sources
  <2> QED
    BY <1>0, <2>1, <2>2 DEF Sole, HoldsOK, SourceOK, Known, Held, Owes, Busy, Streams, Whole,
       Complete, NoIndex, Sources
<1>18. CASE IndexUnread(p)
  <2>1. UNCHANGED <<file, stored, index, torn>> /\ mishap' = TRUE
    BY <1>18 DEF IndexUnread
  <2>2. /\ s.wk = "load" /\ t.wk = "run"
        /\ t.after = s.after /\ t.probed = s.probed /\ t.trusts = s.trusts /\ t.present = s.present
    BY <1>0, <1>18 DEF IndexUnread, Sources
  <2> QED
    BY <1>0, <2>1, <2>2 DEF Sole, HoldsOK, SourceOK, Known, Held, Owes, Busy, Streams, Whole,
       Complete, NoIndex, Sources
<1>19. CASE SaveFails(p)
  <2>1. /\ UNCHANGED <<file, stored, index>> /\ mishap' = TRUE /\ torn \subseteq torn'
        /\ torn' # {} \/ s.after # "gone" \/ file = "absent" \/ index # NoIndex \/ Whole
        /\ "lies" \in torn' => "lies" \in torn
    BY <1>19 DEF SaveFails, Unindexed
  <2>2. /\ s.wk = "save" /\ t.wk = s.after
        /\ t.after = s.after /\ t.probed = s.probed /\ t.trusts = s.trusts /\ t.present = s.present
    BY <1>0, <1>19 DEF SaveFails, Sources
  <2>3. torn' = {} => torn = {}
    BY <2>1
  <2> QED
    BY <1>0, <2>1, <2>2, <2>3 DEF Sole, HoldsOK, SourceOK, Known, Held, Owes, Busy, Streams,
       Whole, Complete, NoIndex, Sources
<1>20. CASE CutIndex(p)
  <2>1. /\ UNCHANGED <<file, stored>> /\ mishap' = TRUE /\ torn \subseteq torn'
        /\ "lies" \in torn' \/ (index' \subseteq s.present /\ torn' = torn)
        /\ index' \in SUBSET Chunks
    BY <1>0, <1>20, CutIs DEF CutIndex, Sources
  <2>2. /\ s.wk = "saving" /\ t.wk = s.after
        /\ t.after = s.after /\ t.probed = s.probed /\ t.trusts = s.trusts /\ t.present = s.present
    BY <1>0, <1>20 DEF CutIndex, Sources
  <2>3. torn' = {} => torn = {}
    BY <2>1
  <2> QED
    BY <1>0, <2>1, <2>2, <2>3 DEF Sole, HoldsOK, SourceOK, Known, Held, Owes, Busy, Streams,
       Whole, Complete, NoIndex, Sources
<1> QED
  BY <1>1, <1>2, <1>3, <1>4, <1>5, <1>6, <1>7, <1>8, <1>9, <1>10, <1>11, <1>12, <1>13,
     <1>14, <1>15, <1>16, <1>17, <1>18, <1>19, <1>20, Zenon DEF WorkerStep

\* A step of a reader, of hint_seek or of cancel(), and the destructor's.
LEMMA SideSole ==
  ASSUME TypeInv, NEW p \in Players, Alone(p), Sole(p), SideStep(p) \/ Destroy(p)
  PROVE  Sole(p)'
<1>0. src \in [Players -> Sources] /\ src[p] \in Sources /\ SourceOK(p) /\ stored \in SUBSET Chunks
  BY DEF TypeInv, TypeOK, Alone
<1>1. CASE SideStep(p)
  <2>1. UNCHANGED <<file, stored, index, mode, torn, mishap>>
    BY <1>1 DEF SideStep, disk, history
  <2> QED
    BY <1>0, <1>1, <2>1 DEF SideStep, Sole, HoldsOK, Known, Held, Owes, Busy, Streams, Whole,
       Complete
<1>2. CASE Destroy(p)
  <2>1. UNCHANGED <<file, stored, index, mode, torn, mishap>> /\ src[p].wk = "done"
    BY <1>2 DEF Destroy, Worker, disk, history
  <2>2. /\ src'[p].wk = (IF Complete(p) \/ ~src[p].probed THEN "gone" ELSE "save")
        /\ src'[p].after = "gone" /\ src'[p].present = src[p].present
        /\ src'[p].probed = src[p].probed /\ src'[p].trusts = src[p].trusts
    BY <1>0, <1>2 DEF Destroy, Sources
  <2>3. Complete(p) /\ torn = {} => Whole
    BY CompleteIsWhole
  <2>4. Streams(p) /\ Streams(p)'
    BY <2>1 DEF Alone, Streams
  <2> QED
    BY <1>0, <2>1, <2>2, <2>3, <2>4 DEF Sole, HoldsOK, Known, Held, Owes, Busy, Whole, Complete
<1> QED
  BY <1>1, <1>2

\* The invariant holds before anybody comes ...
LEMMA InvInit == Init => IInv
<1>1. NewSource \in Sources
  <2>1. 0 \in Chunks /\ 0 \in 0..NChunks /\ << >> \in Seq(Spans)
    BY MediaAssumption DEF Chunks
  <2> QED
    BY <2>1 DEF NewSource, Sources
<1>2. Init => TypeInv
  <2>1. Init => src \in [Players -> Sources]
    BY <1>1 DEF Init
  <2>2. Init => reading \in [Players -> [Readers -> Reads]]
    BY NoReadIs DEF Init
  <2>3. Init => TypeOK
    BY <2>1, <2>2 DEF Init, TypeOK
  <2>4. Init => \A p \in Players : ReadsOK(p) /\ ~Streams(p)
    BY DEF Init, ReadsOK, Streams, NoRead
  <2> QED
    BY <2>3, <2>4 DEF TypeInv
<1>3. Init => DiskOK
  BY DEF Init, DiskOK
<1> QED
  BY <1>2, <1>3 DEF IInv, Init, Streams

\* ... and every step keeps it, as long as a source has the media to itself.
LEMMA InvNext ==
  ASSUME IInv, SourceAlone, SourceAlone', [Next]_vars
  PROVE  IInv'
<1> USE DEF disk, history
<1>0. /\ TypeInv /\ TypeInv' /\ DiskOK /\ mode \in [Players -> {"closed", "local", "stream"}]
      /\ src \in [Players -> Sources] /\ torn \in SUBSET {"holes", "lies"}
  BY TypeNext DEF IInv, TypeInv, TypeOK
<1>1. ASSUME NEW p \in Players, Streams(p), mode' = mode, pruning' = pruning, Sole(p)'
      PROVE  IInv'
  BY <1>0, <1>1, SoleNow, SoleNext
<1>2. ASSUME NEW p \in Players, WorkerStep(p)
      PROVE  IInv'
  <2>1. Streams(p)
    BY <1>2, WorkerStreams
  <2>2. SourceStep(p)
    BY <1>0, <1>2, <2>1, WorkerStepTypes
  <2>3. Sole(p)'
    BY <1>0, <1>2, <2>1, <2>2, SoleNow, WorkerSole
  <2> QED
    BY <1>1, <2>1, <2>2, <2>3 DEF SourceStep, RecordStep, DiskStep
<1>3. ASSUME NEW p \in Players,
             \/ \E r \in Readers : ReaderStep(p, r) \/ \E span \in Spans : Read(p, r, span)
             \/ \E c \in Chunks : Seek(p, c)
             \/ Cancel(p)
      PROVE  IInv'
  <2>1. Streams(p) /\ SideStep(p)
    BY <1>0, <1>3, SideStepTypes
  <2>2. Sole(p)'
    BY <1>0, <2>1, SoleNow, SideSole
  <2> QED
    BY <1>1, <2>1, <2>2 DEF SideStep
<1>4. ASSUME NEW p \in Players, Destroy(p)
      PROVE  IInv'
  <2>1. Streams(p) /\ mode' = mode /\ pruning' = pruning
    BY <1>4 DEF Destroy, Worker, Streams
  <2>2. Sole(p)'
    BY <1>0, <1>4, <2>1, SoleNow, SideSole
  <2> QED
    BY <1>1, <2>1, <2>2
<1>5. ASSUME NEW p \in Players, Open(p)
      PROVE  IInv'
  <2>1. /\ mode[p] = "closed" /\ ~pruning /\ UNCHANGED <<file, stored, index, pruning, torn, mishap>>
        /\ mode' = [mode EXCEPT ![p] = IF PlaysFile THEN "local" ELSE "stream"]
        /\ src'[p] = NewSource
    BY <1>0, <1>5 DEF Open
  <2>2. \A q \in Players : ~Streams(q)
    BY <1>0, <2>1 DEF SourceAlone, Streams
  <2>3. \A q \in Players : ~Owes(q) /\ ~Busy(q)
    BY <2>2 DEF Owes, Busy
  <2>4. CASE PlaysFile
    <3>1. \A q \in Players : ~Streams(q)'
      BY <1>0, <2>1, <2>2, <2>4 DEF Streams
    <3>2. torn = {} => Whole
      BY <1>0, <2>3, <2>4 DEF DiskOK, PlaysFile
    <3>3. DiskOK'
      BY <1>0, <2>1, <2>3 DEF DiskOK, Whole
    <3> QED
      BY <1>0, <2>1, <3>1, <3>2, <3>3 DEF IInv, Whole
  <2>5. CASE ~PlaysFile
    <3>1. DiskOK'
      BY <1>0, <2>1, <2>3 DEF DiskOK, Whole
    <3>2. \A q \in Players : Streams(q)' => q = p
      BY <1>0, <2>1, <2>2 DEF Streams
    <3>3. HoldsOK(p)'
      BY <2>1 DEF HoldsOK, NewSource
    <3>4. \A q \in Players : mode'[q] = "local" => mode[q] = "local"
      BY <1>0, <2>1, <2>5
    <3>5. \A q \in Players : torn' = {} /\ mode'[q] = "local" => Whole'
      BY <2>1, <3>4 DEF IInv, Whole
    <3> QED
      BY <1>0, <3>1, <3>2, <3>3, <3>5 DEF IInv
  <2> QED
    BY <2>4, <2>5
<1>6. ASSUME NEW p \in Players, CloseLocal(p) \/ Destroyed(p)
      PROVE  IInv'
  <2>1. /\ mode' = [mode EXCEPT ![p] = "closed"]
        /\ UNCHANGED <<file, stored, index, pruning, src, torn, mishap>>
        /\ mode[p] = "local" \/ (Streams(p) /\ src[p].wk = "gone")
    BY <1>6 DEF CloseLocal, Destroyed, Worker, Streams
  <2>2. \A q \in Players : Streams(q) => q = p /\ src[p].wk = "gone"
    BY <1>0, <2>1 DEF SourceAlone, Streams
  <2>3. \A q \in Players : ~Owes(q) /\ ~Busy(q)
    BY <2>2 DEF Owes, Busy
  <2>4. \A q \in Players : ~Streams(q)'
    BY <1>0, <2>1, <2>2 DEF Streams
  <2>5. DiskOK'
    BY <1>0, <2>1, <2>3 DEF DiskOK, Whole
  <2>6. \A q \in Players : torn' = {} /\ mode'[q] = "local" => Whole'
    BY <1>0, <2>1 DEF IInv, Whole
  <2> QED
    BY <1>0, <2>4, <2>5, <2>6 DEF IInv
<1>7. CASE PruneFile
  BY <1>0, <1>7 DEF PruneFile, IInv, DiskOK, Streams
<1>8. CASE PruneIndex
  BY <1>0, <1>8 DEF PruneIndex, IInv, DiskOK, Streams
<1>9. CASE PruneFails
  BY <1>0, <1>9 DEF PruneFails, Evicted, IInv, DiskOK, Streams
<1>10. CASE Crash
  <2>1. /\ UNCHANGED <<file, stored, index>> /\ ~pruning' /\ mishap' /\ torn' = torn \cup Tears
        /\ \A q \in Players : mode'[q] = "closed"
    BY <1>10 DEF Crash
  <2>2. "lies" \notin torn' => "lies" \notin torn /\ (~pruning \/ index = NoIndex)
    BY <2>1 DEF Tears, Evicted
  <2>3. torn' = {} => (file = "absent" \/ index # NoIndex \/ Whole)
    BY <2>1 DEF Tears, Unindexed
  <2>4. DiskOK'
    BY <1>0, <2>1, <2>2, <2>3 DEF DiskOK, Whole
  <2> QED
    BY <1>0, <2>1, <2>4 DEF IInv, Streams
<1>11. CASE UNCHANGED vars
  <2>1. UNCHANGED <<file, stored, index, pruning, mode, src, torn, mishap>>
    BY <1>11 DEF vars
  <2> QED
    BY <1>0, <2>1 DEF IInv, DiskOK, HoldsOK, Known, Held, Owes, Busy, Streams, Whole, Complete
<1> QED
  BY <1>2, <1>3, <1>4, <1>5, <1>6, <1>7, <1>8, <1>9, <1>10, <1>11, Zenon DEF Next

-----------------------------------------------------------------------------
(* What the runs check.                                                    *)

\* The state stays in its types, with any number of sources at once: a batch
\* stays inside the media, and so does the cursor.
THEOREM Typed == Spec => []TypeOK
<1>1. Init => TypeInv
  BY InvInit DEF IInv
<1>2. TypeInv /\ [Next]_vars => TypeInv'
  BY TypeNext
<1>3. TypeInv => TypeOK
  BY DEF TypeInv
<1> QED
  BY <1>1, <1>2, <1>3, PTL DEF Spec

\* The invariant, while no two sources, and no source and a player of the file,
\* are there at once.
LEMMA Invariance == Spec /\ []SourceAlone => []IInv
<1>1. Init => IInv
  BY InvInit
<1>2. IInv /\ SourceAlone /\ SourceAlone' /\ [Next]_vars => IInv'
  BY InvNext
<1> QED
  BY <1>1, <1>2, PTL DEF Spec

\* The sidecar lists only what is in the file, through every crash and failed file
\* operation but a prune_media_cache cut short, a last number cut short and a
\* file emptied because it would not open.
THEOREM SidecarIsTrue == Spec /\ []SourceAlone => []IndexTruthful
<1>1. IInv => IndexTruthful
  BY DEF IInv, DiskOK, IndexTruthful
<1> QED
  BY <1>1, Invariance, PTL

\* The published chunks are in the file, by the invariant.
LEMMA InvPublished ==
  ASSUME IInv
  PROVE  PublishedIsStored
<1>1. SUFFICES ASSUME torn = {}, NEW p \in Players, mode[p] = "stream"
               PROVE  src[p].present \subseteq stored
  BY DEF PublishedIsStored
<1>2. HoldsOK(p) /\ src[p] \in Sources
  BY <1>1 DEF IInv, TypeInv, TypeOK, Streams
<1>3. CASE src[p].trusts
  BY <1>1, <1>2, <1>3 DEF HoldsOK, Whole, Sources
<1>4. CASE ~src[p].trusts
  BY <1>1, <1>2, <1>4 DEF HoldsOK
<1> QED
  BY <1>3, <1>4

\* A source publishes, and takes over from disk, only what is in the file, unless
\* the disk was left torn.
THEOREM PublishesStored == Spec /\ []SourceAlone => []PublishedIsStored
<1>1. IInv => PublishedIsStored
  BY InvPublished
<1> QED
  BY <1>1, Invariance, PTL

\* read_at copies only bytes that were written, unless the disk was left torn.
THEOREM ReadsWritten == Spec /\ []SourceAlone => []ReadsStored
<1>1. IInv => ReadsStored
  <2>1. SUFFICES ASSUME IInv, torn = {}, NEW p \in Players, NEW r \in Readers,
                        At(p, r, "copying")
                 PROVE  Covered(reading[p][r].span) \subseteq stored
    BY DEF ReadsStored
  <2>2. Has(p, reading[p][r].span) /\ mode[p] = "stream"
    BY <2>1 DEF IInv, TypeInv, ReadsOK, At
  <2>3. src[p].present \subseteq stored
    BY <2>1, <2>2, InvPublished DEF PublishedIsStored
  <2> QED
    BY <2>2, <2>3 DEF Has
<1> QED
  BY <1>1, Invariance, PTL

\* A player that plays the file itself has the whole media, unless the disk was
\* left torn.
THEOREM LocalIsWhole == Spec /\ []SourceAlone => []LocalPlayIsWhole
<1>1. IInv => LocalPlayIsWhole
  BY DEF IInv, LocalPlayIsWhole
<1> QED
  BY <1>1, Invariance, PTL

\* Nothing is downloaded twice while nothing crashes and no file operation fails.
THEOREM FetchedOnce == Spec /\ []SourceAlone => []NoRefetch
<1>1. IInv => NoRefetch
  <2>1. SUFFICES ASSUME IInv, ~mishap, NEW p \in Players, Worker(p, "fetch")
                 PROVE  src[p].next..src[p].to \cap stored = {}
    BY DEF NoRefetch
  <2>2. SourceOK(p) /\ HoldsOK(p) /\ src[p].wk = "fetch"
    BY <2>1 DEF IInv, TypeInv, Worker, Streams
  <2>3. src[p].probed /\ src[p].next..src[p].to \cap src[p].present = {}
    BY <2>2 DEF SourceOK
  <2>4. stored \subseteq src[p].present
    BY <2>1, <2>2, <2>3 DEF HoldsOK, Known
  <2> QED
    BY <2>3, <2>4
<1> QED
  BY <1>1, Invariance, PTL
=============================================================================
