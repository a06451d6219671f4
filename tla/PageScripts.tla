---------------------------- MODULE PageScripts ----------------------------
(***************************************************************************)
(* A page's ScriptEngine (src/src/browser/script.cpp, script_fetch.cpp):   *)
(* timers, animation frames and fetches, whose Lua callbacks are kept as   *)
(* registry references and run on the render thread.  Only fetch workers   *)
(* are threads of their own; they share the FetchInbox with the engine and *)
(* may outlive it.                                                         *)
(***************************************************************************)
EXTENDS Integers, FiniteSets, SequencesExt

CONSTANTS
  Refs,         \* registry references, given out again once freed
  MaxInflight,  \* kMaxInflight
  MaxTimers,    \* kMaxTimers
  MaxRaf,       \* kMaxRaf
  MaxCalls,     \* bound: calls by the page that ask for a callback
  NoCall        \* no callback is on the stack

ASSUME ScriptsAssumption ==
  /\ {MaxInflight, MaxTimers, MaxRaf, MaxCalls} \subseteq Nat
  /\ NoCall \notin [id : 1..MaxCalls, ref : Refs]

VARIABLES
  refs,      \* the references that are taken, at most one per Lua callback
  timers,    \* timers_: [id, ref, repeat, due : whether its time has come]
  raf,       \* raf_: [id, ref]
  inflight,  \* FetchInbox: slots taken,
  inbox,     \* its `done`: [id, ref],
  cancelled, \* and whether the engine is gone
  workers,   \* fetch threads: [id, ref, waking], waking after their last unlock
  turn,      \* what the render thread does
  batch,     \* what is left of poll_fetches' batch, poll_timers' due_ids or
             \* run_raf's due
  running,   \* the callback on the stack: [id, ref], or NoCall
  posted,    \* an empty event is queued for the window
  visible,   \* visible_
  calls,     \* ids given so far; the code counts timers and frames apart
  over       \* history: ids whose one callback has begun, or that were cleared

scriptVars == <<refs, timers, raf, inflight, inbox, cancelled, workers, turn,
                batch, running, posted, visible, calls, over>>

\* A round of the render loop: handlers of keys, the engine's three queues, and
\* handlers of clicks and inputs while the page is drawn.
Turns == {"wait", "handlers", "fetches", "timers", "frames", "drawing", "gone"}

ScriptsInit ==
  /\ refs = {} /\ timers = << >> /\ raf = << >>
  /\ inflight = 0 /\ inbox = << >> /\ cancelled = FALSE /\ workers = {}
  /\ turn = "handlers" /\ batch = << >> /\ running = NoCall
  /\ posted = FALSE /\ visible = TRUE
  /\ calls = 0 /\ over = {}

Named(s, id) == {x \in ToSet(s) : x.id = id}

-----------------------------------------------------------------------------
(* What the page's code calls, from its scripts, event handlers and        *)
(* callbacks.                                                              *)

InPage == turn \in {"handlers", "drawing"} \/ running # NoCall

\* luaL_ref: any free reference.
Asks(r) == InPage /\ calls < MaxCalls /\ r \notin refs /\ calls' = calls + 1

\* setTimeout, setInterval; with kMaxTimers of them the reference is given back.
SetTimer(r, repeat) ==
  /\ Asks(r)
  /\ IF Len(timers) >= MaxTimers THEN UNCHANGED <<refs, timers>>
     ELSE /\ refs' = refs \cup {r}
          /\ timers' = Append(timers,
               [id |-> calls', ref |-> r, repeat |-> repeat, due |-> FALSE])
  /\ UNCHANGED <<raf, inflight, inbox, cancelled, workers, turn, batch, running,
                 posted, visible, over>>

\* clear_timer, for the page and for poll_timers; without one of that id it does
\* nothing.
Cleared(id) ==
  \E n \in DOMAIN timers :
    /\ timers[n].id = id
    /\ timers' = RemoveAt(timers, n)
    /\ refs' = refs \ {timers[n].ref}

ClearTimer(id) ==
  /\ InPage
  /\ Cleared(id)
  /\ over' = over \cup {id}
  /\ UNCHANGED <<raf, inflight, inbox, cancelled, workers, turn, batch, running,
                 posted, visible, calls>>

\* requestAnimationFrame.
AddRaf(r) ==
  /\ Asks(r)
  /\ IF Len(raf) >= MaxRaf THEN UNCHANGED <<refs, raf>>
     ELSE /\ refs' = refs \cup {r}
          /\ raf' = Append(raf, [id |-> calls', ref |-> r])
  /\ UNCHANGED <<timers, inflight, inbox, cancelled, workers, turn, batch, running,
                 posted, visible, over>>

\* cancelAnimationFrame does not find what run_raf has taken out.
CancelRaf(id) ==
  /\ InPage
  /\ \E n \in DOMAIN raf :
       /\ raf[n].id = id
       /\ raf' = RemoveAt(raf, n)
       /\ refs' = refs \ {raf[n].ref}
  /\ over' = over \cup {id}
  /\ UNCHANGED <<timers, inflight, inbox, cancelled, workers, turn, batch, running,
                 posted, visible, calls>>

\* fetch: the reference is taken before the slot, and given back without one.
StartFetch(r) ==
  /\ Asks(r)
  /\ IF inflight >= MaxInflight THEN UNCHANGED <<refs, inflight, workers>>
     ELSE /\ refs' = refs \cup {r}
          /\ inflight' = inflight + 1
          /\ workers' = workers \cup {[id |-> calls', ref |-> r, waking |-> FALSE]}
  /\ UNCHANGED <<timers, raf, inbox, cancelled, turn, batch, running, posted,
                 visible, over>>

Calls ==
  \/ \E r \in Refs : AddRaf(r) \/ StartFetch(r) \/ \E b \in BOOLEAN : SetTimer(r, b)
  \/ \E id \in 1..MaxCalls : ClearTimer(id) \/ CancelRaf(id)

-----------------------------------------------------------------------------
(* run_worker's thread.                                                    *)

\* Mutant: the slot is given back only with a result to deliver.
SlotOfDelivered == IF cancelled THEN inflight ELSE inflight - 1

SlotFreed == inflight - 1

\* One critical section: the slot, and the result unless the engine is gone.
Complete(w) ==
  /\ w \in workers /\ ~w.waking
  /\ inflight' = SlotFreed
  /\ inbox' = IF cancelled THEN inbox ELSE Append(inbox, [id |-> w.id, ref |-> w.ref])
  /\ workers' = (workers \ {w}) \cup
       (IF cancelled THEN {} ELSE {[w EXCEPT !.waking = TRUE]})
  /\ UNCHANGED <<refs, timers, raf, cancelled, turn, batch, running, posted, visible,
                 calls, over>>

\* wake(), copied under the lock: it may run when the engine is gone.
Wake(w) ==
  /\ w \in workers /\ w.waking
  /\ workers' = workers \ {w}
  /\ posted' = TRUE
  /\ UNCHANGED <<refs, timers, raf, inflight, inbox, cancelled, turn, batch, running,
                 visible, calls, over>>

-----------------------------------------------------------------------------
(* The render thread.                                                      *)

\* A callback begins; a repeating timer's may do so any number of times.
Begin(x, once) ==
  /\ running' = [id |-> x.id, ref |-> x.ref]
  /\ over' = IF once THEN over \cup {x.id} ELSE over

\* An event is in, or the time for a timer, a frame or the heartbeat.
Awake ==
  /\ turn = "wait"
  /\ turn' = "handlers"
  /\ posted' = FALSE
  /\ UNCHANGED <<refs, timers, raf, inflight, inbox, cancelled, workers, batch,
                 running, visible, calls, over>>

\* set_visible, and poll_fetches takes all that is done.
PollFetches(v) ==
  /\ turn = "handlers"
  /\ turn' = "fetches"
  /\ visible' = v
  /\ batch' = inbox
  /\ inbox' = << >>
  /\ UNCHANGED <<refs, timers, raf, inflight, cancelled, workers, running, posted,
                 calls, over>>

CallFetch ==
  /\ turn = "fetches" /\ running = NoCall /\ batch # << >>
  /\ Begin(Head(batch), TRUE)
  /\ batch' = Tail(batch)
  /\ UNCHANGED <<refs, timers, raf, inflight, inbox, cancelled, workers, turn, posted,
                 visible, calls>>

\* poll_timers collects the ids of all that are due.
PollTimers ==
  /\ turn = "fetches" /\ running = NoCall /\ batch = << >>
  /\ turn' = "timers"
  /\ batch' = SelectSeq(timers, LAMBDA t : t.due)
  /\ UNCHANGED <<refs, timers, raf, inflight, inbox, cancelled, workers, running,
                 posted, visible, calls, over>>

\* Mutant: what was due is called, there still or not.
DueThen(id) == {Head(batch)}

\* Every id is looked up again: callbacks may have cleared it.
StillThere(id) == Named(timers, id)

CallTimer ==
  /\ turn = "timers" /\ running = NoCall /\ batch # << >>
  /\ batch' = Tail(batch)
  /\ IF StillThere(Head(batch).id) = {} THEN UNCHANGED <<running, timers, over>>
     ELSE \E t \in StillThere(Head(batch).id) :
       /\ Begin(t, ~t.repeat)
       /\ timers' = [n \in DOMAIN timers |->
            IF timers[n].id = t.id /\ t.repeat THEN [timers[n] EXCEPT !.due = FALSE]
            ELSE timers[n]]
  /\ UNCHANGED <<refs, raf, inflight, inbox, cancelled, workers, turn, posted, visible,
                 calls>>

\* run_raf takes all frames out, unless hidden or held off until raf_next_.
RunRaf(heldOff) ==
  /\ turn = "timers" /\ running = NoCall /\ batch = << >>
  /\ turn' = "frames"
  /\ IF visible /\ ~heldOff THEN batch' = raf /\ raf' = << >>
     ELSE UNCHANGED <<batch, raf>>
  /\ UNCHANGED <<refs, timers, inflight, inbox, cancelled, workers, running, posted,
                 visible, calls, over>>

CallFrame ==
  /\ turn = "frames" /\ running = NoCall /\ batch # << >>
  /\ Begin(Head(batch), TRUE)
  /\ batch' = Tail(batch)
  /\ UNCHANGED <<refs, timers, raf, inflight, inbox, cancelled, workers, turn, posted,
                 visible, calls>>

\* Mutant: the reference of a one-shot timer is freed with its callback.
RefDone(x) == TRUE

\* poll_fetches and run_raf free the reference themselves.
FreesRef(x) == turn \in {"fetches", "frames"}

\* The callback returns or raises.  A timer goes if it is a one-shot and has not
\* cleared itself; frames may be over kRafRunBudget, those left going back to
\* the front.
CallbackEnds(overBudget) ==
  /\ running # NoCall
  /\ running' = NoCall
  /\ overBudget => turn = "frames"
  /\ IF FreesRef(running)
     THEN refs' = refs \ {running.ref} /\ UNCHANGED timers
     ELSE IF \E t \in Named(timers, running.id) : ~t.repeat
          THEN Cleared(running.id)
          ELSE UNCHANGED <<refs, timers>>
  /\ raf' = IF overBudget THEN batch \o raf ELSE raf
  /\ batch' = IF overBudget THEN << >> ELSE batch
  /\ UNCHANGED <<inflight, inbox, cancelled, workers, turn, posted, visible, calls, over>>

Draw ==
  /\ \/ turn = "frames" /\ running = NoCall /\ batch = << >> /\ turn' = "drawing"
     \/ turn = "drawing" /\ turn' = "wait"
  /\ UNCHANGED <<refs, timers, raf, inflight, inbox, cancelled, workers, batch, running,
                 posted, visible, calls, over>>

\* Time passes.
Due(n) ==
  /\ n \in DOMAIN timers /\ ~timers[n].due
  /\ timers' = [timers EXCEPT ![n].due = TRUE]
  /\ UNCHANGED <<refs, raf, inflight, inbox, cancelled, workers, turn, batch, running,
                 posted, visible, calls, over>>

\* ~ScriptEngine, for another page or with the tab: lua_close frees every
\* reference.  Between callbacks, since navigations are put off.
Destroy ==
  /\ turn \in {"handlers", "drawing"}
  /\ turn' = "gone"
  /\ cancelled' = TRUE
  /\ refs' = {} /\ timers' = << >> /\ raf' = << >>
  /\ UNCHANGED <<inflight, inbox, workers, batch, running, posted, visible, calls, over>>

ScriptsNext ==
  \/ Calls
  \/ \E w \in workers : Complete(w) \/ Wake(w)
  \/ Awake \/ CallFetch \/ PollTimers \/ CallTimer \/ CallFrame
  \/ Draw \/ Destroy
  \/ \E b \in BOOLEAN : PollFetches(b) \/ RunRaf(b) \/ CallbackEnds(b)
  \/ \E n \in 1..MaxTimers : Due(n)

ScriptsSpec == ScriptsInit /\ [][ScriptsNext]_scriptVars

-----------------------------------------------------------------------------
Entries == [id : 1..MaxCalls, ref : Refs]

ScriptsTypeOK ==
  /\ refs \subseteq Refs
  /\ timers \in Seq([id : 1..MaxCalls, ref : Refs, repeat : BOOLEAN, due : BOOLEAN])
  /\ raf \in Seq(Entries) /\ inbox \in Seq(Entries)
  /\ inflight \in 0..MaxInflight /\ cancelled \in BOOLEAN
  /\ workers \subseteq [id : 1..MaxCalls, ref : Refs, waking : BOOLEAN]
  /\ turn \in Turns /\ running \in Entries \cup {NoCall}
  /\ posted \in BOOLEAN /\ visible \in BOOLEAN
  /\ calls \in 0..MaxCalls /\ over \subseteq 1..MaxCalls

\* Who holds a reference: a timer, a frame, a fetch on its way, in the inbox or
\* in hand, and the callback of a frame or a fetch while it runs.
Holders ==
  {[by |-> "timer", x |-> t] : t \in ToSet(timers)}
  \cup {[by |-> "frame", x |-> f] : f \in ToSet(raf)}
  \cup {[by |-> "worker", x |-> w] : w \in {v \in workers : ~v.waking}}
  \cup {[by |-> "inbox", x |-> d] : d \in ToSet(inbox)}
  \cup (IF turn = "timers" THEN {}
        ELSE {[by |-> "batch", x |-> d] : d \in ToSet(batch)})
  \cup (IF turn = "timers" \/ running = NoCall THEN {}
        ELSE {[by |-> "running", x |-> running]})

\* References are freed once and by their last user: while the engine is there
\* each that is taken has one holder and each holder a taken one, whatever
\* callbacks do to the timers and frames that are being run.
RefsOwned ==
  turn # "gone" =>
    /\ {h.x.ref : h \in Holders} = refs
    /\ Cardinality(Holders) = Cardinality(refs)

\* No callback of a timeout, frame or fetch begins twice, and none that was
\* cleared begins at all.
CalledOnce ==
  [][running' # running /\ running' # NoCall => running'.id \notin over]_scriptVars

\* Slots are never leaked, not by an engine that goes away either, so a page can
\* always fetch again, and a result waits with its wake-up posted or about to be.
SlotsAndWakes ==
  /\ inflight = Cardinality({w \in workers : ~w.waking})
  /\ turn = "wait" /\ inbox # << >> => posted \/ \E w \in workers : w.waking
  /\ inflight <= MaxInflight

\* A result goes to an engine that is there and is not lost to it: what a worker
\* completes is put in the inbox and what leaves the inbox is about to be called,
\* but for an engine that is gone nothing is delivered or called any more.
Delivery ==
  /\ turn = "gone" => inbox' = inbox /\ running' = running
  /\ turn # "gone" => \A w \in workers \ workers' :
       w.waking \/ [id |-> w.id, ref |-> w.ref] \in ToSet(inbox')
  /\ ToSet(inbox) \subseteq ToSet(inbox') \cup ToSet(batch')

\* Whatever the page, the workers and a teardown do in between: no slot is lost,
\* no result waits unannounced, none is lost, and none goes to an engine that is
\* gone.
FetchesAccounted == [][SlotsAndWakes' /\ Delivery]_scriptVars
=============================================================================
