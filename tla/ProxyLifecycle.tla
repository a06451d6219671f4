--------------------------- MODULE ProxyLifecycle ---------------------------
(***************************************************************************)
(* The life of stwp_proxy's client connections across configuration        *)
(* reloads (SIGHUP) and graceful shutdown (SIGTERM/SIGINT):                *)
(* src/src/proxy/proxy.cpp (Session, serve_connection, the idle set) and   *)
(* src/src/proxy/main.cpp (accept_loop, reload, the signal loop).          *)
(*                                                                         *)
(* Processes: the main thread (sigwait loop, reload, shutdown and drain),  *)
(* one accept thread per listening port, one detached thread per client    *)
(* connection.  A member of Conns is a slot: a thread together with the    *)
(* socket it serves; a slot is reused when the thread has ended.           *)
(*                                                                         *)
(* Bytes are counted in units: a request head is HeadUnits of them (the    *)
(* last one holds the blank line), its body BodyUnits.  A read returns any *)
(* non-empty prefix of what the kernel holds.                              *)
(***************************************************************************)
EXTENDS Naturals, FiniteSets

CONSTANTS
  Conns,       \* connection slots
  Ports,       \* listening ports, one accept thread each
  HeadUnits,   \* units of a request head
  BodyUnits,   \* units of a request body
  MaxUnits,    \* bound: units of a connection not yet consumed by the session
  MaxReloads   \* bound: successful reloads

ASSUME ProxyAssumption ==
  /\ HeadUnits \in Nat \ {0}
  /\ BodyUnits \in Nat
  /\ MaxUnits \in Nat
  /\ MaxReloads \in Nat
  /\ IsFiniteSet(Conns)

VARIABLES
  mainPc,        \* where the main thread is
  acceptPc,      \* [Ports -> ...], where each accept thread is
  shuttingDown,  \* g_shutting_down
  generation,    \* g_generation
  runtime,       \* generation of the Runtime held in g_runtime
  active,        \* g_active
  idle,          \* g_idle: sockets registered as waiting for a request
  pc,            \* [Conns -> ...], where each connection thread is
  gen,           \* [Conns -> Nat], rt_->generation of its session
  queue,         \* [Conns -> Nat], units received by the kernel, not yet read
  buf,           \* [Conns -> Nat], units in Session::buf_
  result,        \* [Conns -> ...], what read_head returned
  keep,          \* [Conns -> BOOLEAN], keep_alive_, then what the response says
  shut,          \* [Conns -> BOOLEAN], shutdown_both was called on the socket
  peerClosed,    \* [Conns -> BOOLEAN], the client closed its side
  late           \* history, counted up to 2: requests taken up after the session's
                 \* configuration was replaced or shutdown began

mainVars == <<mainPc, generation, runtime, shuttingDown>>
sockVars == <<queue, peerClosed, shut>>
sessVars == <<gen, buf, result, keep, late>>
vars == <<mainPc, acceptPc, shuttingDown, generation, runtime, active, idle,
          pc, gen, queue, buf, result, keep, shut, peerClosed, late>>

MainStates == {"wait", "set", "reloadClose", "shutClose", "join", "drain",
               "recheck", "exited", "killed"}
AcceptStates == {"check", "accept", "closed"}
ConnStates == {"free", "spawned", "handshake", "top", "head", "leave", "parse",
               "body", "route", "write", "linger", "closing"}
Results == {"none", "Ok", "TooLarge", "Closed", "Timeout"}

TypeOK ==
  /\ mainPc \in MainStates
  /\ acceptPc \in [Ports -> AcceptStates]
  /\ shuttingDown \in BOOLEAN
  /\ generation \in Nat
  /\ runtime \in Nat
  /\ active \in Nat
  /\ idle \subseteq Conns
  /\ pc \in [Conns -> ConnStates]
  /\ gen \in [Conns -> Nat]
  /\ queue \in [Conns -> Nat]
  /\ buf \in [Conns -> Nat]
  /\ result \in [Conns -> Results]
  /\ keep \in [Conns -> BOOLEAN]
  /\ shut \in [Conns -> BOOLEAN]
  /\ peerClosed \in [Conns -> BOOLEAN]
  /\ late \in [Conns -> {0, 1, 2}]

\* main() has loaded the first configuration: activate, set_runtime, threads.
Init ==
  /\ mainPc = "wait"
  /\ acceptPc = [p \in Ports |-> "check"]
  /\ shuttingDown = FALSE
  /\ generation = 1
  /\ runtime = 1
  /\ active = 0
  /\ idle = {}
  /\ pc = [c \in Conns |-> "free"]
  /\ gen = [c \in Conns |-> 0]
  /\ queue = [c \in Conns |-> 0]
  /\ buf = [c \in Conns |-> 0]
  /\ result = [c \in Conns |-> "none"]
  /\ keep = [c \in Conns |-> FALSE]
  /\ shut = [c \in Conns |-> FALSE]
  /\ peerClosed = [c \in Conns |-> FALSE]
  /\ late = [c \in Conns |-> 0]

\* The process has not returned from main or called _Exit.
Alive == mainPc \notin {"exited", "killed"}

\* Mutant: only shutdown ends keep-alive.
StillRunning(c) == ~shuttingDown

\* Session::still_current.
StillCurrent(c) == ~shuttingDown /\ gen[c] = generation

\* For the history variable: the session is past its configuration's end.
PastItsEnd(c) == shuttingDown \/ gen[c] # generation

\* A connection thread moves on; threads run only while the process lives.
Goto(c, from, to) ==
  /\ Alive
  /\ pc[c] = from
  /\ pc' = [pc EXCEPT ![c] = to]

-----------------------------------------------------------------------------
(* The main thread.                                                        *)

\* SIGHUP with a loadable configuration on the same ports: activate() makes
\* every session of the old Runtime stale before the new one is published.
\* (A configuration that does not load, or changes ports, changes nothing.)
Activate ==
  /\ mainPc = "wait"
  /\ generation <= MaxReloads
  /\ generation' = generation + 1
  /\ mainPc' = "set"
  /\ UNCHANGED <<acceptPc, shuttingDown, runtime, active, idle, pc>>
  /\ UNCHANGED <<sockVars, sessVars>>

SetRuntime ==
  /\ mainPc = "set"
  /\ runtime' = generation
  /\ mainPc' = "reloadClose"
  /\ UNCHANGED <<acceptPc, shuttingDown, generation, active, idle, pc>>
  /\ UNCHANGED <<sockVars, sessVars>>

\* begin_shutdown, first half: the flag is raised under g_idle_mutex.
RaiseFlag ==
  /\ mainPc = "wait"
  /\ shuttingDown' = TRUE
  /\ mainPc' = "shutClose"
  /\ UNCHANGED <<acceptPc, generation, runtime, active, idle, pc>>
  /\ UNCHANGED <<sockVars, sessVars>>

\* close_idle_connections: shutdown_both on every registered socket, under
\* g_idle_mutex; the last step of a reload and of begin_shutdown.
CloseIdle ==
  /\ \/ mainPc = "reloadClose" /\ mainPc' = "wait"
     \/ mainPc = "shutClose" /\ mainPc' = "join"
  /\ shut' = [c \in Conns |-> shut[c] \/ c \in idle]
  /\ UNCHANGED <<acceptPc, shuttingDown, generation, runtime, active, idle, pc>>
  /\ UNCHANGED <<queue, peerClosed, sessVars>>

JoinAcceptThreads ==
  /\ mainPc = "join"
  /\ \A p \in Ports : acceptPc[p] = "closed"
  /\ mainPc' = "drain"
  /\ UNCHANGED <<acceptPc, shuttingDown, generation, runtime, active, idle, pc>>
  /\ UNCHANGED <<sockVars, sessVars>>

\* The drain loop ends when no connection is active ...
Drained ==
  /\ mainPc = "drain"
  /\ active = 0
  /\ mainPc' = "recheck"
  /\ UNCHANGED <<acceptPc, shuttingDown, generation, runtime, active, idle, pc>>
  /\ UNCHANGED <<sockVars, sessVars>>

\* ... or kDrainLimit has passed.
DrainLimit ==
  /\ mainPc = "drain"
  /\ active > 0
  /\ mainPc' = "recheck"
  /\ UNCHANGED <<acceptPc, shuttingDown, generation, runtime, active, idle, pc>>
  /\ UNCHANGED <<sockVars, sessVars>>

\* Mutant: the second look at the count is off by one.
ExitOverOne ==
  /\ mainPc = "recheck"
  /\ mainPc' = IF active > 1 THEN "killed" ELSE "exited"
  /\ UNCHANGED <<acceptPc, shuttingDown, generation, runtime, active, idle, pc>>
  /\ UNCHANGED <<sockVars, sessVars>>

\* The count is read once more: _Exit with connections open, or return.
Exit ==
  /\ mainPc = "recheck"
  /\ mainPc' = IF active > 0 THEN "killed" ELSE "exited"
  /\ UNCHANGED <<acceptPc, shuttingDown, generation, runtime, active, idle, pc>>
  /\ UNCHANGED <<sockVars, sessVars>>

MainStep == JoinAcceptThreads \/ SetRuntime \/ CloseIdle \/ Drained \/ Exit

-----------------------------------------------------------------------------
(* The accept threads.                                                     *)

\* while (!shutting_down()): the flag is read before the 250 ms wait.
CheckFlag(p) ==
  /\ Alive
  /\ acceptPc[p] = "check"
  /\ acceptPc' = [acceptPc EXCEPT ![p] = IF shuttingDown THEN "closed" ELSE "accept"]
  /\ UNCHANGED <<mainVars, active, idle, pc, sockVars, sessVars>>

\* No client within 250 ms, or accept() failed.
NoClient(p) ==
  /\ Alive
  /\ acceptPc[p] = "accept"
  /\ acceptPc' = [acceptPc EXCEPT ![p] = "check"]
  /\ UNCHANGED <<mainVars, active, idle, pc, sockVars, sessVars>>

\* accept(), then a detached thread is created with current_runtime().
Accept(p, c) ==
  /\ acceptPc[p] = "accept"
  /\ acceptPc' = [acceptPc EXCEPT ![p] = "check"]
  /\ Goto(c, "free", "spawned")
  /\ gen' = [gen EXCEPT ![c] = runtime]
  /\ UNCHANGED <<mainVars, active, idle, sockVars, buf, result, keep, late>>

-----------------------------------------------------------------------------
(* A connection thread: serve_connection and Session::handle_one.          *)

\* Mutant: the thread is not counted.
StartUncounted(c) ==
  /\ Goto(c, "spawned", "handshake")
  /\ UNCHANGED <<mainVars, acceptPc, active, idle, sockVars, sessVars>>

\* The thread runs its first statement: struct Active counts it.
Start(c) ==
  /\ Goto(c, "spawned", "handshake")
  /\ active' = active + 1
  /\ UNCHANGED <<mainVars, acceptPc, idle, sockVars, sessVars>>

\* TLS is set up (or the port is moon://, which has no handshake).
HandshakeDone(c) ==
  /\ Goto(c, "handshake", "top")
  /\ UNCHANGED <<mainVars, acceptPc, active, idle, sockVars, sessVars>>

\* The handshake failed or timed out: the socket is closed, no session.
HandshakeFailed(c) ==
  /\ Goto(c, "handshake", "closing")
  /\ UNCHANGED <<mainVars, acceptPc, active, idle, sockVars, sessVars>>

\* Mutant: enter_idle trusts the check made before it took the mutex.
NeverRefused == FALSE

\* enter_idle reads the flag again under g_idle_mutex.
Refused == shuttingDown

\* handle_one with an empty buffer: enter_idle, refused during shutdown.
EnterIdle(c) ==
  /\ buf[c] = 0
  /\ IF Refused
       THEN Goto(c, "top", "linger") /\ idle' = idle
       ELSE Goto(c, "top", "head") /\ idle' = idle \cup {c}
  /\ keep' = [keep EXCEPT ![c] = FALSE]
  /\ UNCHANGED <<mainVars, acceptPc, active, sockVars, gen, buf, result, late>>

\* handle_one with bytes of the next request already read: not idle.
Pipelined(c) ==
  /\ buf[c] > 0
  /\ Goto(c, "top", "head")
  /\ keep' = [keep EXCEPT ![c] = FALSE]
  /\ UNCHANGED <<mainVars, acceptPc, active, idle, sockVars, gen, buf, result, late>>

\* Mutant: the blank line is looked for one unit early.
HeadAlmostComplete(c) == buf[c] >= HeadUnits - 1

\* find_header_end has found the blank line.
HeadComplete(c) == buf[c] >= HeadUnits

\* read_more: some of what the kernel holds, also after shutdown_both.
ReadMore(c) ==
  /\ Alive
  /\ \/ pc[c] = "head" /\ ~HeadComplete(c)
     \/ pc[c] = "body" /\ buf[c] < BodyUnits
  /\ \E n \in 1..queue[c] :
       /\ buf' = [buf EXCEPT ![c] = @ + n]
       /\ queue' = [queue EXCEPT ![c] = @ - n]
  /\ UNCHANGED <<mainVars, acceptPc, active, idle, pc, peerClosed, shut,
                 gen, result, keep, late>>

\* What read_head returns: a head, too long a head, or no head because the
\* connection ended or the wait for more bytes timed out.
HeadEnds(c, r) ==
  CASE r = "Ok"       -> HeadComplete(c)
    [] r = "TooLarge" -> buf[c] > 0
    [] r = "Closed"   -> /\ ~HeadComplete(c)
                         /\ shut[c] \/ (peerClosed[c] /\ queue[c] = 0)
    [] r = "Timeout"  -> ~HeadComplete(c) /\ queue[c] = 0

\* A wait with no byte of the next request read is bounded only by
\* keepalive_timeout; one inside a request by kClientReadTimeoutMs.
IdleWait(c) == pc[c] = "head" /\ buf[c] = 0

ReadHead(c, r) ==
  /\ HeadEnds(c, r)
  /\ Goto(c, "head", "leave")
  /\ result' = [result EXCEPT ![c] = r]
  /\ UNCHANGED <<mainVars, acceptPc, active, idle, sockVars,
                 gen, buf, keep, late>>

\* Mutants: leave_idle skipped when read_head failed, or when it succeeded.
ErasedOnSuccess(c) == IF result[c] = "Ok" THEN idle \ {c} ELSE idle
ErasedOnFailure(c) == IF result[c] = "Ok" THEN idle ELSE idle \ {c}

\* leave_idle's effect on g_idle.
Erased(c) == idle \ {c}

\* leave_idle, after read_head has returned, whatever it returned.
LeaveIdle(c) ==
  /\ Goto(c, "leave", CASE result[c] = "Ok" -> "parse"
                        [] result[c] = "TooLarge" -> "route"
                        [] OTHER -> "linger")
  /\ idle' = Erased(c)
  /\ result' = [result EXCEPT ![c] = "none"]
  /\ UNCHANGED <<mainVars, acceptPc, active, sockVars, gen, buf, keep, late>>

\* parse_request_headers and the checks that answer 400, 413 or 505 with
\* keep_alive FALSE; the head is consumed.
Parse(c, wellFormed) ==
  /\ Goto(c, "parse", IF wellFormed THEN "body" ELSE "route")
  /\ buf' = [buf EXCEPT ![c] = @ - HeadUnits]
  /\ late' = [late EXCEPT ![c] = IF PastItsEnd(c) /\ @ < 2 THEN @ + 1 ELSE @]
  /\ UNCHANGED <<mainVars, acceptPc, active, idle, sockVars,
                 gen, result, keep>>

\* The body is complete: consume it and decide keep_alive_ (wants is
\* wants_keep_alive of the request's headers).
BodyComplete(c, wants) ==
  /\ buf[c] >= BodyUnits
  /\ Goto(c, "body", "route")
  /\ buf' = [buf EXCEPT ![c] = @ - BodyUnits]
  /\ keep' = [keep EXCEPT ![c] = wants /\ StillCurrent(c)]
  /\ UNCHANGED <<mainVars, acceptPc, active, idle, sockVars,
                 gen, result, late>>

\* The client stopped sending in the middle of a body.
BodyAborted(c) ==
  /\ buf[c] < BodyUnits
  /\ queue[c] = 0 \/ shut[c]
  /\ Goto(c, "body", "linger")
  /\ UNCHANGED <<mainVars, acceptPc, active, idle, sockVars, sessVars>>

\* The response head is built: respond, relay and serve_static look at
\* still_current again; 421 and until-close responses say close anyway.
Route(c, closing) ==
  /\ Goto(c, "route", "write")
  /\ keep' = [keep EXCEPT ![c] = @ /\ StillCurrent(c) /\ ~closing]
  /\ UNCHANGED <<mainVars, acceptPc, active, idle, sockVars,
                 gen, buf, result, late>>

\* The whole response is written: handle_one returns what it announced.
Write(c) ==
  /\ ~shut[c]
  /\ Goto(c, "write", IF keep[c] THEN "top" ELSE "linger")
  /\ UNCHANGED <<mainVars, acceptPc, active, idle, sockVars,
                 gen, buf, result, keep, late>>

\* write_all failed, the file was shorter than promised, or the upstream
\* closed in the middle of the body.
WriteFailed(c) ==
  /\ Goto(c, "write", "linger")
  /\ UNCHANGED <<mainVars, acceptPc, active, idle, sockVars, sessVars>>

\* linger_close has discarded what the client still sent; ~Session closes
\* the socket.
Linger(c) ==
  /\ Goto(c, "linger", "closing")
  /\ queue' = [queue EXCEPT ![c] = 0]
  /\ buf' = [buf EXCEPT ![c] = 0]
  /\ UNCHANGED <<mainVars, acceptPc, active, idle, shut, peerClosed,
                 gen, result, keep, late>>

\* ~Active; the thread ends and its slot may be used again.
Finish(c) ==
  /\ Goto(c, "closing", "free")
  /\ active' = active - 1
  /\ gen' = [gen EXCEPT ![c] = 0]
  /\ queue' = [queue EXCEPT ![c] = 0]
  /\ buf' = [buf EXCEPT ![c] = 0]
  /\ result' = [result EXCEPT ![c] = "none"]
  /\ keep' = [keep EXCEPT ![c] = FALSE]
  /\ shut' = [shut EXCEPT ![c] = FALSE]
  /\ peerClosed' = [peerClosed EXCEPT ![c] = FALSE]
  /\ late' = [late EXCEPT ![c] = 0]
  /\ UNCHANGED <<mainVars, acceptPc, idle>>

\* Steps the thread takes without waiting for the client, or after a wait
\* bounded by one of the ten-second timeouts.
SessionStep(c) ==
  \/ Start(c) \/ HandshakeDone(c) \/ HandshakeFailed(c)
  \/ EnterIdle(c) \/ Pipelined(c) \/ ReadMore(c)
  \/ \E r \in Results \ {"none"} :
       ~(r = "Timeout" /\ IdleWait(c)) /\ ReadHead(c, r)
  \/ LeaveIdle(c)
  \/ \E wellFormed \in BOOLEAN : Parse(c, wellFormed)
  \/ \E wants \in BOOLEAN : BodyComplete(c, wants)
  \/ BodyAborted(c)
  \/ \E closing \in BOOLEAN : Route(c, closing)
  \/ Write(c) \/ WriteFailed(c) \/ Linger(c) \/ Finish(c)

\* keepalive_timeout passes with no byte of a next request.
IdleTimeout(c) == IdleWait(c) /\ ReadHead(c, "Timeout")

-----------------------------------------------------------------------------
(* The clients.                                                            *)

\* What is sent once the session lingers is discarded unseen.
Connected(c) == pc[c] \notin {"free", "linger", "closing"}

ClientSends(c) ==
  /\ Alive
  /\ Connected(c)
  /\ ~peerClosed[c]
  /\ queue[c] + buf[c] < MaxUnits
  /\ queue' = [queue EXCEPT ![c] = @ + 1]
  /\ UNCHANGED <<mainVars, acceptPc, active, idle, pc, peerClosed, shut, sessVars>>

ClientCloses(c) ==
  /\ Alive
  /\ Connected(c)
  /\ ~peerClosed[c]
  /\ peerClosed' = [peerClosed EXCEPT ![c] = TRUE]
  /\ UNCHANGED <<mainVars, acceptPc, active, idle, pc, queue, shut, sessVars>>

-----------------------------------------------------------------------------
AcceptStep(p) == CheckFlag(p) \/ NoClient(p) \/ \E c \in Conns : Accept(p, c)

\* Once the process has ended nothing of it moves.
Terminated == ~Alive /\ UNCHANGED vars

Next ==
  \/ Activate \/ RaiseFlag \/ DrainLimit \/ MainStep
  \/ \E p \in Ports : AcceptStep(p)
  \/ \E c \in Conns : SessionStep(c) \/ IdleTimeout(c)
  \/ \E c \in Conns : ClientSends(c) \/ ClientCloses(c)
  \/ Terminated

Spec == Init /\ [][Next]_vars

\* Threads are scheduled and bounded waits end; signals, clients, the drain
\* limit and the configurable idle timeout need not come.
Fairness ==
  /\ WF_vars(MainStep)
  /\ \A p \in Ports : WF_vars(CheckFlag(p) \/ NoClient(p))
  /\ \A c \in Conns : WF_vars(SessionStep(c))

FairSpec == Spec /\ Fairness

\* As FairSpec, and while the proxy serves, keepalive_timeout passes on an
\* idle connection.  During shutdown no idle timeout is relied on.
TimedSpec ==
  FairSpec /\ \A c \in Conns : WF_vars(~shuttingDown /\ IdleTimeout(c))

-----------------------------------------------------------------------------
(* What must hold.                                                         *)

\* After begin_shutdown has run, every session still registered as idle has
\* had its socket shut down: nobody sleeps out keepalive_timeout because it
\* registered between the flag and the sweep (enter_idle re-reads the flag
\* under the mutex of both).
ShutdownReachesIdle ==
  mainPc \in {"join", "drain", "recheck", "exited", "killed"} =>
    \A c \in idle : shut[c]

\* g_idle names only sockets whose session is inside read_head or about to
\* leave_idle, so the sweep never shuts down a closed (perhaps reused) fd.
IdleOwnsSocket == \A c \in idle : pc[c] \in {"head", "leave"}

\* A session takes up at most one request after its configuration was
\* replaced or shutdown began: that request's response says close.
AtMostOneLateRequest == \A c \in Conns : late[c] <= 1

Counted == {c \in Conns : pc[c] \notin {"free", "spawned"}}

\* g_active is the number of threads between ~Active's construction and
\* destruction, on every path through serve_connection.
ActiveCount == active = Cardinality(Counted)

\* When main returns normally no started connection is cut off.  (A thread
\* that was created but has not run yet is not counted and is lost.)
CleanExitCutsNobody ==
  [][mainPc' = "exited" => mainPc = "exited" \/ Counted = {}]_vars

InFlight(c) == pc[c] \in {"parse", "body", "route", "write"}

\* A reload or shutdown never shuts down a connection whose session has left
\* the idle set with a request to answer.
InFlightNotShut == [][\A c \in Conns : InFlight(c) /\ shut'[c] => shut[c]]_vars

\* Shutdown ends the process without waiting for keepalive_timeout or for
\* the drain limit, whatever idle clients do.
ShutdownEnds == shuttingDown ~> ~Alive

\* Sessions of a replaced configuration end.
StaleSessionsEnd ==
  \A c \in Conns :
    (pc[c] # "free" /\ gen[c] # generation) ~> (pc[c] = "free" \/ ~Alive)

\* The promise, read off the implementation: which phase the main thread is
\* in, and how far each connection is.
PhaseNow ==
  CASE ~Alive -> "stopped"
    [] mainPc \in {"drain", "recheck"} -> "refusing"
    [] mainPc \in {"shutClose", "join"} -> "draining"
    [] OTHER -> "serving"

ConnNow(c) ==
  CASE pc[c] = "free" -> "none"
    [] pc[c] # "free" /\ late[c] = 0 -> "open"
    [] pc[c] # "free" /\ late[c] = 1 -> "last"
    [] OTHER -> "overdue"

Promise == INSTANCE GracefulService WITH
  phase <- PhaseNow,
  version <- generation,
  conn <- [c \in Conns |-> ConnNow(c)],
  under <- gen

\* The proxy keeps the promise of GracefulService: at most one more request
\* per connection of a replaced configuration, no connection accepted once
\* the listeners are joined, none opened under an older configuration than
\* the one just replaced.
KeepsPromise == Promise!Service

-----------------------------------------------------------------------------
(* What a test expects and the code does not guarantee.                    *)

\* A request whose head has been read is not cut off by a reload or shutdown
\* that comes later (test_graceful_shutdown: the request in progress is
\* answered 200).
ReadRequestNotCut ==
  [][\A c \in Conns :
       (pc[c] \in {"head", "leave"} /\ HeadComplete(c) /\ ~shut[c]) => ~shut'[c]]_vars
=============================================================================
