---------------------------- MODULE ProxyForward ----------------------------
(***************************************************************************)
(* Session::forward and Session::relay of src/src/proxy/proxy.cpp: client  *)
(* sessions forward requests to the peers of one UpstreamGroup, over fresh *)
(* or pooled connections, with fail-over to other peers and the retry of a *)
(* request whose pooled connection had gone stale.  The upstream servers   *)
(* are the environment: they may close at any time, before or after        *)
(* carrying out a request, and answer well or badly.                       *)
(***************************************************************************)
EXTENDS UpstreamGroup, SequencesExt

CONSTANTS
  Sessions,   \* client sessions
  Conns,      \* upstream connections (proxy and upstream end together)
  Methods,    \* request methods, a subset of {"GET", "HEAD", "POST"}
  MaxTurns,   \* bound: requests of a session
  None

\* A request: the turn-th of its session.
Requests == [by : Sessions, turn : 1..MaxTurns, method : Methods]

\* How an upstream answers: with a Content-Length and keep-alive, or close;
\* without a Content-Length; with more bytes than it declared; with fewer,
\* then closing; with a head that is too long or cannot be parsed.
Kinds == {"keep", "close", "unframed", "surplus", "short", "malformed"}
Replies == [to : Requests, kind : Kinds]

ASSUME ForwardAssumption ==
  /\ Methods \subseteq {"GET", "HEAD", "POST"}
  /\ MaxTurns \in Nat
  /\ None \notin Conns \cup Requests \cup Replies

VARIABLES
  pc,        \* [Sessions -> ...], where forward is
  request,   \* [Sessions -> ...], the request being forwarded
  tried,     \* [Sessions -> SUBSET Peers], forward's local `tried`
  peer,      \* [Sessions -> Nat], the peer in hand, 0 for none
  conn,      \* [Sessions -> ...], the upstream connection in hand, or None
  reused,    \* [Sessions -> BOOLEAN], it came from the pool
  upOpen,    \* [Conns -> BOOLEAN], the upstream has its end open
  pending,   \* [Conns -> ...], a request delivered to the upstream
  reply,     \* [Conns -> ...], a response the proxy has not read
  surplus,   \* [Conns -> BOOLEAN], readable bytes no response accounts for
  executed   \* history: [Requests -> Nat], times upstreams carried one out

sessVars == <<request, tried, peer, conn, reused>>
linkVars == <<upOpen, pending, reply, surplus>>
vars == <<groupVars, pc, sessVars, linkVars, executed>>

Init ==
  /\ GroupInit
  /\ pc = [s \in Sessions |-> "idle"]
  /\ request = [s \in Sessions |-> [by |-> s, turn |-> 0, method |-> "none"]]
  /\ tried = [s \in Sessions |-> {}]
  /\ peer = [s \in Sessions |-> 0]
  /\ conn = [s \in Sessions |-> None]
  /\ reused = [s \in Sessions |-> FALSE]
  /\ upOpen = [k \in Conns |-> FALSE]
  /\ pending = [k \in Conns |-> None]
  /\ reply = [k \in Conns |-> None]
  /\ surplus = [k \in Conns |-> FALSE]
  /\ executed = [r \in Requests |-> 0]

Pooled == UNION {ToSet(pool[i]) : i \in Peers}
InHand == {conn[s] : s \in Sessions} \ {None}

\* A socket pair that neither side uses any more.
Unused == {k \in Conns \ (Pooled \cup InHand) : ~upOpen[k]}

\* wait_readable finds neither data nor end of stream on it.
Quiet == {k \in Conns : upOpen[k] /\ ~surplus[k] /\ reply[k] = None}

Goto(s, from, to) == pc[s] = from /\ pc' = [pc EXCEPT ![s] = to]

\* The exchange is over: a response (or none) went to the client, and the
\* connection in hand is dropped unless it was parked.
Over(s, from) ==
  /\ Goto(s, from, "idle")
  /\ tried' = [tried EXCEPT ![s] = {}]
  /\ peer' = [peer EXCEPT ![s] = 0]
  /\ conn' = [conn EXCEPT ![s] = None]
  /\ reused' = [reused EXCEPT ![s] = FALSE]
  /\ UNCHANGED request

\* Mutant: any request may be sent again.
RetryAnything(s) == TRUE

\* forward's `idempotent`.
Idempotent(s) == request[s].method \in {"GET", "HEAD"}

\* `stale`: a pooled connection turned out dead before any response byte, and
\* either the request never went out whole or it may be repeated.
Stale(s, sent) == reused[s] /\ (~sent \/ Idempotent(s))

-----------------------------------------------------------------------------
(* Client sessions.                                                        *)

\* A request for a proxied location has been read.
Arrive(s, m) ==
  /\ request[s].turn < MaxTurns
  /\ Goto(s, "idle", "pick")
  /\ request' = [request EXCEPT ![s] = [by |-> s, turn |-> @.turn + 1, method |-> m]]
  /\ UNCHANGED <<groupVars, tried, peer, conn, reused, linkVars, executed>>

PickPeer(s) ==
  /\ Goto(s, "pick", "take")
  /\ Pick(tried[s])
  /\ peer' = [peer EXCEPT ![s] = Picked(tried[s])]
  /\ tried' = [tried EXCEPT ![s] = @ \cup {Picked(tried[s])}]
  /\ UNCHANGED <<request, conn, reused, linkVars, executed>>

\* pick returned -1: 502.
NoPeerLeft(s) ==
  /\ Candidates(tried[s]) = {}
  /\ Over(s, "pick")
  /\ UNCHANGED <<groupVars, linkVars, executed>>

\* take_idle; `old` of the pooled connections are past kIdleLifetime.
TakeIdle(s, old) ==
  LET i == peer[s]
      n == FoundAt(i, old, Quiet)
  IN /\ pc[s] = "take" /\ old <= Len(pool[i])
     /\ Goto(s, "take", IF n = 0 THEN "dial" ELSE "send")
     /\ pool' = LeftAfter(i, n)
     /\ conn' = [conn EXCEPT ![s] = IF n = 0 THEN None ELSE pool[i][n]]
     /\ reused' = [reused EXCEPT ![s] = n # 0]
     /\ UNCHANGED <<weight, healthVars, request, tried, peer, linkVars, executed>>

Dialled(s, k) ==
  /\ k \in Unused
  /\ Goto(s, "dial", "send")
  /\ conn' = [conn EXCEPT ![s] = k]
  /\ upOpen' = [upOpen EXCEPT ![k] = TRUE]
  /\ pending' = [pending EXCEPT ![k] = None]
  /\ reply' = [reply EXCEPT ![k] = None]
  /\ surplus' = [surplus EXCEPT ![k] = FALSE]
  /\ UNCHANGED <<groupVars, request, tried, peer, reused, executed>>

\* The peer cannot be resolved or reached: report it, try the next.
DialFailed(s) ==
  /\ Goto(s, "dial", "pick")
  /\ Report(peer[s], FALSE)
  /\ UNCHANGED <<weight, pool, sessVars, linkVars, executed>>

\* write_all returned TRUE; a closed upstream never sees the request.
Sent(s) ==
  LET k == conn[s] IN
  /\ Goto(s, "send", "await")
  /\ pending' = [pending EXCEPT ![k] = IF upOpen[k] THEN request[s] ELSE None]
  /\ UNCHANGED <<groupVars, sessVars, upOpen, reply, surplus, executed>>

\* The connection is replaced by a fresh one to the same peer.
Redial(s, from) ==
  /\ Goto(s, from, "dial")
  /\ conn' = [conn EXCEPT ![s] = None]
  /\ reused' = [reused EXCEPT ![s] = FALSE]
  /\ UNCHANGED <<request, tried, peer, healthVars>>

\* 502 or 504; the peer is blamed and no other is tried.
GiveUp(s, from) == Over(s, from) /\ Report(peer[s], FALSE)

\* write_all returned FALSE: the upstream has at most part of the request.
SendFailed(s) ==
  /\ IF Stale(s, FALSE) THEN Redial(s, "send") ELSE GiveUp(s, "send")
  /\ UNCHANGED <<weight, pool, linkVars, executed>>

\* read_head met end of stream or an error before a byte of the response.
NoResponse(s) ==
  /\ pc[s] = "await" /\ ~upOpen[conn[s]] /\ reply[conn[s]] = None
  /\ IF Stale(s, TRUE) THEN Redial(s, "await") ELSE GiveUp(s, "await")
  /\ UNCHANGED <<weight, pool, linkVars, executed>>

\* Nothing came for proxy_read_timeout, or only part of a head did.
ReadTimeout(s) ==
  /\ pc[s] = "await" /\ reply[conn[s]] = None
  /\ GiveUp(s, "await")
  /\ UNCHANGED <<weight, pool, linkVars, executed>>

\* A head too long is the peer's failure; one that cannot be parsed is found
\* after the peer was reported well.
BadHead(s, ok) ==
  /\ pc[s] = "await" /\ reply[conn[s]] # None /\ reply[conn[s]].kind = "malformed"
  /\ Over(s, "await")
  /\ Report(peer[s], ok)
  /\ UNCHANGED <<weight, pool, linkVars, executed>>

HeadRead(s) ==
  /\ pc[s] = "await" /\ reply[conn[s]] # None /\ reply[conn[s]].kind # "malformed"
  /\ Goto(s, "await", "relay")
  /\ Report(peer[s], TRUE)
  /\ UNCHANGED <<weight, pool, sessVars, linkVars, executed>>

\* Mutant: what the upstream says of the connection is all that counts.
ReusableIfKept(s, k, inBuffer) == reply[k].kind \in {"keep", "surplus"}

\* `reusable`: framed, fully read, kept by the upstream, nothing left over in
\* the buffer.  A HEAD's response leaves it unknown what follows.
Reusable(s, k, inBuffer) ==
  /\ request[s].method # "HEAD"
  /\ reply[k].kind \in {"keep", "surplus"}
  /\ ~inBuffer

\* The response is relayed to its end (inBuffer: surplus bytes came in with
\* it, otherwise they stay in the kernel) and the connection parked or closed.
Relayed(s, inBuffer) ==
  LET k == conn[s]
      left == reply[k].kind = "surplus"
  IN /\ pc[s] = "relay" /\ reply[k].kind # "short"
     /\ inBuffer => left
     /\ Over(s, "relay")
     /\ pool' = IF Reusable(s, k, inBuffer) THEN Parked(peer[s], k) ELSE pool
     /\ reply' = [reply EXCEPT ![k] = None]
     /\ surplus' = [surplus EXCEPT ![k] = left /\ ~inBuffer]
     /\ UNCHANGED <<weight, healthVars, upOpen, pending, executed>>

\* The upstream ended or stalled in the body, or the client went away.
RelayFailed(s) ==
  /\ Over(s, "relay")
  /\ UNCHANGED <<groupVars, linkVars, executed>>

SessionStep(s) ==
  \/ PickPeer(s) \/ NoPeerLeft(s)
  \/ \E old \in 0..Keepalive : TakeIdle(s, old)
  \/ \E k \in Conns : Dialled(s, k)
  \/ DialFailed(s) \/ Sent(s) \/ SendFailed(s)
  \/ NoResponse(s) \/ ReadTimeout(s) \/ HeadRead(s)
  \/ \E ok \in BOOLEAN : BadHead(s, ok)
  \/ \E inBuffer \in BOOLEAN : Relayed(s, inBuffer)
  \/ RelayFailed(s)

-----------------------------------------------------------------------------
(* The upstream servers.                                                   *)

Execute(k) == executed' = [executed EXCEPT ![pending[k]] = @ + 1]

\* Carry the request out and answer it.
Serve(k, kind) ==
  /\ upOpen[k] /\ pending[k] # None
  /\ Execute(k)
  /\ reply' = [reply EXCEPT ![k] = [to |-> pending[k], kind |-> kind]]
  /\ pending' = [pending EXCEPT ![k] = None]
  /\ upOpen' = [upOpen EXCEPT ![k] = kind \in {"keep", "surplus", "malformed"}]
  /\ UNCHANGED <<groupVars, pc, sessVars, surplus>>

\* Carry it out and close without answering.
ServeAndClose(k) ==
  /\ upOpen[k] /\ pending[k] # None
  /\ Execute(k)
  /\ pending' = [pending EXCEPT ![k] = None]
  /\ upOpen' = [upOpen EXCEPT ![k] = FALSE]
  /\ UNCHANGED <<groupVars, pc, sessVars, reply, surplus>>

\* Close, losing a request it has not looked at: an idle timeout, a restart.
UpstreamCloses(k) ==
  /\ upOpen[k]
  /\ pending' = [pending EXCEPT ![k] = None]
  /\ upOpen' = [upOpen EXCEPT ![k] = FALSE]
  /\ UNCHANGED <<groupVars, pc, sessVars, reply, surplus, executed>>

-----------------------------------------------------------------------------
Passes(i) == TimePasses(i) /\ UNCHANGED <<pc, sessVars, linkVars, executed>>

Next ==
  \/ \E s \in Sessions, m \in Methods : Arrive(s, m)
  \/ \E s \in Sessions : SessionStep(s)
  \/ \E k \in Conns, kind \in Kinds : Serve(k, kind)
  \/ \E k \in Conns : ServeAndClose(k) \/ UpstreamCloses(k)
  \/ \E i \in Peers : Passes(i)

\* Sessions run and their timeouts fire; upstreams need not do anything.
Spec == Init /\ [][Next]_vars /\ \A s \in Sessions : WF_vars(SessionStep(s))

-----------------------------------------------------------------------------
TypeOK ==
  /\ weight \in [Peers -> Int]
  /\ fails \in [Peers -> FailCounts]
  /\ lapsed \in [Peers -> BOOLEAN]
  /\ down \in [Peers -> BOOLEAN]
  /\ pool \in [Peers -> Seq(Conns)]
  /\ pc \in [Sessions -> {"idle", "pick", "take", "dial", "send", "await", "relay"}]
  /\ \A s \in Sessions : pc[s] # "idle" => request[s] \in Requests
  /\ tried \in [Sessions -> SUBSET Peers]
  /\ peer \in [Sessions -> Peers \cup {0}]
  /\ conn \in [Sessions -> Conns \cup {None}]
  /\ reused \in [Sessions -> BOOLEAN]
  /\ upOpen \in [Conns -> BOOLEAN]
  /\ pending \in [Conns -> Requests \cup {None}]
  /\ reply \in [Conns -> Replies \cup {None}]
  /\ surplus \in [Conns -> BOOLEAN]
  /\ executed \in [Requests -> Nat]

\* Upstreams carry out a request that is not idempotent at most once, and an
\* idempotent one at most once more per peer (a stale pooled connection each),
\* however fail-over, stale connections, closes and timeouts fall.
AtMostOnce ==
  \A r \in Requests :
    executed[r] <= IF r.method \in {"GET", "HEAD"} THEN NPeers + 1 ELSE 1

\* What a session relays is the response to its own request, and no bytes of
\* an earlier exchange lie ahead of it on the connection, for every upstream
\* whose surplus bytes have arrived by the time the connection is used again.
OwnResponse ==
  \A s \in Sessions : LET k == conn[s] IN
    /\ pc[s] \in {"send", "await", "relay"} => ~surplus[k]
    /\ pc[s] = "send" => pending[k] = None /\ reply[k] = None
    /\ pc[s] \in {"await", "relay"} /\ reply[k] # None => reply[k].to = request[s]

\* A pooled connection belongs to nobody, is in one place only, and no
\* response can arrive on it any more; and "keepalive N" bounds those idle to
\* each peer.
PoolDetached ==
  /\ \A i, j \in Peers : \A m \in 1..Len(pool[i]), n \in 1..Len(pool[j]) :
       pool[i][m] = pool[j][n] => i = j /\ m = n
  /\ Pooled \cap InHand = {}
  /\ \A s, t \in Sessions : conn[s] = conn[t] => s = t \/ conn[s] = None
  /\ \A k \in Pooled : pending[k] = None /\ reply[k] = None
  /\ \A i \in Peers : Len(pool[i]) <= Keepalive

\* Every forwarded request comes to an end: fail-over and stale retries are
\* bounded even if no upstream ever accepts or answers.
RequestEnds == \A s \in Sessions : pc[s] # "idle" ~> pc[s] = "idle"
=============================================================================
