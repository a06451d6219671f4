---------------------------- MODULE BrowserFetch ----------------------------
(***************************************************************************)
(* The browser's network layer: perform_request, open_connection and       *)
(* run_exchange of src/src/browser/fetcher.cpp over the connection pool of *)
(* conn_pool.cpp, with the hooks perform_fetch hangs on them.  Fetch       *)
(* threads hold descriptor NUMBERS, which the kernel gives out again once  *)
(* closed; the user interface closes one to cancel a navigation's fetch.   *)
(* Servers are the environment.                                            *)
(***************************************************************************)
EXTENDS Integers, SequencesExt

CONSTANTS
  Pages,     \* fetch threads of navigations
  Loads,     \* fetch threads of subresources, images and scripts
  Urls,      \* one per origin
  Secure,    \* the star:// ones
  Fds,       \* descriptor numbers
  MaxIdle,   \* kMaxPerOrigin
  None

Threads == Pages \cup Loads

ASSUME FetchAssumption ==
  /\ Pages \cap Loads = {} /\ Secure \subseteq Urls /\ MaxIdle \in Nat \ {0}
  /\ None \notin Threads \cup Urls \cup Fds

VARIABLES
  sock,      \* [Fds -> ...], the socket a number names now, or None
  pool,      \* [Urls -> Seq(Fds)], g_idle, newest last
  stage,     \* [Threads -> ...], where perform_request is
  url,       \* [Threads -> ...], what is being fetched
  fd,        \* [Threads -> ...], the number held in `conn` or `socket_fd`
  reused,    \* [Threads -> BOOLEAN], it came from the pool
  result,    \* [Threads -> ...], how the fetch ended, as far as it matters to
             \* the connection, the retry and the fallback
  tabOpen,   \* find_tab_by_id finds the tab
  current,   \* its current_url
  activeFd,  \* its active_socket_fd
  waiting,   \* threads whose recv() waits on a socket whose number was closed
  sent,      \* history: [Threads -> Seq(BOOLEAN)], the connections, reused or
             \* not, on which the whole request was written
  crossed    \* history: a number was given out that somebody still held

netVars == <<sock, pool, stage, url, fd, reused, result, waiting, sent, crossed>>
tabVars == <<tabOpen, current, activeFd>>

Sockets == [origin : Urls, owes : Threads \cup {None}, up : BOOLEAN, stray : BOOLEAN]
Stages == {"off", "acquire", "open", "connect", "write", "read", "unregister",
           "finish", "ended", "done"}
Results == {"none", "keep", "over", "silent", "refused", "foreign"}

FetchInit ==
  /\ sock = [f \in Fds |-> None]
  /\ pool = [u \in Urls |-> << >>]
  /\ stage = [t \in Threads |-> "off"]
  /\ url = [t \in Threads |-> None]
  /\ fd = [t \in Threads |-> None]
  /\ reused = [t \in Threads |-> FALSE]
  /\ result = [t \in Threads |-> "none"]
  /\ tabOpen = TRUE /\ activeFd = None
  /\ waiting = {}
  /\ sent = [t \in Threads |-> << >>]
  /\ crossed = FALSE

Pooled == UNION {ToSet(pool[u]) : u \in Urls}
Held == {fd[t] : t \in Threads} \cup Pooled

\* close() on numbers: whatever they name now goes.
Closed(fs) == [f \in Fds |-> IF f \in fs THEN None ELSE sock[f]]

Goto(t, from, to) == stage[t] = from /\ stage' = [stage EXCEPT ![t] = to]

\* perform_request is entered for u.
Request(t, u, from) ==
  /\ Goto(t, from, "acquire")
  /\ url' = [url EXCEPT ![t] = u]
  /\ reused' = [reused EXCEPT ![t] = FALSE]
  /\ result' = [result EXCEPT ![t] = "none"]
  /\ sent' = [sent EXCEPT ![t] = << >>]
  /\ UNCHANGED <<pool, fd, waiting, crossed>>

\* The thread returns, and its locals are gone.
Exit(t) ==
  /\ Goto(t, "ended", "done")
  /\ url' = [url EXCEPT ![t] = None]
  /\ result' = [result EXCEPT ![t] = "none"]
  /\ UNCHANGED <<sock, pool, fd, reused, waiting, sent, crossed, tabVars>>

\* on_socket: the tab is there, and a navigation's fetch is not superseded.
Wanted(t) == tabOpen /\ (t \in Pages => url[t] = current)

\* Mutant: the tab keeps the descriptor of a fetch that is over.
NeverUnregistered(t) == activeFd

\* on_socket registers a navigation's descriptor, on_socket_done removes it.
Registered(t, f) == IF t \in Pages THEN f ELSE activeFd
Unregistered(t) == IF t \in Pages /\ tabOpen /\ activeFd = fd[t] THEN None ELSE activeFd

\* A connection is in hand: use it, or close it as Cancelled.
Take(t, f, next) ==
  /\ stage' = [stage EXCEPT ![t] = IF Wanted(t) THEN next ELSE "ended"]
  /\ fd' = [fd EXCEPT ![t] = IF Wanted(t) THEN f ELSE None]
  /\ activeFd' = IF Wanted(t) THEN Registered(t, f) ELSE activeFd
  /\ result' = [result EXCEPT ![t] = IF Wanted(t) THEN "none" ELSE "over"]

-----------------------------------------------------------------------------
(* conn_pool.cpp                                                           *)

\* Mutant: the select is left out.
UsableUnread(f) == sock[f] # None

\* still_usable: open, and neither data nor end of stream to be read.
Usable(f) == sock[f] # None /\ sock[f].up /\ ~sock[f].stray

\* Mutant: room is made only once the pool is past its limit.
RoomAbove(q) == IF Len(q) > MaxIdle THEN 1 ELSE 0

\* release: at the limit the stalest makes room.
Room(q) == IF Len(q) >= MaxIdle THEN 1 ELSE 0

\* acquire, `old` connections being past kIdleTimeout: the newest usable one,
\* those passed over are closed; and on_socket with what was found.
Acquire(t, old) ==
  LET q == pool[url[t]]
      fit == {n \in (old + 1)..Len(q) : Usable(q[n])}
      n == IF fit = {} THEN old ELSE CHOOSE m \in fit : \A k \in fit : k <= m
      drop == {q[k] : k \in 1..old \cup (n + 1)..Len(q)}
  IN /\ stage[t] = "acquire" /\ old <= Len(q)
     /\ pool' = [pool EXCEPT ![url[t]] =
          IF fit = {} THEN << >> ELSE SubSeq(q, old + 1, n - 1)]
     /\ IF fit = {}
        THEN /\ Goto(t, "acquire", "open")
             /\ sock' = Closed(drop)
             /\ UNCHANGED <<fd, reused, result, activeFd>>
        ELSE /\ Take(t, q[n], "write")
             /\ reused' = [reused EXCEPT ![t] = TRUE]
             /\ sock' = Closed(IF Wanted(t) THEN drop ELSE drop \cup {q[n]})
     /\ UNCHANGED <<url, waiting, sent, tabOpen, current, crossed>>

-----------------------------------------------------------------------------
(* open_connection, for a host with one address                            *)

\* socket() gives out any number that is free, and on_socket is asked.
Open(t, f) ==
  /\ stage[t] = "open" /\ sock[f] = None
  /\ Take(t, f, "connect")
  /\ sock' = IF Wanted(t)
       THEN [sock EXCEPT ![f] =
              [origin |-> url[t], owes |-> None, up |-> TRUE, stray |-> FALSE]]
       ELSE sock
  /\ reused' = [reused EXCEPT ![t] = FALSE]
  /\ crossed' = (crossed \/ (Wanted(t) /\ f \in Held))
  /\ UNCHANGED <<pool, url, waiting, sent, tabOpen, current>>

\* socket() gives out none: "Connection failed", as if nobody had answered.
OpenFails(t) ==
  /\ Goto(t, "open", "ended")
  /\ result' = [result EXCEPT ![t] = "refused"]
  /\ reused' = [reused EXCEPT ![t] = FALSE]
  /\ sent' = [sent EXCEPT ![t] = << >>]
  /\ UNCHANGED <<sock, pool, url, fd, waiting, crossed, tabVars>>

\* connect(), and for star:// the handshake.  A number closed meanwhile does
\* not stop a connect() that is already waiting.
Connected(t) ==
  /\ Goto(t, "connect", "write")
  /\ UNCHANGED <<sock, pool, url, fd, reused, result, waiting, sent, crossed, tabVars>>

\* perform_request returns without a connection: on_socket_done came first.
Return(t, from, why) ==
  /\ Goto(t, from, "ended")
  /\ result' = [result EXCEPT ![t] = why]
  /\ activeFd' = Unregistered(t)
  /\ fd' = [fd EXCEPT ![t] = None]
  /\ reused' = [reused EXCEPT ![t] = FALSE]
  /\ sent' = [sent EXCEPT ![t] = << >>]
  /\ UNCHANGED <<url, waiting, crossed, tabOpen, current>>

ConnectFailed(t) ==
  /\ Return(t, "connect", "refused")
  /\ sock' = Closed({fd[t]})
  /\ UNCHANGED pool

HandshakeFailed(t) ==
  /\ url[t] \in Secure
  /\ Return(t, "connect", "over")
  /\ sock' = Closed({fd[t]})
  /\ UNCHANGED pool

-----------------------------------------------------------------------------
(* run_exchange, and what perform_request makes of it                      *)

\* Mutant: a dead pooled connection is not retried.
NeverRetried(t) == FALSE

\* Only a connection from the pool is given a second attempt.
Retried(t) == reused[t]

\* nothing_happened.  The descriptor is closed here, and unregistered later.
Nothing(t, from) ==
  /\ IF Retried(t)
     THEN /\ Goto(t, from, "unregister")
          /\ sock' = Closed({fd[t]})
          /\ UNCHANGED result
     ELSE /\ Goto(t, from, "finish")
          /\ result' = [result EXCEPT ![t] = "silent"]
          /\ UNCHANGED sock
  /\ waiting' = waiting \ {t}
  /\ UNCHANGED <<pool, url, fd, reused, crossed, tabVars>>

WriteFailed(t) == Nothing(t, "write") /\ UNCHANGED sent

\* write_all returned TRUE, which does not say that the server will look at it.
Written(t) ==
  LET f == fd[t] IN
  /\ Goto(t, "write", "read")
  /\ sock[f] # None
  /\ sock' = [sock EXCEPT ![f].owes = t]
  /\ sent' = [sent EXCEPT ![t] = Append(@, reused[t])]
  /\ UNCHANGED <<pool, url, fd, reused, result, waiting, crossed, tabVars>>

\* End of stream, an error or the timeout before the first byte.
NoAnswer(t) == Nothing(t, "read") /\ UNCHANGED sent

\* How servers answer: with a length and keep-alive, and nothing else or with
\* surplus bytes that are not read along; in a way after which the connection
\* is not kept (closing, no length, surplus read along, stopped by the sink);
\* cut short, too slowly or too large.
Answers == {"kept", "trailing", "last", "broken"}

\* The bytes on the connection are read, whoever they answer; a recv() that
\* was waiting still gets those of the socket it began on.
Answered(t, how) ==
  LET s == sock[fd[t]]
      own == t \in waiting \/ (~s.stray /\ s.owes = t)
  IN /\ Goto(t, "read", "finish")
     /\ t \notin waiting => s # None /\ (s.stray \/ (s.up /\ s.owes # None))
     /\ result' = [result EXCEPT ![t] =
          IF ~own THEN "foreign" ELSE IF how \in {"kept", "trailing"} THEN "keep" ELSE "over"]
     /\ sock' = IF t \in waiting THEN sock
          ELSE [sock EXCEPT ![fd[t]].owes = IF how = "broken" THEN @ ELSE None,
                            ![fd[t]].stray = (how = "trailing")]
     /\ waiting' = waiting \ {t}
     /\ UNCHANGED <<pool, url, fd, reused, sent, crossed, tabVars>>

\* reusable && success: read to its exact declared length, not closing.
Keeps(t) == result[t] = "keep"

\* on_socket_done; the connection is released to the pool, where `old` are
\* past kIdleTimeout, or destroyed.
Finish(t, old) ==
  LET u == url[t]
      q == SubSeq(pool[u], old + 1, Len(pool[u]))
      drop == old + Room(q)
  IN /\ Return(t, "finish", "over")
     /\ IF Keeps(t)
        THEN /\ old <= Len(pool[u])
             /\ pool' = [pool EXCEPT ![u] = Append(SubSeq(@, drop + 1, Len(@)), fd[t])]
             /\ sock' = Closed(ToSet(SubSeq(pool[u], 1, drop)))
        ELSE /\ old = 0
             /\ sock' = Closed({fd[t]})
             /\ UNCHANGED pool

\* The second attempt: on_socket_done, after the descriptor was closed.
Retry(t) ==
  /\ Goto(t, "unregister", "open")
  /\ activeFd' = Unregistered(t)
  /\ fd' = [fd EXCEPT ![t] = None]
  /\ UNCHANGED <<sock, pool, url, reused, result, waiting, sent, crossed, tabOpen, current>>

FetchStep(t) ==
  \/ \E old \in 0..MaxIdle : Acquire(t, old) \/ Finish(t, old)
  \/ \E f \in Fds : Open(t, f)
  \/ OpenFails(t) \/ Connected(t) \/ ConnectFailed(t) \/ HandshakeFailed(t)
  \/ Written(t) \/ WriteFailed(t) \/ NoAnswer(t)
  \/ \E how \in Answers : Answered(t, how)
  \/ Retry(t)

\* A server closes an idle connection.  To a fetch that has one in hand this
\* looks like NoAnswer or WriteFailed.
PeerCloses(f) ==
  /\ f \in Pooled /\ sock[f] # None /\ sock[f].up
  /\ sock' = [sock EXCEPT ![f].up = FALSE]
  /\ UNCHANGED <<pool, stage, url, fd, reused, result, waiting, sent, crossed, tabVars>>

-----------------------------------------------------------------------------
FetchTypeOK ==
  /\ sock \in [Fds -> Sockets \cup {None}]
  /\ pool \in [Urls -> Seq(Fds)]
  /\ stage \in [Threads -> Stages]
  /\ url \in [Threads -> Urls \cup {None}]
  /\ fd \in [Threads -> Fds \cup {None}]
  /\ reused \in [Threads -> BOOLEAN]
  /\ result \in [Threads -> Results]
  /\ tabOpen \in BOOLEAN /\ current \in Urls
  /\ activeFd \in Fds \cup {None}
  /\ waiting \in SUBSET Pages
  /\ sent \in [Threads -> Seq(BOOLEAN)]
  /\ crossed \in BOOLEAN

\* Every connection is in one place, in its own origin's pool when idle.
OneOwner ==
  /\ \A u, v \in Urls : \A m \in 1..Len(pool[u]), n \in 1..Len(pool[v]) :
       pool[u][m] = pool[v][n] => u = v /\ m = n
  /\ \A t \in Threads : fd[t] # None /\ stage[t] # "unregister" =>
       /\ fd[t] \notin Pooled
       /\ \A o \in Threads \ {t} : stage[o] # "unregister" => fd[o] # fd[t]
       /\ sock[fd[t]] # None => sock[fd[t]].origin = url[t]
  /\ \A u \in Urls : \A f \in ToSet(pool[u]) : sock[f] # None =>
       sock[f].origin = u /\ sock[f].owes = None

\* What a navigation would close belongs to a fetch of the tab, or did until the
\* retry that is about to unregister it.  And until a cancelled descriptor has
\* been given out again under its old owner, every connection is in one place:
\* held by one fetch or idle once, in the pool of the origin it was opened to;
\* and what is idle owes nobody an answer.
OwnConnection ==
  /\ tabOpen /\ activeFd # None => \E t \in Pages : fd[t] = activeFd
  /\ crossed \/ OneOwner

\* ... and what a fetch reads answers its own request, for servers whose
\* surplus bytes have come in by the time the connection is used again.
OwnAnswer == crossed \/ \A t \in Threads : result[t] # "foreign"

\* A pooled connection that turns out dead costs a fetch nothing: it is tried
\* once more, on a fresh connection, and no request is written a third time or
\* a second time on connections of one kind.
RetryOnFresh ==
  \A t \in Threads :
    /\ sent[t] \in {<< >>, <<TRUE>>, <<FALSE>>, <<TRUE, FALSE>>}
    /\ result[t] = "silent" => ~reused[t]

\* No descriptor is forgotten: what is open is held by a fetch or idle, and
\* the pools keep to their limit.
NoLeak ==
  /\ \A f \in Fds : sock[f] # None => f \in Held
  /\ \A u \in Urls : Len(pool[u]) <= MaxIdle
=============================================================================
