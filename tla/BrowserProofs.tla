---------------------------- MODULE BrowserProofs ----------------------------
(***************************************************************************)
(* Proofs about BrowserNavigation for any threads, addresses, descriptors  *)
(* and numbers of navigations, and about the browser as a whole.           *)
(***************************************************************************)
EXTENDS Browser, PageProofs

-----------------------------------------------------------------------------
(* What the network layer does to a navigation: it moves a thread from one *)
(* stage of its fetch to another, and nothing else that navigations use.   *)

Fetching == Stages \ {"off", "done"}

\* Of all that tells whether a fetch is superseded, its steps change nothing.
Carries(t) ==
  /\ UNCHANGED <<url, tabOpen, current>>
  /\ stage[t] \in Fetching
  /\ \E s \in Fetching : stage' = [stage EXCEPT ![t] = s]

\* Each of its steps is of that kind.
LEMMA FetchCarries ==
  ASSUME NEW t \in Threads, FetchStep(t)
  PROVE  Carries(t)
<1> USE DEF Carries, Fetching, Stages
<1>1. ASSUME NEW old \in 0..MaxIdle, Acquire(t, old)
      PROVE  Carries(t)
  BY <1>1 DEF Acquire, Take, Goto
<1>2. ASSUME NEW old \in 0..MaxIdle, Finish(t, old)
      PROVE  Carries(t)
  BY <1>2 DEF Finish, Return, Goto
<1>3. ASSUME NEW f \in Fds, Open(t, f)
      PROVE  Carries(t)
  BY <1>3 DEF Open, Take
<1>4. CASE Connected(t)
  BY <1>4 DEF Connected, Goto, tabVars
<1>5. CASE ConnectFailed(t) \/ HandshakeFailed(t)
  BY <1>5 DEF ConnectFailed, HandshakeFailed, Return, Goto
<1>6. CASE Written(t)
  BY <1>6 DEF Written, Goto, tabVars
<1>7. CASE WriteFailed(t) \/ NoAnswer(t)
  BY <1>7 DEF WriteFailed, NoAnswer, Nothing, Goto, tabVars
<1>8. ASSUME NEW how \in Answers, Answered(t, how)
      PROVE  Carries(t)
  BY <1>8 DEF Answered, Goto, tabVars
<1>9. CASE Retry(t)
  BY <1>9 DEF Retry, Goto
<1>10. CASE OpenFails(t)
  BY <1>10 DEF OpenFails, Goto, tabVars
<1> QED
  BY <1>1, <1>2, <1>3, <1>4, <1>5, <1>6, <1>7, <1>8, <1>9, <1>10 DEF FetchStep

-----------------------------------------------------------------------------
(* Navigation                                                              *)

NavTypes ==
  /\ navs \in 0..MaxNavs
  /\ stage \in [Threads -> Stages] /\ url \in [Threads -> Urls \cup {None}]
  /\ fallback \in [Pages -> Urls \cup {None}]
  /\ history \in Seq(Urls) /\ index \in 1..Len(history)
  /\ moving \in BOOLEAN /\ asked \in Urls \cup {None} /\ overtaken \in BOOLEAN
  /\ fetching \in BOOLEAN /\ ready \in BOOLEAN
  /\ tabOpen \in BOOLEAN /\ current \in Urls /\ arrived \in Urls /\ shown \in Urls

\* Threads of navigations yet to come have not begun; while a fallback is to come
\* its thread fetches the address that was guessed; and what back or forward has
\* read is still the entry, unless that was rewritten since.
NavInv ==
  /\ NavTypes
  /\ \A n \in Pages : n > navs => stage[n] = "off"
  /\ \A n \in Pages : fallback[n] # None =>
       [to |-> url[n], fallback |-> fallback[n]] \in Typed
  /\ moving /\ asked # None /\ ~overtaken => asked = history[index]
  /\ SomeoneDelivers /\ HistoryTracksAddress /\ PageOfAddress

\* It holds at the start.
LEMMA NavInit == Init => NavInv
<1> SUFFICES ASSUME Init PROVE NavInv
  OBVIOUS
<1> USE NavigationAssumption DEF NavigationAssumption
<1>1. Past \in Seq(Urls) /\ Past # << >> /\ Len(Past) \in Nat /\ Len(Past) > 0
  OBVIOUS
<1>2. Last(Past) = Past[Len(Past)] /\ Last(Past) \in Urls
  BY <1>1 DEF Last
<1>3. NavTypes
  <2>1. navs \in 0..MaxNavs /\ index \in 1..Len(history) /\ history \in Seq(Urls)
    BY <1>1 DEF Init
  <2>2. /\ stage \in [Threads -> Stages] /\ url \in [Threads -> Urls \cup {None}]
        /\ fallback \in [Pages -> Urls \cup {None}]
    BY DEF Init, FetchInit, Stages
  <2>3. current \in Urls /\ arrived \in Urls /\ shown \in Urls
    BY <1>2 DEF Init
  <2> QED
    BY <2>1, <2>2, <2>3 DEF NavTypes, Init, FetchInit
<1>4. \A n \in Pages : stage[n] = "off" /\ fallback[n] = None
  BY DEF Init, FetchInit, Threads
<1>5. history[index] = current
  BY <1>1, <1>2 DEF Init
<1>6. SomeoneDelivers /\ HistoryTracksAddress /\ PageOfAddress /\ ~moving
  BY <1>5 DEF Init, SomeoneDelivers, HistoryTracksAddress, PageOfAddress
<1> QED
  BY <1>3, <1>4, <1>6 DEF NavInv

\* A step that moves a thread of the network layer leaves all this alone.
LEMMA CarriesNav ==
  ASSUME NavInv, NEW t \in Threads, Carries(t), UNCHANGED uiVars
  PROVE  NavInv'
<1> USE DEF uiVars, askVars
<1> PICK s \in Fetching : stage' = [stage EXCEPT ![t] = s]
  BY DEF Carries
<1>1. NavTypes'
  BY DEF NavInv, NavTypes, Carries, Fetching
<1>2. \A n \in Pages : n > navs => stage'[n] = "off"
  BY DEF NavInv, NavTypes, Threads, Carries, Fetching
<1>3. SomeoneDelivers'
  <2>1. \A n \in Threads : stage[n] \notin {"off", "done"} => stage'[n] \notin {"off", "done"}
    BY DEF NavInv, NavTypes, Fetching
  <2>2. 1..navs \subseteq Threads
    BY NavigationAssumption DEF NavigationAssumption, NavInv, NavTypes, Threads
  <2> QED
    BY <2>1, <2>2 DEF NavInv, SomeoneDelivers, Carries
<1>4. HistoryTracksAddress' /\ PageOfAddress'
  BY DEF NavInv, HistoryTracksAddress, PageOfAddress, Carries
<1> QED
  BY <1>1, <1>2, <1>3, <1>4 DEF NavInv, Carries

\* start_async_fetch, for an address that was typed or a history entry.
LEMMA StartNav ==
  ASSUME NavInv, NEW a, a \in Typed \/ a = [to |-> a.to, fallback |-> None],
         a.to \in Urls, Start(a)
  PROVE  /\ navs' \in 0..MaxNavs
         /\ stage' \in [Threads -> Stages] /\ url' \in [Threads -> Urls \cup {None}]
         /\ fallback' \in [Pages -> Urls \cup {None}]
         /\ ready' = FALSE /\ fetching' = TRUE /\ current' = a.to
         /\ UNCHANGED <<tabOpen, arrived, shown>>
         /\ \A n \in Pages : n > navs' => stage'[n] = "off"
         /\ \A n \in Pages : fallback'[n] # None =>
              [to |-> url'[n], fallback |-> fallback'[n]] \in Typed
         /\ SomeoneDelivers'
<1> DEFINE n == navs + 1
<1>1. /\ n \in Pages /\ n \in Threads /\ n \in Nat /\ navs' = n /\ n \in 0..MaxNavs
      /\ Pages = 1..MaxNavs /\ Pages \subseteq Threads
  BY NavigationAssumption DEF NavigationAssumption, Start, NavInv, NavTypes, Threads
<1>2. /\ a.fallback \in Urls \cup {None}
      /\ a.fallback # None => a \in Typed /\ a = [to |-> a.to, fallback |-> a.fallback]
  BY NavigationAssumption DEF NavigationAssumption
<1>3. /\ stage' = [stage EXCEPT ![n] = "acquire"] /\ url' = [url EXCEPT ![n] = a.to]
      /\ fallback' = [fallback EXCEPT ![n] = a.fallback]
      /\ ready' = FALSE /\ fetching' = TRUE /\ current' = a.to
      /\ UNCHANGED <<tabOpen, arrived, shown>>
  BY DEF Start
<1> HIDE DEF n
<1>4. /\ stage' \in [Threads -> Stages] /\ url' \in [Threads -> Urls \cup {None}]
      /\ fallback' \in [Pages -> Urls \cup {None}]
  BY <1>1, <1>2, <1>3 DEF NavInv, NavTypes, Stages
<1>5. \A m \in Pages : m > navs' => stage'[m] = "off"
  BY <1>1, <1>3 DEF NavInv, NavTypes, n
<1>6. ASSUME NEW m \in Pages, fallback'[m] # None
      PROVE  [to |-> url'[m], fallback |-> fallback'[m]] \in Typed
  BY <1>1, <1>2, <1>3, <1>6 DEF NavInv, NavTypes
<1>7. SomeoneDelivers'
  <2>1. n \in 1..navs' /\ stage'[n] = "acquire" /\ url'[n] = current'
    BY <1>1, <1>3 DEF NavInv, NavTypes, n
  <2> QED
    BY <2>1 DEF SomeoneDelivers
<1> QED
  BY <1>1, <1>3, <1>4, <1>5, <1>6, <1>7

\* Every step keeps the invariant: one case per action.
LEMMA NavNext == NavInv /\ [Next]_vars => NavInv'
<1> SUFFICES ASSUME NavInv, [Next]_vars PROVE NavInv'
  OBVIOUS
<1> USE NavigationAssumption, FetchAssumption
<1>a. /\ Pages \subseteq Threads /\ Loads \subseteq Threads /\ Pages \cap Loads = {}
      /\ Len(history) \in Nat /\ DOMAIN history = 1..Len(history)
      /\ \A i \in 1..Len(history) : history[i] \in Urls
      /\ \A n \in 1..navs : n \in Pages
  BY DEF FetchAssumption, NavigationAssumption, Threads, NavInv, NavTypes
<1>1. ASSUME NEW a \in [to : Urls, fallback : Urls \cup {None}], Start(a),
             a \in Typed \/ a = [to |-> a.to, fallback |-> None],
             EntryAdded(a.to), moving' = FALSE, asked' = None
      PROVE  NavInv'
  <2>1. Start(a) /\ a.to \in Urls /\ overtaken' = FALSE
        /\ history' = Append(SubSeq(history, 1, index), a.to) /\ index' = Len(history')
    BY <1>1 DEF EntryAdded
  <2>2. SubSeq(history, 1, index) \in Seq(Urls)
    BY <1>a DEF NavInv, NavTypes
  <2>3. /\ history' \in Seq(Urls) /\ index' \in 1..Len(history')
        /\ history'[index'] = a.to
    BY <2>1, <2>2
  <2>4. HistoryTracksAddress' /\ PageOfAddress' /\ NavTypes'
    BY <1>1, <2>1, <2>3, StartNav DEF HistoryTracksAddress, PageOfAddress, NavInv, NavTypes
  <2> QED
    BY <1>1, <2>1, <2>4, StartNav DEF NavInv
<1>2. ASSUME NEW a \in Typed, Navigate(a)
      PROVE  NavInv'
  <2>1. Start(a) /\ EntryAdded(a.to) /\ moving' = FALSE /\ asked' = None
    BY <1>2 DEF Navigate, Free, NavInv, NavTypes
  <2> QED
    BY <1>1, <1>2, <2>1 DEF NavigationAssumption
<1>3. CASE Reload
  BY <1>3 DEF Reload, Free, NavInv, NavTypes, netVars, tabVars, SomeoneDelivers,
     HistoryTracksAddress, PageOfAddress
<1>4. CASE Depart
  <2> DEFINE a == [to |-> asked, fallback |-> None]
  <2>1. /\ Start(a) /\ moving' = FALSE /\ asked' = None
        /\ asked # None /\ a.to \in Urls /\ a.to = asked
        /\ a \in [to : Urls, fallback : Urls \cup {None}]
    BY <1>4 DEF Depart, NavInv, NavTypes
  <2> HIDE DEF a
  <2>2. a = [to |-> a.to, fallback |-> None]
    BY DEF a
  <2>3. CASE moving /\ UNCHANGED <<history, index, overtaken>>
    <3>1. ~overtaken' => history'[index'] = a.to
      BY <2>1, <2>3 DEF NavInv
    <3>2. HistoryTracksAddress' /\ PageOfAddress' /\ NavTypes'
      BY <2>1, <2>2, <2>3, <3>1, StartNav
         DEF HistoryTracksAddress, PageOfAddress, NavInv, NavTypes
    <3> QED
      BY <2>1, <2>2, <3>2, StartNav DEF NavInv
  <2>4. CASE EntryAdded(asked)
    BY <1>1, <2>1, <2>2, <2>4
  <2> QED
    BY <1>4, <2>3, <2>4 DEF Depart
<1>5. CASE Swap
  BY <1>5 DEF Swap, askVars, NavInv, NavTypes, netVars, tabVars, SomeoneDelivers,
     HistoryTracksAddress, PageOfAddress
<1>6. CASE CloseTab
  BY <1>6 DEF CloseTab, NavInv, NavTypes, uiVars, askVars, SomeoneDelivers,
     HistoryTracksAddress, PageOfAddress
<1>7. ASSUME NEW i, Travel(i)
      PROVE  NavInv'
  BY <1>7, <1>a DEF Travel, Free, NavInv, NavTypes, netVars, tabVars, SomeoneDelivers,
     HistoryTracksAddress, PageOfAddress
<1>14. CASE Look
  BY <1>14, <1>a DEF Look, NavInv, NavTypes, netVars, tabVars, SomeoneDelivers,
     HistoryTracksAddress, PageOfAddress
<1>8. ASSUME NEW t \in Threads, Fetch(t)
      PROVE  NavInv'
  BY <1>8, FetchCarries, CarriesNav DEF Fetch
<1>9. ASSUME NEW t \in Pages, FallBack(t)
      PROVE  NavInv'
  <2>1. /\ fallback[t] \in Urls /\ fallback[t] # None
        /\ [to |-> url[t], fallback |-> fallback[t]] \in Typed /\ current = url[t]
    BY <1>9 DEF FallBack, FallsBack, NavInv, NavTypes
  <2>2. /\ stage[t] = "ended" /\ stage' = [stage EXCEPT ![t] = "acquire"]
        /\ url' = [url EXCEPT ![t] = fallback[t]] /\ current' = fallback[t]
        /\ fallback' = [fallback EXCEPT ![t] = None] /\ tabOpen
        /\ UNCHANGED <<tabOpen, navs, index, moving, asked, fetching, ready, arrived, shown>>
        /\ overtaken' = (overtaken \/ (moving /\ asked # None /\ history' # history))
    BY <1>9 DEF FallBack, Request, Goto
  <2>3. /\ history' \in Seq(Urls) /\ Len(history') = Len(history)
        /\ history[index] = current => history'[index] = current'
    BY <1>9, <1>a, <2>1 DEF FallBack, EntryReplaced, NavInv, NavTypes
  <2>4. NavTypes'
    BY <1>a, <2>1, <2>2, <2>3 DEF NavInv, NavTypes, Stages
  <2>5. /\ HistoryTracksAddress'
        /\ moving' /\ asked' # None /\ ~overtaken' => asked' = history'[index']
    BY <2>2, <2>3 DEF NavInv, HistoryTracksAddress
  <2>6. SomeoneDelivers'
    <3>1. t \in 1..navs'
      BY <2>2, <1>a DEF NavInv, NavTypes, NavigationAssumption
    <3>2. stage'[t] = "acquire" /\ url'[t] = current'
      BY <1>a, <2>2 DEF NavInv, NavTypes
    <3> QED
      BY <3>1, <3>2 DEF SomeoneDelivers
  <2>7. PageOfAddress'
    <3>1. \A u \in Urls : [to |-> u, fallback |-> current] \notin Typed
      BY <2>1 DEF NavigationAssumption
    <3> QED
      BY <2>1, <2>2, <3>1 DEF NavInv, NavTypes, PageOfAddress
  <2>8. \A n \in Pages : n > navs' => stage'[n] = "off"
    BY <1>a, <2>2 DEF NavInv, NavTypes
  <2>9. \A n \in Pages : fallback'[n] # None =>
          [to |-> url'[n], fallback |-> fallback'[n]] \in Typed
    BY <1>a, <2>2 DEF NavInv, NavTypes
  <2> QED
    BY <2>4, <2>5, <2>6, <2>7, <2>8, <2>9 DEF NavInv
<1>10. ASSUME NEW t \in Pages, End(t)
       PROVE  NavInv'
  <2>1. /\ stage[t] = "ended" /\ stage' = [stage EXCEPT ![t] = "done"]
        /\ url' = [url EXCEPT ![t] = None]
        /\ fallback' = [fallback EXCEPT ![t] = None]
        /\ UNCHANGED <<tabOpen, current, navs, history, index, askVars, fetching, shown>>
    BY <1>10 DEF End, Exit, Goto, tabVars
  <2>2. \/ ready' = TRUE /\ arrived' = url[t] /\ url[t] = current
        \/ ready' = ready /\ arrived' = arrived /\ ~(tabOpen /\ url[t] = current)
    BY <1>10 DEF End, Delivered
  <2>3. NavTypes'
    BY <1>a, <2>1, <2>2 DEF NavInv, NavTypes, Stages, askVars
  <2>4. SomeoneDelivers'
    <3>1. ASSUME NEW n \in 1..navs, stage[n] \notin {"off", "done"}, url[n] = current,
                 ~(tabOpen /\ url[t] = current), tabOpen
          PROVE  stage'[n] \notin {"off", "done"} /\ url'[n] = current'
      BY <1>a, <2>1, <3>1 DEF NavInv, NavTypes
    <3> QED
      BY <2>1, <2>2, <3>1 DEF NavInv, SomeoneDelivers
  <2>5. /\ HistoryTracksAddress' /\ PageOfAddress'
        /\ moving' /\ asked' # None /\ ~overtaken' => asked' = history'[index']
    BY <2>1, <2>2 DEF NavInv, HistoryTracksAddress, PageOfAddress, askVars
  <2>6. \A n \in Pages : n > navs' => stage'[n] = "off"
    BY <1>a, <2>1 DEF NavInv, NavTypes
  <2>7. \A n \in Pages : fallback'[n] # None =>
          [to |-> url'[n], fallback |-> fallback'[n]] \in Typed
    BY <1>a, <2>1 DEF NavInv, NavTypes
  <2> QED
    BY <2>3, <2>4, <2>5, <2>6, <2>7 DEF NavInv
<1>11. ASSUME NEW b \in Loads, LoadEnds(b) \/ \E u \in Linked : Load(b, u)
       PROVE  NavInv'
  <2>1. PICK s \in Stages, u \in Urls \cup {None} :
          /\ stage' = [stage EXCEPT ![b] = s] /\ url' = [url EXCEPT ![b] = u]
          /\ UNCHANGED <<tabVars, uiVars>>
    BY <1>11 DEF LoadEnds, Load, Exit, Request, Goto, Stages, NavigationAssumption
  <2>2. \A n \in Pages : stage'[n] = stage[n] /\ url'[n] = url[n]
    BY <1>a, <2>1 DEF NavInv, NavTypes
  <2>3. NavTypes'
    BY <1>a, <2>1 DEF NavInv, NavTypes, tabVars, uiVars, askVars
  <2>4. SomeoneDelivers' /\ HistoryTracksAddress' /\ PageOfAddress'
    BY <1>a, <2>1, <2>2 DEF NavInv, SomeoneDelivers, HistoryTracksAddress, PageOfAddress,
       tabVars, uiVars, askVars
  <2> QED
    BY <2>1, <2>2, <2>3, <2>4 DEF NavInv, uiVars, askVars
<1>12. ASSUME NEW f \in Fds, PeerCloses(f), UNCHANGED uiVars
       PROVE  NavInv'
  BY <1>12 DEF PeerCloses, NavInv, NavTypes, uiVars, askVars, tabVars, SomeoneDelivers,
     HistoryTracksAddress, PageOfAddress
<1>13. CASE UNCHANGED vars
  BY <1>13 DEF vars, uiVars, askVars, netVars, tabVars, NavInv, NavTypes, SomeoneDelivers,
     HistoryTracksAddress, PageOfAddress
<1> QED
  BY <1>2, <1>3, <1>4, <1>5, <1>6, <1>7, <1>8, <1>9, <1>10, <1>11, <1>12, <1>13, <1>14, <1>a
     DEF Next, PageStep

\* The conjunction that follows.
LEMMA NavigationSafe ==
  Spec => [](SomeoneDelivers /\ HistoryTracksAddress /\ PageOfAddress)
<1>1. NavInv => SomeoneDelivers /\ HistoryTracksAddress /\ PageOfAddress
  BY DEF NavInv
<1> QED
  BY NavInit, NavNext, <1>1, PTL DEF Spec

\* Superseding, falling back and travelling never drop every fetch that would
\* deliver: while the spinner turns some thread of start_async_fetch is left
\* that finds the tab at its own URL.
THEOREM SomeoneAlwaysDelivers == Spec => []SomeoneDelivers
BY NavigationSafe, PTL

\* The fallback of start_async_fetch rewrites the history entry that is the
\* tab's address however often the tab has moved on, but for the one that back or
\* forward have read and not yet gone to.
THEOREM HistoryTracks == Spec => []HistoryTracksAddress
BY NavigationSafe, PTL

\* A page is put up under the address it was fetched for, or under the fallback
\* of that address.
THEOREM PagesOfAddress == Spec => []PageOfAddress
BY NavigationSafe, PTL

-----------------------------------------------------------------------------
(* Retries                                                                 *)

\* All that a fetch may have written, and on what kinds of connection.
Histories == {<< >>, <<TRUE>>, <<FALSE>>, <<TRUE, FALSE>>}

RetryTypes ==
  /\ navs \in 0..MaxNavs
  /\ stage \in [Threads -> Stages] /\ reused \in [Threads -> BOOLEAN]
  /\ result \in [Threads -> Results] /\ sent \in [Threads -> Histories]

\* How often thread t may have written its request by now, from where it stands
\* and from whether its connection came from the pool.
Attempt(t) ==
  /\ sent[t] \in Histories
  /\ stage[t] \in {"off", "acquire"} => ~reused[t] /\ sent[t] = << >>
  /\ stage[t] \in {"open", "connect", "write", "unregister"} => sent[t] \in {<< >>, <<TRUE>>}
  /\ stage[t] = "connect" => ~reused[t]
  /\ stage[t] = "write" /\ reused[t] => sent[t] = << >>
  /\ stage[t] = "read" /\ reused[t] => sent[t] = <<TRUE>>
  /\ result[t] = "silent" => ~reused[t]

RetryInv ==
  /\ RetryTypes
  /\ \A n \in Pages : n > navs => stage[n] = "off"
  /\ \A t \in Threads : Attempt(t)

\* What writing the request on one more connection makes of the history.
LEMMA WrittenOnce == \A x : Append(<< >>, x) = <<x>>
<1> TAKE x
<1> QED
  BY SMT

\* ... and on a fresh connection after a pooled one.
LEMMA WrittenAgain == Append(<<TRUE>>, FALSE) = <<TRUE, FALSE>>
<1> DEFINE s == Append(<<TRUE>>, FALSE)
<1>1. <<TRUE>> \in Seq(BOOLEAN) /\ s \in Seq(BOOLEAN) /\ <<TRUE, FALSE>> \in Seq(BOOLEAN)
  OBVIOUS
<1>2. Len(s) = 2 /\ s[1] = TRUE /\ s[2] = FALSE
  BY <1>1
<1>3. /\ Len(<<TRUE, FALSE>>) = 2
      /\ <<TRUE, FALSE>>[1] = TRUE /\ <<TRUE, FALSE>>[2] = FALSE
  OBVIOUS
<1> HIDE DEF s
<1>4. ASSUME NEW i \in 1..2 PROVE s[i] = <<TRUE, FALSE>>[i]
  <2>1. i = 1 \/ i = 2
    OBVIOUS
  <2> QED
    BY <2>1, <1>2, <1>3
<1>5. s = <<TRUE, FALSE>>
  BY <1>1, <1>2, <1>3, <1>4, SeqEqual
<1> QED
  BY <1>5 DEF s

\* A step that concerns thread t and leaves the attempts of the others alone.
Alone(t) ==
  /\ navs' = navs /\ RetryTypes'
  /\ t \in Pages => stage[t] # "off"
  /\ \A o \in Threads \ {t} :
       /\ stage'[o] = stage[o] /\ reused'[o] = reused[o]
       /\ result'[o] = result[o] /\ sent'[o] = sent[o]

\* ... so only the attempt of t is left to be shown.
LEMMA AloneKeeps ==
  ASSUME RetryInv, NEW t \in Threads, Alone(t), Attempt(t)'
  PROVE  RetryInv'
<1>1. ASSUME NEW n \in Pages, n > navs' PROVE stage'[n] = "off"
  BY <1>1, FetchAssumption DEF FetchAssumption, Threads, RetryInv, RetryTypes, Alone
<1>2. ASSUME NEW o \in Threads \ {t} PROVE Attempt(o)'
  BY DEF Alone, RetryInv, Attempt
<1> QED
  BY <1>1, <1>2 DEF RetryInv, Alone

\* A step of the network layer: where the thread goes, with what history.
LEMMA FetchRetry ==
  ASSUME RetryInv, NEW t \in Threads, FetchStep(t), navs' = navs
  PROVE  Alone(t) /\ Attempt(t)'
<1>a. RetryTypes /\ Attempt(t)
  BY DEF RetryInv
<1>b. stage[t] # "off"
  BY DEF FetchStep, Acquire, Finish, Open, Connected, ConnectFailed, HandshakeFailed,
     Written, WriteFailed, NoAnswer, Nothing, Answered, Retry, Return, OpenFails, Goto
<1> USE <1>a, <1>b DEF RetryTypes, Alone, Stages, Results, Histories
<1>1. ASSUME NEW old \in 0..MaxIdle, Acquire(t, old)
      PROVE  Alone(t) /\ Attempt(t)'
  <2>1. stage[t] = "acquire" /\ ~reused[t] /\ sent[t] = << >> /\ sent' = sent
    BY <1>1 DEF Acquire, Attempt
  <2>2. CASE stage' = [stage EXCEPT ![t] = "open"] /\ UNCHANGED <<reused, result>>
    BY <2>1, <2>2 DEF Attempt
  <2>3. CASE /\ \E s \in {"write", "ended"} : stage' = [stage EXCEPT ![t] = s]
             /\ reused' = [reused EXCEPT ![t] = TRUE]
             /\ \E e \in {"none", "over"} : result' = [result EXCEPT ![t] = e]
    BY <2>1, <2>3 DEF Attempt
  <2> QED
    BY <1>1, <2>2, <2>3 DEF Acquire, Take, Goto
<1>2. ASSUME NEW old \in 0..MaxIdle, Finish(t, old)
      PROVE  Alone(t) /\ Attempt(t)'
  BY <1>2 DEF Finish, Return, Goto, Attempt
<1>3. ASSUME NEW f \in Fds, Open(t, f)
      PROVE  Alone(t) /\ Attempt(t)'
  <2>1. /\ stage[t] = "open" /\ sent' = sent /\ reused' = [reused EXCEPT ![t] = FALSE]
        /\ \E s \in {"connect", "ended"} : stage' = [stage EXCEPT ![t] = s]
        /\ \E e \in {"none", "over"} : result' = [result EXCEPT ![t] = e]
    BY <1>3 DEF Open, Take
  <2> QED
    BY <2>1 DEF Attempt
<1>4. CASE Connected(t)
  BY <1>4 DEF Connected, Goto, Attempt
<1>5. CASE ConnectFailed(t) \/ HandshakeFailed(t)
  BY <1>5 DEF ConnectFailed, HandshakeFailed, Return, Goto, Attempt
<1>6. CASE Written(t)
  <2> DEFINE w == Append(sent[t], reused[t])
  <2>1. /\ stage[t] = "write" /\ stage' = [stage EXCEPT ![t] = "read"]
        /\ sent' = [sent EXCEPT ![t] = w] /\ UNCHANGED <<reused, result>>
    BY <1>6 DEF Written, Goto
  <2>2. w \in Histories /\ (reused[t] => w = <<TRUE>>)
    <3>1. CASE reused[t] = TRUE /\ sent[t] = << >>
      BY <3>1, WrittenOnce
    <3>2. CASE reused[t] = FALSE /\ sent[t] = << >>
      BY <3>2, WrittenOnce
    <3>3. CASE reused[t] = FALSE /\ sent[t] = <<TRUE>>
      BY <3>3, WrittenAgain
    <3> QED
      BY <2>1, <3>1, <3>2, <3>3 DEF Attempt
  <2> HIDE DEF w
  <2> QED
    BY <2>1, <2>2 DEF Attempt
<1>7. CASE WriteFailed(t) \/ NoAnswer(t)
  <2>1. /\ stage[t] \in {"write", "read"} /\ UNCHANGED <<reused, sent>>
        /\ \/ reused[t] /\ stage' = [stage EXCEPT ![t] = "unregister"] /\ result' = result
           \/ /\ ~reused[t] /\ stage' = [stage EXCEPT ![t] = "finish"]
              /\ result' = [result EXCEPT ![t] = "silent"]
    BY <1>7 DEF WriteFailed, NoAnswer, Nothing, Retried, Goto
  <2> QED
    BY <2>1 DEF Attempt
<1>8. ASSUME NEW how \in Answers, Answered(t, how)
      PROVE  Alone(t) /\ Attempt(t)'
  <2>1. /\ stage' = [stage EXCEPT ![t] = "finish"]
        /\ \E e \in {"foreign", "keep", "over"} : result' = [result EXCEPT ![t] = e]
        /\ UNCHANGED <<reused, sent>>
    BY <1>8 DEF Answered, Goto
  <2> QED
    BY <2>1 DEF Attempt
<1>9. CASE Retry(t)
  BY <1>9 DEF Retry, Goto, Attempt
<1>10. CASE OpenFails(t)
  BY <1>10 DEF OpenFails, Goto, Attempt
<1> QED
  BY <1>1, <1>2, <1>3, <1>4, <1>5, <1>6, <1>7, <1>8, <1>9, <1>10 DEF FetchStep

\* Only a thread that has never run begins a navigation, and it begins anew.
LEMMA NextRetry == RetryInv /\ [Next]_vars => RetryInv'
<1> SUFFICES ASSUME RetryInv, [Next]_vars PROVE RetryInv'
  OBVIOUS
<1> USE FetchAssumption, NavigationAssumption
<1>1. ASSUME NEW a, Start(a) PROVE RetryInv'
  <2> DEFINE n == navs + 1
  <2>1. /\ n \in Pages /\ n \in Threads /\ n > navs /\ navs' = n /\ n \in 0..MaxNavs
        /\ navs \in Nat /\ Pages \subseteq Int
    BY <1>1 DEF Start, RetryInv, RetryTypes, NavigationAssumption, Threads
  <2>2. /\ stage[n] = "off" /\ stage' = [stage EXCEPT ![n] = "acquire"]
        /\ UNCHANGED <<reused, result, sent>>
    BY <1>1, <2>1 DEF Start, RetryInv
  <2> HIDE DEF n
  <2>3. RetryTypes'
    BY <2>1, <2>2 DEF RetryInv, RetryTypes, Stages
  <2>4. ASSUME NEW m \in Pages, m > navs' PROVE stage'[m] = "off"
    BY <2>1, <2>2, <2>4 DEF RetryInv, RetryTypes, Threads
  <2>5. ASSUME NEW o \in Threads PROVE Attempt(o)'
    <3>1. Attempt(o) /\ Attempt(n)
      BY <2>1 DEF RetryInv
    <3>2. CASE o = n
      BY <2>1, <2>2, <3>1, <3>2 DEF Attempt, RetryInv, RetryTypes
    <3>3. CASE o # n
      BY <2>1, <2>2, <3>1, <3>3 DEF Attempt, RetryInv, RetryTypes
    <3> QED
      BY <3>2, <3>3
  <2> QED
    BY <2>3, <2>4, <2>5 DEF RetryInv
<1>2. ASSUME NEW t \in Threads, NEW u, NEW from \in {"off", "ended"},
             Request(t, u, from), navs' = navs, t \in Pages => from # "off"
      PROVE  RetryInv'
  <2>1. Alone(t) /\ Attempt(t)'
    BY <1>2 DEF Request, Goto, Alone, Attempt, RetryInv, RetryTypes, Stages, Results,
       Histories
  <2> QED
    BY <2>1, AloneKeeps
<1>3. ASSUME NEW t \in Threads, Exit(t), navs' = navs
      PROVE  RetryInv'
  <2>1. Alone(t) /\ Attempt(t)'
    BY <1>3 DEF Exit, Goto, Alone, Attempt, RetryInv, RetryTypes, Stages, Results
  <2> QED
    BY <2>1, AloneKeeps
<1>4. ASSUME UNCHANGED <<stage, reused, result, sent, navs>>
      PROVE  RetryInv'
  BY <1>4 DEF RetryInv, RetryTypes, Attempt
<1>5. CASE (\E a \in Typed : Navigate(a)) \/ Depart
  BY <1>1, <1>5 DEF Navigate, Depart
<1>6. CASE Swap \/ CloseTab \/ Reload \/ Look \/ (\E i \in 1..(MaxNavs + Len(Past)) : Travel(i))
  BY <1>4, <1>6 DEF Swap, CloseTab, Reload, Look, Travel, netVars, uiVars
<1>7. ASSUME NEW t \in Threads, Fetch(t)
      PROVE  RetryInv'
  BY <1>7, FetchRetry, AloneKeeps DEF Fetch, uiVars
<1>8. ASSUME NEW t \in Pages, FallBack(t) \/ End(t)
      PROVE  RetryInv'
  BY <1>2, <1>3, <1>8 DEF FallBack, End, Threads
<1>9. ASSUME NEW b \in Loads, LoadEnds(b) \/ \E u \in Linked : Load(b, u)
      PROVE  RetryInv'
  <2>1. b \in Threads /\ b \notin Pages
    BY DEF FetchAssumption, Threads
  <2> QED
    BY <1>2, <1>3, <1>9, <2>1 DEF LoadEnds, Load, uiVars
<1>10. ASSUME NEW f \in Fds, PeerCloses(f), UNCHANGED uiVars
       PROVE  RetryInv'
  BY <1>4, <1>10 DEF PeerCloses, uiVars
<1>11. CASE UNCHANGED vars
  BY <1>4, <1>11 DEF vars, uiVars, netVars
<1> QED
  BY <1>5, <1>6, <1>7, <1>8, <1>9, <1>10, <1>11 DEF Next, PageStep, Threads

\* It is invariant.
LEMMA RetrySafe == Spec => []RetryInv
<1>1. Init => RetryInv
  <2> SUFFICES ASSUME Init PROVE RetryInv
    OBVIOUS
  <2>1. /\ navs = 0 /\ stage = [t \in Threads |-> "off"] /\ reused = [t \in Threads |-> FALSE]
        /\ result = [t \in Threads |-> "none"] /\ sent = [t \in Threads |-> << >>]
    BY DEF Init, FetchInit
  <2>2. RetryTypes
    BY <2>1, NavigationAssumption DEF NavigationAssumption, RetryTypes, Stages, Results, Histories
  <2> QED
    BY <2>1, <2>2 DEF RetryInv, Attempt, Histories, Threads
<1> QED
  BY <1>1, NextRetry, PTL DEF Spec

\* A request is written at most twice, the second time on a fresh connection
\* after a pooled one, and only a fetch on a fresh connection ends unanswered.
THEOREM RetriesAreFresh == Spec => []RetryOnFresh
<1>1. RetryInv => RetryOnFresh
  BY DEF RetryInv, Attempt, RetryOnFresh, Histories
<1> QED
  BY <1>1, RetrySafe, PTL

-----------------------------------------------------------------------------
(* Connections                                                             *)

\* Where perform_request has a descriptor number, and where it needs none.
Handed == {"connect", "write", "read", "unregister", "finish"}

NetTypes ==
  /\ navs \in 0..MaxNavs
  /\ sock \in [Fds -> Sockets \cup {None}] /\ pool \in [Urls -> Seq(Fds)]
  /\ stage \in [Threads -> Stages] /\ url \in [Threads -> Urls \cup {None}]
  /\ fd \in [Threads -> Fds \cup {None}]
  /\ result \in [Threads -> Results]
  /\ activeFd \in Fds \cup {None} /\ waiting \in SUBSET Pages
  /\ tabOpen \in BOOLEAN /\ crossed \in BOOLEAN

\* A thread has a number exactly there, and a URL as long as it runs.
Placed(t) ==
  /\ fd[t] # None <=> stage[t] \in Handed
  /\ stage[t] \notin {"off", "done"} => url[t] \in Urls

\* The retry has closed its descriptor, so what is open is another's or idle.
LeakInv ==
  /\ \A f \in Fds : sock[f] # None =>
       f \in Pooled \/ \E t \in Threads : fd[t] = f /\ stage[t] # "unregister"
  /\ \A u \in Urls : Len(pool[u]) <= MaxIdle

\* The exchange of thread t, while no number is in two hands: nothing is left to
\* be read on its connection but the answer to what it wrote, which is read up
\* before the connection is kept; and a cancelled descriptor stays closed.
ExchangeOK(t) ==
  /\ fd[t] # None /\ sock[fd[t]] # None =>
       /\ stage[t] \in {"connect", "write", "read"} => ~sock[fd[t]].stray
       /\ stage[t] = "read" => sock[fd[t]].owes = t
       /\ stage[t] = "finish" /\ result[t] = "keep" => sock[fd[t]].owes = None
  /\ t \in waiting => stage[t] = "read" /\ sock[fd[t]] = None
  /\ result[t] # "foreign"

NetInv ==
  /\ NetTypes
  /\ \A n \in Pages : n > navs => stage[n] = "off"
  /\ \A t \in Threads : Placed(t)
  /\ LeakInv
  /\ tabOpen /\ activeFd # None => \E t \in Pages : fd[t] = activeFd
  /\ crossed \/ (OneOwner /\ \A t \in Threads : ExchangeOK(t))

\* A step that concerns thread t and leaves the others where they are.
OnlyOf(t) ==
  /\ NetTypes' /\ navs' = navs /\ Placed(t)'
  /\ t \in Pages => stage[t] # "off"
  /\ \A o \in Threads \ {t} :
       /\ stage'[o] = stage[o] /\ fd'[o] = fd[o] /\ url'[o] = url[o] /\ result'[o] = result[o]
       /\ o \in waiting' => o \in waiting

\* What is then left to be shown.
LEMMA NetKeeps ==
  ASSUME NetInv, NEW t \in Threads, OnlyOf(t), LeakInv',
         (tabOpen' /\ activeFd' # None => \E p \in Pages : fd'[p] = activeFd'),
         crossed' \/ (OneOwner' /\ \A o \in Threads : ExchangeOK(o)')
  PROVE  NetInv'
<1>1. ASSUME NEW n \in Pages, n > navs' PROVE stage'[n] = "off"
  BY <1>1, FetchAssumption DEF FetchAssumption, Threads, NetInv, OnlyOf
<1>2. ASSUME NEW o \in Threads PROVE Placed(o)'
  BY DEF OnlyOf, NetInv, Placed
<1> QED
  BY <1>1, <1>2 DEF NetInv, OnlyOf

\* A step that leaves the pools alone, opens nothing, and at most closes numbers
\* or goes on with the exchange of t.
QuietOf(t) ==
  /\ OnlyOf(t) /\ UNCHANGED <<pool, crossed, tabOpen>>
  /\ fd'[t] \in {fd[t], None} /\ activeFd' \in {activeFd, None}
  /\ \A f \in Fds : sock'[f] # None =>
       /\ sock[f] # None
       /\ \/ sock'[f] = sock[f]
          \/ f = fd[t] /\ stage[t] # "unregister" /\ sock'[f].origin = sock[f].origin
  /\ fd[t] # None /\ stage[t] # "unregister" /\ sock'[fd[t]] # None =>
       fd'[t] = fd[t] /\ stage'[t] # "unregister"
  /\ fd'[t] # None /\ stage'[t] # "unregister" => stage[t] # "unregister" /\ url'[t] = url[t]
  /\ tabOpen /\ activeFd' # None /\ t \in Pages /\ fd[t] = activeFd => fd'[t] = fd[t]

\* ... so only its exchange is left to be shown.
LEMMA QuietKeeps ==
  ASSUME NetInv, NEW t \in Threads, QuietOf(t), crossed \/ ExchangeOK(t)'
  PROVE  NetInv'
<1>0. /\ NetTypes /\ NetTypes' /\ OnlyOf(t) /\ Pooled' = Pooled /\ pool' = pool
      /\ Pages \subseteq Threads
  BY DEF NetInv, QuietOf, OnlyOf, Pooled, Threads
<1>1. LeakInv'
  <2>1. ASSUME NEW f \in Fds, sock'[f] # None
        PROVE  f \in Pooled' \/ \E o \in Threads : fd'[o] = f /\ stage'[o] # "unregister"
    <3>1. CASE f \in Pooled
      BY <1>0, <3>1
    <3>2. ASSUME NEW o \in Threads, fd[o] = f, stage[o] # "unregister"
          PROVE  fd'[o] = f /\ stage'[o] # "unregister"
      BY <2>1, <3>2, FetchAssumption DEF FetchAssumption, QuietOf, OnlyOf
    <3> QED
      BY <2>1, <3>1, <3>2 DEF NetInv, LeakInv, QuietOf
  <2> QED
    BY <1>0, <2>1 DEF NetInv, LeakInv
<1>2. tabOpen' /\ activeFd' # None => \E p \in Pages : fd'[p] = activeFd'
  BY <1>0 DEF NetInv, QuietOf, OnlyOf
<1>3. CASE crossed
  BY <1>0, <1>1, <1>2, <1>3, NetKeeps DEF QuietOf
<1>4. CASE ~crossed
  <2>0. OneOwner
    BY <1>4 DEF NetInv
  <2>1. ASSUME NEW o \in Threads, fd'[o] # None, stage'[o] # "unregister"
        PROVE  fd'[o] = fd[o] /\ stage[o] # "unregister" /\ url'[o] = url[o] /\ fd[o] \in Fds
    BY <1>0, <2>1 DEF QuietOf, OnlyOf, NetTypes
  <2>2. ASSUME NEW f \in Fds, f \in Pooled PROVE sock'[f] = sock[f] \/ sock'[f] = None
    BY <2>0, <2>2, FetchAssumption DEF FetchAssumption, OneOwner, QuietOf
  <2>3. OneOwner'
    <3>1. ASSUME NEW o \in Threads, fd'[o] # None, stage'[o] # "unregister"
          PROVE  /\ fd'[o] \notin Pooled
                 /\ \A r \in Threads \ {o} : stage'[r] # "unregister" => fd'[r] # fd'[o]
                 /\ sock'[fd'[o]] # None => sock'[fd'[o]].origin = url'[o]
      <4>1. /\ fd'[o] = fd[o] /\ stage[o] # "unregister" /\ url'[o] = url[o] /\ fd[o] \in Fds
        BY <2>1, <3>1
      <4>2. \A r \in Threads \ {o} : stage'[r] # "unregister" => fd'[r] # fd'[o]
        BY <2>0, <2>1, <3>1, <4>1 DEF OneOwner
      <4>3. sock'[fd[o]] # None => sock[fd[o]] # None /\ sock'[fd[o]].origin = sock[fd[o]].origin
        BY <4>1 DEF QuietOf
      <4> QED
        BY <2>0, <3>1, <4>1, <4>2, <4>3 DEF OneOwner
    <3>2. ASSUME NEW u \in Urls, NEW f \in ToSet(pool[u]), sock'[f] # None
          PROVE  sock'[f].origin = u /\ sock'[f].owes = None
      <4>1. f \in Fds /\ f \in Pooled
        BY <1>0 DEF NetTypes, Pooled, ToSet
      <4> QED
        BY <2>0, <2>2, <3>2, <4>1 DEF OneOwner
    <3> QED
      BY <1>0, <2>0, <3>1, <3>2 DEF OneOwner
  <2>4. ASSUME NEW o \in Threads PROVE ExchangeOK(o)'
    <3>1. CASE o = t
      BY <1>4, <3>1
    <3>2. CASE o # t
      <4>1. /\ stage'[o] = stage[o] /\ fd'[o] = fd[o] /\ result'[o] = result[o]
            /\ o \in waiting' => o \in waiting
            /\ ExchangeOK(o) /\ fd[o] \in Fds \cup {None}
        BY <1>0, <1>4, <3>2 DEF OnlyOf, NetInv, NetTypes
      <4>2. fd[o] # None /\ sock'[fd[o]] # None /\ stage[o] # "unregister" =>
              sock'[fd[o]] = sock[fd[o]]
        BY <2>0, <3>2, <4>1, FetchAssumption DEF FetchAssumption, OneOwner, QuietOf
      <4>3. o \in waiting => fd[o] # None
        BY <4>1 DEF NetInv, Placed, ExchangeOK, Handed
      <4>4. o \in waiting => sock'[fd[o]] = None
        BY <4>1, <4>2, <4>3 DEF ExchangeOK
      <4> QED
        BY <4>1, <4>2, <4>4 DEF ExchangeOK
    <3> QED
      BY <3>1, <3>2
  <2> QED
    BY <1>0, <1>1, <1>2, <2>3, <2>4, NetKeeps
<1> QED
  BY <1>3, <1>4

\* perform_request without its pool: a step of thread t that takes nothing.
LEMMA QuietFetch ==
  ASSUME NetInv, NEW t \in Threads, navs' = navs,
         \/ Connected(t) \/ ConnectFailed(t) \/ HandshakeFailed(t)
         \/ Written(t) \/ WriteFailed(t) \/ NoAnswer(t) \/ Retry(t)
         \/ (\E how \in Answers : Answered(t, how))
         \/ (Finish(t, 0) /\ ~Keeps(t)) \/ OpenFails(t)
         \/ \E f \in Fds : Open(t, f) /\ ~Wanted(t)
  PROVE  NetInv'
<1> USE FetchAssumption DEF FetchAssumption
<1>0. /\ NetTypes /\ Placed(t) /\ fd[t] \in Fds \cup {None} /\ url[t] \in Urls \cup {None}
      /\ crossed \/ ExchangeOK(t)
      /\ crossed \in BOOLEAN
      /\ stage \in [Threads -> Stages] /\ fd \in [Threads -> Fds \cup {None}]
      /\ result \in [Threads -> Results] /\ sock \in [Fds -> Sockets \cup {None}]
      /\ waiting \in SUBSET Pages /\ activeFd \in Fds \cup {None}
  BY DEF NetInv, NetTypes
<1>1. ASSUME NEW s \in Handed \cup {"open", "ended"}, stage[t] \in Stages \ {"off"},
             stage' = [stage EXCEPT ![t] = s],
             fd' = fd \/ fd' = [fd EXCEPT ![t] = None], Placed(t)',
             result' \in [Threads -> Results],
             \A o \in Threads \ {t} : result'[o] = result[o],
             sock' \in [Fds -> Sockets \cup {None}],
             waiting' = waiting \/ waiting' = waiting \ {t},
             activeFd' \in {activeFd, None},
             UNCHANGED <<pool, url, crossed, tabOpen>>
      PROVE  OnlyOf(t)
  <2>1. stage' \in [Threads -> Stages] /\ fd' \in [Threads -> Fds \cup {None}]
    BY <1>0, <1>1 DEF Stages, Handed
  <2>2. NetTypes'
    BY <1>0, <1>1, <2>1 DEF NetTypes
  <2> QED
    BY <1>0, <1>1, <2>2 DEF OnlyOf
<1>2. ASSUME NEW D \in SUBSET Fds, sock' = Closed(D)
      PROVE  /\ sock' \in [Fds -> Sockets \cup {None}]
             /\ \A f \in Fds : sock'[f] # None => f \notin D /\ sock'[f] = sock[f]
             /\ \A f \in D : sock'[f] = None
  BY <1>0, <1>2 DEF Closed
<1>3. CASE Connected(t)
  <2>1. /\ stage[t] = "connect" /\ stage' = [stage EXCEPT ![t] = "write"]
        /\ UNCHANGED <<sock, pool, url, fd, result, waiting, crossed, tabOpen, activeFd>>
    BY <1>3 DEF Connected, Goto, tabVars
  <2>2. stage'[t] = "write"
    BY <1>0, <2>1
  <2>3. OnlyOf(t)
    BY <1>0, <1>1, <2>1, <2>2 DEF Placed, Handed, Stages
  <2>4. QuietOf(t)
    BY <2>1, <2>2, <2>3 DEF QuietOf
  <2>5. crossed \/ ExchangeOK(t)'
    BY <1>0, <2>1, <2>2 DEF ExchangeOK
  <2> QED
    BY <2>4, <2>5, QuietKeeps
<1>4. ASSUME NEW from \in {"connect", "finish"}, NEW why \in {"refused", "over"},
             Return(t, from, why), sock' = Closed({fd[t]}), pool' = pool
      PROVE  NetInv'
  <2>1. /\ stage[t] = from /\ stage' = [stage EXCEPT ![t] = "ended"]
        /\ fd' = [fd EXCEPT ![t] = None] /\ result' = [result EXCEPT ![t] = why]
        /\ activeFd' = Unregistered(t)
        /\ UNCHANGED <<pool, url, waiting, crossed, tabOpen>>
    BY <1>4 DEF Return, Goto
  <2>2. fd[t] \in Fds /\ stage'[t] = "ended" /\ fd'[t] = None /\ result'[t] = why
    BY <1>0, <2>1 DEF Placed, Handed
  <2>3. activeFd' \in {activeFd, None}
    BY <2>1 DEF Unregistered
  <2>4. OnlyOf(t)
    BY <1>0, <1>1, <1>2, <1>4, <2>1, <2>2, <2>3 DEF Placed, Handed, Stages, Results
  <2>5. QuietOf(t)
    <3>1. t \in Pages /\ tabOpen /\ activeFd = fd[t] => activeFd' = None
      BY <2>1 DEF Unregistered
    <3> QED
      BY <1>2, <1>4, <2>1, <2>2, <2>3, <2>4, <3>1 DEF QuietOf
  <2>6. crossed \/ ExchangeOK(t)'
    BY <1>0, <2>1, <2>2 DEF ExchangeOK
  <2> QED
    BY <2>5, <2>6, QuietKeeps
<1>5. CASE ConnectFailed(t) \/ HandshakeFailed(t)
  BY <1>4, <1>5 DEF ConnectFailed, HandshakeFailed
<1>6. CASE Finish(t, 0) /\ ~Keeps(t)
  BY <1>4, <1>6 DEF Finish
<1>7. CASE Written(t)
  <2>1. /\ stage[t] = "write" /\ stage' = [stage EXCEPT ![t] = "read"] /\ sock[fd[t]] # None
        /\ sock' = [sock EXCEPT ![fd[t]].owes = t]
        /\ UNCHANGED <<pool, url, fd, result, waiting, crossed, tabOpen, activeFd>>
    BY <1>7 DEF Written, Goto, tabVars
  <2>2. stage'[t] = "read" /\ fd[t] \in Fds /\ sock[fd[t]] \in Sockets
    BY <1>0, <2>1 DEF Placed, Handed
  <2>3. /\ sock' \in [Fds -> Sockets \cup {None}] /\ sock'[fd[t]].owes = t
        /\ sock'[fd[t]].origin = sock[fd[t]].origin /\ sock'[fd[t]].stray = sock[fd[t]].stray
        /\ \A f \in Fds \ {fd[t]} : sock'[f] = sock[f]
    BY <1>0, <2>1, <2>2 DEF Sockets
  <2>4. OnlyOf(t)
    BY <1>0, <1>1, <2>1, <2>2, <2>3 DEF Placed, Handed, Stages
  <2>5. QuietOf(t)
    BY <2>1, <2>2, <2>3, <2>4 DEF QuietOf
  <2>6. crossed \/ ExchangeOK(t)'
    BY <1>0, <2>1, <2>2, <2>3 DEF ExchangeOK
  <2> QED
    BY <2>5, <2>6, QuietKeeps
<1>8. CASE WriteFailed(t) \/ NoAnswer(t)
  <2>1. /\ stage[t] \in {"write", "read"} /\ waiting' = waiting \ {t}
        /\ \/ /\ stage' = [stage EXCEPT ![t] = "unregister"] /\ sock' = Closed({fd[t]})
              /\ result' = result
           \/ /\ stage' = [stage EXCEPT ![t] = "finish"] /\ sock' = sock
              /\ result' = [result EXCEPT ![t] = "silent"]
        /\ UNCHANGED <<pool, url, fd, crossed, tabOpen, activeFd>>
    BY <1>8 DEF WriteFailed, NoAnswer, Nothing, Goto, tabVars
  <2>2. fd[t] \in Fds
    BY <1>0, <2>1 DEF Placed, Handed
  <2>3. CASE stage' = [stage EXCEPT ![t] = "unregister"] /\ sock' = Closed({fd[t]}) /\ result' = result
    <3>1. stage'[t] = "unregister" /\ sock'[fd[t]] = None
      <4>1. \A f \in {fd[t]} : sock'[f] = None
        BY <1>2, <2>2, <2>3
      <4>2. stage'[t] = "unregister"
        BY <1>0, <2>3
      <4> QED
        BY <4>1, <4>2
    <3>2. OnlyOf(t)
      BY <1>0, <1>1, <1>2, <2>1, <2>2, <2>3, <3>1 DEF Placed, Handed, Stages
    <3>3. QuietOf(t)
      BY <1>2, <2>1, <2>2, <2>3, <3>1, <3>2 DEF QuietOf
    <3>4. crossed \/ ExchangeOK(t)'
      BY <1>0, <2>1, <2>3, <3>1 DEF ExchangeOK
    <3> QED
      BY <3>3, <3>4, QuietKeeps
  <2>4. CASE /\ stage' = [stage EXCEPT ![t] = "finish"] /\ sock' = sock
             /\ result' = [result EXCEPT ![t] = "silent"]
    <3>1. stage'[t] = "finish" /\ result'[t] = "silent"
      BY <1>0, <2>4
    <3>2. OnlyOf(t)
      BY <1>0, <1>1, <2>1, <2>2, <2>4, <3>1 DEF Placed, Handed, Stages, Results
    <3>3. QuietOf(t)
      BY <2>1, <2>2, <2>4, <3>1, <3>2 DEF QuietOf
    <3>4. crossed \/ ExchangeOK(t)'
      BY <1>0, <2>1, <2>4, <3>1 DEF ExchangeOK
    <3> QED
      BY <3>3, <3>4, QuietKeeps
  <2> QED
    BY <2>1, <2>3, <2>4
<1>9. ASSUME NEW how \in Answers, Answered(t, how)
      PROVE  NetInv'
  <2> DEFINE own == t \in waiting \/ (~sock[fd[t]].stray /\ sock[fd[t]].owes = t)
  <2>1. /\ stage[t] = "read" /\ stage' = [stage EXCEPT ![t] = "finish"]
        /\ waiting' = waiting \ {t} /\ (t \notin waiting => sock[fd[t]] # None)
        /\ result' = [result EXCEPT ![t] =
             IF ~own THEN "foreign" ELSE IF how \in {"kept", "trailing"} THEN "keep" ELSE "over"]
        /\ UNCHANGED <<pool, url, fd, crossed, tabOpen, activeFd>>
    BY <1>9 DEF Answered, Goto, tabVars
  <2>2. stage'[t] = "finish" /\ fd[t] \in Fds
    BY <1>0, <2>1 DEF Placed, Handed
  <2>3. /\ result' \in [Threads -> Results] /\ \A o \in Threads \ {t} : result'[o] = result[o]
        /\ result'[t] = "keep" => own /\ how \in {"kept", "trailing"}
        /\ result'[t] = "foreign" => ~own
    <3> HIDE DEF own
    <3> QED
      BY <1>0, <2>1 DEF Results
  <2>4. CASE t \in waiting
    <3>1. sock' = sock
      BY <1>9, <2>4 DEF Answered
    <3>2. OnlyOf(t)
      BY <1>0, <1>1, <2>1, <2>2, <2>3, <3>1 DEF Placed, Handed, Stages
    <3>3. QuietOf(t)
      BY <2>1, <2>2, <3>1, <3>2 DEF QuietOf
    <3>4. crossed \/ ExchangeOK(t)'
      BY <1>0, <2>1, <2>2, <2>3, <2>4, <3>1 DEF ExchangeOK
    <3> QED
      BY <3>3, <3>4, QuietKeeps
  <2>5. CASE t \notin waiting
    <3>1. sock[fd[t]] # None /\ sock[fd[t]] \in Sockets
      BY <1>0, <2>1, <2>2, <2>5
    <3>2. sock' = [sock EXCEPT ![fd[t]].owes = IF how = "broken" THEN @ ELSE None,
                               ![fd[t]].stray = (how = "trailing")]
      BY <1>9, <2>5 DEF Answered
    <3>3. /\ sock' \in [Fds -> Sockets \cup {None}]
          /\ how \in {"kept", "trailing"} => sock'[fd[t]].owes = None
          /\ sock'[fd[t]].origin = sock[fd[t]].origin
          /\ \A f \in Fds \ {fd[t]} : sock'[f] = sock[f]
      BY <1>0, <2>2, <3>1, <3>2 DEF Sockets
    <3>4. OnlyOf(t)
      BY <1>0, <1>1, <2>1, <2>2, <2>3, <3>3 DEF Placed, Handed, Stages
    <3>5. QuietOf(t)
      BY <2>1, <2>2, <3>1, <3>3, <3>4 DEF QuietOf
    <3>6. crossed \/ ExchangeOK(t)'
      BY <1>0, <2>1, <2>2, <2>3, <2>5, <3>1, <3>3 DEF ExchangeOK
    <3> QED
      BY <3>5, <3>6, QuietKeeps
  <2> QED
    BY <2>4, <2>5
<1>10. CASE Retry(t)
  <2>1. /\ stage[t] = "unregister" /\ stage' = [stage EXCEPT ![t] = "open"]
        /\ fd' = [fd EXCEPT ![t] = None] /\ activeFd' = Unregistered(t)
        /\ UNCHANGED <<sock, pool, url, result, waiting, crossed, tabOpen>>
    BY <1>10 DEF Retry, Goto
  <2>2. /\ stage'[t] = "open" /\ fd'[t] = None /\ activeFd' \in {activeFd, None}
        /\ t \in Pages /\ tabOpen /\ activeFd = fd[t] => activeFd' = None
    BY <1>0, <2>1 DEF Unregistered
  <2>3. OnlyOf(t)
    BY <1>0, <1>1, <2>1, <2>2 DEF Placed, Handed, Stages
  <2>4. QuietOf(t)
    BY <2>1, <2>2, <2>3 DEF QuietOf
  <2>5. crossed \/ ExchangeOK(t)'
    BY <1>0, <2>1, <2>2 DEF ExchangeOK
  <2> QED
    BY <2>4, <2>5, QuietKeeps
<1>11. ASSUME NEW f \in Fds, Open(t, f), ~Wanted(t)
       PROVE  NetInv'
  <2>1. /\ stage[t] = "open" /\ stage' = [stage EXCEPT ![t] = "ended"]
        /\ fd' = [fd EXCEPT ![t] = None] /\ result' = [result EXCEPT ![t] = "over"]
        /\ crossed' = (crossed \/ FALSE)
        /\ UNCHANGED <<sock, pool, url, waiting, tabOpen, activeFd>>
    BY <1>11 DEF Open, Take
  <2>2. stage'[t] = "ended" /\ fd'[t] = None /\ result'[t] = "over" /\ crossed' = crossed
        /\ fd[t] = None
    BY <1>0, <2>1 DEF Placed, Handed
  <2>3. OnlyOf(t)
    BY <1>0, <1>1, <2>1, <2>2 DEF Placed, Handed, Stages, Results
  <2>4. QuietOf(t)
    BY <2>1, <2>2, <2>3 DEF QuietOf
  <2>5. crossed \/ ExchangeOK(t)'
    BY <1>0, <2>1, <2>2 DEF ExchangeOK
  <2> QED
    BY <2>4, <2>5, QuietKeeps
<1>12. CASE OpenFails(t)
  <2>1. /\ stage[t] = "open" /\ stage' = [stage EXCEPT ![t] = "ended"]
        /\ result' = [result EXCEPT ![t] = "refused"]
        /\ UNCHANGED <<sock, pool, url, fd, waiting, crossed, tabOpen, activeFd>>
    BY <1>12 DEF OpenFails, Goto, tabVars
  <2>2. stage'[t] = "ended" /\ result'[t] = "refused" /\ fd[t] = None
    BY <1>0, <2>1 DEF Placed, Handed
  <2>3. OnlyOf(t)
    BY <1>0, <1>1, <2>1, <2>2 DEF Placed, Handed, Stages, Results
  <2>4. QuietOf(t)
    BY <2>1, <2>2, <2>3 DEF QuietOf
  <2>5. crossed \/ ExchangeOK(t)'
    BY <1>0, <2>1, <2>2 DEF ExchangeOK
  <2> QED
    BY <2>4, <2>5, QuietKeeps
<1> QED
  BY <1>3, <1>5, <1>6, <1>7, <1>8, <1>9, <1>10, <1>11, <1>12

\* The greatest of a bounded set of positions.
LEMMA Greatest ==
  ASSUME NEW b \in Nat, NEW S \in SUBSET 0..b, S # {}
  PROVE  \E m \in S : \A k \in S : k <= m
<1> DEFINE T == {b - y : y \in S}
           R == {ss \in Nat \X Nat : ss[1] < ss[2]}
<1>1. T \in SUBSET Nat /\ T # {}
  <2>1. \A y \in S : b - y \in Nat
    OBVIOUS
  <2> QED
    BY <2>1
<1>2. IsWellFoundedOn(R, Nat)
  BY NatLessThanWellFounded, Zenon DEF OpToRel
<1>3. PICK x \in T : \A y \in T : ~ (<<y, x>> \in R)
  <2> HIDE DEF R, T
  <2> QED
    BY <1>1, <1>2, WFMin, Zenon
<1>4. PICK m \in S : x = b - m
  OBVIOUS
<1>5. ASSUME NEW k \in S PROVE k <= m
  <2>1. b - k \in T /\ b - k \in Nat /\ x \in Nat
    BY <1>1
  <2>2. ~(b - k < x)
    BY <1>3, <2>1
  <2> QED
    BY <1>4, <2>2
<1> QED
  BY <1>5

\* What is in a sequence is at one of its positions.
LEMMA InSeq ==
  ASSUME NEW S, NEW s \in Seq(S), NEW x \in ToSet(s)
  PROVE  \E k \in 1..Len(s) : x = s[k]
<1>1. DOMAIN s = 1..Len(s)
  OBVIOUS
<1> QED
  BY <1>1 DEF ToSet

\* A pool of which a stretch is left.
Trimmed(u, a, b) == pool' = [pool EXCEPT ![u] = SubSeq(pool[u], a + 1, b)]
Remains(u, a, b, v) == IF v = u THEN a + 1..b ELSE 1..Len(pool[v])

\* What is idle then was idle before, each connection as often as before.
LEMMA TrimmedIs ==
  ASSUME pool \in [Urls -> Seq(Fds)], NEW u \in Urls, NEW a \in 0..Len(pool[u]),
         NEW b \in a..Len(pool[u]), Trimmed(u, a, b)
  PROVE  /\ pool' \in [Urls -> Seq(Fds)]
         /\ \A v \in Urls : Len(pool'[v]) <= Len(pool[v])
         /\ \A v \in Urls : \A k \in 1..Len(pool'[v]) :
              pool'[v][k] = pool[v][IF v = u THEN a + k ELSE k]
              /\ (IF v = u THEN a + k ELSE k) \in Remains(u, a, b, v)
         /\ \A v \in Urls : \A m \in Remains(u, a, b, v) : pool[v][m] \in Pooled'
         /\ \A v \in Urls : ToSet(pool'[v]) \subseteq ToSet(pool[v])
         /\ Pooled' \subseteq Pooled
<1> DEFINE q == pool[u]
           r == SubSeq(q, a + 1, b)
<1>1. q \in Seq(Fds) /\ Len(q) \in Nat /\ a \in Nat /\ b \in Nat
  OBVIOUS
<1>2. r \in Seq(Fds) /\ Len(r) = b - a /\ \A k \in 1..b - a : r[k] = q[a + k]
  BY <1>1
<1>3. pool'[u] = r /\ \A v \in Urls \ {u} : pool'[v] = pool[v]
  BY DEF Trimmed
<1> HIDE DEF q, r
<1>4. pool' \in [Urls -> Seq(Fds)]
  BY <1>2 DEF Trimmed, q, r
<1>5. \A v \in Urls : Len(pool'[v]) <= Len(pool[v])
  BY <1>1, <1>2, <1>3 DEF q
<1>6. ASSUME NEW v \in Urls, NEW k \in 1..Len(pool'[v])
      PROVE  /\ pool'[v][k] = pool[v][IF v = u THEN a + k ELSE k]
             /\ (IF v = u THEN a + k ELSE k) \in Remains(u, a, b, v)
  <2>1. CASE v = u
    BY <1>1, <1>2, <1>3, <1>6, <2>1 DEF Remains, q
  <2>2. CASE v # u
    BY <1>3, <1>6, <2>2 DEF Remains
  <2> QED
    BY <2>1, <2>2
<1>7. ASSUME NEW v \in Urls, NEW m \in Remains(u, a, b, v)
      PROVE  pool[v][m] \in Pooled'
  <2>1. CASE v = u
    <3>1. m - a \in 1..b - a /\ a + (m - a) = m
      BY <1>1, <1>7, <2>1 DEF Remains
    <3>2. r[m - a] = pool[v][m] /\ m - a \in 1..Len(pool'[u])
      BY <1>2, <1>3, <2>1, <3>1 DEF q
    <3> QED
      BY <1>3, <3>2 DEF Pooled, ToSet
  <2>2. CASE v # u
    BY <1>3, <1>7, <2>2 DEF Remains, Pooled, ToSet
  <2> QED
    BY <2>1, <2>2
<1>8. ASSUME NEW v \in Urls, NEW f \in ToSet(pool'[v])
      PROVE  f \in ToSet(pool[v])
  <2>1. PICK k \in 1..Len(pool'[v]) : f = pool'[v][k]
    <3>1. pool'[v] \in Seq(Fds)
      BY <1>4
    <3> QED
      BY <3>1, InSeq
  <2>2. PICK m \in Remains(u, a, b, v) : f = pool[v][m]
    BY <1>6, <2>1
  <2>3. m \in 1..Len(pool[v])
    BY <1>1 DEF Remains, q
  <2> QED
    BY <2>2, <2>3 DEF ToSet
<1>9. Pooled' \subseteq Pooled
  BY <1>8 DEF Pooled
<1> QED
  BY <1>4, <1>5, <1>6, <1>7, <1>8, <1>9

\* ... and it stays in one place.
LEMMA TrimmedOnce ==
  ASSUME pool \in [Urls -> Seq(Fds)], NEW u \in Urls, NEW a \in 0..Len(pool[u]),
         NEW b \in a..Len(pool[u]), Trimmed(u, a, b), OneOwner
  PROVE  \A v, w \in Urls : \A m \in 1..Len(pool'[v]), n \in 1..Len(pool'[w]) :
           pool'[v][m] = pool'[w][n] => v = w /\ m = n
<1>1. TAKE v, w \in Urls
<1>2. TAKE m \in 1..Len(pool'[v]), n \in 1..Len(pool'[w])
<1>3. HAVE pool'[v][m] = pool'[w][n]
<1> DEFINE k == IF v = u THEN a + m ELSE m
           l == IF w = u THEN a + n ELSE n
<1>4. k \in Remains(u, a, b, v) /\ l \in Remains(u, a, b, w) /\ pool[v][k] = pool[w][l]
  BY <1>3, TrimmedIs
<1>5. k \in 1..Len(pool[v]) /\ l \in 1..Len(pool[w]) /\ a \in Nat /\ m \in Int /\ n \in Int
  BY <1>4 DEF Remains
<1>6. v = w /\ k = l
  <2> HIDE DEF k, l
  <2> QED
    BY <1>4, <1>5 DEF OneOwner
<1> QED
  BY <1>5, <1>6

\* A stretch of the pool is left, and all the rest, D, is closed; or all but a
\* usable connection, which is taken if it is still wanted.
AcquireAs(t, a, b, D) ==
  LET q == pool[url[t]] IN
  /\ Trimmed(url[t], a, b) /\ sock' = Closed(D)
  /\ \/ /\ UNCHANGED <<fd, result, activeFd>>
        /\ stage' = [stage EXCEPT ![t] = "open"]
        /\ \A m \in 1..Len(q) : m <= a \/ m > b => q[m] \in D
     \/ /\ b < Len(q) /\ Usable(q[b + 1]) /\ Take(t, q[b + 1], "write")
        /\ \A m \in 1..Len(q) : m <= a \/ m > b => q[m] \in D \/ (Wanted(t) /\ m = b + 1)

\* That is what acquire does, whatever it finds.
LEMMA AcquireIs ==
  ASSUME NetTypes, NEW t \in Threads, url[t] \in Urls, NEW old \in 0..MaxIdle, Acquire(t, old)
  PROVE  \E a \in 0..Len(pool[url[t]]) : \E b \in a..Len(pool[url[t]]), D \in SUBSET Fds :
           AcquireAs(t, a, b, D)
<1> DEFINE u == url[t]
           q == pool[u]
           fit == {n \in (old + 1)..Len(q) : Usable(q[n])}
           n == IF fit = {} THEN old ELSE CHOOSE m \in fit : \A k \in fit : k <= m
           drop == {q[k] : k \in 1..old \cup (n + 1)..Len(q)}
<1>1. q \in Seq(Fds) /\ Len(q) \in Nat /\ old \in Nat /\ old <= Len(q)
  BY FetchAssumption DEF FetchAssumption, NetTypes, Acquire
<1>2. CASE fit = {}
  <2>1. n = old /\ drop \in SUBSET Fds /\ \A m \in 1..Len(q) : q[m] \in drop
    BY <1>1, <1>2
  <2>2. /\ pool' = [pool EXCEPT ![u] = << >>] /\ sock' = Closed(drop)
        /\ stage' = [stage EXCEPT ![t] = "open"] /\ UNCHANGED <<fd, result, activeFd>>
    BY <1>2 DEF Acquire, Goto
  <2>3. SubSeq(q, 0 + 1, 0) = << >>
    BY <1>1
  <2> HIDE DEF drop, q, fit
  <2>4. Trimmed(u, 0, 0)
    BY <2>2, <2>3 DEF Trimmed, q
  <2>5. 0 \in 0..Len(q) /\ 0 \in 0..Len(q)
    BY <1>1
  <2>6. AcquireAs(t, 0, 0, drop)
    BY <2>1, <2>2, <2>4 DEF AcquireAs, q
  <2> QED
    BY <2>1, <2>5, <2>6 DEF q
<1>3. CASE fit # {}
  <2>1. n \in fit
    <3>1. fit \in SUBSET 0..Len(q)
      BY <1>1
    <3> HIDE DEF fit
    <3>2. \E m \in fit : \A k \in fit : k <= m
      BY <1>1, <1>3, <3>1, Greatest
    <3> QED
      BY <1>3, <3>2
  <2>2. /\ pool' = [pool EXCEPT ![u] = SubSeq(q, old + 1, n - 1)]
        /\ Take(t, q[n], "write")
        /\ sock' = Closed(IF Wanted(t) THEN drop ELSE drop \cup {q[n]})
    BY <1>3 DEF Acquire
  <2> DEFINE b == n - 1
             D == IF Wanted(t) THEN drop ELSE drop \cup {q[n]}
  <2> HIDE DEF n
  <2>3. n \in 1..Len(q) /\ n > old /\ Usable(q[n])
    <3> HIDE DEF q
    <3> QED
      BY <1>1, <2>1
  <2> HIDE DEF fit
  <2>4. b \in old..Len(q) /\ b < Len(q) /\ b + 1 = n /\ old \in 0..Len(q)
    BY <1>1, <2>3
  <2>5. drop \in SUBSET Fds
    BY <1>1, <2>3
  <2>6. D \in SUBSET Fds
    BY <1>1, <2>3, <2>5
  <2>7. \A m \in 1..Len(q) : m <= old \/ m > b => q[m] \in D \/ (Wanted(t) /\ m = n)
    <3>1. \A m \in 1..Len(q) : m <= old \/ m > n => q[m] \in drop
      BY <1>1, <2>3
    <3> HIDE DEF drop
    <3> QED
      BY <1>1, <2>3, <3>1
  <2> HIDE DEF D, drop
  <2>8. Trimmed(u, old, b) /\ sock' = Closed(D) /\ Take(t, q[b + 1], "write")
    BY <2>2, <2>4 DEF Trimmed, D
  <2> HIDE DEF b, q
  <2>9. AcquireAs(t, old, b, D)
    <3>1. \A m \in 1..Len(q) : m <= old \/ m > b => q[m] \in D \/ (Wanted(t) /\ m = b + 1)
      BY <2>4, <2>7
    <3> QED
      BY <2>3, <2>4, <2>8, <3>1 DEF AcquireAs, q
  <2> QED
    BY <2>4, <2>6, <2>9 DEF q
<1> QED
  BY <1>2, <1>3

\* The pool is asked.
LEMMA AcquireNet ==
  ASSUME NetInv, NEW t \in Threads, NEW old \in 0..MaxIdle, Acquire(t, old), navs' = navs
  PROVE  NetInv'
<1> USE FetchAssumption DEF FetchAssumption
<1> DEFINE u == url[t]
           q == pool[u]
<1>0. /\ NetTypes /\ Placed(t) /\ stage[t] = "acquire" /\ fd[t] = None /\ u \in Urls
      /\ pool \in [Urls -> Seq(Fds)] /\ fd \in [Threads -> Fds \cup {None}]
      /\ stage \in [Threads -> Stages] /\ result \in [Threads -> Results]
      /\ sock \in [Fds -> Sockets \cup {None}]
      /\ UNCHANGED <<url, waiting, tabOpen, crossed>>
      /\ q \in Seq(Fds) /\ Len(q) \in Nat /\ MaxIdle \in Nat
  <2>1. NetTypes /\ Placed(t) /\ stage[t] = "acquire" /\ UNCHANGED <<url, waiting, tabOpen, crossed>>
    BY DEF NetInv, Acquire
  <2>2. fd[t] = None /\ u \in Urls
    BY <2>1 DEF Placed, Handed
  <2> QED
    BY <2>1, <2>2 DEF NetTypes
<1>1. PICK a \in 0..Len(q) : \E b \in a..Len(q), D \in SUBSET Fds : AcquireAs(t, a, b, D)
  BY <1>0, AcquireIs
<1>11. PICK b \in a..Len(q), D \in SUBSET Fds : AcquireAs(t, a, b, D)
  BY <1>1
<1>2. /\ Trimmed(u, a, b) /\ sock' = Closed(D)
      /\ \/ /\ UNCHANGED <<fd, result, activeFd>>
            /\ stage' = [stage EXCEPT ![t] = "open"]
            /\ \A m \in 1..Len(q) : m <= a \/ m > b => q[m] \in D
         \/ /\ b < Len(q) /\ Usable(q[b + 1]) /\ Take(t, q[b + 1], "write")
            /\ \A m \in 1..Len(q) : m <= a \/ m > b => q[m] \in D \/ (Wanted(t) /\ m = b + 1)
  BY <1>11 DEF AcquireAs
<1>3. /\ pool' \in [Urls -> Seq(Fds)]
      /\ \A v \in Urls : Len(pool'[v]) <= Len(pool[v])
      /\ \A v \in Urls : \A m \in Remains(u, a, b, v) : pool[v][m] \in Pooled'
      /\ \A v \in Urls : ToSet(pool'[v]) \subseteq ToSet(pool[v])
      /\ Pooled' \subseteq Pooled
  BY <1>0, <1>2, TrimmedIs
<1>31. \A v \in Urls : ToSet(pool'[v]) \subseteq Fds
  BY <1>3 DEF ToSet
<1>32. \A v \in Urls : \A k \in 1..Len(pool'[v]) :
         \E m \in Remains(u, a, b, v) : pool'[v][k] = pool[v][m]
  <2>1. \A v \in Urls : \A k \in 1..Len(pool'[v]) :
          pool'[v][k] = pool[v][IF v = u THEN a + k ELSE k]
          /\ (IF v = u THEN a + k ELSE k) \in Remains(u, a, b, v)
    BY <1>0, <1>2, TrimmedIs
  <2> QED
    BY <2>1
<1>4. /\ sock' \in [Fds -> Sockets \cup {None}]
      /\ \A f \in Fds : sock'[f] # None => f \notin D /\ sock'[f] = sock[f]
  BY <1>0, <1>2 DEF Closed
<1>5. \A v \in Urls : Len(pool'[v]) <= MaxIdle
  <2>1. TAKE v \in Urls
  <2>2. Len(pool'[v]) \in Nat /\ Len(pool[v]) \in Nat /\ Len(pool[v]) <= MaxIdle
    BY <1>0, <1>3 DEF NetInv, LeakInv
  <2> QED
    BY <1>0, <1>3, <2>2
<1>6. ASSUME NEW f \in Fds, f \in Pooled, f \notin Pooled'
      PROVE  \E m \in 1..Len(q) : f = q[m] /\ (m <= a \/ m > b)
  <2>1. PICK v \in Urls : f \in ToSet(pool[v])
    BY <1>6 DEF Pooled
  <2>2. PICK m \in 1..Len(pool[v]) : f = pool[v][m]
    <3>1. pool[v] \in Seq(Fds)
      BY <1>0
    <3> QED
      BY <2>1, <3>1, InSeq
  <2>3. v = u /\ m \notin a + 1..b
    BY <1>3, <1>6, <2>2 DEF Remains
  <2> HIDE DEF u
  <2> QED
    BY <1>0, <2>2, <2>3
<1> HIDE DEF u, q
<1>7. ASSUME UNCHANGED <<fd, activeFd>>, result' \in [Threads -> Results],
             \A o \in Threads \ {t} : result'[o] = result[o],
             result'[t] # "foreign" \/ result'[t] = result[t],
             NEW s \in {"open", "ended"}, stage' = [stage EXCEPT ![t] = s],
             \A m \in 1..Len(q) : m <= a \/ m > b => q[m] \in D
      PROVE  NetInv'
  <2>1. stage'[t] = s /\ stage' \in [Threads -> Stages]
    BY <1>0, <1>7 DEF Stages
  <2>2. OnlyOf(t)
    <3>1. NetTypes'
      BY <1>0, <1>3, <1>4, <1>7, <2>1 DEF NetTypes
    <3>2. Placed(t)'
      BY <1>0, <1>7, <2>1 DEF Placed, Handed, u
    <3> QED
      BY <1>0, <1>7, <2>1, <3>1, <3>2 DEF OnlyOf
  <2>3. \A o \in Threads : fd[o] # None => o # t
    BY <1>0
  <2>4. LeakInv'
    <3>1. ASSUME NEW f \in Fds, sock'[f] # None
          PROVE  f \in Pooled' \/ \E o \in Threads : fd'[o] = f /\ stage'[o] # "unregister"
      <4>1. CASE f \in Pooled
        BY <1>4, <1>6, <1>7, <3>1, <4>1
      <4>2. CASE f \notin Pooled
        <5>1. PICK o \in Threads : fd[o] = f /\ stage[o] # "unregister"
          BY <1>4, <3>1, <4>2 DEF NetInv, LeakInv
        <5> QED
          BY <1>0, <1>7, <2>3, <5>1
      <4> QED
        BY <4>1, <4>2
    <3> QED
      BY <1>5, <3>1 DEF LeakInv
  <2>5. tabOpen' /\ activeFd' # None => \E p \in Pages : fd'[p] = activeFd'
    BY <1>0, <1>7 DEF NetInv
  <2>6. ASSUME ~crossed PROVE OneOwner' /\ \A o \in Threads : ExchangeOK(o)'
    <3>1. OneOwner /\ \A o \in Threads : ExchangeOK(o)
      BY <2>6 DEF NetInv
    <3>2. \A v, w \in Urls : \A m \in 1..Len(pool'[v]), n \in 1..Len(pool'[w]) :
            pool'[v][m] = pool'[w][n] => v = w /\ m = n
      BY <1>0, <1>2, <3>1, TrimmedOnce DEF q
    <3>3. ASSUME NEW o \in Threads, fd'[o] # None, stage'[o] # "unregister"
          PROVE  /\ fd'[o] \notin Pooled'
                 /\ \A r \in Threads \ {o} : stage'[r] # "unregister" => fd'[r] # fd'[o]
                 /\ sock'[fd'[o]] # None => sock'[fd'[o]].origin = url'[o]
      <4>1. fd'[o] = fd[o] /\ o # t /\ stage[o] # "unregister" /\ fd[o] \in Fds
        BY <1>0, <1>7, <2>3, <3>3
      <4>2. \A r \in Threads \ {o} : stage'[r] # "unregister" => fd'[r] # fd'[o]
        BY <1>0, <1>7, <3>1, <3>3, <4>1 DEF OneOwner
      <4> QED
        BY <1>0, <1>3, <1>4, <3>1, <3>3, <4>1, <4>2 DEF OneOwner
    <3>4. ASSUME NEW v \in Urls, NEW f \in ToSet(pool'[v]), sock'[f] # None
          PROVE  sock'[f].origin = v /\ sock'[f].owes = None
      <4>1. f \in ToSet(pool[v]) /\ f \in Fds
        BY <1>3, <1>31
      <4> QED
        BY <1>4, <3>1, <3>4, <4>1 DEF OneOwner
    <3>5. ASSUME NEW o \in Threads PROVE ExchangeOK(o)'
      <4>1. ExchangeOK(o) /\ fd[o] \in Fds \cup {None} /\ (waiting' = waiting) /\ (fd' = fd)
        BY <1>0, <1>7, <3>1
      <4>2. o = t => stage'[o] = s /\ fd'[o] = None /\ o \notin waiting
        BY <1>0, <1>7, <2>1, <4>1 DEF ExchangeOK
      <4>3. o # t => stage'[o] = stage[o] /\ result'[o] = result[o]
        BY <1>0, <1>7
      <4>4. o \in waiting => fd[o] \in Fds
        BY <4>1 DEF ExchangeOK, NetInv, Placed, Handed
      <4> QED
        BY <1>4, <1>7, <4>1, <4>2, <4>3, <4>4 DEF ExchangeOK
    <3> QED
      BY <3>2, <3>3, <3>4, <3>5 DEF OneOwner
  <2> QED
    BY <1>0, <2>2, <2>4, <2>5, <2>6, NetKeeps
<1>8. CASE /\ UNCHANGED <<fd, result, activeFd>> /\ sock' = Closed(D)
           /\ \A m \in 1..Len(q) : m <= a \/ m > b => q[m] \in D
           /\ stage' = [stage EXCEPT ![t] = "open"]
  BY <1>0, <1>7, <1>8
<1>9. ASSUME b < Len(q), Usable(q[b + 1]), Take(t, q[b + 1], "write"),
             \A m \in 1..Len(q) : m <= a \/ m > b => q[m] \in D \/ (Wanted(t) /\ m = b + 1)
      PROVE  NetInv'
  <2>1. CASE ~Wanted(t)
    <3>1. /\ stage' = [stage EXCEPT ![t] = "ended"] /\ fd' = [fd EXCEPT ![t] = None]
          /\ activeFd' = activeFd /\ result' = [result EXCEPT ![t] = "over"]
      BY <1>9, <2>1 DEF Take
    <3>2. fd' = fd
      BY <1>0, <3>1
    <3>3. /\ result' \in [Threads -> Results] /\ result'[t] = "over"
          /\ \A o \in Threads \ {t} : result'[o] = result[o]
      BY <1>0, <3>1 DEF Results
    <3> QED
      BY <1>7, <1>9, <2>1, <3>1, <3>2, <3>3
  <2>2. CASE Wanted(t)
    <3> DEFINE g == q[b + 1]
    <3>1. g \in Fds /\ b + 1 \in 1..Len(q) /\ sock[g] # None /\ ~sock[g].stray
      BY <1>0, <1>2, <1>9 DEF Usable
    <3>2. /\ stage' = [stage EXCEPT ![t] = "write"] /\ fd' = [fd EXCEPT ![t] = g]
          /\ activeFd' = (IF t \in Pages THEN g ELSE activeFd)
          /\ result' = [result EXCEPT ![t] = "none"]
      BY <1>9, <2>2 DEF Take, Registered
    <3>3. g \in Pooled
      BY <1>0, <3>1 DEF Pooled, ToSet, q
    <3>4. \A m \in 1..Len(q) : m <= a \/ m > b => q[m] \in D \/ q[m] = g
      BY <1>9
    <3> HIDE DEF g
    <3>5. /\ stage'[t] = "write" /\ fd'[t] = g /\ result'[t] = "none"
          /\ \A o \in Threads \ {t} :
               stage'[o] = stage[o] /\ fd'[o] = fd[o] /\ result'[o] = result[o]
      BY <1>0, <3>2
    <3>6. OnlyOf(t)
      <4>1. /\ stage' \in [Threads -> Stages] /\ fd' \in [Threads -> Fds \cup {None}]
            /\ result' \in [Threads -> Results] /\ activeFd' \in Fds \cup {None}
        BY <1>0, <3>1, <3>2 DEF Stages, Results, NetTypes
      <4>2. NetTypes'
        BY <1>0, <1>3, <1>4, <4>1 DEF NetTypes
      <4>3. Placed(t)'
        BY <1>0, <3>1, <3>5 DEF Placed, Handed, u
      <4> QED
        BY <1>0, <3>5, <4>2, <4>3 DEF OnlyOf
    <3>7. LeakInv'
      <4>1. ASSUME NEW f \in Fds, sock'[f] # None
            PROVE  f \in Pooled' \/ \E o \in Threads : fd'[o] = f /\ stage'[o] # "unregister"
        <5>1. CASE f \in Pooled
          <6>1. f \in Pooled' \/ f = g
            BY <1>4, <1>6, <3>4, <4>1, <5>1
          <6> QED
            BY <3>5, <6>1
        <5>2. CASE f \notin Pooled
          <6>1. PICK o \in Threads : fd[o] = f /\ stage[o] # "unregister"
            BY <1>4, <4>1, <5>2 DEF NetInv, LeakInv
          <6>2. o # t
            BY <1>0, <6>1
          <6> QED
            BY <3>5, <6>1, <6>2
        <5> QED
          BY <5>1, <5>2
      <4> QED
        BY <1>5, <4>1 DEF LeakInv
    <3>8. tabOpen' /\ activeFd' # None => \E p \in Pages : fd'[p] = activeFd'
      <4>1. CASE t \in Pages
        BY <3>2, <3>5, <4>1
      <4>2. CASE t \notin Pages
        BY <1>0, <3>2, <3>5, <4>2 DEF NetInv, Threads
      <4> QED
        BY <4>1, <4>2
    <3>9. ASSUME ~crossed PROVE OneOwner' /\ \A o \in Threads : ExchangeOK(o)'
      <4>1. OneOwner /\ \A o \in Threads : ExchangeOK(o)
        BY <3>9 DEF NetInv
      <4>2. \A v, w \in Urls : \A m \in 1..Len(pool'[v]), n \in 1..Len(pool'[w]) :
              pool'[v][m] = pool'[w][n] => v = w /\ m = n
        BY <1>0, <1>2, <4>1, TrimmedOnce DEF q
      <4>3. g \notin Pooled'
        <5>1. SUFFICES ASSUME NEW v \in Urls, g \in ToSet(pool'[v]) PROVE FALSE
          BY DEF Pooled
        <5>2. PICK k \in 1..Len(pool'[v]) : g = pool'[v][k]
          <6>1. pool'[v] \in Seq(Fds)
            BY <1>3
          <6> QED
            BY <5>1, <6>1, InSeq
        <5>3. PICK m \in Remains(u, a, b, v) : g = pool[v][m]
          BY <1>32, <5>2
        <5>4. m \in 1..Len(pool[v]) /\ (v = u => m # b + 1)
          BY <1>0, <1>2, <5>3 DEF Remains, q
        <5>5. g = pool[u][b + 1] /\ b + 1 \in 1..Len(pool[u])
          BY <3>1 DEF g, q
        <5> HIDE DEF u
        <5> QED
          <6>1. \A v1, v2 \in Urls : \A m1 \in 1..Len(pool[v1]), m2 \in 1..Len(pool[v2]) :
                  pool[v1][m1] = pool[v2][m2] => v1 = v2 /\ m1 = m2
            BY <4>1, Zenon DEF OneOwner
          <6>2. pool[v][m] = pool[u][b + 1]
            BY <5>3, <5>5
          <6>3. v = u /\ m = b + 1
            <7>1. u \in Urls /\ v \in Urls
              BY <1>0
            <7>2. m \in 1..Len(pool[v]) /\ b + 1 \in 1..Len(pool[u])
              BY <5>4, <5>5
            <7> QED
              BY <6>1, <6>2, <7>1, <7>2, Zenon
          <6> QED
            BY <5>4, <6>3
      <4>4. ASSUME NEW o \in Threads, fd'[o] # None, stage'[o] # "unregister"
            PROVE  /\ fd'[o] \notin Pooled'
                   /\ \A r \in Threads \ {o} : stage'[r] # "unregister" => fd'[r] # fd'[o]
                   /\ sock'[fd'[o]] # None => sock'[fd'[o]].origin = url'[o]
        <5>1. \A r \in Threads \ {t} : fd[r] # None /\ stage[r] # "unregister" => fd[r] # g
          BY <3>3, <4>1 DEF OneOwner
        <5>2. CASE o = t
          <6>1. \A r \in Threads \ {o} : stage'[r] # "unregister" => fd'[r] # fd'[o]
            BY <3>5, <4>4, <5>1, <5>2
          <6>2. sock'[g] # None => sock'[g].origin = u
            <7>1. g \in ToSet(pool[u])
              BY <1>0, <3>1 DEF g, q, ToSet
            <7> QED
              BY <1>0, <1>4, <3>1, <4>1, <7>1 DEF OneOwner
          <6> QED
            BY <1>0, <3>5, <4>3, <5>2, <6>1, <6>2 DEF u
        <5>3. CASE o # t
          <6>1. fd'[o] = fd[o] /\ stage[o] # "unregister" /\ fd[o] \in Fds /\ fd[o] # g
            BY <1>0, <3>5, <4>4, <5>1, <5>3
          <6>2. \A r \in Threads \ {o} : stage'[r] # "unregister" => fd'[r] # fd'[o]
            BY <3>5, <4>1, <4>4, <5>3, <6>1 DEF OneOwner
          <6> QED
            BY <1>0, <1>3, <1>4, <4>1, <4>4, <6>1, <6>2 DEF OneOwner
        <5> QED
          BY <5>2, <5>3
      <4>5. ASSUME NEW v \in Urls, NEW f \in ToSet(pool'[v]), sock'[f] # None
            PROVE  sock'[f].origin = v /\ sock'[f].owes = None
        <5>1. f \in ToSet(pool[v]) /\ f \in Fds
          BY <1>3, <1>31
        <5> QED
          BY <1>4, <4>1, <4>5, <5>1 DEF OneOwner
      <4>6. ASSUME NEW o \in Threads PROVE ExchangeOK(o)'
        <5>1. ExchangeOK(o) /\ fd[o] \in Fds \cup {None} /\ waiting' = waiting
          BY <1>0, <4>1
        <5>2. CASE o = t
          <6>1. t \notin waiting
            BY <1>0, <5>1, <5>2 DEF ExchangeOK
          <6> QED
            BY <1>4, <3>1, <3>5, <5>1, <5>2, <6>1 DEF ExchangeOK
        <5>3. CASE o # t
          <6>1. o \in waiting => fd[o] \in Fds
            BY <5>1 DEF ExchangeOK, NetInv, Placed, Handed
          <6> QED
            BY <1>4, <3>5, <5>1, <5>3, <6>1 DEF ExchangeOK
        <5> QED
          BY <5>2, <5>3
      <4> QED
        BY <4>2, <4>4, <4>5, <4>6 DEF OneOwner
    <3> QED
      BY <1>0, <3>6, <3>7, <3>8, <3>9, NetKeeps
  <2> QED
    BY <2>1, <2>2
<1> QED
  BY <1>2, <1>8, <1>9

\* A connection is opened.  Its number was nobody's, or the last conjuncts of
\* the invariant no longer matter.
LEMMA OpenNet ==
  ASSUME NetInv, NEW t \in Threads, NEW f \in Fds, Open(t, f), Wanted(t), navs' = navs
  PROVE  NetInv'
<1> USE FetchAssumption DEF FetchAssumption
<1>0. /\ NetTypes /\ Placed(t) /\ stage[t] = "open" /\ fd[t] = None /\ url[t] \in Urls
      /\ stage \in [Threads -> Stages] /\ fd \in [Threads -> Fds \cup {None}]
      /\ result \in [Threads -> Results] /\ sock \in [Fds -> Sockets \cup {None}]
  BY DEF NetInv, NetTypes, Placed, Handed, Open
<1>1. /\ stage' = [stage EXCEPT ![t] = "connect"] /\ fd' = [fd EXCEPT ![t] = f]
      /\ activeFd' = (IF t \in Pages THEN f ELSE activeFd)
      /\ result' = [result EXCEPT ![t] = "none"]
      /\ crossed' = (crossed \/ f \in Held) /\ sock[f] = None
      /\ UNCHANGED <<pool, url, waiting, tabOpen>>
  BY DEF Open, Take, Registered
<1>2. PICK r \in Sockets : /\ r.origin = url[t] /\ r.owes = None /\ ~r.stray
                           /\ sock' = [sock EXCEPT ![f] = r]
  BY <1>0 DEF Open, Sockets
<1>3. /\ sock' \in [Fds -> Sockets \cup {None}] /\ sock'[f] = r
      /\ \A g \in Fds \ {f} : sock'[g] = sock[g]
  BY <1>0, <1>2
<1>4. /\ stage'[t] = "connect" /\ fd'[t] = f /\ result'[t] = "none"
      /\ stage' \in [Threads -> Stages] /\ fd' \in [Threads -> Fds \cup {None}]
      /\ result' \in [Threads -> Results] /\ activeFd' \in Fds \cup {None}
      /\ \A o \in Threads \ {t} :
           stage'[o] = stage[o] /\ fd'[o] = fd[o] /\ result'[o] = result[o]
  BY <1>0, <1>1 DEF Stages, Results, NetTypes
<1>5. Pooled' = Pooled /\ pool' = pool /\ url' = url /\ waiting' = waiting /\ crossed' \in BOOLEAN
  BY <1>1, <1>0 DEF Pooled, NetTypes
<1>6. OnlyOf(t)
  <2>1. NetTypes'
    BY <1>0, <1>1, <1>3, <1>4, <1>5 DEF NetTypes
  <2>2. Placed(t)'
    BY <1>0, <1>4, <1>5 DEF Placed, Handed
  <2> QED
    BY <1>0, <1>4, <1>5, <2>1, <2>2 DEF OnlyOf
<1>7. LeakInv'
  <2>1. ASSUME NEW g \in Fds, sock'[g] # None
        PROVE  g \in Pooled' \/ \E o \in Threads : fd'[o] = g /\ stage'[o] # "unregister"
    <3>1. CASE g = f
      BY <1>4, <3>1
    <3>2. CASE g # f
      BY <1>0, <1>3, <1>4, <1>5, <2>1, <3>2 DEF NetInv, LeakInv
    <3> QED
      BY <3>1, <3>2
  <2> QED
    BY <1>5, <2>1 DEF NetInv, LeakInv
<1>8. tabOpen' /\ activeFd' # None => \E p \in Pages : fd'[p] = activeFd'
  <2>1. CASE t \in Pages
    BY <1>1, <1>4, <2>1
  <2>2. CASE t \notin Pages
    BY <1>1, <1>4, <2>2 DEF NetInv, Threads
  <2> QED
    BY <2>1, <2>2
<1>9. ASSUME ~crossed' PROVE OneOwner' /\ \A o \in Threads : ExchangeOK(o)'
  <2>1. OneOwner /\ (\A o \in Threads : ExchangeOK(o) /\ fd[o] # f) /\ f \notin Pooled
    BY <1>1, <1>9 DEF NetInv, Held
  <2>2. ASSUME NEW o \in Threads, fd'[o] # None, stage'[o] # "unregister"
        PROVE  /\ fd'[o] \notin Pooled
               /\ \A p \in Threads \ {o} : stage'[p] # "unregister" => fd'[p] # fd'[o]
               /\ sock'[fd'[o]] # None => sock'[fd'[o]].origin = url[o]
    <3>1. CASE o = t
      BY <1>2, <1>3, <1>4, <2>1, <3>1
    <3>2. CASE o # t
      <4>1. fd'[o] = fd[o] /\ stage[o] # "unregister" /\ fd[o] \in Fds \ {f}
        BY <1>0, <1>4, <2>1, <2>2, <3>2
      <4>2. \A p \in Threads \ {o} : stage'[p] # "unregister" => fd'[p] # fd'[o]
        BY <1>4, <2>1, <2>2, <4>1 DEF OneOwner
      <4> QED
        BY <1>3, <2>1, <2>2, <4>1, <4>2 DEF OneOwner
    <3> QED
      BY <3>1, <3>2
  <2>3. ASSUME NEW u \in Urls, NEW g \in ToSet(pool[u]), sock'[g] # None
        PROVE  sock'[g].origin = u /\ sock'[g].owes = None
    <3>1. g \in Pooled /\ g \in Fds
      BY <1>0 DEF Pooled, NetTypes, ToSet
    <3> QED
      BY <1>3, <2>1, <2>3, <3>1 DEF OneOwner
  <2>4. OneOwner'
    BY <1>5, <2>1, <2>2, <2>3 DEF OneOwner
  <2>5. ASSUME NEW o \in Threads PROVE ExchangeOK(o)'
    <3>1. CASE o = t
      <4>1. t \notin waiting
        BY <1>0, <2>1 DEF ExchangeOK
      <4> QED
        BY <1>2, <1>3, <1>4, <1>5, <3>1, <4>1 DEF ExchangeOK
    <3>2. CASE o # t
      <4>1. fd[o] # None => fd[o] \in Fds \ {f}
        BY <1>0, <2>1
      <4>2. o \in waiting => fd[o] # None
        BY <2>1 DEF ExchangeOK, NetInv, Placed, Handed
      <4> QED
        BY <1>3, <1>4, <1>5, <2>1, <3>2, <4>1, <4>2 DEF ExchangeOK
    <3> QED
      BY <3>1, <3>2
  <2> QED
    BY <2>4, <2>5
<1> QED
  BY <1>6, <1>7, <1>8, <1>9, NetKeeps

\* A pool whose first a connections made room for number f.
Kept(u, a, f) == pool' = [pool EXCEPT ![u] = Append(SubSeq(pool[u], a + 1, Len(pool[u])), f)]

\* What is idle then.
LEMMA KeptIs ==
  ASSUME pool \in [Urls -> Seq(Fds)], NEW u \in Urls, NEW a \in 0..Len(pool[u]),
         NEW f \in Fds, Kept(u, a, f)
  PROVE  /\ pool' \in [Urls -> Seq(Fds)]
         /\ Len(pool'[u]) = Len(pool[u]) - a + 1
         /\ \A v \in Urls \ {u} : pool'[v] = pool[v]
         /\ \A v \in Urls : \A k \in 1..Len(pool'[v]) :
              \/ v = u /\ k = Len(pool'[u]) /\ pool'[v][k] = f
              \/ LET m == IF v = u THEN a + k ELSE k
                 IN  m \in 1..Len(pool[v]) /\ pool'[v][k] = pool[v][m]
         /\ \A v \in Urls : \A m \in 1..Len(pool[v]) :
              (v = u /\ m <= a) \/ pool[v][m] \in Pooled'
         /\ \A v \in Urls : \A g \in ToSet(pool'[v]) : g \in ToSet(pool[v]) \/ (v = u /\ g = f)
         /\ f \in Pooled' /\ Pooled' \subseteq Pooled \cup {f}
<1> DEFINE q == pool[u]
           n == Len(q)
           s == SubSeq(q, a + 1, n)
           r == Append(s, f)
<1>1. q \in Seq(Fds) /\ n \in Nat /\ a \in Nat /\ a <= n
  OBVIOUS
<1>2. s \in Seq(Fds) /\ Len(s) = n - a /\ \A k \in 1..n - a : s[k] = q[a + k]
  BY <1>1
<1> HIDE DEF s
<1>3. /\ r \in Seq(Fds) /\ Len(r) = n - a + 1 /\ r[n - a + 1] = f
      /\ \A k \in 1..n - a : r[k] = q[a + k]
  BY <1>1, <1>2
<1>4. pool'[u] = r /\ (\A v \in Urls \ {u} : pool'[v] = pool[v]) /\ pool' \in [Urls -> Seq(Fds)]
  BY <1>3 DEF Kept, s
<1> HIDE DEF q, r
<1>5. ASSUME NEW v \in Urls, NEW k \in 1..Len(pool'[v])
      PROVE  \/ v = u /\ k = Len(pool'[u]) /\ pool'[v][k] = f
             \/ LET m == IF v = u THEN a + k ELSE k
                IN  m \in 1..Len(pool[v]) /\ pool'[v][k] = pool[v][m]
  <2>1. CASE v = u
    <3>1. k \in 1..n - a + 1
      BY <1>3, <1>4, <1>5, <2>1
    <3>2. CASE k = n - a + 1
      BY <1>3, <1>4, <2>1, <3>2
    <3>3. CASE k \in 1..n - a
      BY <1>1, <1>3, <1>4, <2>1, <3>3 DEF q
    <3> QED
      BY <1>1, <3>1, <3>2, <3>3
  <2>2. CASE v # u
    BY <1>4, <1>5, <2>2
  <2> QED
    BY <2>1, <2>2
<1>6. f \in Pooled'
  <2>1. n - a + 1 \in 1..Len(pool'[u]) /\ pool'[u][n - a + 1] = f
    BY <1>1, <1>3, <1>4
  <2>2. pool'[u] \in Seq(Fds)
    BY <1>4
  <2>3. f \in ToSet(pool'[u])
    BY <2>1, <2>2 DEF ToSet
  <2> QED
    BY <2>3 DEF Pooled
<1>7. ASSUME NEW v \in Urls, NEW m \in 1..Len(pool[v]), ~(v = u /\ m <= a)
      PROVE  pool[v][m] \in Pooled'
  <2>1. CASE v = u
    <3>1. m - a \in 1..n - a /\ a + (m - a) = m
      BY <1>1, <1>7, <2>1 DEF q
    <3>2. r[m - a] = pool[v][m] /\ m - a \in 1..Len(pool'[u])
      BY <1>1, <1>3, <1>4, <2>1, <3>1 DEF q
    <3> QED
      BY <1>4, <3>2 DEF Pooled, ToSet
  <2>2. CASE v # u
    BY <1>4, <1>7, <2>2 DEF Pooled, ToSet
  <2> QED
    BY <2>1, <2>2
<1>8. ASSUME NEW v \in Urls, NEW g \in ToSet(pool'[v])
      PROVE  g \in ToSet(pool[v]) \/ (v = u /\ g = f)
  <2>1. PICK k \in 1..Len(pool'[v]) : g = pool'[v][k]
    <3>1. pool'[v] \in Seq(Fds)
      BY <1>4
    <3> QED
      BY <3>1, InSeq
  <2>2. \A m \in 1..Len(pool[v]) : pool[v][m] \in ToSet(pool[v])
    BY DEF ToSet
  <2>3. \/ v = u /\ pool'[v][k] = f
        \/ \E m \in 1..Len(pool[v]) : pool'[v][k] = pool[v][m]
    BY <1>5
  <2> QED
    BY <2>1, <2>2, <2>3
<1>9. Pooled' \subseteq Pooled \cup {f}
  BY <1>8 DEF Pooled
<1> QED
  BY <1>1, <1>3, <1>4, <1>5, <1>6, <1>7, <1>8, <1>9 DEF q

\* A connection is kept.
LEMMA KeepNet ==
  ASSUME NetInv, NEW t \in Threads, NEW old \in 0..MaxIdle, Finish(t, old), Keeps(t),
         navs' = navs
  PROVE  NetInv'
<1> USE FetchAssumption DEF FetchAssumption
<1> DEFINE u == url[t]
           q == pool[u]
           f == fd[t]
<1>0. /\ NetTypes /\ Placed(t) /\ stage[t] = "finish" /\ f \in Fds /\ u \in Urls
      /\ stage \in [Threads -> Stages] /\ fd \in [Threads -> Fds \cup {None}]
      /\ result \in [Threads -> Results] /\ sock \in [Fds -> Sockets \cup {None}]
      /\ pool \in [Urls -> Seq(Fds)]
      /\ q \in Seq(Fds) /\ Len(q) \in Nat /\ MaxIdle \in Nat \ {0} /\ old \in Nat
      /\ Len(q) <= MaxIdle
  <2>1. NetTypes /\ Placed(t) /\ stage[t] = "finish"
    BY DEF NetInv, Finish, Return, Goto
  <2>2. f \in Fds /\ u \in Urls
    BY <2>1 DEF NetTypes, Placed, Handed
  <2> QED
    BY <2>1, <2>2 DEF NetTypes, NetInv, LeakInv
<1>1. PICK a \in 0..Len(q) : /\ Kept(u, a, f) /\ sock' = Closed(ToSet(SubSeq(q, 1, a)))
                             /\ Len(q) - a < MaxIdle
  <2> DEFINE rest == SubSeq(q, old + 1, Len(q))
             a == old + Room(rest)
  <2>1. /\ old <= Len(q)
        /\ pool' = [pool EXCEPT ![u] = Append(SubSeq(q, a + 1, Len(q)), f)]
        /\ sock' = Closed(ToSet(SubSeq(q, 1, a)))
    BY DEF Finish
  <2>2. Len(rest) = Len(q) - old
    BY <1>0, <2>1
  <2>3. a \in 0..Len(q) /\ Len(q) - a < MaxIdle
    <3> HIDE DEF rest, q
    <3> QED
      BY <1>0, <2>1, <2>2 DEF Room
  <2> QED
    BY <2>1, <2>3 DEF Kept
<1> DEFINE D == ToSet(SubSeq(q, 1, a))
<1>2. D \in SUBSET Fds /\ \A g \in D : \E m \in 1..Len(q) : m <= a /\ g = q[m]
  <2>1. /\ SubSeq(q, 1, a) \in Seq(Fds) /\ Len(SubSeq(q, 1, a)) = a
        /\ \A m \in 1..a : SubSeq(q, 1, a)[m] = q[m] /\ m \in 1..Len(q)
    BY <1>0, <1>1
  <2>2. D = {SubSeq(q, 1, a)[m] : m \in 1..a}
    <3>1. DOMAIN SubSeq(q, 1, a) = 1..a
      BY <2>1
    <3> QED
      BY <3>1 DEF ToSet
  <2>3. ASSUME NEW g \in D PROVE g \in Fds /\ \E m \in 1..Len(q) : m <= a /\ g = q[m]
    <3>1. PICK m \in 1..a : g = SubSeq(q, 1, a)[m]
      BY <2>2
    <3> QED
      BY <1>0, <2>1, <3>1
  <2> QED
    BY <2>3
<1>3. sock' = Closed(D)
  BY <1>1
<1> HIDE DEF D, u, q, f
<1>4. /\ sock' \in [Fds -> Sockets \cup {None}]
      /\ \A g \in Fds : sock'[g] # None => g \notin D /\ sock'[g] = sock[g]
  BY <1>0, <1>3 DEF Closed
<1>5. a \in 0..Len(pool[u]) /\ Kept(u, a, f)
  BY <1>1 DEF q
<1>6. /\ pool' \in [Urls -> Seq(Fds)]
      /\ Len(pool'[u]) = Len(pool[u]) - a + 1
      /\ \A v \in Urls \ {u} : pool'[v] = pool[v]
      /\ \A v \in Urls : \A m \in 1..Len(pool[v]) :
           (v = u /\ m <= a) \/ pool[v][m] \in Pooled'
      /\ \A v \in Urls : \A g \in ToSet(pool'[v]) : g \in ToSet(pool[v]) \/ (v = u /\ g = f)
      /\ f \in Pooled' /\ Pooled' \subseteq Pooled \cup {f}
  BY <1>0, <1>5, KeptIs
<1>7. /\ stage' = [stage EXCEPT ![t] = "ended"] /\ fd' = [fd EXCEPT ![t] = None]
      /\ result' = [result EXCEPT ![t] = "over"] /\ activeFd' = Unregistered(t)
      /\ result[t] = "keep" /\ url' = url /\ waiting' = waiting /\ crossed' = crossed
      /\ tabOpen' = tabOpen
  BY <1>0 DEF Finish, Return, Goto, Keeps
<1>8. /\ stage'[t] = "ended" /\ fd'[t] = None /\ result'[t] = "over"
      /\ stage' \in [Threads -> Stages] /\ fd' \in [Threads -> Fds \cup {None}]
      /\ result' \in [Threads -> Results]
      /\ \A o \in Threads \ {t} :
           stage'[o] = stage[o] /\ fd'[o] = fd[o] /\ result'[o] = result[o]
  BY <1>0, <1>7 DEF Stages, Results
<1>9. activeFd' \in {activeFd, None} /\ (t \in Pages /\ tabOpen /\ activeFd = f => activeFd' = None)
  BY <1>7 DEF Unregistered, f
<1>10. OnlyOf(t)
  <2>1. NetTypes'
    BY <1>0, <1>4, <1>6, <1>7, <1>8, <1>9 DEF NetTypes
  <2>2. Placed(t)'
    BY <1>0, <1>7, <1>8 DEF Placed, Handed
  <2> QED
    BY <1>0, <1>7, <1>8, <2>1, <2>2 DEF OnlyOf
<1>11. LeakInv'
  <2>1. ASSUME NEW g \in Fds, sock'[g] # None
        PROVE  g \in Pooled' \/ \E o \in Threads : fd'[o] = g /\ stage'[o] # "unregister"
    <3>1. CASE g \in Pooled
      <4>1. PICK v \in Urls : g \in ToSet(pool[v])
        BY <3>1 DEF Pooled
      <4>2. PICK m \in 1..Len(pool[v]) : g = pool[v][m]
        <5>1. pool[v] \in Seq(Fds)
          BY <1>0
        <5> QED
          BY <4>1, <5>1, InSeq
      <4>3. v = u /\ m <= a => g \in D
        <5>1. ASSUME v = u, m <= a PROVE g \in D
          <6>1. m \in 1..a /\ g = q[m] /\ m \in 1..Len(q)
            BY <1>1, <4>2, <5>1 DEF q
          <6>2. /\ SubSeq(q, 1, a) \in Seq(Fds) /\ Len(SubSeq(q, 1, a)) = a
                /\ SubSeq(q, 1, a)[m] = g
            BY <1>0, <1>1, <6>1
          <6>3. m \in DOMAIN SubSeq(q, 1, a)
            BY <6>1, <6>2
          <6> QED
            BY <6>2, <6>3 DEF D, ToSet
        <5> QED
          BY <5>1
      <4> QED
        BY <1>4, <1>6, <2>1, <4>2, <4>3
    <3>2. ASSUME NEW o \in Threads, fd[o] = g, stage[o] # "unregister"
          PROVE  g \in Pooled' \/ \E p \in Threads : fd'[p] = g /\ stage'[p] # "unregister"
      <4>1. CASE o = t
        BY <1>6, <3>2, <4>1 DEF f
      <4>2. CASE o # t
        BY <1>8, <3>2, <4>2
      <4> QED
        BY <4>1, <4>2
    <3> QED
      BY <1>4, <2>1, <3>1, <3>2 DEF NetInv, LeakInv
  <2>2. ASSUME NEW v \in Urls PROVE Len(pool'[v]) <= MaxIdle
    <3>1. CASE v = u
      <4>1. Len(pool'[u]) = Len(q) - a + 1
        BY <1>6 DEF q
      <4> QED
        BY <1>0, <1>1, <3>1, <4>1
    <3>2. CASE v # u
      BY <1>6, <3>2 DEF NetInv, LeakInv
    <3> QED
      BY <3>1, <3>2
  <2> QED
    BY <2>1, <2>2 DEF LeakInv
<1>12. tabOpen' /\ activeFd' # None => \E p \in Pages : fd'[p] = activeFd'
  <2>1. SUFFICES ASSUME tabOpen', activeFd' # None PROVE \E p \in Pages : fd'[p] = activeFd'
    OBVIOUS
  <2>2. PICK p \in Pages : fd[p] = activeFd
    BY <1>7, <1>9, <2>1 DEF NetInv
  <2>3. p # t
    BY <1>7, <1>9, <2>1, <2>2 DEF f
  <2> QED
    BY <1>8, <1>9, <2>1, <2>2, <2>3 DEF Threads
<1>13. ASSUME ~crossed PROVE OneOwner' /\ \A o \in Threads : ExchangeOK(o)'
  <2>1. OneOwner /\ \A o \in Threads : ExchangeOK(o)
    BY <1>13 DEF NetInv
  <2>2. /\ f \notin Pooled /\ (\A o \in Threads \ {t} : stage[o] # "unregister" => fd[o] # f)
        /\ sock[f] # None => sock[f].origin = u /\ sock[f].owes = None
    BY <1>0, <1>7, <2>1 DEF OneOwner, ExchangeOK, f, u
  <2>3. ASSUME NEW v \in Urls, NEW w \in Urls, NEW m \in 1..Len(pool'[v]),
               NEW n \in 1..Len(pool'[w]), pool'[v][m] = pool'[w][n]
        PROVE  v = w /\ m = n
    <3> DEFINE k == IF v = u THEN a + m ELSE m
               l == IF w = u THEN a + n ELSE n
    <3>1. \/ v = u /\ m = Len(pool'[u]) /\ pool'[v][m] = f
          \/ k \in 1..Len(pool[v]) /\ pool'[v][m] = pool[v][k]
      BY <1>0, <1>5, KeptIs
    <3>2. \/ w = u /\ n = Len(pool'[u]) /\ pool'[w][n] = f
          \/ l \in 1..Len(pool[w]) /\ pool'[w][n] = pool[w][l]
      BY <1>0, <1>5, KeptIs
    <3> HIDE DEF k, l
    <3>3. \A x \in Urls : \A y \in 1..Len(pool[x]) : pool[x][y] # f
      BY <2>2 DEF Pooled, ToSet
    <3>4. CASE /\ k \in 1..Len(pool[v]) /\ pool'[v][m] = pool[v][k]
               /\ l \in 1..Len(pool[w]) /\ pool'[w][n] = pool[w][l]
      <4>1. v = w /\ k = l
        <5>1. \A v1, v2 \in Urls : \A m1 \in 1..Len(pool[v1]), m2 \in 1..Len(pool[v2]) :
                pool[v1][m1] = pool[v2][m2] => v1 = v2 /\ m1 = m2
          BY <2>1, Zenon DEF OneOwner
        <5>2. pool[v][k] = pool[w][l] /\ k \in 1..Len(pool[v]) /\ l \in 1..Len(pool[w])
          BY <2>3, <3>4
        <5> QED
          BY <5>1, <5>2, Zenon
      <4>2. a \in Int /\ m \in Int /\ n \in Int
        BY <1>5
      <4> QED
        BY <4>1, <4>2 DEF k, l
    <3> QED
      BY <2>3, <3>1, <3>2, <3>3, <3>4
  <2>4. ASSUME NEW o \in Threads, fd'[o] # None, stage'[o] # "unregister"
        PROVE  /\ fd'[o] \notin Pooled'
               /\ \A r \in Threads \ {o} : stage'[r] # "unregister" => fd'[r] # fd'[o]
               /\ sock'[fd'[o]] # None => sock'[fd'[o]].origin = url'[o]
    <3>1. o # t /\ fd'[o] = fd[o] /\ stage[o] # "unregister" /\ fd[o] \in Fds
      BY <1>0, <1>8, <2>4
    <3>2. fd[o] # f
      BY <2>2, <3>1
    <3>3. \A r \in Threads \ {o} : stage'[r] # "unregister" => fd'[r] # fd'[o]
      BY <1>8, <2>1, <2>4, <3>1 DEF OneOwner
    <3> QED
      BY <1>4, <1>6, <1>7, <2>1, <2>4, <3>1, <3>2, <3>3 DEF OneOwner
  <2>5. ASSUME NEW v \in Urls, NEW g \in ToSet(pool'[v]), sock'[g] # None
        PROVE  sock'[g].origin = v /\ sock'[g].owes = None
    <3>1. g \in ToSet(pool[v]) \/ (v = u /\ g = f)
      BY <1>6
    <3>2. g \in Fds
      BY <1>6 DEF ToSet
    <3>3. CASE g \in ToSet(pool[v])
      BY <1>4, <2>1, <2>5, <3>2, <3>3 DEF OneOwner
    <3>4. CASE v = u /\ g = f
      BY <1>4, <2>2, <2>5, <3>2, <3>4
    <3> QED
      BY <3>1, <3>3, <3>4
  <2>6. ASSUME NEW o \in Threads PROVE ExchangeOK(o)'
    <3>1. CASE o = t
      <4>1. t \notin waiting
        BY <1>0, <2>1 DEF ExchangeOK
      <4> QED
        BY <1>7, <1>8, <3>1, <4>1 DEF ExchangeOK
    <3>2. CASE o # t
      <4>1. fd[o] \in Fds \cup {None} /\ (o \in waiting => fd[o] # None)
        BY <1>0, <2>1 DEF ExchangeOK, NetInv, Placed, Handed
      <4> QED
        BY <1>4, <1>7, <1>8, <2>1, <3>2, <4>1 DEF ExchangeOK
    <3> QED
      BY <3>1, <3>2
  <2> QED
    BY <2>3, <2>4, <2>5, <2>6 DEF OneOwner
<1> QED
  BY <1>7, <1>10, <1>11, <1>12, <1>13, NetKeeps

\* A step in which no fetch with a number moves, nothing is opened, and at most
\* numbers are closed: the user interface's, and a fetch's beginning and end.
LEMMA IdleNet ==
  ASSUME NetInv, NetTypes', UNCHANGED <<pool, fd, crossed>>,
         \A f \in Fds : sock'[f] # None => sock'[f] = sock[f],
         activeFd' = None \/ (activeFd' = activeFd /\ (tabOpen' => tabOpen)),
         \A o \in Threads : fd[o] # None => stage'[o] = stage[o] /\ result'[o] = result[o] /\ url'[o] = url[o],
         \A o \in Threads : fd[o] = None =>
           /\ stage'[o] \notin Handed
           /\ stage'[o] \notin {"off", "done"} => url'[o] \in Urls,
         \A o \in Threads : result'[o] \in {result[o], "none"},
         \A o \in waiting' : o \in waiting \/ (stage[o] = "read" /\ sock'[fd[o]] = None),
         \A n \in Pages : n > navs' => stage'[n] = "off"
  PROVE  NetInv'
<1> USE FetchAssumption DEF FetchAssumption
<1>0. /\ NetTypes /\ Pooled' = Pooled /\ pool' = pool /\ fd' = fd /\ crossed' = crossed
      /\ fd \in [Threads -> Fds \cup {None}] /\ \A t \in Threads : Placed(t)
  BY DEF NetInv, NetTypes, Pooled
<1>1. ASSUME NEW o \in Threads PROVE Placed(o)'
  BY <1>0 DEF Placed, Handed
<1>2. LeakInv'
  <2>1. ASSUME NEW f \in Fds, sock'[f] # None
        PROVE  f \in Pooled' \/ \E o \in Threads : fd'[o] = f /\ stage'[o] # "unregister"
    <3>1. f \in Pooled \/ \E o \in Threads : fd[o] = f /\ stage[o] # "unregister"
      BY <2>1 DEF NetInv, LeakInv
    <3> QED
      BY <1>0, <3>1
  <2> QED
    BY <1>0, <2>1 DEF NetInv, LeakInv
<1>3. tabOpen' /\ activeFd' # None => \E p \in Pages : fd'[p] = activeFd'
  BY <1>0 DEF NetInv
<1>4. ASSUME ~crossed PROVE OneOwner' /\ \A o \in Threads : ExchangeOK(o)'
  <2>1. OneOwner /\ \A o \in Threads : ExchangeOK(o)
    BY <1>4 DEF NetInv
  <2>2. ASSUME NEW o \in Threads, fd[o] # None, stage'[o] # "unregister"
        PROVE  /\ fd[o] \notin Pooled
               /\ \A r \in Threads \ {o} : stage'[r] # "unregister" => fd[r] # fd[o]
               /\ sock'[fd[o]] # None => sock'[fd[o]].origin = url'[o]
    <3>1. stage[o] # "unregister" /\ url'[o] = url[o] /\ fd[o] \in Fds
      BY <1>0, <2>2
    <3>2. \A r \in Threads \ {o} : stage'[r] # "unregister" => fd[r] # fd[o]
      BY <1>0, <2>1, <2>2, <3>1 DEF OneOwner
    <3> QED
      BY <2>1, <2>2, <3>1, <3>2 DEF OneOwner
  <2>3. ASSUME NEW u \in Urls, NEW g \in ToSet(pool[u]), sock'[g] # None
        PROVE  sock'[g].origin = u /\ sock'[g].owes = None
    <3>1. g \in Fds
      BY <1>0 DEF NetTypes, ToSet
    <3> QED
      BY <2>1, <2>3, <3>1 DEF OneOwner
  <2>4. ASSUME NEW o \in Threads PROVE ExchangeOK(o)'
    <3>1. o \in waiting => stage[o] = "read" /\ fd[o] \in Fds /\ sock[fd[o]] = None
      BY <1>0, <2>1 DEF ExchangeOK, Placed, Handed
    <3>2. o \in waiting' => stage'[o] = "read" /\ sock'[fd[o]] = None
      <4>1. o \in waiting' => stage[o] = "read" /\ sock'[fd[o]] = None
        BY <3>1
      <4>2. stage[o] = "read" => fd[o] # None
        BY <1>0 DEF Placed, Handed
      <4> QED
        BY <4>1, <4>2
    <3>3. result'[o] # "foreign"
      BY <2>1 DEF ExchangeOK
    <3>4. fd[o] # None /\ sock'[fd[o]] # None =>
            /\ stage[o] \in {"connect", "write", "read"} => ~sock'[fd[o]].stray
            /\ stage[o] = "read" => sock'[fd[o]].owes = o
            /\ stage[o] = "finish" /\ result[o] = "keep" => sock'[fd[o]].owes = None
      BY <1>0, <2>1 DEF ExchangeOK
    <3> QED
      BY <1>0, <3>2, <3>3, <3>4 DEF ExchangeOK
  <2>5. OneOwner'
    BY <1>0, <2>1, <2>2, <2>3 DEF OneOwner
  <2> QED
    BY <2>4, <2>5
<1> QED
  BY <1>0, <1>1, <1>2, <1>3, <1>4 DEF NetInv

\* A server closes an idle connection.
LEMMA PeerNet ==
  ASSUME NetInv, NEW f \in Fds, PeerCloses(f), navs' = navs
  PROVE  NetInv'
<1>0. /\ sock \in [Fds -> Sockets \cup {None}] /\ sock[f] \in Sockets /\ NetTypes
      /\ sock' = [sock EXCEPT ![f].up = FALSE]
      /\ UNCHANGED <<pool, stage, url, fd, result, waiting, crossed, activeFd, tabOpen, navs>>
  BY DEF PeerCloses, NetInv, NetTypes, tabVars
<1>1. /\ sock' \in [Fds -> Sockets \cup {None}]
      /\ \A g \in Fds : sock[g] = None => sock'[g] = None
      /\ \A g \in Fds : sock[g] # None =>
           /\ sock'[g].origin = sock[g].origin /\ sock'[g].owes = sock[g].owes
           /\ sock'[g].stray = sock[g].stray
  <2>1. sock'[f] = [sock[f] EXCEPT !.up = FALSE] /\ \A g \in Fds \ {f} : sock'[g] = sock[g]
    BY <1>0
  <2>2. /\ sock'[f] \in Sockets /\ sock'[f].origin = sock[f].origin
        /\ sock'[f].owes = sock[f].owes /\ sock'[f].stray = sock[f].stray
    BY <1>0, <2>1 DEF Sockets
  <2>3. sock' \in [Fds -> Sockets \cup {None}]
    BY <1>0, <2>1, <2>2
  <2>4. sock[f] # None
    BY DEF PeerCloses
  <2> QED
    BY <2>1, <2>2, <2>3, <2>4
<1>2. Pooled' = Pooled /\ fd \in [Threads -> Fds \cup {None}] /\ fd' = fd
  BY <1>0 DEF Pooled, NetTypes
<1>3. NetTypes'
  BY <1>0, <1>1 DEF NetTypes
<1>4. \A t \in Threads : Placed(t)'
  BY <1>0 DEF NetInv, Placed
<1>5. LeakInv'
  <2>1. ASSUME NEW g \in Fds, sock'[g] # None
        PROVE  g \in Pooled' \/ \E o \in Threads : fd'[o] = g /\ stage'[o] # "unregister"
    BY <1>0, <1>1, <1>2, <2>1 DEF NetInv, LeakInv
  <2> QED
    BY <1>0, <2>1 DEF NetInv, LeakInv
<1>6. /\ \A n \in Pages : n > navs' => stage'[n] = "off"
      /\ tabOpen' /\ activeFd' # None => \E t \in Pages : fd'[t] = activeFd'
  BY <1>0 DEF NetInv
<1>7. ASSUME ~crossed PROVE OneOwner' /\ \A o \in Threads : ExchangeOK(o)'
  <2>1. OneOwner /\ \A o \in Threads : ExchangeOK(o)
    BY <1>7 DEF NetInv
  <2>2. ASSUME NEW o \in Threads, fd[o] # None, stage[o] # "unregister"
        PROVE  /\ fd[o] \notin Pooled
               /\ \A r \in Threads \ {o} : stage[r] # "unregister" => fd[r] # fd[o]
               /\ sock'[fd[o]] # None => sock'[fd[o]].origin = url[o]
    BY <1>1, <1>2, <2>1, <2>2 DEF OneOwner
  <2>3. ASSUME NEW u \in Urls, NEW g \in ToSet(pool[u]), sock'[g] # None
        PROVE  sock'[g].origin = u /\ sock'[g].owes = None
    <3>1. g \in Fds
      BY <1>0 DEF NetTypes, ToSet
    <3> QED
      BY <1>1, <2>1, <2>3, <3>1 DEF OneOwner
  <2>4. ASSUME NEW o \in Threads PROVE ExchangeOK(o)'
    <3>1. fd[o] \in Fds \cup {None} /\ (o \in waiting => fd[o] # None)
      BY <1>2, <2>1 DEF ExchangeOK, NetInv, Placed, Handed
    <3> QED
      BY <1>0, <1>1, <1>2, <2>1, <3>1 DEF ExchangeOK
  <2>5. OneOwner'
    BY <1>0, <1>2, <2>1, <2>2, <2>3 DEF OneOwner
  <2> QED
    BY <2>4, <2>5
<1> QED
  BY <1>0, <1>3, <1>4, <1>5, <1>6, <1>7 DEF NetInv

\* start_async_fetch: what is cancelled is closed, and a thread begins.
LEMMA StartNet ==
  ASSUME NetInv, NEW a, a.to \in Urls, Start(a)
  PROVE  NetInv'
<1> USE FetchAssumption DEF FetchAssumption
<1> DEFINE n == navs + 1
<1>0. /\ NetTypes /\ navs \in Nat /\ n \in Pages /\ n \in Threads /\ navs' = n /\ n \in 0..MaxNavs
      /\ Pages \subseteq Threads /\ Pages = 1..MaxNavs
      /\ sock \in [Fds -> Sockets \cup {None}] /\ stage \in [Threads -> Stages]
      /\ url \in [Threads -> Urls \cup {None}] /\ fd \in [Threads -> Fds \cup {None}]
  BY NavigationAssumption DEF NavigationAssumption, NetInv, NetTypes, Start, Threads
<1>1. stage[n] = "off" /\ fd[n] = None
  <2>1. stage[n] = "off"
    BY <1>0 DEF NetInv
  <2> QED
    BY <1>0, <2>1 DEF NetInv, Placed, Handed
<1>2. /\ sock' = (IF activeFd = None THEN sock ELSE Closed({activeFd})) /\ activeFd' = None
      /\ waiting' = waiting \cup {t \in Pages :
           /\ fd[t] # None /\ fd[t] = activeFd /\ stage[t] = "read"
           /\ sock[fd[t]] # None /\ sock[fd[t]].up /\ sock[fd[t]].owes = t}
      /\ stage' = [stage EXCEPT ![n] = "acquire"] /\ url' = [url EXCEPT ![n] = a.to]
      /\ UNCHANGED <<pool, fd, result, crossed, tabOpen>>
  BY DEF Start, Cancels
<1>3. /\ sock' \in [Fds -> Sockets \cup {None}]
      /\ \A f \in Fds : sock'[f] # None => sock'[f] = sock[f]
      /\ \A f \in Fds : f = activeFd => f = None \/ sock'[f] = None
  BY <1>0, <1>2 DEF Closed
<1>4. \A o \in waiting' : o \in waiting \/ (stage[o] = "read" /\ sock'[fd[o]] = None)
  <2> SUFFICES ASSUME NEW o \in waiting', o \notin waiting
               PROVE  stage[o] = "read" /\ sock'[fd[o]] = None
    OBVIOUS
  <2>1. o \in Pages /\ fd[o] # None /\ fd[o] = activeFd /\ stage[o] = "read"
    BY <1>2, Zenon
  <2>2. fd[o] \in Fds
    BY <1>0, <2>1
  <2> QED
    BY <1>3, <2>1, <2>2
<1>5. /\ stage' \in [Threads -> Stages] /\ url' \in [Threads -> Urls \cup {None}]
      /\ stage'[n] = "acquire" /\ url'[n] = a.to
      /\ \A o \in Threads \ {n} : stage'[o] = stage[o] /\ url'[o] = url[o]
  BY <1>0, <1>2 DEF Stages
<1>6. waiting' \in SUBSET Pages /\ activeFd' \in Fds \cup {None}
  BY <1>0, <1>2 DEF NetTypes
<1> HIDE DEF n
<1>7. NetTypes'
  BY <1>0, <1>2, <1>3, <1>5, <1>6 DEF NetTypes
<1>8. \A m \in Pages : m > navs' => stage'[m] = "off"
  <2> SUFFICES ASSUME NEW m \in Pages, m > navs' PROVE stage'[m] = "off"
    OBVIOUS
  <2>1. m # n /\ m > navs /\ m \in Threads
    BY <1>0 DEF n
  <2> QED
    BY <1>5, <2>1 DEF NetInv
<1>9. \A o \in Threads : fd[o] # None => stage'[o] = stage[o] /\ result'[o] = result[o] /\ url'[o] = url[o]
  BY <1>1, <1>2, <1>5
<1>10. ASSUME NEW o \in Threads, fd[o] = None
       PROVE  /\ stage'[o] \notin Handed
              /\ stage'[o] \notin {"off", "done"} => url'[o] \in Urls
  BY <1>5, <1>10 DEF NetInv, Placed, Handed
<1>11. UNCHANGED <<pool, fd, crossed>> /\ \A o \in Threads : result'[o] \in {result[o], "none"}
  BY <1>2
<1> QED
  BY <1>2, <1>3, <1>4, <1>7, <1>8, <1>9, <1>10, <1>11, IdleNet

\* The tab is closed.
LEMMA CloseNet ==
  ASSUME NetInv, CloseTab
  PROVE  NetInv'
<1> USE FetchAssumption DEF FetchAssumption
<1>1. /\ sock' = (IF activeFd = None THEN sock ELSE Closed({activeFd})) /\ activeFd' = None
      /\ waiting' = waiting \cup {t \in Pages :
           /\ fd[t] # None /\ fd[t] = activeFd /\ stage[t] = "read"
           /\ sock[fd[t]] # None /\ sock[fd[t]].up /\ sock[fd[t]].owes = t}
      /\ tabOpen' = FALSE /\ NetTypes /\ fd \in [Threads -> Fds \cup {None}]
      /\ UNCHANGED <<pool, stage, url, fd, result, crossed, navs>>
  BY DEF CloseTab, Cancels, uiVars, NetInv, NetTypes
<1>2. /\ sock' \in [Fds -> Sockets \cup {None}]
      /\ \A f \in Fds : sock'[f] # None => sock'[f] = sock[f]
      /\ \A f \in Fds : f = activeFd => f = None \/ sock'[f] = None
  BY <1>1 DEF Closed, NetTypes
<1>3. NetTypes'
  <2>1. waiting' \in SUBSET Pages
    BY <1>1 DEF NetTypes
  <2> QED
    BY <1>1, <1>2, <2>1 DEF NetTypes
<1>6. \A o \in waiting' : o \in waiting \/ (stage[o] = "read" /\ sock'[fd[o]] = None)
  <2> SUFFICES ASSUME NEW o \in waiting', o \notin waiting
               PROVE  stage[o] = "read" /\ sock'[fd[o]] = None
    OBVIOUS
  <2>1. o \in Pages /\ fd[o] # None /\ fd[o] = activeFd /\ stage[o] = "read"
    BY <1>1, Zenon
  <2>2. fd[o] \in Fds
    BY <1>1, <2>1 DEF Threads
  <2> QED
    BY <1>2, <2>1, <2>2
<1>4. ASSUME NEW o \in Threads, fd[o] = None
      PROVE  /\ stage'[o] \notin Handed
             /\ stage'[o] \notin {"off", "done"} => url'[o] \in Urls
  BY <1>1, <1>4 DEF NetInv, Placed
<1>5. \A m \in Pages : m > navs' => stage'[m] = "off"
  BY <1>1 DEF NetInv
<1> QED
  BY <1>1, <1>2, <1>3, <1>4, <1>5, <1>6, IdleNet

\* A fetch begins, where the last one ended or on a thread of its own.
LEMMA RequestNet ==
  ASSUME NetInv, NEW t \in Threads, NEW u \in Urls, NEW from \in {"ended", "off"},
         Request(t, u, from), t \in Pages => from = "ended",
         UNCHANGED <<sock, tabOpen, activeFd, navs>>
  PROVE  NetInv'
<1> USE FetchAssumption DEF FetchAssumption
<1>1. /\ stage[t] = from /\ stage' = [stage EXCEPT ![t] = "acquire"]
      /\ url' = [url EXCEPT ![t] = u] /\ result' = [result EXCEPT ![t] = "none"]
      /\ UNCHANGED <<pool, fd, waiting, crossed>> /\ NetTypes
  BY DEF Request, Goto, NetInv
<1>2. /\ stage' \in [Threads -> Stages] /\ url' \in [Threads -> Urls \cup {None}]
      /\ result' \in [Threads -> Results]
      /\ stage'[t] = "acquire" /\ url'[t] = u /\ result'[t] = "none"
      /\ \A o \in Threads \ {t} : stage'[o] = stage[o] /\ url'[o] = url[o] /\ result'[o] = result[o]
  BY <1>1 DEF Stages, Results, NetTypes
<1>3. NetTypes'
  BY <1>1, <1>2 DEF NetTypes
<1>4. fd[t] = None
  BY <1>1 DEF NetInv, Placed, Handed
<1>5. \A o \in Threads : fd[o] # None => stage'[o] = stage[o] /\ result'[o] = result[o] /\ url'[o] = url[o]
  BY <1>2, <1>4
<1>6. ASSUME NEW o \in Threads, fd[o] = None
      PROVE  /\ stage'[o] \notin Handed
             /\ stage'[o] \notin {"off", "done"} => url'[o] \in Urls
  BY <1>2, <1>6 DEF NetInv, Placed, Handed
<1>7. ASSUME NEW m \in Pages, m > navs' PROVE stage'[m] = "off"
  <2>1. m \in Threads /\ stage[m] = "off"
    BY <1>7 DEF NetInv, Threads
  <2>2. m # t
    BY <1>1, <2>1
  <2> QED
    BY <1>2, <2>1, <2>2
<1>8. \A o \in Threads : result'[o] \in {result[o], "none"}
  BY <1>2
<1> QED
  BY <1>1, <1>3, <1>5, <1>6, <1>7, <1>8, IdleNet

\* A thread returns.
LEMMA ExitNet ==
  ASSUME NetInv, NEW t \in Threads, Exit(t), navs' = navs
  PROVE  NetInv'
<1> USE FetchAssumption DEF FetchAssumption
<1>1. /\ stage[t] = "ended" /\ stage' = [stage EXCEPT ![t] = "done"]
      /\ url' = [url EXCEPT ![t] = None] /\ result' = [result EXCEPT ![t] = "none"]
      /\ UNCHANGED <<sock, pool, fd, waiting, crossed, tabOpen, activeFd>> /\ NetTypes
  BY DEF Exit, Goto, NetInv, tabVars
<1>2. /\ stage' \in [Threads -> Stages] /\ url' \in [Threads -> Urls \cup {None}]
      /\ result' \in [Threads -> Results]
      /\ stage'[t] = "done" /\ result'[t] = "none"
      /\ \A o \in Threads \ {t} : stage'[o] = stage[o] /\ url'[o] = url[o] /\ result'[o] = result[o]
  BY <1>1 DEF Stages, Results, NetTypes
<1>3. NetTypes'
  BY <1>1, <1>2 DEF NetTypes
<1>4. fd[t] = None
  BY <1>1 DEF NetInv, Placed, Handed
<1>5. \A o \in Threads : fd[o] # None => stage'[o] = stage[o] /\ result'[o] = result[o] /\ url'[o] = url[o]
  BY <1>2, <1>4
<1>6. ASSUME NEW o \in Threads, fd[o] = None
      PROVE  /\ stage'[o] \notin Handed
             /\ stage'[o] \notin {"off", "done"} => url'[o] \in Urls
  BY <1>2, <1>6 DEF NetInv, Placed, Handed
<1>7. ASSUME NEW m \in Pages, m > navs' PROVE stage'[m] = "off"
  <2>1. m \in Threads /\ stage[m] = "off"
    BY <1>7 DEF NetInv, Threads
  <2>2. m # t
    BY <1>1, <2>1
  <2> QED
    BY <1>2, <2>1, <2>2
<1>8. \A o \in Threads : result'[o] \in {result[o], "none"}
  BY <1>2
<1> QED
  BY <1>1, <1>3, <1>5, <1>6, <1>7, <1>8, IdleNet

\* It holds at the start ...
LEMMA NetInit == Init => NetInv
<1> SUFFICES ASSUME Init PROVE NetInv
  OBVIOUS
<1> USE FetchAssumption DEF FetchAssumption
<1>1. /\ sock = [f \in Fds |-> None] /\ pool = [u \in Urls |-> << >>]
      /\ stage = [t \in Threads |-> "off"] /\ url = [t \in Threads |-> None]
      /\ fd = [t \in Threads |-> None] /\ result = [t \in Threads |-> "none"]
      /\ tabOpen = TRUE /\ activeFd = None /\ waiting = {} /\ crossed = FALSE /\ navs = 0
  BY DEF Init, FetchInit
<1>2. NetTypes
  <2>1. 0 \in 0..MaxNavs
    BY NavigationAssumption DEF NavigationAssumption
  <2>2. /\ sock \in [Fds -> Sockets \cup {None}] /\ pool \in [Urls -> Seq(Fds)]
        /\ fd \in [Threads -> Fds \cup {None}] /\ url \in [Threads -> Urls \cup {None}]
    BY <1>1
  <2>3. stage \in [Threads -> Stages] /\ result \in [Threads -> Results]
    BY <1>1 DEF Stages, Results
  <2> QED
    BY <1>1, <2>1, <2>2, <2>3 DEF NetTypes
<1>3. /\ \A u \in Urls : pool[u] = << >> /\ Len(pool[u]) = 0 /\ ToSet(pool[u]) = {}
      /\ \A f \in Fds : sock[f] = None
      /\ \A t \in Threads : stage[t] = "off" /\ fd[t] = None /\ result[t] = "none"
  BY <1>1 DEF ToSet
<1>4. OneOwner /\ LeakInv
  BY <1>3 DEF OneOwner, LeakInv
<1>5. \A t \in Threads : Placed(t) /\ ExchangeOK(t)
  BY <1>1, <1>3 DEF Placed, Handed, ExchangeOK
<1> QED
  BY <1>1, <1>2, <1>3, <1>4, <1>5 DEF NetInv, Threads

\* ... and every step preserves it.
LEMMA NetNext == NetInv /\ NavInv /\ [Next]_vars => NetInv'
<1> SUFFICES ASSUME NetInv, NavInv, [Next]_vars PROVE NetInv'
  OBVIOUS
<1>0. current \in Urls /\ Pages \subseteq Threads /\ Loads \subseteq Threads
  BY DEF NavInv, NavTypes, Threads
<1>1. ASSUME NEW t \in Threads, FetchStep(t), UNCHANGED uiVars PROVE NetInv'
  <2>0. navs' = navs
    BY <1>1 DEF uiVars
  <2>1. ASSUME NEW old \in 0..MaxIdle, Acquire(t, old) PROVE NetInv'
    BY <2>0, <2>1, AcquireNet
  <2>2. ASSUME NEW old \in 0..MaxIdle, Finish(t, old) PROVE NetInv'
    <3>1. CASE Keeps(t)
      BY <2>0, <2>2, <3>1, KeepNet
    <3>2. CASE ~Keeps(t)
      <4>1. Finish(t, 0)
        <5>1. old = 0
          BY <2>2, <3>2 DEF Finish
        <5> QED
          BY <2>2, <5>1
      <4> QED
        BY <2>0, <3>2, <4>1, QuietFetch
    <3> QED
      BY <3>1, <3>2
  <2>3. ASSUME NEW f \in Fds, Open(t, f) PROVE NetInv'
    BY <2>0, <2>3, OpenNet, QuietFetch
  <2> QED
    BY <1>1, <2>0, <2>1, <2>2, <2>3, QuietFetch DEF FetchStep
<1>2. ASSUME NEW a \in Typed, Navigate(a) PROVE NetInv'
  <2>1. a.to \in Urls
    BY NavigationAssumption DEF NavigationAssumption
  <2> QED
    BY <1>2, <2>1, StartNet DEF Navigate
<1>4. CASE Depart
  <2> DEFINE a == [to |-> asked, fallback |-> None]
  <2>1. a.to \in Urls /\ Start(a)
    BY <1>4 DEF Depart, NavInv, NavTypes
  <2> QED
    BY <2>1, StartNet
<1>5. CASE CloseTab
  BY <1>5, CloseNet
<1>6. ASSUME NEW t \in Pages, FallBack(t) PROVE NetInv'
  <2>1. /\ Request(t, fallback[t], "ended") /\ fallback[t] \in Urls
        /\ UNCHANGED <<sock, tabOpen, activeFd, navs>>
    BY <1>6 DEF FallBack, FallsBack, NavInv, NavTypes
  <2> QED
    BY <1>0, <2>1, RequestNet
<1>7. ASSUME NEW t \in Pages, End(t) PROVE NetInv'
  BY <1>0, <1>7, ExitNet DEF End
<1>8. ASSUME NEW b \in Loads, LoadEnds(b) PROVE NetInv'
  BY <1>0, <1>8, ExitNet DEF LoadEnds, uiVars
<1>9. ASSUME NEW b \in Loads, NEW u \in Linked, Load(b, u) PROVE NetInv'
  <2>1. /\ Request(b, u, "off") /\ u \in Urls /\ b \notin Pages /\ b \in Threads
        /\ UNCHANGED <<sock, tabOpen, activeFd, navs>>
    BY <1>0, <1>9, NavigationAssumption, FetchAssumption
       DEF NavigationAssumption, FetchAssumption, Load, tabVars, uiVars
  <2> QED
    BY <2>1, RequestNet
<1>10. ASSUME NEW f \in Fds, PeerCloses(f), UNCHANGED uiVars PROVE NetInv'
  BY <1>10, PeerNet DEF uiVars
<1>11. ASSUME UNCHANGED <<netVars, tabOpen, activeFd, navs>> PROVE NetInv'
  <2>1. UNCHANGED <<sock, pool, stage, url, fd, result, waiting, crossed, tabOpen, activeFd, navs>>
    BY <1>11 DEF netVars
  <2>2. NetTypes' /\ LeakInv' /\ OneOwner' = OneOwner /\ \A t \in Threads : Placed(t)'
    BY <2>1 DEF NetInv, NetTypes, LeakInv, OneOwner, Pooled, Placed
  <2>3. \A t \in Threads : ExchangeOK(t)' = ExchangeOK(t)
    BY <2>1 DEF ExchangeOK
  <2> QED
    BY <2>1, <2>2, <2>3 DEF NetInv
<1>12. CASE Swap \/ Reload \/ Look
  BY <1>11, <1>12 DEF Swap, Reload, Look, tabVars
<1>13. ASSUME NEW i \in 1..(MaxNavs + Len(Past)), Travel(i) PROVE NetInv'
  BY <1>11, <1>13 DEF Travel, tabVars
<1>14. CASE UNCHANGED vars
  BY <1>11, <1>14 DEF vars, uiVars, tabVars
<1> QED
  BY <1>0, <1>1, <1>2, <1>4, <1>5, <1>6, <1>7, <1>8, <1>9, <1>10, <1>12, <1>13, <1>14
     DEF Next, PageStep, Fetch

\* The invariant of the connections, beside that of the navigations.
LEMMA Connections == Spec => []NetInv
<1>1. Init => NetInv /\ NavInv
  BY NetInit, NavInit
<1>2. (NetInv /\ NavInv) /\ [Next]_vars => (NetInv /\ NavInv)'
  BY NetNext, NavNext
<1> QED
  BY <1>1, <1>2, PTL DEF Spec

\* Whatever is cancelled, given out again or retried, no open descriptor is
\* forgotten, and no origin's pool grows past kMaxPerOrigin.
THEOREM NothingLeaks == Spec => []NoLeak
<1>1. ASSUME NetInv PROVE NoLeak
  <2>1. \A f \in Fds : sock[f] # None => f \in Held
    BY <1>1 DEF NetInv, LeakInv, Held
  <2> QED
    BY <1>1, <2>1 DEF NoLeak, NetInv, LeakInv
<1> QED
  BY <1>1, Connections, PTL

\* active_socket_fd is a descriptor of the tab's own fetches, and while none was
\* given out under its old owner every connection has one owner.
THEOREM OneOwnerEach == Spec => []OwnConnection
<1>1. NetInv => OwnConnection
  BY DEF NetInv, OwnConnection
<1> QED
  BY <1>1, Connections, PTL

\* What a fetch reads answers its own request, under the same condition.
THEOREM AnswersAreOwn == Spec => []OwnAnswer
<1>1. NetInv => OwnAnswer
  BY DEF NetInv, OwnAnswer, ExchangeOK
<1> QED
  BY <1>1, Connections, PTL

\* Every variable stays within its type.
THEOREM TypesHold == Spec => []TypeOK
<1>1. NavInv /\ RetryInv /\ NetInv => TypeOK
  <2> SUFFICES ASSUME NavInv, RetryInv, NetInv PROVE TypeOK
    OBVIOUS
  <2>1. NavTypes /\ RetryTypes /\ NetTypes
    BY DEF NavInv, RetryInv, NetInv
  <2>2. sent \in [Threads -> Seq(BOOLEAN)]
    <3>1. Histories \subseteq Seq(BOOLEAN)
      BY DEF Histories
    <3> QED
      BY <2>1, <3>1 DEF RetryTypes
  <2>3. FetchTypeOK
    BY <2>1, <2>2 DEF FetchTypeOK, NavTypes, RetryTypes, NetTypes
  <2>4. DOMAIN history = 1..Len(history)
    BY <2>1 DEF NavTypes
  <2> QED
    BY <2>1, <2>3, <2>4 DEF TypeOK, NavTypes
<1> QED
  BY <1>1, Connections, NavInit, NavNext, RetrySafe, PTL DEF Spec

-----------------------------------------------------------------------------
\* The browser's parts run as they do alone.
LEMMA PartsRun == BrowserSpec => Spec /\ ScriptsSpec /\ StoresSpec
<1>1. BrowserInit => Init /\ ScriptsInit /\ StoresInit
  BY DEF BrowserInit
<1>2. [BrowserNext]_browserVars =>
        [Next]_vars /\ [ScriptsNext]_scriptVars /\ [StoresNext]_storeVars
  BY DEF BrowserNext, browserVars
<1> QED
  BY <1>1, <1>2, PTL DEF BrowserSpec, Spec, ScriptsSpec, StoresSpec

\* Every variable of the browser stays within its type, and its stores within
\* their limits.
THEOREM BrowserTyped == BrowserSpec => []BrowserTypeOK
<1>1. TypeOK /\ ScriptsTypeOK /\ StoresTypeOK => BrowserTypeOK
  BY DEF BrowserTypeOK
<1> QED
  BY <1>1, PartsRun, TypesHold, ScriptsTyped, StoresTyped, PTL
===========================================================================
