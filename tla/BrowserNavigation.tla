-------------------------- MODULE BrowserNavigation --------------------------
(***************************************************************************)
(* A browser tab: start_async_fetch of src/src/browser/fetcher.cpp, whose  *)
(* fetch threads find out by comparing URLs whether they were superseded,  *)
(* and the part of the user interface thread in browser.cpp that starts    *)
(* navigations, moves in the tab's history, swaps pages in and closes the  *)
(* tab.  Composed with BrowserFetch, which carries the fetches out.        *)
(***************************************************************************)
EXTENDS BrowserFetch

CONSTANTS
  Typed,     \* what is navigated to: [to : Urls, fallback : Urls \cup {None}],
             \* the fallback being there where the scheme was guessed
  Linked,    \* what pages link to as subresources, images and scripts
  Past,      \* the tab's history at the start, of fetches long over
  MaxNavs    \* bound: navigations of a run

ASSUME NavigationAssumption ==
  /\ Typed \subseteq [to : Urls, fallback : Urls \cup {None}]
  /\ \A a \in Typed : a.fallback # None => a.to \in Secure /\ a.fallback \notin Secure
  /\ Linked \subseteq Urls
  /\ Past \in Seq(Urls) \ {<< >>} /\ MaxNavs \in Nat /\ Pages = 1..MaxNavs

VARIABLES
  navs,      \* navigations so far: the n-th runs on thread n
  fallback,  \* [Pages -> ...], fallback_url while it may still be used
  history,   \* navigation_history
  index,     \* history_index, from 1
  moving,    \* between a change of history_index and its start_async_fetch
  asked,     \* what start_async_fetch was given, until it has fetch_mutex
  fetching,  \* is_fetching
  ready,     \* new_page_ready
  arrived,   \* active_page, a page or an error: the URL it is of
  shown,     \* the URL the page on display is of
  overtaken  \* history: the entry travelled to was rewritten after it was read

askVars == <<moving, asked, overtaken>>
uiVars == <<navs, fallback, history, index, askVars, fetching, ready, arrived, shown>>
vars == <<netVars, tabVars, uiVars>>

Init ==
  /\ FetchInit /\ current = Last(Past)
  /\ navs = 0
  /\ fallback = [n \in Pages |-> None]
  /\ history = Past /\ index = Len(Past)
  /\ moving = FALSE /\ asked = None /\ overtaken = FALSE
  /\ fetching = FALSE /\ ready = FALSE
  /\ arrived = Last(Past) /\ shown = Last(Past)

-----------------------------------------------------------------------------
(* The user interface thread.                                              *)

\* No start_async_fetch is on its way to fetch_mutex.
Free == ~moving /\ asked = None

\* The tab's descriptor is closed, under a recv() that may be waiting on it.
Cancels ==
  /\ sock' = IF activeFd = None THEN sock ELSE Closed({activeFd})
  /\ waiting' = waiting \cup {t \in Pages :
       /\ fd[t] # None /\ fd[t] = activeFd /\ stage[t] = "read"
       /\ sock[fd[t]] # None /\ sock[fd[t]].up /\ sock[fd[t]].owes = t}
  /\ activeFd' = None

\* What start_async_fetch does to the tab and to the network: the descriptor
\* of the fetch in progress is closed, a new thread started.
Start(a) ==
  LET n == navs + 1 IN
  /\ tabOpen /\ navs < MaxNavs
  /\ navs' = n
  /\ Cancels
  /\ ready' = FALSE /\ fetching' = TRUE /\ current' = a.to
  /\ fallback' = [fallback EXCEPT ![n] = a.fallback]
  /\ stage' = [stage EXCEPT ![n] = "acquire"]
  /\ url' = [url EXCEPT ![n] = a.to]
  /\ UNCHANGED <<pool, fd, reused, result, sent, crossed, tabOpen, arrived, shown>>

\* The entries after the present one are dropped, the new one is the last.
EntryAdded(u) ==
  /\ history' = Append(SubSeq(history, 1, index), u)
  /\ index' = Len(history')
  /\ overtaken' = FALSE

\* A typed address, a link, a script's navigation.
Navigate(a) ==
  /\ Free
  /\ Start(a)
  /\ EntryAdded(a.to)
  /\ UNCHANGED <<moving, asked>>

\* The reload button, there while nothing is being fetched, reads current_url
\* without fetch_mutex.
Reload ==
  /\ tabOpen /\ Free /\ ~fetching /\ navs < MaxNavs
  /\ asked' = current
  /\ UNCHANGED <<netVars, tabVars, navs, fallback, history, index, moving, overtaken,
                 fetching, ready, arrived, shown>>

\* Back and forward change history_index without it ...
Travel(i) ==
  /\ tabOpen /\ Free /\ navs < MaxNavs
  /\ i \in {index - 1, index + 1} \cap DOMAIN history
  /\ index' = i
  /\ moving' = TRUE
  /\ UNCHANGED <<netVars, tabVars, navs, fallback, history, asked, overtaken, fetching,
                 ready, arrived, shown>>

\* ... read the entry without it ...
Look ==
  /\ moving /\ asked = None
  /\ asked' = history[index]
  /\ overtaken' = FALSE
  /\ UNCHANGED <<netVars, tabVars, navs, fallback, history, index, moving, fetching,
                 ready, arrived, shown>>

\* ... and start_async_fetch takes it after that.
Depart ==
  /\ asked # None
  /\ Start([to |-> asked, fallback |-> None])
  /\ moving' = FALSE /\ asked' = None
  /\ \/ moving /\ UNCHANGED <<history, index, overtaken>>
     \/ ~moving /\ EntryAdded(asked)

\* The frame loop finds new_page_ready and puts the page, or an error, on.
Swap ==
  /\ tabOpen /\ Free /\ ready
  /\ ready' = FALSE /\ fetching' = FALSE
  /\ shown' = arrived
  /\ UNCHANGED <<netVars, tabVars, navs, fallback, history, index, askVars, arrived>>

\* The tab's button: its fetch is cancelled and the tab erased.
CloseTab ==
  /\ tabOpen /\ Free
  /\ tabOpen' = FALSE
  /\ Cancels
  /\ UNCHANGED <<pool, stage, url, fd, reused, result, sent, crossed, current, uiVars>>

-----------------------------------------------------------------------------
(* The navigation's thread once perform_fetch has returned.                *)

\* A guessed star:// that could not be connected to, nor failed in the handshake.
FallsBack(t) == fallback[t] # None /\ result[t] = "refused"

\* Mutant: the fallback leaves the history entry alone.
EntryKept(t) == history

\* The history entry follows the address.
EntryReplaced(t) ==
  IF history[index] = url[t]
  THEN [history EXCEPT ![index] = fallback[t]] ELSE history

\* Not superseded: the address becomes the fallback, which is fetched next.
FallBack(t) ==
  /\ stage[t] = "ended" /\ FallsBack(t)
  /\ tabOpen /\ current = url[t]
  /\ current' = fallback[t]
  /\ history' = EntryReplaced(t)
  /\ overtaken' = (overtaken \/ (moving /\ asked # None /\ history' # history))
  /\ Request(t, fallback[t], "ended")
  /\ fallback' = [fallback EXCEPT ![t] = None]
  /\ UNCHANGED <<sock, tabOpen, activeFd, navs, index, moving, asked, fetching, ready,
                 arrived, shown>>

\* Mutant: a result is taken whatever the tab has moved on to.
DeliveredAnyway(t) == tabOpen

\* Mutant: and it is the latest navigation's.
DeliveredByLatest(t) == tabOpen /\ url[t] = current /\ t = navs

\* The tab is there and still at the URL that was fetched.
Delivered(t) == tabOpen /\ url[t] = current

\* The thread ends: as superseded before its fallback, or after its page and
\* the subresources are in, with or without delivering it.
End(t) ==
  /\ stage[t] = "ended"
  /\ FallsBack(t) => ~(tabOpen /\ current = url[t])
  /\ Exit(t)
  /\ fallback' = [fallback EXCEPT ![t] = None]
  /\ IF Delivered(t) /\ ~FallsBack(t)
     THEN /\ ready' = TRUE
          /\ arrived' = url[t]
     ELSE UNCHANGED <<ready, arrived>>
  /\ UNCHANGED <<navs, history, index, askVars, fetching, shown>>

\* A subresource, image or script fetch of a page put together or shown.
Load(b, u) ==
  /\ tabOpen
  /\ Request(b, u, "off")
  /\ UNCHANGED <<sock, tabVars, uiVars>>

LoadEnds(b) == Exit(b) /\ UNCHANGED uiVars

-----------------------------------------------------------------------------
Fetch(t) == FetchStep(t) /\ UNCHANGED uiVars
PageStep(t) == Fetch(t) \/ FallBack(t) \/ End(t)

Next ==
  \/ \E a \in Typed : Navigate(a)
  \/ Reload \/ Look \/ Depart \/ Swap \/ CloseTab
  \/ \E i \in 1..(MaxNavs + Len(Past)) : Travel(i)
  \/ \E t \in Pages : PageStep(t)
  \/ \E b \in Loads : Fetch(b) \/ LoadEnds(b) \/ \E u \in Linked : Load(b, u)
  \/ \E f \in Fds : PeerCloses(f) /\ UNCHANGED uiVars

Spec == Init /\ [][Next]_vars

-----------------------------------------------------------------------------
TypeOK ==
  /\ FetchTypeOK
  /\ navs \in 0..MaxNavs
  /\ fallback \in [Pages -> Urls \cup {None}]
  /\ history \in Seq(Urls) /\ index \in DOMAIN history
  /\ moving \in BOOLEAN /\ asked \in Urls \cup {None} /\ overtaken \in BOOLEAN
  /\ fetching \in BOOLEAN /\ ready \in BOOLEAN
  /\ arrived \in Urls /\ shown \in Urls

\* While the spinner turns, a page has arrived or some thread is left that will
\* deliver one for the tab's address: superseding never drops every fetch.
SomeoneDelivers ==
  tabOpen /\ fetching /\ ~ready =>
    \E t \in 1..navs : stage[t] \notin {"off", "done"} /\ url[t] = current

\* The present history entry is the tab's address whatever falls back, comes
\* late or is travelled to in between, unless a fallback rewrote an entry after
\* back or forward had read it and before they had fetch_mutex: the tab is then
\* at the address read, and stays there, with the fallback in its history, until
\* the next navigation.
HistoryTracksAddress ==
  tabOpen /\ ~moving /\ ~overtaken => history[index] = current

\* A page is of the address it arrives under, or of the guess that address has
\* replaced.
PageOfAddress ==
  /\ ready => \/ arrived = current
              \/ [to |-> arrived, fallback |-> current] \in Typed
  /\ ~fetching =>
       \/ shown = current
       \/ [to |-> shown, fallback |-> current] \in Typed

\* The page on display is the one at the tab's address once nothing is being
\* fetched: what a superseded thread finds out no longer matters.
ShownAtAddress == tabOpen /\ ~fetching => shown = current
=============================================================================
