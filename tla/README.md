# Starweb in TLA+

Starweb is a small web of its own: a protocol (STWP, plain as `moon://`, over
TLS as `star://`), a desktop browser, a static server, a reverse proxy, a
command-line client, a Python package and a DNS server. These modules model the
parts whose correctness depends on the order in which threads, peers, timers and
crashes act, and the pure algorithms that are easy to get wrong at a boundary.
TLC checks them on small instances; TLAPS proves theorems about the proxy's
connection life cycle, its upstream groups and its forwarding, the browser's
navigations, retries and connections, a page's scripts, the stores kept across runs,
the media cache, byte ranges and routing for every value of the constants.

Paths below are relative to `src/`.

## 1. Inventory

| Part | State | Operations | Interacts with | Hard | Correct means |
|---|---|---|---|---|---|
| Proxy sessions, reload, shutdown (`src/proxy/proxy.cpp`, `main.cpp`) | `g_shutting_down`, `g_generation`, `g_active`, `g_idle`, `g_runtime`; per session `buf_`, `keep_alive_` | accept, handshake, `handle_one`, `reload`, `begin_shutdown`, drain | clients; one detached thread per connection; signals | flag and idle set read by many threads; raw descriptors in a shared set | shutdown reaches every idle session, nobody mid-request is cut, stale sessions end, a clean exit loses nobody |
| Upstream groups (`src/proxy/upstream.cpp`) | per peer: `current_weight`, `fails`, window, `down_until`, idle pool | `pick`, `report`, `take_idle`, `park` | all sessions of a Runtime, under one mutex | eligibility changes between rounds; failures of many sessions in one counter | shares follow weights, nobody starves, nobody is down without cause, pools bounded |
| Forwarding (`Session::forward`, `relay`) | `tried`, connection in hand, `reused`, `sent`, read status | fail-over, stale retry, relay, reuse | upstream servers that close, stall or misbehave | retry of what may have been done; leftovers on a reused connection | a POST happens at most once, responses are not mixed up, every request ends |
| Media cache (`src/browser/media_source.cpp`, `make_media_player`, `prune_media_cache`) | sparse file and `.ranges` index on disk; held chunks, cursor, waiters, failed/cancel flags | probe, open, fetch, publish, save, `read_at`, `hint_seek`, close, prune | worker thread, decoder threads, UI thread, server; crashes | crash between file and index; publish before flush; waits on two conditions | disk never claims what it lacks, reads return, destruction never hangs, nothing is fetched twice |
| Browser network layer (`fetcher.cpp`, `conn_pool.cpp`) | pool of idle connections per origin; per fetch a descriptor, `reused` | `perform_request`, `open_connection`, `run_exchange`, `acquire`, `release` | every fetch thread; the UI thread, which closes descriptors; servers | retry on a dead pooled connection; descriptor numbers that are given out again | one owner per connection, answers match requests, nothing is sent three times, no descriptor leaks |
| Browser navigation (`browser.cpp`, `fetcher.cpp`) | per tab: `current_url`, `active_socket_fd`, `active_page`, history and its index | navigate, supersede, cancel, fall back to `moon://`, back/forward, swap, close | UI thread and fetch threads under `fetch_mutex` | a result is matched to its navigation by URL; history changed before the lock is taken | a page always comes, under its own address; history follows the address |
| Scripts (`script.cpp`, `script_fetch.cpp`) | timers, animation frames, fetch inbox; Lua references | schedule, cancel, deliver, run, tear down | render thread and fetch workers | callbacks that change the queues being run; completion racing teardown; limits | each reference has one holder, no callback runs twice or once cleared, slots are given back |
| Cookies, storage, history (`cookies.cpp`, `storage.cpp`, `history.cpp`) | jars, areas, visits; their files | set, expire, remove, flush, load | page scripts, servers, the UI; disk; crashes | failed or interrupted saves, quotas applied again on load | what was flushed comes back, and nothing else; quotas hold |
| Routing (`router.cpp`) | none | `pick_server`, `pick_location` | sessions | precedence of exact, wildcard, default, longest prefix | equal to their definition by precedence |
| Static files (`static_files.hpp`) | none | `parse_byte_range`, `send_file` | files others change meanwhile | boundaries; a file that shrinks after its length was announced | the bytes asked for; a connection is kept only if framed |
| Resolver (`resolver.hpp`) | a cache | query, retry, chase CNAMEs, TCP fallback | DNS servers | | not modelled; see section 6 |
| Configuration, logs, TLS, messages, URLs | none that is shared | parse, format | | | not modelled: text handling and bindings |
| Rendering, layout, developer tools, decoders | per-frame | draw | | | not modelled: display only or third-party bindings |
| `server.cpp`, `client.cpp`, `python/`, `dns/` | per connection, or a database | serve, fetch | | little shared state | not modelled; see section 6 |

## 2. Modules

| Module | What it is |
|---|---|
| `GracefulService` | The promise: what clients may rely on across reloads and shutdown. Four phases, a configuration version, and per connection "open" or "last" (one more request). |
| `ProxyLifecycle` | The proxy's main thread, accept threads and connection threads, lock section by lock section. Implements `GracefulService` under the mapping `PhaseNow`, `ConnNow`. |
| `ProxyLifecycleProofs` | TLAPS proofs about `ProxyLifecycle`. |
| `UpstreamGroup` | The operations of `UpstreamGroup`, as operators; no specification of its own. |
| `UpstreamGroupProofs` | Lemmas about `UpstreamGroup`'s operators. |
| `UpstreamBalance`, `UpstreamBalanceProofs` | `UpstreamGroup` under any callers; proofs about it. |
| `ProxyForward` | Sessions running `forward` and `relay` over an `UpstreamGroup`, with upstream servers as environment. |
| `ProxyForwardProofs` | TLAPS proofs about `ProxyForward`. |
| `MediaCache` | MediaSource, its players and readers, the disk, and crashes. |
| `MediaCacheProofs` | TLAPS proofs about `MediaCache`. |
| `BrowserFetch` | Fetch threads, the connection pool and the kernel's descriptor table; servers as environment. |
| `BrowserNavigation` | A tab and its navigations, composed with `BrowserFetch`, which it extends. |
| `PageScripts` | A page's script engine: timers, frames, fetches and the Lua references behind them. |
| `BrowserStores` | Local storage, cookies and visits in memory and on disk. |
| `PageProofs` | TLAPS proofs about what a page runs and keeps, `PageScripts` and `BrowserStores`. |
| `Browser` | `BrowserNavigation`, `PageScripts` and `BrowserStores` side by side. |
| `BrowserProofs` | TLAPS proofs about `BrowserNavigation`, the `BrowserFetch` within it, and `Browser`. |
| `StaticFiles` | Byte ranges and `send_file`. |
| `Routing` | `pick_server` and `pick_location`. |
| `RequestProofs` | TLAPS proofs about `Routing` and `StaticFiles`. |
| `MC...` | Instances for TLC. |

### How state and actions follow the code

`ProxyLifecycle`. `shuttingDown`, `generation`, `active`, `idle` are the four
globals; `runtime` is the generation of `g_runtime`. `pc` is where a connection
thread stands between two visible effects: `top` is the start of `handle_one`,
`head` is `read_head`, `leave` is between its return and `leave_idle`, then
`parse`, `body`, `route`, `write`, `linger` and `closing`. `RaiseFlag` and
`CloseIdle` are separate because `begin_shutdown` takes the mutex twice;
`Activate`, `SetRuntime` and `CloseIdle` are the three effects of `reload`. A
configuration that fails to load changes nothing and has no action. Signals are
handled one after the other by `sigwait`, so `Activate` and `RaiseFlag` need
`mainPc = "wait"`. Bytes are counted in units, and a read returns any prefix of
what the kernel holds, so requests are split and pipelined in every way. The
history variable `late` counts a session's requests after its configuration's end
up to two, which is already one too many.

`UpstreamGroup`. Each operation holds `mu_` throughout and is one step. Time is
kept only as what the comparisons see: `down`, `lapsed`, and how many pooled
connections are past `kIdleLifetime`; `TimePasses` changes the first two at any
moment. A pooled connection is readable when its upstream closed or sent bytes
no response accounts for.

`ProxyForward`. `pick`, `take`, `dial`, `send`, `await`, `relay` are the stages
of `forward`. An upstream may close at any time, carry a request out and close
without answering, answer with too much or too little, without a length, or with
a malformed head. `executed` counts how often upstreams carried a request out.
Surplus bytes are taken to have arrived before the connection is used again: no
proxy can tell later ones from a response.

`MediaCache`. `file`, `stored` and `index` are the disk and survive `Crash`.
The worker's `wk` runs through `probe_and_open` (`probe`, `open`, `create`,
`resize`, `load`), `prefetch_loop` (`run`, `idle`), `fetch_chunks` (`fetch`,
`wrote`) and `save_index` (`save`, `saving`, the truncated file being visible in
between). A write and its publication are two steps, under two mutexes. Every
open, truncation, resize, removal and write may fail, and most failures are
noticed by nobody: `Unopened` (a file that will not open is created anew, which
empties it while its sidecar stays), `OpenFails` and the second disjunct of
`Reopens` (the source gives up), `IndexUnread`, `SaveFails` (the sidecar stays as
it is), `PruneFails`. `CutIndex` leaves a part of the list, of which the last
number may have lost digits: with `Radix` 10, chunk 4567 becomes 45. A full disk
does that, and a kill, which is `CutIndex` with `Crash` after it. The
server may fail any request, or end it early with a success. The idle worker
re-evaluates its predicate only in `WakeUp`, so a missing notification reason
would show as a reader that never returns.

`BrowserFetch`. A descriptor is a number and `sock` says which connection it names
at present: `close` frees the number and the next `socket` may return it, which
is how a thread that goes on using a closed number comes to use another's
connection; or it may return none (`OpenFails`). `stage` follows `perform_request`: `acquire` (`connpool::acquire` and
`on_socket`), `open` and `connect` (`open_connection`), `write` and `read`
(`run_exchange`), `unregister` (between the failed attempt's close and its
`on_socket_done`), `finish` (`on_socket_done` and `release`). `NoAnswer` and
`WriteFailed` are the two ways `nothing_happened` is set, the first with the whole
request written; `sent` records every connection a request was written on whole.
A connection that was closed under a waiting `recv` stays readable to it
(`waiting`). The history value `crossed` becomes true when a number is given out
that a thread still holds: from there on one fetch may read, close or pool
another's connection, and `OneOwner` and `OwnAnswer` are claimed before that only.

`BrowserNavigation`. `Start` is `start_async_fetch` under `fetch_mutex`, with the
close of the fetch in progress (`Cancels`). `Navigate` calls it with an address of
its own. Back and forward are three steps: `Travel` changes `history_index`, `Look`
reads the entry (`browser.cpp:1491`, `fetcher.cpp:621-622`) and `Depart` takes the
mutex (`fetcher.cpp:627`), with fetch threads falling back or ending in between;
`Reload` reads `current_url` outside the mutex in the same way before its `Depart`. The
history value `overtaken` says that a fallback rewrote the entry after `Look`. The
n-th navigation runs on thread n. `FallBack` and `End` are what a thread does when `perform_fetch` has
returned, with the comparison of URLs by which it finds out whether it was
superseded; `Swap` is the frame that takes `new_page_ready`. Threads of
`Loads` stand for subresources, images, script fetches and other tabs: all these
share is the pool.

`PageScripts`. `turn` goes through a frame: event handlers, `poll_fetches`,
`poll_timers`, `run_raf`, drawing, waiting for events. `batch` is the local copy
each poll makes before it calls anything, `running` the callback on the stack,
and every action of the page (`SetTimer`, `ClearTimer`, `AddRaf`, `CancelRaf`,
`StartFetch`) may happen within a callback. `Complete` and `Wake` are the two halves of
a worker's end, with the engine's destruction possible before, between or after.

`BrowserStores`. Each store is loaded when first used, changed in memory, and
saved whole through a temporary file and a rename, so a save happens or does not:
a crash within it is one that does not, and `Restart` may come after any step.
Values are their sizes, a cookie's `expires` is on the clock `now`, and `Ages` are the
`Max-Age`s a cookie may be given. `Fits` and `LoadedArea` are the loop of `load`,
which stops at the first record beyond a quota; `Sizes` is its running sum. `Only` is what
`remove_if` leaves of a jar: `Unexpired` for a jar that is read, `Lasting` for one
that is saved. A load that cannot open its file leaves the store empty for the run
(`AreaLoadFails`, `JarsLoadFail`, `VisitsLoadFail`). `failed` names the stores whose
load or last save in this run failed: the dirty flag is cleared all the same, and a
load is not tried again.

`Browser`. In each behaviour one of the three parts, `part`, is exercised; the next
section says why.

`StaticFiles`. `send_file` is a machine whose file is cut, rewritten or extended
between its reads. `Routing`. Each loop is a machine that looks at one candidate
per step and keeps what the code keeps; hosts and paths are reduced to how they
compare.

## 3. Runs

| Run | Question | Instance | Result |
|---|---|---|---|
| `proxy_lifecycle` | Are the idle set, the count and the sweeps right in every interleaving? | 2 connections, 1 port, 2 units in flight, 1 reload | holds, 2.7 million states |
| `proxy_lifecycle_live` | Do shutdown and stale sessions end? Is the promise kept? | 1 connection, heads of 2 units, bodies of 1, 4 units, 2 reloads | holds, 66 thousand states |
| `reload_leaves_idle` | Is a connection whose client was answered with keep-alive closed by a reload, as a test asserts? | 1 connection | violated |
| `read_request_cut` | Is a request that was read always answered, as a test asserts? | 1 or 2 connections | violated |
| `upstream_balance` | Does the round robin drift, starve, or blame without cause? | weights 2, 1, 1; max_fails 2 | holds, 78 thousand states |
| `proxy_forward_pool` | Do reuse and retry repeat a POST or mix up responses? | 2 sessions of 2 requests, 1 peer, pool of 1, 2 connections | holds, 2.5 million states |
| `proxy_forward_failover` | Does every forwarded request come to an end? | 1 session of 2 requests (HEAD, POST), 2 peers | holds, 278 thousand states |
| `media_cache` | Do disk and memory ever claim chunks that are not there? | 3 chunks, batches of 2, 1 reader, 1 player at a time, any crashes and failed file operations | holds, 1.3 million states |
| `media_cache_live` | Does every read return, every destructor end? | 2 chunks, 2 readers | holds, 109 thousand states |
| `browser` | Do fetches, navigations, scripts and stores keep their own in every interleaving? | see below | holds, 2.2 million states |
| `superseded_fallback` | Is the page on display the one at the tab's address once nothing is being fetched? | as `browser` | violated |
| `media_two_players` | Is a file without sidecar complete, as the code says? | 2 players, 3 chunks | violated |

Why the bounds are enough. The races of the life cycle are between one or two
sessions, the sweep and one signal; a second connection adds the case where one
is swept while the other registers, a slot is reused after its thread ends, and
pipelining needs two requests' worth of units. A reload may come before, after or
never before shutdown. The pool's limit is reached with two sessions and
`keepalive 1`, which is also where eviction happens; fail-over has its cases
(next peer, all tried, all down) with two peers. A media of three chunks has a
hole between held chunks, a short last batch, and a cursor at the end; the
window of one chunk makes the worker idle. Numbers are written in base 2, so that
chunk 2 cut short names chunk 1, as 4567 cut short names 45. `media_cache` allows any number of
openings, prunes, crashes and failures; nothing is bounded but the media's size.
`media_cache_live` starts with the history variables full: no step depends on
them, and the states do not multiply by their values.

`browser` has one tab with two past entries and two navigations, one further fetch
thread, two origins (one `star://`, guessed, and its `moon://` fallback), two
descriptors and a pool of one per origin: two threads superseding each other
while a third uses the number one of them gave up, a full pool, and a fallback
overtaken by a second navigation. Of the scripts it has three references and
three calls under limits of two, so that every limit refuses once and every
queue holds two; of the stores one origin, three names, quotas of two entries
and five bytes, three writes, a second of time and ages up to a second. The three parts share no
variable and no step of one reads another's, so a behaviour exercises one of
them (`part`) while the others rest: interleaving them would multiply states and
reach none that matters. In the code they meet at the pool, which script fetches
use as `Loads` do.

Deadlock is checked in every run but the two of the browser, where navigations,
calls and writes are bounded and a behaviour may use them up. `Terminated` is the
process that has ended.

Symmetry is used only in runs without liveness properties, over connections,
sessions, readers and descriptors, which nothing compares or orders.

### What the violations show

* `NoIdleOnOldConfig` (`tests/proxy/test_lifecycle.py:75`). A session has written a
  response with keep-alive, which is all the test's client waits for; the
  configuration is replaced and the idle set swept; and only then does the session
  register: `enter_idle` looks at the shutdown flag again, but not at the generation.
  The connection waits on the replaced configuration until its next request or
  `keepalive_timeout`. `MCProxyReload` has the history value `answered`, the
  connections that stood so when the reload began, and the property is about these
  only: a connection accepted during a reload is none of them.
* `ReadRequestNotCut` (`test_lifecycle.py:116`). A socket stays in `g_idle`
  until after `read_head` has returned, so a sweep can shut down a connection
  whose request has been read in full.
* `LocalPlayIsWhole` (`src/browser/renderer.cpp:546`). The backing file exists,
  at full size, from `open_backing` on; the sidecar that marks it partial is
  first written 256 chunks later or when the worker ends. In between a second
  tab plays the sparse file from disk.
* `ShownAtAddress` (`src/browser/fetcher.cpp:683`). A guessed `star://` address
  falls back unless the tab has another URL by then. A second navigation to the
  same guessed address, started while the first still tries to connect, leaves
  that URL as it is, and either of the two may deliver. When one has, and its page is
  on display, the other, refused at last, still rewrites the address and the history
  entry to `moon://`: the page shown is no longer the one at the address.

## 4. Fairness

* `ProxyLifecycle!FairSpec`: threads are scheduled, and every wait inside a
  request is bounded by `kClientReadTimeoutMs` or `kClientSendTimeoutMs` or the
  500 ms of `linger_close`. No signal, client, drain limit or idle timeout need
  ever come. `TimedSpec` adds `keepalive_timeout` while the proxy serves, for
  `StaleSessionsEnd`; `ShutdownEnds` holds under it without any idle timeout
  during shutdown, which is the point of sweeping the idle set.
* `UpstreamBalance`: requests keep arriving that have tried no peer. Starvation
  is excluded only once peers stop going down.
* `ProxyForward`: sessions run, and connect, send and read timeouts fire.
  Upstreams need do nothing. A response without a length that never ends is not
  modelled; it is relayed for as long as it lasts.
* `MediaCache`: threads run, requests of the network layer time out, and (strong
  fairness of `WriteChunk`) a server that is asked for missing chunks again and
  again does not answer every time with a successful but shorter body: the code
  would then ask forever.
* The browser's modules state safety only and assume no fairness. That a page
  comes at all depends on servers; `SomeoneDelivers` says what the code owes: some
  thread that will deliver is left.

## 5. What is proved

`ProxyLifecycleProofs`, for all finite sets of connections, all sets of ports
and all bounds, from `ProxyAssumption` alone (the constants are naturals,
`HeadUnits` is positive, `Conns` is finite):

* `Invariance`: `IInv` is invariant. `TypeOK` and the safety properties are not
  inductive: that a sweep reaches every idle socket needs that nothing registers
  once the flag is up, that the count is right needs that only started threads
  are counted, that at most one late request is taken up needs that a session
  which has taken one up announces close from then on and never reaches `top`
  again. `IInv` says these: `Core` for the main thread, the accept threads and
  each session by its `pc`, and `ActiveCount`.
* `TypeCorrect`, `ShutdownReachesAll`, `IdleSocketsOpen`, `OneLateRequest`,
  `ActiveCounts` follow from it.
* `CleanExit` and `AnsweringNotShut` are action properties, step by step from
  `IInv`.
* `Refinement`: every step of `ProxyLifecycle` is a step of `GracefulService` or
  a stutter under the mapping, by one lemma per process.

The lemmas `NextIInv` rests on go process by process (`MainPreserves`,
`AcceptPreserves`, `SessionPreserves`, `ClientPreserves`); the count is moved by
`CountedGrows`, `CountedShrinks` and `CountedStays`.

`UpstreamBalanceProofs`, for any number of peers, any weights, `max_fails` and
`keepalive`, from `GroupAssumption` alone: `TypeCorrect`, `Balanced`, `DownEarned`,
`DriftBounded`. `BalanceInv` adds that no peer has more failures counted against it than were
reported. That a pick leaves the sum of the weights as it is (`PaidSums`) needs an
induction over the peers; `Sums` is written as a recursive function, and the
induction is made over the set of peers up to which the equation holds (`UpTo`, from
the least-number principle). `BestIsBest` shows that the peer `pick` chooses exists.

`DriftBounded` is about `NoDrift`: with T the sum of all weights and N peers, no
`current_weight` is further from zero than T(N-1)/2, whichever peers were down or
excluded in whichever rounds. (That it stays below T, as one may expect, is false:
TLC reaches -8 with weights 5, 1, 1, 1.) A bound on single peers is not inductive,
because what one loses depends on what the others hold. `DriftInv` bounds every group
of peers at once: a group of k is never short of more than Tk(N-k)/2. A pick takes
from the group of the chosen peer only what that peer, being the largest of those
eligible, has more than the average of them; the group without the chosen peer and
the group with all that gained besides are in bounds before the step, and the
bounds of the two give that of the group after it (`PayArithmetic`, `PaidWithin`).

`ProxyForwardProofs`, for any sessions, connections, methods and turns, from
`GroupAssumption` and `ForwardAssumption` (methods are known ones; `None` is no
connection, request or reply): `ForwardTypes`, `CarriedOutAtMostOnce`,
`ResponsesNotMixed`, `PoolsDetached`. `FInv` has three parts, each of which needs
those before it:

* `Core`: types, and that a session holds a connection exactly where `forward`
  has one.
* `LinkInv`: `OwnResponse` and `PoolDetached`, and that a connection carries a
  request or a response, never both, and those of its holder. `PlacesOK` says
  `PoolDetached` place by place, which is what `LeftIs` and `ParkedIs` speak of.
* `SpendInv`: a request's cost (how often it was carried out, and once more while
  it is on its way) is within a budget that grows with the peers tried and with
  the point `forward` has reached; nothing is on its way before it is written or
  on two connections at once. `AtMostOnce` counts executions only and is not
  inductive: a retry must know that the copy before it is gone.

`BrowserProofs`, for any sets of threads, addresses and descriptors, any history
and any number of navigations, from `FetchAssumption` and `NavigationAssumption`
(threads and marks are distinct; a guessed address is `star://` and its fallback
is not):

* `SomeoneAlwaysDelivers`, `HistoryTracks`, `PagesOfAddress`. `NavInv` adds to the
  three properties that threads of navigations to come have not begun, and that
  while a thread's fallback may still be used it fetches the address that was
  guessed, which is what makes a fallback's page one `PageOfAddress` allows; and, for
  `HistoryTracksAddress`, that the address back or forward has read is still that of
  the entry, unless a fallback has rewritten it since (`overtaken`). The network layer enters through `FetchCarries`: whatever it does, it moves one
  thread between stages of its fetch.
* `RetriesAreFresh`. `RetryInv` says for each stage what may have been written by
  then: nothing on a pooled connection that is about to be written to, at most
  one pooled copy where a fresh one is being opened.
* `NothingLeaks`, `OneOwnerEach`, `AnswersAreOwn`, `TypesHold`. `NetInv` is one
  invariant for the three, as each needs the others. `NoLeak` speaks of the numbers
  threads hold and is not inductive: it must be known at which stages a thread holds
  one (`Placed`), and that the number a retry still holds at `unregister` is closed
  or another's, so that what is open has an owner besides (`LeakInv`). That an answer
  is the fetch's own needs that nothing unread is left on its connection and that
  the answer owed there is owed to it (`ExchangeOK`), which needs that no other thread or
  pool has the connection (`OneOwner`); and that a descriptor a navigation shut down
  stays closed while the superseded thread waits on it. Both are kept until a number
  is given out that a thread still holds (`crossed`); what one close or one `socket`
  does to all threads at once is in `CloseNet` and `OpenNet`. The pools are the other
  half: `TrimmedIs` and `KeptIs` say that `acquire` and `release` take from a pool
  without reordering or doubling what is left, and close what they drop.

`MediaCacheProofs`, for any numbers of players, readers and chunks and any batch
and window, from `MediaAssumption`. `Typed` needs nothing else. `SidecarIsTrue`,
`PublishesStored`, `ReadsWritten`, `LocalIsWhole` and `FetchedOnce` are proved of
behaviours in which a source has the media to itself (`SourceAlone`: no other
source and no player of the file besides it). This is not an assumption the code
justifies for any number of tabs: with two, the second source truncates what the
first has published and plays what is not whole, which `media_two_players` shows. It holds
whenever one tab plays a media at a time, over any number of openings, failures,
prunes and crashes. `IInv` has, besides the types:

* `SourceOK` and `ReadsOK`, of each source by itself: batches lie within the media
  and ask for no chunk held, a reader that copies has its chunks.
* `DiskOK`, of the disk when nobody is at work on it: which of file and index may
  be missing, and who still owes the one or the other. That a file without
  sidecar is whole is not inductive without the promise of the source that will
  write one (`Owes`), nor is it true once the disk is `torn`.
* `HoldsOK`, of the disk and the source at work: stage by stage of the worker,
  what the file must be, and that all that is in the file the source knows (`Known`,
  for `NoRefetch`), or that what it has published is in the file.

`PageProofs`. Of `PageScripts`, for any references, limits and numbers of calls, from
`ScriptsAssumption` (limits are naturals, and no callback is not a callback):
`ScriptsTyped`, `RefsKept`, `FetchesCounted`, `CallsOnce`. `ScriptsInv` has two parts
besides the types and `TurnOK`, which says at which turns something is in hand:

* `OwnInv`, for `RefsOwned` and `CalledOnce` together. That the holders are as many
  as the references is not inductive: a callback that ends frees one reference by
  its number, so no other holder may have the same. `HeldBy` gives the claims (id and
  reference) of each place, timers, frames, workers, inbox, batch and the callback on
  the stack, and `PlacesOK` says that two claims share neither id nor reference and
  that each is in one place. A step of the engine then moves a claim from place to
  place, ends one or makes one. What `poll_timers` has in hand claims nothing, as its
  timers stay where they are. `NotOver` says that what has begun or was cleared is
  in no place any more, but for the one-shot timer that runs; `CalledOnce` follows, because
  `poll_timers` looks every id up again.
* `SlotsInv`, for `SlotsAndWakes`, the first half of `FetchesAccounted`: the slots are
  the workers at work, which needs that these are finitely many and that a new one has
  an id of its own. And the
  wake-up is there at every turn but `handlers`: from `poll_fetches` on, what is in the
  inbox came since, and its worker has posted or is about to. `SlotsAndWakes` says
  so of the turn `wait` only, which is not inductive. The other half, `Delivery`, says of
  every step that a completed result is in the inbox next, that nothing leaves the inbox
  but for the batch about to be called, and that an engine that is gone gets nothing and
  runs nothing; `ResultsDelivered` goes through the steps for it.

Of `BrowserStores`, for any origins, names, quotas, times and ages, from
`StoresAssumption` (the bounds are naturals, `Absent` is neither an area nor a list
of visits nor jars, and no origin is named as the files of cookies and visits are in
`failed`): `StoresTyped` and `ComesBack`, which is `SurvivesRestart`.
Neither is inductive, because both speak of what loading a file gives and nothing says
that all of a file is loaded. `StoresInv` speaks of the files themselves:

* `AreasInv`: a file is within the quotas (`Fitting`), so `LoadedIs` that it is loaded
  as it is; the count of bytes of an area in memory is what its items take; an area that
  is not read yet has nothing to flush. That the count follows every `setItem` and
  `removeItem` is in `BytesAppend`, `BytesReplace` and `BytesRemove`.
* `JarsInv`: a jar's file holds no session cookie and no more than the limit, and unless
  there is something to flush or the load or the last save failed, what is unexpired of it is what
  would be saved of the jar in memory. Reading a jar drops expired cookies without marking
  it changed, and a second that passes expires cookies in both: `OnlyOnly`, that leaving
  some of what was left is leaving both at once, is what makes either harmless.
* `VisitsInv`: the file is within the limit, and equal to what is in memory under the
  same condition.

`Sizes` and `Filtered` are recursive functions over sequences. That they exist is
`Recursion`, and what they compute is proved by induction over the positions, made
over a set of numbers (`UpTo`, from the least-number principle) because a theorem that
takes a predicate cannot be used.

Of `Browser`: `BrowserTyped`, from `PartsRun`: a behaviour of the whole is, seen from
each part, one of that part, so what is proved of a part holds in the whole.

`RequestProofs`. Of `StaticFiles`, for any file and any numbers, from `Marks` (a missing number is not
a number): `RangeIsAsked`, that `parse_byte_range` names the first and last byte
asked for and refuses exactly the ranges that ask for none (which texts are numbers is
left to `stoull`, see section 6); `FramingAlwaysKept`,
that `send_file` keeps a connection only after all it announced was sent, however
the file changes meanwhile. Of `Routing`, for any configuration of the types
`ServersOK` and `LocationsOK` give: `PickServer` and `PickLocation`, that the
loops' single pass finds what precedence says (exact, then longest wildcard or
prefix and the first of equal ones, then default, then first).

Only model-checked: liveness (`ShutdownEnds`, `StaleSessionsEnd`, `NoStarvation`,
`RequestEnds`, `ReadsEnd`, `CloseEnds`), which under fairness, as ENABLED, is beyond TLAPS
here; and, where a property is claimed only of behaviours with one source for a media,
what holds of the instance with two players. Every other property of a passing run is a
theorem.

## 6. What is not modelled

* Of the proxy: wording of requests and responses, header rewriting, the parsing
  of configurations, TLS beyond success or failure of its handshake, log files. An
  accepted connection whose thread has not run yet when main returns is lost;
  `CleanExitCutsNobody` says so by counting started threads only.
* Of the media cache: what the bytes are. The body sink stores and publishes
  what a server sends before the status is checked, so an error page can be kept
  as media; a source is not told when the media changes on the server. What
  breaks the cache is in the model, as the history variable `torn`, and the
  invariants are claimed until it happens. `holes`: a file with holes was left
  without an index, by a crash before the first save or by a last save that could
  not open the sidecar (`media_source.cpp:197`). `lies`: an index was left that
  names chunks the file lacks, because `prune_media_cache` did not get to remove
  it or could not (`globals.cpp:207`), because its last number was cut short
  (`media_source.cpp:199`), or because the file would not open and was emptied
  (`media_source.cpp:136`). `NoRefetch` is claimed while nothing crashes and no file
  operation fails. Queries (`exists`, `file_size`) and reads of an open file are
  taken to succeed. A second source that loads the index while the first writes it
  sees it empty or as a cut leaves it, not in every intermediate length. With
  two sources on one file, the second may truncate what the first has published;
  the safety run has one at a time.
* Of the network layer: hosts with several addresses, resolution that fails,
  `connpool::clear` at exit, what messages say. A request is resent when a pooled
  connection dies after all of it was written, whatever its method:
  `fetcher.cpp:169` calls that case "nothing sent, nothing read", yet the server
  may have carried it out; `RetryOnFresh` bounds the copies to two, and cannot say
  that there is one.
* Of navigation: several tabs (they share the pool only), menus and drawing. The
  user interface erases a tab without `fetch_mutex` (`browser.cpp:1356`) while
  fetch threads search the list under it: a data race, whose outcomes TLA+ could
  only list as anything at all. `CloseTab` is the outcome in which the threads see
  the tab or do not. An address that back or forward has read may be replaced in the
  history before they have `fetch_mutex` (`fetcher.cpp:621-627`, `691`): the tab then
  goes to the address read while its entry names the fallback, and
  `HistoryTracksAddress` is false of the code until the next navigation. It is claimed
  unless `overtaken`. A `socket` that fails ends the
  attempt, hosts having one address here.
* Of scripts: the document API, canvas, and the budgets of the sandbox. `next_wake`
  returns the next frame's time even when a timer is due before it
  (`script.cpp:1233`), which delays the timer by at most the gap between frames;
  time is not modelled that finely. A `cancelAnimationFrame` from within a frame does not find
  the frames already taken for this round; `CancelRaf` does the same.
* Of the stores: the icon cache, titles, the format of records, clocks that go
  back, and `Max-Age` so large that the sum with the present time overflows. A file that
  is there but cannot be opened is taken for none (`storage.cpp:68`, `cookies.cpp:65`,
  `history.cpp:65`): the store is empty for the run, the load is not tried again, and
  the next save overwrites what was kept. The steps are in the model, and
  `SurvivesRestart` claims nothing of such a store until the next run. A read that fails
  partway is modelled as losing all of the file, not the rest of it.
* Of static files: which texts are numbers. `stoull` stops at what is no digit, so
  `bytes=5x-9` is answered as `5-9`, where `PROTOCOL.md:90` calls a malformed range one
  for 416; the theorem on ranges begins at the numbers read.
* The resolver: sequential per query, its cache under one lock; what it decides it
  reads from the bytes of DNS messages, and a model could only restate that.
  `python/` implements the protocol again; `server.cpp` is a thread per connection
  around `send_file`, `client.cpp` sequential; `dns/` is a web application whose
  state is in a database.
* Power loss (data reordered by the operating system) is not modelled; a crash is
  the end of the process.

## 7. Plan

What is left, in this order:

1. The registry of `dns/`: its handlers check and then write in separate database
   operations, so limits and the exclusiveness of a CNAME hold only up to the
   requests in flight.
2. The resolver's cache and CNAME chase, as an environment of `open_connection`
   with several addresses.
