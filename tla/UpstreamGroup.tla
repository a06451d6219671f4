---------------------------- MODULE UpstreamGroup ----------------------------
(***************************************************************************)
(* UpstreamGroup of src/src/proxy/upstream.cpp: the servers behind one     *)
(* proxy_pass, shared by every client session of a Runtime.  Each          *)
(* operation runs under mu_, so it is one step.                            *)
(*                                                                         *)
(* Time is abstracted to what its comparisons tell apart: whether a peer's *)
(* down_until is still ahead, whether its failure window has passed, and   *)
(* whether a pooled connection is older than kIdleLifetime.                *)
(***************************************************************************)
EXTENDS Integers, Sequences, FiniteSets

CONSTANTS
  NPeers,     \* number of peers; peers are 1..NPeers
  Weight,     \* [1..NPeers -> Nat \ {0}], "weight="
  MaxFails,   \* "max_fails=", 0 turns passive health checks off
  Keepalive   \* "keepalive", 0 turns the pool off

Peers == 1..NPeers

ASSUME GroupAssumption ==
  /\ NPeers \in Nat \ {0}
  /\ Weight \in [Peers -> Nat \ {0}]
  /\ MaxFails \in Nat
  /\ Keepalive \in Nat

VARIABLES
  weight,  \* [Peers -> Int], State::current_weight
  fails,   \* [Peers -> Nat], State::fails
  lapsed,  \* [Peers -> BOOLEAN], now - window_start > fail_timeout
  down,    \* [Peers -> BOOLEAN], down_until > now
  pool     \* [Peers -> Seq(connection)], State::idle, oldest first

healthVars == <<fails, lapsed, down>>
groupVars == <<weight, fails, lapsed, down, pool>>

GroupInit ==
  /\ weight = [i \in Peers |-> 0]
  /\ fails = [i \in Peers |-> 0]
  /\ lapsed = [i \in Peers |-> TRUE]
  /\ down = [i \in Peers |-> FALSE]
  /\ pool = [i \in Peers |-> << >>]

-----------------------------------------------------------------------------
(* pick: smooth weighted round robin.                                      *)

\* Mutant: the pass that allows down peers forgets what was tried.
EligibleForgetful(tried, allowDown) ==
  {i \in Peers : allowDown \/ (i \notin tried /\ ~down[i])}

\* The peers a pass of pick may choose.
Eligible(tried, allowDown) == {i \in Peers \ tried : allowDown \/ ~down[i]}

\* Mutants: the weights are raised before peers are skipped, or set anew by each
\* pick instead of being carried over.
RaisedAll(E) == [i \in Peers |-> weight[i] + Weight[i]]
RaisedAfresh(E) == [i \in Peers |-> IF i \in E THEN Weight[i] ELSE weight[i]]

\* Every eligible peer gains its weight ...
Raised(E) == [i \in Peers |-> IF i \in E THEN weight[i] + Weight[i] ELSE weight[i]]

\* ... the first of the heaviest is chosen ...
Best(E) ==
  CHOOSE i \in E : \A j \in E :
    \/ Raised(E)[i] > Raised(E)[j]
    \/ Raised(E)[i] = Raised(E)[j] /\ i <= j

\* f over the members of E, added up peer by peer as pick's loop does.
Sums(f, E) ==
  LET sum[n \in 0..NPeers] ==
        IF n = 0 THEN 0 ELSE sum[n - 1] + (IF n \in E THEN f[n] ELSE 0)
  IN sum

\* Mutant: the chosen peer pays for every peer, eligible or not.
PriceOfAll(E) == Sums(Weight, Peers)[NPeers]

\* ... and pays what the eligible peers gained together.
Price(E) == Sums(Weight, E)[NPeers]

Paid(E) == [Raised(E) EXCEPT ![Best(E)] = @ - Price(E)]

\* The set a pick chooses from: down peers only when nothing else is left.
Candidates(tried) ==
  IF Eligible(tried, FALSE) # {} THEN Eligible(tried, FALSE) ELSE Eligible(tried, TRUE)

Picked(tried) == Best(Candidates(tried))

\* pick(tried) returns Picked(tried); with every peer tried it returns -1 and
\* changes nothing.
Pick(tried) ==
  /\ Candidates(tried) # {}
  /\ weight' = Paid(Candidates(tried))
  /\ UNCHANGED <<healthVars, pool>>

-----------------------------------------------------------------------------
(* report: passive health.                                                 *)

\* Failures counted once this one is: a success, a passed window or a fresh
\* count starts the window again.
FailsNow(i) == IF lapsed[i] THEN 1 ELSE fails[i] + 1

\* Mutant: the failure count survives a success.
ForgetNothing(i) == fails

\* fails after a success.
Forgiven(i) == [fails EXCEPT ![i] = 0]

\* Mutant: the peer is down only after one failure more.
TooManyLate(n) == n > MaxFails

\* That many failures take a peer down.
TooMany(n) == n >= MaxFails

\* The values State::fails may take: it never reaches max_fails.
FailCounts == IF MaxFails = 0 THEN {0} ELSE 0..MaxFails - 1

Report(i, ok) ==
  IF ok
    THEN fails' = Forgiven(i) /\ UNCHANGED <<lapsed, down>>
    ELSE IF MaxFails = 0
      THEN UNCHANGED healthVars
      ELSE /\ lapsed' = [lapsed EXCEPT ![i] = FALSE]
           /\ IF TooMany(FailsNow(i))
                THEN /\ down' = [down EXCEPT ![i] = TRUE]
                     /\ fails' = [fails EXCEPT ![i] = 0]
                ELSE /\ fails' = [fails EXCEPT ![i] = FailsNow(i)]
                     /\ UNCHANGED down

\* Time passes: a peer's failure window ends, or its down_until.
TimePasses(i) ==
  /\ \/ lapsed' = [lapsed EXCEPT ![i] = TRUE] /\ UNCHANGED down
     \/ down' = [down EXCEPT ![i] = FALSE] /\ UNCHANGED lapsed
  /\ UNCHANGED <<weight, fails, pool>>

-----------------------------------------------------------------------------
(* take_idle and park: the pool of idle connections.                       *)

\* Mutant: a readable connection is handed out.
FoundUnchecked(i, old, quiet) == IF Len(pool[i]) > old THEN Len(pool[i]) ELSE 0

\* Where take_idle finds one: the newest that is neither too old (the oldest
\* `old` of them are) nor readable.  0 if there is none.
FoundAt(i, old, quiet) ==
  LET usable == {n \in 1..Len(pool[i]) : n > old /\ pool[i][n] \in quiet}
  IN IF usable = {} THEN 0 ELSE CHOOSE n \in usable : \A m \in usable : m <= n

\* Mutant: the connection handed out stays in the pool.
LeftWithFound(i, n) == [pool EXCEPT ![i] = SubSeq(@, 1, n)]

\* It leaves what is older than the one found; the newer ones were closed.
LeftAfter(i, n) == [pool EXCEPT ![i] = SubSeq(@, 1, IF n = 0 THEN 0 ELSE n - 1)]

\* park evicts the oldest when the pool is over its limit.
Kept(q) == IF Len(q) > Keepalive THEN Tail(q) ELSE q

Parked(i, k) ==
  IF Keepalive = 0 THEN pool ELSE [pool EXCEPT ![i] = Kept(Append(@, k))]
=============================================================================
