--------------------------- MODULE UpstreamBalance ---------------------------
(***************************************************************************)
(* UpstreamGroup under any callers: sessions pick with any set of peers    *)
(* already tried and report any outcome, in any order.  Checks that smooth *)
(* weighted round robin stays fair when the set of eligible peers keeps    *)
(* changing, and that passive health takes nobody down without cause.      *)
(***************************************************************************)
EXTENDS UpstreamGroup

VARIABLES
  streak   \* history: failures of a peer reported within one window since its
           \* last success, counted up to MaxFails

vars == <<groupVars, streak>>

Init ==
  /\ GroupInit
  /\ streak = [i \in Peers |-> 0]

PickFor(tried) ==
  /\ Pick(tried)
  /\ UNCHANGED streak

ReportOn(i, ok) ==
  /\ Report(i, ok)
  /\ streak' = [streak EXCEPT ![i] =
       LET n == IF lapsed[i] THEN 1 ELSE @ + 1
       IN IF ok THEN 0 ELSE IF n > MaxFails THEN MaxFails ELSE n]
  /\ UNCHANGED <<weight, pool>>

Passes(i) == TimePasses(i) /\ UNCHANGED streak

Next ==
  \/ \E tried \in SUBSET Peers : PickFor(tried)
  \/ \E i \in Peers, ok \in BOOLEAN : ReportOn(i, ok)
  \/ \E i \in Peers : Passes(i)

\* Requests keep arriving: a fresh one has tried no peer.
Spec == Init /\ [][Next]_vars /\ WF_vars(PickFor({}))

-----------------------------------------------------------------------------
TypeOK ==
  /\ weight \in [Peers -> Int]
  /\ fails \in [Peers -> FailCounts]
  /\ lapsed \in [Peers -> BOOLEAN]
  /\ down \in [Peers -> BOOLEAN]
  /\ pool \in [Peers -> {<< >>}]
  /\ streak \in [Peers -> 0..MaxFails]

Total == Sums(Weight, Peers)[NPeers]

\* What a pick adds to the eligible peers it takes from the chosen one: the
\* weights always sum to zero.
WeightsBalanced == Sums(weight, Peers)[NPeers] = 0

\* However peers go down, come back and are skipped by retries, no peer's
\* current_weight drifts further than half the sum of all weights for every other
\* peer, either way: its share of the picks it was eligible for stays within a
\* fixed distance of its weight's, and an int never overflows.
NoDrift ==
  LET far == Total * (NPeers - 1)
  IN  \A i \in Peers : 2 * weight[i] <= far /\ -(2 * weight[i]) <= far

\* A peer goes down only after MaxFails failures within one window with no
\* success between them, whatever the order concurrent sessions report in.
DownIsEarned ==
  [][\A i \in Peers : down'[i] /\ ~down[i] => streak'[i] = MaxFails]_vars

IsPicked(i) == \E tried \in SUBSET Peers : PickFor(tried) /\ Picked(tried) = i

\* Once no peer is down any more, every peer is chosen again and again.
NoStarvation ==
  <>[](\A i \in Peers : ~down[i]) => \A i \in Peers : []<><<IsPicked(i)>>_vars
=============================================================================
