------------------------- MODULE ProxyForwardProofs -------------------------
(***************************************************************************)
(* Proofs about ProxyForward for any sessions, connections and peers.      *)
(***************************************************************************)
EXTENDS ProxyForward, UpstreamGroupProofs

-----------------------------------------------------------------------------
(* The inductive invariant.                                                *)

\* Where forward has a connection in hand, and where it has chosen a peer.
Holding == {"send", "await", "relay"}
Chosen == {"take", "dial"} \cup Holding

\* A session has a connection in hand exactly where forward has one, and the
\* peer in hand is among those tried.
SessionsOK ==
  /\ request \in [Sessions -> [by : Sessions, turn : 0..MaxTurns,
                               method : Methods \cup {"none"}]]
  /\ \A s \in Sessions :
       /\ request[s].by = s
       /\ conn[s] # None <=> pc[s] \in Holding
       /\ pc[s] \in Chosen => peer[s] \in tried[s]
       /\ pc[s] = "dial" => ~reused[s]

Core == TypeOK /\ SessionsOK

\* A connection carries a request one way or its response the other, never both,
\* and those of the session that holds it.
LinksOK ==
  /\ \A k \in Conns :
       /\ ~upOpen[k] => pending[k] = None
       /\ reply[k] # None => pending[k] = None
  /\ \A s \in Sessions :
       /\ pc[s] = "await" => pending[conn[s]] \in {None, request[s]}
       /\ pc[s] = "relay" => reply[conn[s]] # None

LinkInv == OwnResponse /\ PoolDetached /\ LinksOK

\* A request that upstreams may still carry out, and how often they have or may.
Waiting(r) == \E k \in Conns : pending[k] = r
Spent(r) == executed[r] + (IF Waiting(r) THEN 1 ELSE 0)

\* What a request may have cost once c peers have been tried: one stale pooled
\* connection for each peer before the present one, and what the present one adds.
Budget(s) ==
  LET c == Cardinality(tried[s]) IN
  IF Idempotent(s)
    THEN CASE pc[s] \in {"pick", "dial"} -> c
           [] pc[s] = "take" -> c - 1
           [] pc[s] = "send" -> IF reused[s] THEN c - 1 ELSE c
           [] pc[s] = "await" -> IF reused[s] THEN c ELSE c + 1
           [] OTHER -> NPeers + 1
    ELSE IF pc[s] \in {"pick", "take", "dial", "send"} THEN 0 ELSE 1

WithinBudget(s) ==
  pc[s] # "idle" =>
    /\ Spent(request[s]) <= Budget(s)
    /\ \A k \in Conns : pending[k] = request[s] => pc[s] = "await" /\ conn[s] = k

Cap(r) == IF r.method \in {"GET", "HEAD"} THEN NPeers + 1 ELSE 1

\* No request is on two connections, none is anywhere before it is written, and
\* what each has cost is within its budget.
SpendInv ==
  /\ \A k, l \in Conns : pending[k] = pending[l] => k = l \/ pending[k] = None
  /\ \A r \in Requests :
       /\ Spent(r) <= Cap(r)
       /\ r.turn > request[r.by].turn => Spent(r) = 0
  /\ \A s \in Sessions : WithinBudget(s)

FInv == Core /\ LinkInv /\ SpendInv

-----------------------------------------------------------------------------
(* take_idle and park                                                      *)

\* take_idle finds a place in the pool, whose connection is quiet, or none.
LEMMA FoundIs ==
  ASSUME NEW i \in Peers, pool[i] \in Seq(Conns), NEW old \in Nat, NEW quiet
  PROVE  /\ FoundAt(i, old, quiet) \in 0..Len(pool[i])
         /\ FoundAt(i, old, quiet) # 0 => pool[i][FoundAt(i, old, quiet)] \in quiet
<1> DEFINE usable == {n \in 1..Len(pool[i]) : n > old /\ pool[i][n] \in quiet}
           T == {Len(pool[i]) - n : n \in usable}
<1>1. CASE usable = {}
  BY <1>1 DEF FoundAt
<1>2. CASE usable # {}
  <2>1. T \subseteq Nat /\ T # {}
    <3>1. Len(pool[i]) \in Nat
      OBVIOUS
    <3>2. \A n \in usable : Len(pool[i]) - n \in Nat
      BY <3>1
    <3> HIDE DEF usable
    <3> QED
      BY <1>2, <3>2
  <2>2. PICK x \in T : \A y \in T : x <= y
    <3> HIDE DEF T
    <3> QED
      BY <2>1, Least
  <2>3. PICK n \in usable : x = Len(pool[i]) - n
    OBVIOUS
  <2>4. \A m \in usable : m <= n
    <3>1. TAKE m \in usable
    <3>2. Len(pool[i]) - n <= Len(pool[i]) - m
      BY <2>2, <2>3
    <3> QED
      BY <3>2
  <2>5. FoundAt(i, old, quiet) \in usable
    BY <1>2, <2>3, <2>4 DEF FoundAt
  <2> QED
    BY <2>5
<1> QED
  BY <1>1, <1>2

\* The pool that take_idle leaves is a beginning of what it was.
LEMMA LeftIs ==
  ASSUME pool \in [Peers -> Seq(Conns)],
         NEW i \in Peers, NEW n \in 0..Len(pool[i]), pool' = LeftAfter(i, n)
  PROVE  /\ pool' \in [Peers -> Seq(Conns)]
         /\ \A j \in Peers : Len(pool'[j]) <= Len(pool[j])
         /\ \A j \in Peers : \A m \in 1..Len(pool'[j]) : pool'[j][m] = pool[j][m]
         /\ n # 0 => Len(pool'[i]) = n - 1
<1>1. pool' = [pool EXCEPT ![i] = SubSeq(pool[i], 1, IF n = 0 THEN 0 ELSE n - 1)]
  BY DEF LeftAfter
<1>2. /\ pool[i] \in Seq(Conns) /\ Len(pool[i]) \in Nat
      /\ \A j \in Peers : pool[j] \in Seq(Conns) /\ Len(pool[j]) \in Nat
  OBVIOUS
<1> DEFINE d == IF n = 0 THEN 0 ELSE n - 1
<1>3. d \in Nat /\ d <= Len(pool[i]) /\ (n # 0 => d = n - 1)
  BY <1>2
<1>4. /\ SubSeq(pool[i], 1, d) \in Seq(Conns)
      /\ Len(SubSeq(pool[i], 1, d)) = d
      /\ \A m \in 1..d : SubSeq(pool[i], 1, d)[m] = pool[i][m]
  <2> HIDE DEF d
  <2> QED
    BY <1>2, <1>3
<1>5. pool'[i] = SubSeq(pool[i], 1, d) /\ \A j \in Peers \ {i} : pool'[j] = pool[j]
  BY <1>1
<1>6. pool' \in [Peers -> Seq(Conns)]
  BY <1>1, <1>4
<1> HIDE DEF d
<1>7. ASSUME NEW j \in Peers
      PROVE  /\ Len(pool'[j]) <= Len(pool[j])
             /\ \A m \in 1..Len(pool'[j]) : pool'[j][m] = pool[j][m]
  <2>1. CASE j = i
    BY <1>2, <1>3, <1>4, <1>5, <2>1
  <2>2. CASE j # i
    BY <1>2, <1>5, <2>2
  <2> QED
    BY <2>1, <2>2
<1> QED
  BY <1>3, <1>4, <1>5, <1>6, <1>7

\* park puts the connection last, and may drop the first.
LEMMA ParkedIs ==
  ASSUME pool \in [Peers -> Seq(Conns)],
         NEW i \in Peers, NEW k \in Conns, pool' = Parked(i, k)
  PROVE  /\ pool' \in [Peers -> Seq(Conns)]
         /\ (\A j \in Peers : Len(pool[j]) <= Keepalive) =>
              \A j \in Peers : Len(pool'[j]) <= Keepalive
         /\ \A j \in Peers : j # i => pool'[j] = pool[j]
         /\ \/ pool' = pool
            \/ \E d \in {0, 1} :
                 /\ Len(pool'[i]) = Len(pool[i]) + 1 - d
                 /\ \A m \in 1..Len(pool'[i]) :
                      pool'[i][m] = IF m + d = Len(pool[i]) + 1 THEN k ELSE pool[i][m + d]
<1>0. Keepalive \in Nat
  BY GroupAssumption
<1>1. CASE Keepalive = 0
  BY <1>1 DEF Parked
<1>2. CASE Keepalive # 0
  <2> DEFINE p == pool[i]
             a == Append(p, k)
  <2>1. /\ p \in Seq(Conns) /\ Len(p) \in Nat
        /\ a \in Seq(Conns) /\ Len(a) = Len(p) + 1
        /\ \A m \in 1..Len(a) : a[m] = IF m = Len(p) + 1 THEN k ELSE p[m]
    OBVIOUS
  <2>2. pool' = [pool EXCEPT ![i] = Kept(a)]
    BY <1>2 DEF Parked
  <2>3. pool'[i] = Kept(a) /\ \A j \in Peers : j # i => pool'[j] = pool[j]
    BY <2>2
  <2>4. CASE Len(a) > Keepalive
    <3>1. /\ Kept(a) = Tail(a) /\ Tail(a) \in Seq(Conns) /\ Len(Tail(a)) = Len(a) - 1
          /\ \A m \in 1..Len(Tail(a)) : Tail(a)[m] = a[m + 1]
      BY <2>1, <2>4 DEF Kept
    <3>2. Len(pool'[i]) = Len(p) /\ pool' \in [Peers -> Seq(Conns)]
      BY <2>1, <2>2, <2>3, <3>1
    <3>3. \A m \in 1..Len(pool'[i]) : pool'[i][m] = IF m + 1 = Len(p) + 1 THEN k ELSE p[m + 1]
      BY <2>1, <2>3, <3>1, <3>2
    <3>4. (\A j \in Peers : Len(pool[j]) <= Keepalive) =>
            \A j \in Peers : Len(pool'[j]) <= Keepalive
      BY <2>1, <2>3, <3>2
    <3>5. \E d \in {0, 1} :
            /\ Len(pool'[i]) = Len(p) + 1 - d
            /\ \A m \in 1..Len(pool'[i]) :
                 pool'[i][m] = IF m + d = Len(p) + 1 THEN k ELSE p[m + d]
      <4> HIDE DEF p
      <4> WITNESS 1 \in {0, 1}
      <4> QED
        BY <2>1, <3>2, <3>3
    <3> QED
      BY <2>3, <3>2, <3>4, <3>5
  <2>5. CASE ~(Len(a) > Keepalive)
    <3>1. Kept(a) = a
      BY <2>5 DEF Kept
    <3>2. Len(pool'[i]) = Len(p) + 1 /\ pool' \in [Peers -> Seq(Conns)] /\ Len(pool'[i]) <= Keepalive
      BY <1>0, <2>1, <2>2, <2>3, <2>5, <3>1
    <3>3. \A m \in 1..Len(pool'[i]) : pool'[i][m] = IF m + 0 = Len(p) + 1 THEN k ELSE p[m + 0]
      BY <2>1, <2>3, <3>1, <3>2
    <3>4. (\A j \in Peers : Len(pool[j]) <= Keepalive) =>
            \A j \in Peers : Len(pool'[j]) <= Keepalive
      BY <2>1, <2>3, <3>2
    <3>5. \E d \in {0, 1} :
            /\ Len(pool'[i]) = Len(p) + 1 - d
            /\ \A m \in 1..Len(pool'[i]) :
                 pool'[i][m] = IF m + d = Len(p) + 1 THEN k ELSE p[m + d]
      <4> HIDE DEF p
      <4> WITNESS 0 \in {0, 1}
      <4> QED
        BY <2>1, <3>2, <3>3
    <3> QED
      BY <2>3, <3>2, <3>4, <3>5
  <2> QED
    BY <2>4, <2>5
<1> QED
  BY <1>1, <1>2

-----------------------------------------------------------------------------
(* Types, and what a session has in hand.                                  *)

\* It holds at the start.
LEMMA CoreInit == Init => Core
<1> SUFFICES ASSUME Init PROVE Core
  OBVIOUS
<1>1. TypeOK
  BY GroupAssumption DEF Init, GroupInit, TypeOK, FailCounts
<1>2. SessionsOK
  BY ForwardAssumption DEF Init, SessionsOK, Holding, Chosen
<1> QED
  BY <1>1, <1>2 DEF Core

\* Every step keeps it.
LEMMA CoreNext ==
  ASSUME Core, [Next]_vars
  PROVE  Core'
<1> USE DEF Core, TypeOK, SessionsOK, Holding, Chosen, Goto
<1>0. /\ HealthTypes /\ None \notin Conns
      /\ \A s \in Sessions : pc[s] \in Chosen => peer[s] \in Peers
      /\ \A s \in Sessions : pc[s] \in Holding => conn[s] \in Conns
  BY ForwardAssumption DEF HealthTypes
<1>1. ASSUME NEW s \in Sessions, NEW m \in Methods, Arrive(s, m)
      PROVE  Core'
  <2>1. /\ request[s].turn + 1 \in 1..MaxTurns
        /\ [by |-> s, turn |-> request[s].turn + 1, method |-> m] \in Requests
    BY <1>1, ForwardAssumption DEF Arrive, Requests
  <2> QED
    BY <1>1, <2>1, ForwardAssumption DEF Arrive, groupVars, linkVars
<1>2. ASSUME NEW s \in Sessions, PickPeer(s)
      PROVE  Core'
  <2>1. /\ Picked(tried[s]) \in Peers /\ weight' \in [Peers -> Int]
        /\ UNCHANGED <<fails, lapsed, down, pool>>
    BY <1>2, PickIs DEF PickPeer
  <2> QED
    BY <1>2, <2>1 DEF PickPeer, linkVars
<1>3. ASSUME NEW s \in Sessions, NoPeerLeft(s)
      PROVE  Core'
  BY <1>3 DEF NoPeerLeft, Over, groupVars, healthVars, linkVars
<1>4. ASSUME NEW s \in Sessions, NEW old \in 0..Keepalive, TakeIdle(s, old)
      PROVE  Core'
  <2> DEFINE i == peer[s]
             n == FoundAt(i, old, Quiet)
  <2>1. i \in Peers /\ pool[i] \in Seq(Conns)
    BY <1>0, <1>4 DEF TakeIdle
  <2>2. n \in 0..Len(pool[i]) /\ old \in Nat
    BY <2>1, FoundIs, GroupAssumption
  <2>3. pool' = LeftAfter(i, n)
    BY <1>4 DEF TakeIdle
  <2>4. pool' \in [Peers -> Seq(Conns)]
    BY <2>1, <2>2, <2>3, LeftIs
  <2>5. n # 0 => pool[i][n] \in Conns
    BY <2>1, <2>2
  <2>6. /\ pc[s] = "take" /\ pc' = [pc EXCEPT ![s] = IF n = 0 THEN "dial" ELSE "send"]
        /\ conn' = [conn EXCEPT ![s] = IF n = 0 THEN None ELSE pool[i][n]]
        /\ reused' = [reused EXCEPT ![s] = n # 0]
        /\ UNCHANGED <<weight, healthVars, request, tried, peer, linkVars, executed>>
    BY <1>4 DEF TakeIdle
  <2> HIDE DEF n
  <2>7. conn'[s] \in Conns <=> n # 0
    BY <1>0, <2>5, <2>6
  <2>8. TypeOK'
    BY <1>0, <2>4, <2>5, <2>6 DEF healthVars, linkVars
  <2>9. SessionsOK'
    <3> SUFFICES ASSUME NEW t \in Sessions
                 PROVE  /\ conn'[t] # None <=> pc'[t] \in Holding
                        /\ pc'[t] \in Chosen => peer[t] \in tried[t]
                        /\ pc'[t] = "dial" => ~reused'[t]
      BY <2>6
    <3>1. CASE t = s
      BY <1>0, <2>5, <2>6, <3>1
    <3>2. CASE t # s
      BY <2>6, <3>2
    <3> QED
      BY <3>1, <3>2
  <2> QED
    BY <2>8, <2>9
<1>5. ASSUME NEW s \in Sessions, NEW k \in Conns, Dialled(s, k)
      PROVE  Core'
  BY <1>0, <1>5 DEF Dialled, groupVars, healthVars, linkVars
<1>6. ASSUME NEW s \in Sessions, DialFailed(s)
      PROVE  Core'
  <2>1. HealthTypes'
    BY <1>0, <1>6, ReportTypes DEF DialFailed
  <2> QED
    BY <1>6, <2>1 DEF DialFailed, sessVars, linkVars, HealthTypes
<1>7. ASSUME NEW s \in Sessions, Sent(s)
      PROVE  Core'
  BY <1>0, <1>7 DEF Sent, groupVars, healthVars, sessVars, linkVars
<1>8. ASSUME NEW s \in Sessions, NEW from \in Holding, pc[s] = from, GiveUp(s, from),
             UNCHANGED <<weight, pool, linkVars, executed>>
      PROVE  Core'
  <2>1. HealthTypes'
    BY <1>0, <1>8, ReportTypes DEF GiveUp
  <2> QED
    BY <1>8, <2>1 DEF GiveUp, Over, linkVars, HealthTypes
<1>9. ASSUME NEW s \in Sessions, NEW from \in Holding, pc[s] = from, Redial(s, from),
             UNCHANGED <<weight, pool, linkVars, executed>>
      PROVE  Core'
  BY <1>9 DEF Redial, linkVars, healthVars
<1>10. ASSUME NEW s \in Sessions,
              SendFailed(s) \/ NoResponse(s) \/ ReadTimeout(s)
       PROVE  Core'
  BY <1>8, <1>9, <1>10 DEF SendFailed, NoResponse, ReadTimeout, Redial, GiveUp, Over
<1>11. ASSUME NEW s \in Sessions, NEW ok \in BOOLEAN, BadHead(s, ok)
       PROVE  Core'
  <2>1. HealthTypes'
    BY <1>0, <1>11, ReportTypes DEF BadHead
  <2> QED
    BY <1>11, <2>1 DEF BadHead, Over, linkVars, HealthTypes
<1>12. ASSUME NEW s \in Sessions, HeadRead(s)
       PROVE  Core'
  <2>1. HealthTypes'
    BY <1>0, <1>12, ReportTypes DEF HeadRead
  <2> QED
    BY <1>12, <2>1 DEF HeadRead, sessVars, linkVars, HealthTypes
<1>13. ASSUME NEW s \in Sessions, RelayFailed(s)
       PROVE  Core'
  BY <1>13 DEF RelayFailed, Over, groupVars, healthVars, linkVars
<1>14. ASSUME NEW s \in Sessions, NEW inBuffer \in BOOLEAN, Relayed(s, inBuffer)
       PROVE  Core'
  <2>1. peer[s] \in Peers /\ conn[s] \in Conns
    BY <1>0, <1>14 DEF Relayed
  <2>2. pool' \in [Peers -> Seq(Conns)]
    BY <1>14, <2>1, ParkedIs DEF Relayed
  <2> QED
    BY <1>0, <1>14, <2>2 DEF Relayed, Over, healthVars
<1>15. ASSUME NEW k \in Conns, pending[k] # None, Execute(k)
       PROVE  executed' \in [Requests -> Nat]
  BY <1>15 DEF Execute
<1>16. ASSUME NEW k \in Conns, NEW kind \in Kinds, Serve(k, kind)
       PROVE  Core'
  <2>1. executed' \in [Requests -> Nat]
    BY <1>15, <1>16 DEF Serve
  <2>2. [to |-> pending[k], kind |-> kind] \in Replies
    BY <1>16 DEF Serve, Replies
  <2> QED
    BY <1>16, <2>1, <2>2 DEF Serve, groupVars, healthVars, sessVars
<1>17. ASSUME NEW k \in Conns, ServeAndClose(k) \/ UpstreamCloses(k)
       PROVE  Core'
  <2>1. executed' \in [Requests -> Nat]
    BY <1>15, <1>17 DEF ServeAndClose, UpstreamCloses
  <2>2. /\ UNCHANGED <<groupVars, pc, sessVars, reply, surplus>>
        /\ pending' = [pending EXCEPT ![k] = None] /\ upOpen' = [upOpen EXCEPT ![k] = FALSE]
    <3> HIDE DEF Core, TypeOK, SessionsOK, Holding, Chosen, Goto
    <3> QED
      BY <1>17, Zenon DEF ServeAndClose, UpstreamCloses
  <2>3. pending' \in [Conns -> Requests \cup {None}] /\ upOpen' \in [Conns -> BOOLEAN]
    BY <2>2
  <2> QED
    BY <2>1, <2>2, <2>3 DEF groupVars, healthVars, sessVars
<1>18. ASSUME NEW i \in Peers, Passes(i)
       PROVE  Core'
  BY <1>18 DEF Passes, TimePasses, sessVars, linkVars
<1>19. CASE UNCHANGED vars
  BY <1>19 DEF vars, groupVars, healthVars, sessVars, linkVars
<1>20. ASSUME NEW s \in Sessions, SessionStep(s)
       PROVE  Core'
  BY <1>2, <1>3, <1>4, <1>5, <1>6, <1>7, <1>10, <1>11, <1>12, <1>13, <1>14, <1>20,
     Zenon DEF SessionStep
<1> QED
  BY <1>1, <1>16, <1>17, <1>18, <1>19, <1>20, Zenon DEF Next

-----------------------------------------------------------------------------
(* Connections and the pool.                                               *)

\* PoolDetached, place by place of the pool.
PlacesOK ==
  /\ \A i, j \in Peers : \A m \in 1..Len(pool[i]), n \in 1..Len(pool[j]) :
       pool[i][m] = pool[j][n] => i = j /\ m = n
  /\ \A i \in Peers : \A m \in 1..Len(pool[i]) :
       /\ \A s \in Sessions : conn[s] # pool[i][m]
       /\ pending[pool[i][m]] = None /\ reply[pool[i][m]] = None
  /\ \A s, t \in Sessions : conn[s] = conn[t] => s = t \/ conn[s] = None
  /\ \A i \in Peers : Len(pool[i]) <= Keepalive

\* The two say the same.
LEMMA PlacesAre ==
  ASSUME Core, Core'
  PROVE  /\ PoolDetached <=> PlacesOK
         /\ PoolDetached' <=> PlacesOK'
<1>1. /\ \A i \in Peers : pool[i] \in Seq(Conns) /\ \A m \in 1..Len(pool[i]) : pool[i][m] \in Conns
      /\ \A i \in Peers : pool'[i] \in Seq(Conns) /\ \A m \in 1..Len(pool'[i]) : pool'[i][m] \in Conns
      /\ None \notin Conns
  BY ForwardAssumption DEF Core, TypeOK
<1>2. /\ \A k : k \in Pooled <=> \E i \in Peers : \E m \in 1..Len(pool[i]) : pool[i][m] = k
      /\ \A k : k \in Pooled' <=> \E i \in Peers : \E m \in 1..Len(pool'[i]) : pool'[i][m] = k
  BY <1>1 DEF Pooled, ToSet
<1>3. /\ \A k \in Conns : k \in InHand <=> \E s \in Sessions : conn[s] = k
      /\ \A k \in Conns : k \in InHand' <=> \E s \in Sessions : conn'[s] = k
  BY <1>1 DEF InHand
<1>4. PoolDetached <=> PlacesOK
  BY <1>1, <1>2, <1>3 DEF PoolDetached, PlacesOK
<1>5. PoolDetached' <=> PlacesOK'
  BY <1>1, <1>2, <1>3 DEF PoolDetached, PlacesOK
<1> QED
  BY <1>4, <1>5

\* It holds at the start.
LEMMA LinkInit == Init => LinkInv
<1> SUFFICES ASSUME Init PROVE LinkInv
  OBVIOUS
<1>1. Pooled = {}
  BY DEF Init, GroupInit, Pooled, ToSet
<1>2. \A i \in Peers : Len(pool[i]) = 0
  BY DEF Init, GroupInit
<1>3. PoolDetached
  BY <1>1, <1>2, GroupAssumption DEF Init, PoolDetached
<1> QED
  BY <1>3 DEF Init, LinkInv, OwnResponse, LinksOK

\* A step of s after which it has no connection in hand and that changes no
\* connection otherwise.
Drops(s) ==
  /\ UNCHANGED <<pool, linkVars>>
  /\ \E to \in {"idle", "pick", "take", "dial"} : pc' = [pc EXCEPT ![s] = to]
  /\ conn' \in {conn, [conn EXCEPT ![s] = None]}
  /\ \A t \in Sessions \ {s} : request'[t] = request[t]

\* Those of forward's steps that are of this kind.
LEMMA Dropping ==
  ASSUME Core, NEW s \in Sessions,
         \/ \E m \in Methods : Arrive(s, m)
         \/ PickPeer(s) \/ NoPeerLeft(s) \/ DialFailed(s)
         \/ SendFailed(s) \/ NoResponse(s) \/ ReadTimeout(s) \/ RelayFailed(s)
         \/ \E ok \in BOOLEAN : BadHead(s, ok)
  PROVE  Drops(s)
<1> USE DEF Core, TypeOK, Drops, Goto, Over
<1>1. ASSUME NEW m \in Methods, Arrive(s, m) PROVE Drops(s)
  BY <1>1 DEF Arrive, groupVars
<1>2. CASE PickPeer(s)
  BY <1>2 DEF PickPeer, Pick
<1>3. CASE NoPeerLeft(s)
  BY <1>3 DEF NoPeerLeft, groupVars
<1>4. CASE DialFailed(s)
  BY <1>4 DEF DialFailed, sessVars
<1>5. CASE SendFailed(s) \/ NoResponse(s) \/ ReadTimeout(s)
  BY <1>5 DEF SendFailed, NoResponse, ReadTimeout, Redial, GiveUp
<1>6. CASE RelayFailed(s)
  BY <1>6 DEF RelayFailed, groupVars
<1>7. ASSUME NEW ok \in BOOLEAN, BadHead(s, ok) PROVE Drops(s)
  BY <1>7 DEF BadHead
<1> QED
  BY <1>1, <1>2, <1>3, <1>4, <1>5, <1>6, <1>7, Zenon

\* A connection that take_idle finds leaves the pool, carries nothing, and is
\* nobody else's.
LEMMA TakeIdleLinks ==
  ASSUME Core, Core', PlacesOK, OwnResponse, LinksOK,
         NEW s \in Sessions, NEW old \in 0..Keepalive, TakeIdle(s, old)
  PROVE  PlacesOK' /\ OwnResponse' /\ LinksOK'
<1>1. /\ pool \in [Peers -> Seq(Conns)] /\ pool' \in [Peers -> Seq(Conns)]
      /\ pc \in [Sessions -> {"idle", "pick", "take", "dial", "send", "await", "relay"}]
      /\ conn \in [Sessions -> Conns \cup {None}] /\ None \notin Conns
      /\ \A j \in Peers : Len(pool[j]) \in Nat /\ Len(pool'[j]) \in Nat
      /\ old \in Nat /\ Keepalive \in Nat
  BY ForwardAssumption, GroupAssumption DEF Core, TypeOK
<1>2. pc[s] = "take" /\ conn[s] = None /\ peer[s] \in Peers
  BY GroupAssumption DEF TakeIdle, Core, TypeOK, SessionsOK, Chosen, Holding
<1>3. PICK i \in Peers : i = peer[s]
  BY <1>2
<1>4. /\ FoundAt(i, old, Quiet) \in 0..Len(pool[i])
      /\ FoundAt(i, old, Quiet) # 0 => pool[i][FoundAt(i, old, Quiet)] \in Quiet
  <2>1. pool[i] \in Seq(Conns)
    BY <1>1
  <2> QED
    BY <1>1, <2>1, FoundIs
<1>5. PICK n \in 0..Len(pool[i]) :
        n = FoundAt(i, old, Quiet) /\ (n # 0 => pool[i][n] \in Quiet)
  BY <1>4
<1>6. /\ pc' = [pc EXCEPT ![s] = IF n = 0 THEN "dial" ELSE "send"]
      /\ conn' = [conn EXCEPT ![s] = IF n = 0 THEN None ELSE pool[i][n]]
      /\ UNCHANGED <<request, upOpen, pending, reply, surplus>>
      /\ pool' = LeftAfter(i, n)
  BY <1>3, <1>5 DEF TakeIdle, Goto, linkVars
<1>7. /\ \A j \in Peers : Len(pool'[j]) <= Len(pool[j])
      /\ \A j \in Peers : \A m \in 1..Len(pool'[j]) : pool'[j][m] = pool[j][m]
      /\ n # 0 => Len(pool'[i]) = n - 1
  BY <1>1, <1>6, LeftIs
<1>8. \A j \in Peers : \A m \in 1..Len(pool'[j]) :
        /\ m \in 1..Len(pool[j]) /\ pool'[j][m] = pool[j][m]
        /\ n # 0 => pool[j][m] # pool[i][n]
  <2>1. TAKE j \in Peers
  <2>2. TAKE m \in 1..Len(pool'[j])
  <2>3. m \in 1..Len(pool[j])
    BY <1>1, <1>7
  <2>4. ASSUME n # 0, pool[j][m] = pool[i][n] PROVE FALSE
    <3>1. n \in 1..Len(pool[i])
      BY <1>1, <2>4
    <3>2. j = i /\ m = n
      BY <2>3, <2>4, <3>1 DEF PlacesOK
    <3> QED
      BY <1>1, <1>7, <2>4, <3>2
  <2> QED
    BY <1>7, <2>3, <2>4
<1>9. n # 0 => /\ pool[i][n] \in Conns /\ pending[pool[i][n]] = None
               /\ reply[pool[i][n]] = None /\ ~surplus[pool[i][n]]
               /\ \A t \in Sessions : conn[t] # pool[i][n]
  <2>1. n # 0 => n \in 1..Len(pool[i])
    BY <1>1
  <2> QED
    BY <1>1, <1>5, <2>1 DEF PlacesOK, Quiet
<1>10. PlacesOK'
  <2>1. \A j \in Peers : Len(pool'[j]) <= Keepalive
    BY <1>1, <1>7 DEF PlacesOK
  <2>2. \A j, l \in Peers : \A m \in 1..Len(pool'[j]), o \in 1..Len(pool'[l]) :
          pool'[j][m] = pool'[l][o] => j = l /\ m = o
    BY <1>8 DEF PlacesOK
  <2>3. \A j \in Peers : \A m \in 1..Len(pool'[j]) :
          /\ \A t \in Sessions : conn'[t] # pool'[j][m]
          /\ pending'[pool'[j][m]] = None /\ reply'[pool'[j][m]] = None
    <3>1. TAKE j \in Peers
    <3>2. TAKE m \in 1..Len(pool'[j])
    <3>3. /\ pool[j][m] \in Conns /\ \A t \in Sessions : conn[t] # pool[j][m]
          /\ pending[pool[j][m]] = None /\ reply[pool[j][m]] = None
      BY <1>1, <1>8 DEF PlacesOK
    <3>4. \A t \in Sessions : conn'[t] # pool[j][m]
      BY <1>1, <1>6, <1>8, <3>3
    <3> QED
      BY <1>6, <1>8, <3>3, <3>4
  <2>4. \A t, u \in Sessions : conn'[t] = conn'[u] => t = u \/ conn'[t] = None
    BY <1>1, <1>6, <1>9 DEF PlacesOK
  <2> QED
    BY <2>1, <2>2, <2>3, <2>4 DEF PlacesOK
<1>11. OwnResponse' /\ LinksOK'
  BY <1>1, <1>2, <1>6, <1>9 DEF OwnResponse, LinksOK
<1> QED
  BY <1>10, <1>11

\* A request goes out on a connection that carries nothing.
LEMMA SentLinks ==
  ASSUME Core, Core', PlacesOK, OwnResponse, LinksOK, NEW s \in Sessions, Sent(s)
  PROVE  PlacesOK' /\ OwnResponse' /\ LinksOK'
<1>1. /\ pool \in [Peers -> Seq(Conns)]
      /\ pc \in [Sessions -> {"idle", "pick", "take", "dial", "send", "await", "relay"}]
      /\ conn \in [Sessions -> Conns \cup {None}] /\ None \notin Conns
      /\ pending \in [Conns -> Requests \cup {None}]
      /\ \A t \in Sessions : pc[t] \in Holding => conn[t] \in Conns
  BY ForwardAssumption DEF Core, TypeOK, SessionsOK
<1>2. pc[s] = "send" /\ conn[s] \in Conns
  <2>1. pc[s] = "send"
    BY DEF Sent, Goto
  <2> QED
    BY <1>1, <2>1 DEF Holding
<1>3. PICK k \in Conns : k = conn[s]
  BY <1>2
<1>4. PICK w \in {None, request[s]} :
        /\ pc' = [pc EXCEPT ![s] = "await"] /\ pending' = [pending EXCEPT ![k] = w]
        /\ upOpen[k] \/ w = None
        /\ UNCHANGED <<pool, request, conn, upOpen, reply, surplus>>
  BY <1>3 DEF Sent, Goto, groupVars, sessVars
<1>5. /\ \A t \in Sessions \ {s} : conn[t] # k
      /\ \A j \in Peers : \A m \in 1..Len(pool[j]) : pool[j][m] # k
      /\ ~surplus[k] /\ reply[k] = None
  <2>1. \A t \in Sessions \ {s} : conn[t] # k
    BY <1>1, <1>3 DEF PlacesOK
  <2>2. \A j \in Peers : \A m \in 1..Len(pool[j]) : pool[j][m] # k
    BY <1>3 DEF PlacesOK
  <2>3. ~surplus[k] /\ reply[k] = None
    BY <1>2, <1>3 DEF OwnResponse
  <2> QED
    BY <2>1, <2>2, <2>3
<1>6. PlacesOK'
  <2>1. ASSUME NEW i \in Peers, NEW m \in 1..Len(pool[i])
        PROVE  /\ \A t \in Sessions : conn[t] # pool[i][m]
               /\ pending'[pool[i][m]] = None /\ reply[pool[i][m]] = None
    <3>1. pool[i][m] \in Conns /\ pool[i][m] # k
      BY <1>1, <1>5
    <3>2. pending'[pool[i][m]] = pending[pool[i][m]]
      BY <1>1, <1>4, <3>1
    <3> QED
      BY <3>2 DEF PlacesOK
  <2> QED
    BY <1>4, <2>1 DEF PlacesOK
<1>7. OwnResponse'
  <2>1. ASSUME NEW t \in Sessions
        PROVE  /\ pc'[t] \in Holding => ~surplus[conn[t]]
               /\ pc'[t] = "send" => pending'[conn[t]] = None /\ reply[conn[t]] = None
               /\ pc'[t] \in {"await", "relay"} /\ reply[conn[t]] # None =>
                    reply[conn[t]].to = request[t]
    <3>1. CASE t = s
      BY <1>1, <1>3, <1>4, <1>5, <3>1
    <3>2. CASE t # s
      <4>1. pc'[t] = pc[t] /\ conn[t] # k
        BY <1>1, <1>4, <1>5, <3>2
      <4>2. pc[t] = "send" => pending'[conn[t]] = pending[conn[t]]
        BY <1>1, <1>4, <4>1 DEF Holding
      <4> QED
        BY <4>1, <4>2 DEF OwnResponse, Holding
    <3> QED
      BY <3>1, <3>2
  <2> QED
    BY <1>4, <2>1 DEF OwnResponse, Holding
<1>8. LinksOK'
  <2>1. ASSUME NEW l \in Conns
        PROVE  /\ ~upOpen[l] => pending'[l] = None
               /\ reply[l] # None => pending'[l] = None
    BY <1>1, <1>4, <1>5 DEF LinksOK
  <2>2. ASSUME NEW t \in Sessions
        PROVE  /\ pc'[t] = "await" => pending'[conn[t]] \in {None, request[t]}
               /\ pc'[t] = "relay" => reply[conn[t]] # None
    <3>1. CASE t = s
      BY <1>1, <1>3, <1>4, <3>1
    <3>2. CASE t # s
      <4>1. pc'[t] = pc[t] /\ conn[t] # k
        BY <1>1, <1>4, <1>5, <3>2
      <4>2. pc[t] = "await" => pending'[conn[t]] = pending[conn[t]]
        BY <1>1, <1>4, <4>1 DEF Holding
      <4> QED
        BY <4>1, <4>2 DEF LinksOK
    <3> QED
      BY <3>1, <3>2
  <2> QED
    BY <1>4, <2>1, <2>2 DEF LinksOK
<1> QED
  BY <1>6, <1>7, <1>8

\* A connection that is parked carries nothing and leaves the session's hands.
LEMMA RelayedLinks ==
  ASSUME Core, Core', PlacesOK, OwnResponse, LinksOK,
         NEW s \in Sessions, NEW inBuffer \in BOOLEAN, Relayed(s, inBuffer)
  PROVE  PlacesOK' /\ OwnResponse' /\ LinksOK'
<1>1. /\ pool \in [Peers -> Seq(Conns)] /\ pool' \in [Peers -> Seq(Conns)]
      /\ pc \in [Sessions -> {"idle", "pick", "take", "dial", "send", "await", "relay"}]
      /\ conn \in [Sessions -> Conns \cup {None}] /\ None \notin Conns
      /\ reply \in [Conns -> Replies \cup {None}]
      /\ \A j \in Peers : Len(pool[j]) \in Nat /\ Len(pool'[j]) \in Nat
      /\ \A t \in Sessions : pc[t] \in Holding => conn[t] \in Conns
  BY ForwardAssumption DEF Core, TypeOK, SessionsOK
<1>2. pc[s] = "relay" /\ conn[s] \in Conns /\ peer[s] \in Peers
  <2>1. pc[s] = "relay"
    BY DEF Relayed
  <2> QED
    BY <1>1, <2>1, GroupAssumption DEF Core, TypeOK, SessionsOK, Chosen, Holding
<1>3. PICK k \in Conns : k = conn[s]
  BY <1>2
<1>4. PICK i \in Peers : i = peer[s]
  BY <1>2
<1>5. /\ pending[k] = None
      /\ \A t \in Sessions \ {s} : conn[t] # k
      /\ \A j \in Peers : \A m \in 1..Len(pool[j]) : pool[j][m] # k
  <2>1. pending[k] = None
    BY <1>2, <1>3 DEF LinksOK
  <2>2. \A t \in Sessions \ {s} : conn[t] # k
    BY <1>1, <1>3 DEF PlacesOK
  <2>3. \A j \in Peers : \A m \in 1..Len(pool[j]) : pool[j][m] # k
    BY <1>3 DEF PlacesOK
  <2> QED
    BY <2>1, <2>2, <2>3
<1>6. /\ pc' = [pc EXCEPT ![s] = "idle"] /\ conn' = [conn EXCEPT ![s] = None]
      /\ UNCHANGED <<request, upOpen, pending>>
      /\ reply' = [reply EXCEPT ![k] = None]
      /\ \A l \in Conns \ {k} : surplus'[l] = surplus[l]
      /\ pool' = pool \/ pool' = Parked(i, k)
  BY <1>3, <1>4 DEF Relayed, Over, Goto, Core, TypeOK
<1>7. OwnResponse' /\ LinksOK'
  <2>1. ASSUME NEW t \in Sessions, t # s, pc[t] \in Holding
        PROVE  /\ pc'[t] = pc[t] /\ conn'[t] = conn[t] /\ conn[t] \in Conns \ {k}
               /\ reply'[conn[t]] = reply[conn[t]] /\ surplus'[conn[t]] = surplus[conn[t]]
    BY <1>1, <1>5, <1>6, <2>1
  <2>2. pc'[s] = "idle" /\ \A t \in Sessions : t # s => pc'[t] = pc[t]
    BY <1>1, <1>6
  <2>3. OwnResponse'
    BY <1>6, <2>1, <2>2 DEF OwnResponse, Holding
  <2>4. \A l \in Conns : reply'[l] = reply[l] \/ reply'[l] = None
    BY <1>1, <1>6
  <2>5. LinksOK'
    BY <1>6, <2>1, <2>2, <2>4 DEF LinksOK, Holding
  <2> QED
    BY <2>3, <2>5
<1>8. /\ \A t, u \in Sessions : conn'[t] = conn'[u] => t = u \/ conn'[t] = None
      /\ \A t \in Sessions : conn'[t] # k
  BY <1>1, <1>3, <1>5, <1>6 DEF PlacesOK
<1>9. ASSUME NEW j \in Peers, NEW o \in 1..Len(pool[j])
      PROVE  /\ \A t \in Sessions : conn'[t] # pool[j][o]
             /\ pending'[pool[j][o]] = None /\ reply'[pool[j][o]] = None
  <2>1. pool[j][o] \in Conns /\ pool[j][o] # k
    BY <1>1, <1>5
  <2> QED
    BY <1>1, <1>6, <2>1 DEF PlacesOK
<1>10. CASE pool' = pool
  <2>1. \A j, l \in Peers : \A m \in 1..Len(pool'[j]), o \in 1..Len(pool'[l]) :
          pool'[j][m] = pool'[l][o] => j = l /\ m = o
    BY <1>10 DEF PlacesOK
  <2>2. \A j \in Peers : Len(pool'[j]) <= Keepalive
    BY <1>10 DEF PlacesOK
  <2>3. \A j \in Peers : \A m \in 1..Len(pool'[j]) :
          /\ \A t \in Sessions : conn'[t] # pool'[j][m]
          /\ pending'[pool'[j][m]] = None /\ reply'[pool'[j][m]] = None
    BY <1>9, <1>10
  <2> QED
    BY <1>7, <1>8, <2>1, <2>2, <2>3, Zenon DEF PlacesOK
<1>11. ASSUME NEW d \in {0, 1},
              Len(pool'[i]) = Len(pool[i]) + 1 - d,
              \A m \in 1..Len(pool'[i]) :
                pool'[i][m] = IF m + d = Len(pool[i]) + 1 THEN k ELSE pool[i][m + d],
              \A j \in Peers : j # i => pool'[j] = pool[j],
              \A j \in Peers : Len(pool'[j]) <= Keepalive
       PROVE  PlacesOK'
  <2>1. \A j \in Peers : \A m \in 1..Len(pool'[j]) :
          \/ j = i /\ m + d = Len(pool[i]) + 1 /\ pool'[j][m] = k
          \/ \E o \in 1..Len(pool[j]) :
               o = (IF j = i THEN m + d ELSE m) /\ pool'[j][m] = pool[j][o]
    <3>1. TAKE j \in Peers
    <3>2. TAKE m \in 1..Len(pool'[j])
    <3>3. CASE j # i
      BY <1>1, <1>11, <3>3
    <3>4. CASE j = i /\ m + d = Len(pool[i]) + 1
      BY <1>11, <3>4
    <3>5. CASE j = i /\ m + d # Len(pool[i]) + 1
      <4>1. m + d \in 1..Len(pool[i])
        BY <1>1, <1>11, <3>5
      <4> QED
        BY <1>11, <3>5, <4>1
    <3> QED
      BY <3>3, <3>4, <3>5
  <2>2. ASSUME NEW j \in Peers, NEW l \in Peers,
               NEW m \in 1..Len(pool'[j]), NEW o \in 1..Len(pool'[l]),
               pool'[j][m] = pool'[l][o]
        PROVE  j = l /\ m = o
    <3>1. m \in Int /\ o \in Int /\ d \in Int /\ Len(pool[i]) \in Int
      BY <1>1
    <3>2. CASE pool'[j][m] = k
      <4>1. j = i /\ m + d = Len(pool[i]) + 1
        BY <1>5, <2>1, <3>2
      <4>2. l = i /\ o + d = Len(pool[i]) + 1
        <5>1. pool'[l][o] = k
          BY <2>2, <3>2
        <5> QED
          BY <1>5, <2>1, <5>1
      <4> QED
        BY <3>1, <4>1, <4>2
    <3>3. CASE pool'[j][m] # k
      <4>1. PICK m2 \in 1..Len(pool[j]) :
              m2 = (IF j = i THEN m + d ELSE m) /\ pool'[j][m] = pool[j][m2]
        BY <2>1, <3>3
      <4>2. PICK o2 \in 1..Len(pool[l]) :
              o2 = (IF l = i THEN o + d ELSE o) /\ pool'[l][o] = pool[l][o2]
        BY <2>1, <2>2, <3>3
      <4>3. j = l /\ m2 = o2
        <5>1. pool[j][m2] = pool[l][o2]
          BY <2>2, <4>1, <4>2
        <5> QED
          BY <5>1 DEF PlacesOK
      <4> QED
        BY <3>1, <4>1, <4>2, <4>3
    <3> QED
      BY <3>2, <3>3
  <2>3. ASSUME NEW j \in Peers, NEW m \in 1..Len(pool'[j])
        PROVE  /\ \A t \in Sessions : conn'[t] # pool'[j][m]
               /\ pending'[pool'[j][m]] = None /\ reply'[pool'[j][m]] = None
    <3>1. CASE pool'[j][m] = k
      BY <1>1, <1>5, <1>6, <1>8, <3>1
    <3>2. CASE pool'[j][m] # k
      BY <1>9, <2>1, <3>2
    <3> QED
      BY <3>1, <3>2
  <2> QED
    BY <1>8, <1>11, <2>2, <2>3 DEF PlacesOK
<1>12. CASE pool' = Parked(i, k)
  <2>1. \A j \in Peers : Len(pool[j]) <= Keepalive
    BY DEF PlacesOK
  <2>2. /\ \A j \in Peers : Len(pool'[j]) <= Keepalive
        /\ \A j \in Peers : j # i => pool'[j] = pool[j]
        /\ \/ pool' = pool
           \/ \E d \in {0, 1} :
                /\ Len(pool'[i]) = Len(pool[i]) + 1 - d
                /\ \A m \in 1..Len(pool'[i]) :
                     pool'[i][m] = IF m + d = Len(pool[i]) + 1 THEN k ELSE pool[i][m + d]
    BY <1>1, <1>12, <2>1, ParkedIs
  <2>3. CASE pool' # pool
    <3>1. PICK d \in {0, 1} :
            /\ Len(pool'[i]) = Len(pool[i]) + 1 - d
            /\ \A m \in 1..Len(pool'[i]) :
                 pool'[i][m] = IF m + d = Len(pool[i]) + 1 THEN k ELSE pool[i][m + d]
      BY <2>2, <2>3
    <3> QED
      BY <1>7, <1>11, <2>2, <3>1
  <2> QED
    BY <1>10, <2>3
<1> QED
  BY <1>6, <1>7, <1>10, <1>12

\* Every step keeps connections and the pool in order.
LEMMA LinkNext ==
  ASSUME Core, Core', LinkInv, [Next]_vars
  PROVE  LinkInv'
<1>0. /\ PlacesOK /\ OwnResponse /\ LinksOK /\ None \notin Conns \cup Requests \cup Replies
      /\ PoolDetached' <=> PlacesOK'
  BY PlacesAre, ForwardAssumption DEF LinkInv
<1>b. /\ \A i \in Peers : \A m \in 1..Len(pool[i]) : pool[i][m] \in Conns
      /\ conn \in [Sessions -> Conns \cup {None}]
      /\ \A s, t \in Sessions : conn[s] = conn[t] => s = t \/ conn[s] = None
  BY <1>0 DEF Core, TypeOK, PlacesOK
<1>a. SUFFICES PlacesOK' /\ OwnResponse' /\ LinksOK'
  BY <1>0 DEF LinkInv
<1> USE <1>0 DEF OwnResponse, LinksOK, Core, TypeOK, SessionsOK, Holding, Goto
<1>1. ASSUME NEW s \in Sessions, Drops(s)
      PROVE  PlacesOK' /\ OwnResponse' /\ LinksOK'
  <2>1. PlacesOK'
    <3> HIDE DEF OwnResponse, LinksOK, Core, TypeOK, SessionsOK, Holding, Goto
    <3>1. /\ UNCHANGED <<pool, pending, reply>>
          /\ \A t \in Sessions : conn'[t] \in {conn[t], None}
      BY <1>1, <1>b DEF Drops, linkVars
    <3> QED
      BY <1>0, <1>b, <3>1 DEF PlacesOK
  <2>2. OwnResponse' /\ LinksOK'
    BY <1>1 DEF Drops, linkVars
  <2> QED
    BY <2>1, <2>2
<1>2. ASSUME NEW s \in Sessions, HeadRead(s)
      PROVE  PlacesOK' /\ OwnResponse' /\ LinksOK'
  <2>1. PlacesOK'
    <3> HIDE DEF OwnResponse, LinksOK, Core, TypeOK, SessionsOK, Holding, Goto
    <3>1. UNCHANGED <<pool, pending, reply, conn>>
      BY <1>2 DEF HeadRead, linkVars, sessVars
    <3> QED
      BY <1>0, <3>1 DEF PlacesOK
  <2>2. OwnResponse' /\ LinksOK'
    BY <1>2 DEF HeadRead, linkVars, sessVars
  <2> QED
    BY <2>1, <2>2
<1>3. ASSUME NEW s \in Sessions, NEW k \in Conns, Dialled(s, k)
      PROVE  PlacesOK' /\ OwnResponse' /\ LinksOK'
  <2>1. /\ k \in Conns /\ ~upOpen[k]
        /\ \A t \in Sessions : conn[t] # k
        /\ \A i \in Peers : \A m \in 1..Len(pool[i]) : pool[i][m] # k
    BY <1>3 DEF Dialled, Unused, Pooled, InHand, ToSet
  <2>2. PlacesOK'
    <3>1. /\ pool' = pool /\ \A l \in Conns \ {k} : pending'[l] = pending[l] /\ reply'[l] = reply[l]
          /\ conn' = [conn EXCEPT ![s] = k]
      BY <1>3 DEF Dialled, groupVars
    <3> HIDE DEF OwnResponse, LinksOK, Core, TypeOK, SessionsOK, Holding, Goto
    <3>2. \A t \in Sessions : conn'[t] = IF t = s THEN k ELSE conn[t]
      BY <1>b, <3>1
    <3> QED
      BY <1>0, <1>b, <2>1, <3>1, <3>2 DEF PlacesOK
  <2>3. OwnResponse' /\ LinksOK'
    BY <1>3, <2>1 DEF Dialled
  <2> QED
    BY <2>2, <2>3
<1>4. ASSUME NEW s \in Sessions, Sent(s)
      PROVE  PlacesOK' /\ OwnResponse' /\ LinksOK'
  <2> HIDE <1>0 DEF OwnResponse, LinksOK, Core, TypeOK, SessionsOK, Holding, Goto
  <2> QED
    BY <1>0, <1>4, SentLinks, Zenon
<1>5. ASSUME NEW s \in Sessions, NEW old \in 0..Keepalive, TakeIdle(s, old)
      PROVE  PlacesOK' /\ OwnResponse' /\ LinksOK'
  <2> HIDE <1>0 DEF OwnResponse, LinksOK, Core, TypeOK, SessionsOK, Holding, Goto
  <2> QED
    BY <1>0, <1>5, TakeIdleLinks, Zenon
<1>6. ASSUME NEW s \in Sessions, NEW inBuffer \in BOOLEAN, Relayed(s, inBuffer)
      PROVE  PlacesOK' /\ OwnResponse' /\ LinksOK'
  <2> HIDE <1>0 DEF OwnResponse, LinksOK, Core, TypeOK, SessionsOK, Holding, Goto
  <2> QED
    BY <1>0, <1>6, RelayedLinks, Zenon
<1>7. ASSUME NEW k \in Conns,
             (\E kind \in Kinds : Serve(k, kind)) \/ ServeAndClose(k) \/ UpstreamCloses(k)
      PROVE  PlacesOK' /\ OwnResponse' /\ LinksOK'
  <2>1. /\ UNCHANGED <<pool, pc, conn, request, surplus>>
        /\ pending' = [pending EXCEPT ![k] = None]
        /\ \A l \in Conns \ {k} : reply'[l] = reply[l] /\ upOpen'[l] = upOpen[l]
        /\ \/ reply' = reply
           \/ pending[k] # None /\ reply'[k] # None /\ reply'[k].to = pending[k]
    <3>1. ASSUME NEW kind \in Kinds, Serve(k, kind)
          PROVE  /\ reply'[k] = [to |-> pending[k], kind |-> kind]
                 /\ reply'[k] \in Replies /\ pending[k] # None
      BY <3>1 DEF Serve, Replies
    <3> QED
      BY <1>7, <3>1 DEF Serve, ServeAndClose, UpstreamCloses, groupVars, sessVars
  <2>2. PlacesOK'
    BY <2>1 DEF PlacesOK
  <2>3. OwnResponse' /\ LinksOK'
    BY <2>1
  <2> QED
    BY <2>2, <2>3
<1>8. CASE UNCHANGED <<pool, pc, conn, request, linkVars>>
  BY <1>8 DEF linkVars, PlacesOK
<1>9. ASSUME NEW s \in Sessions, SessionStep(s) \/ \E m \in Methods : Arrive(s, m)
      PROVE  PlacesOK' /\ OwnResponse' /\ LinksOK'
  <2>1. \/ Drops(s) \/ HeadRead(s) \/ Sent(s)
        \/ \E k \in Conns : Dialled(s, k)
        \/ \E old \in 0..Keepalive : TakeIdle(s, old)
        \/ \E inBuffer \in BOOLEAN : Relayed(s, inBuffer)
    BY <1>9, Dropping, Zenon DEF SessionStep
  <2> QED
    BY <1>1, <1>2, <1>3, <1>4, <1>5, <1>6, <2>1
<1>10. ASSUME NEW i \in Peers, Passes(i)
       PROVE  UNCHANGED <<pool, pc, conn, request, linkVars>>
  BY <1>10 DEF Passes, TimePasses, sessVars
<1>11. CASE UNCHANGED vars
  BY <1>8, <1>11 DEF vars, groupVars, sessVars
<1> QED
  BY <1>7, <1>8, <1>9, <1>10, <1>11, Zenon DEF Next

-----------------------------------------------------------------------------
(* What a request costs.                                                   *)

\* The number of peers tried, and of those tried after one more.
LEMMA Tries ==
  ASSUME NEW T \in SUBSET Peers
  PROVE  /\ Cardinality(T) \in 0..NPeers
         /\ \A i \in Peers \ T : Cardinality(T \cup {i}) = Cardinality(T) + 1
<1>1. NPeers \in Nat
  BY GroupAssumption
<1>2. IsFiniteSet(Peers) /\ Cardinality(Peers) = NPeers
  BY <1>1, FS_Interval DEF Peers
<1>3. IsFiniteSet(T) /\ Cardinality(T) <= NPeers /\ Cardinality(T) \in Nat
  BY <1>2, FS_Subset, FS_CardinalityType
<1>4. \A i \in Peers \ T : Cardinality(T \cup {i}) = Cardinality(T) + 1
  BY <1>3, FS_AddElement
<1> QED
  BY <1>1, <1>3, <1>4

\* It is nothing at the start.
LEMMA SpendInit == Init => SpendInv
<1> SUFFICES ASSUME Init PROVE SpendInv
  OBVIOUS
<1>1. \A r \in Requests : ~Waiting(r) /\ executed[r] = 0
  BY ForwardAssumption DEF Init, Waiting
<1>2. \A r \in Requests : Spent(r) = 0 /\ Cap(r) \in Nat
  BY <1>1, GroupAssumption DEF Spent, Cap
<1>3. \A r \in Requests : 0 <= Cap(r)
  BY <1>2
<1> QED
  BY <1>2, <1>3 DEF SpendInv, WithinBudget, Init

\* Of the steps of s that neither deliver a request nor carry one out, only the
\* budget of s itself need be looked at.
LEMMA SpendLocal ==
  ASSUME Core, SpendInv, NEW s \in Sessions,
         UNCHANGED <<executed, pending>>,
         \A t \in Sessions \ {s} :
           /\ pc'[t] = pc[t] /\ request'[t] = request[t] /\ tried'[t] = tried[t]
           /\ reused'[t] = reused[t] /\ conn'[t] = conn[t],
         request'[s].turn >= request[s].turn, request'[s].turn \in Int,
         WithinBudget(s)'
  PROVE  SpendInv'
<1>1. \A r : Spent(r)' = Spent(r)
  BY DEF Spent, Waiting
<1>2. \A t \in Sessions \ {s} : WithinBudget(t)'
  <2>1. TAKE t \in Sessions \ {s}
  <2>2. Budget(t)' = Budget(t)
    BY DEF Budget, Idempotent
  <2> QED
    BY <1>1, <2>2 DEF WithinBudget, SpendInv, Spent, Waiting
<1>3. \A r \in Requests : r.turn > request'[r.by].turn => r.turn > request[r.by].turn
  <2>1. TAKE r \in Requests
  <2>2. r.by \in Sessions /\ r.turn \in Int /\ request[s].turn \in Int
    BY DEF Requests, Core, SessionsOK
  <2> QED
    BY <2>2
<1>4. \A r \in Requests : Spent(r)' <= Cap(r) /\ (r.turn > request'[r.by].turn => Spent(r)' = 0)
  BY <1>1, <1>3 DEF SpendInv
<1>5. \A k, l \in Conns : pending'[k] = pending'[l] => k = l \/ pending'[k] = None
  BY DEF SpendInv
<1> QED
  BY <1>2, <1>4, <1>5 DEF SpendInv, Cap

\* The steps of a session that send nothing.
LEMMA SpendSilent ==
  ASSUME Core, Core', LinkInv, SpendInv, NEW s \in Sessions,
         \/ \E m \in Methods : Arrive(s, m)
         \/ SessionStep(s) /\ ~Sent(s)
  PROVE  SpendInv'
<1> DEFINE c == Cardinality(tried[s])
           x == Spent(request[s])
<1>0. /\ c \in 0..NPeers /\ \A i \in Peers \ tried[s] : Cardinality(tried[s] \cup {i}) = c + 1
      /\ NPeers \in Nat
      /\ pc[s] # "idle" => x \in Nat
      /\ request[s].turn \in Int
      /\ \A r \in Requests : Spent(r) \in Nat
      /\ None \notin Conns \cup Requests \cup Replies
  <2>1. tried[s] \in SUBSET Peers /\ \A r \in Requests : executed[r] \in Nat
    BY DEF Core, TypeOK
  <2>2. \A r \in Requests : Spent(r) \in Nat
    BY <2>1 DEF Spent
  <2>3. /\ pc[s] # "idle" => request[s] \in Requests
        /\ request[s].turn \in Int
    BY DEF Core, TypeOK, SessionsOK
  <2> QED
    BY <2>1, <2>2, <2>3, Tries, GroupAssumption, ForwardAssumption
<1>1. pc[s] # "idle" => x <= Budget(s)
  BY DEF SpendInv, WithinBudget
<1>2. ASSUME UNCHANGED <<executed, pending>>
      PROVE  \A r : Spent(r)' = Spent(r)
  BY <1>2 DEF Spent, Waiting
<1>3. ASSUME NEW m \in Methods, Arrive(s, m)
      PROVE  SpendInv'
  <2> DEFINE r == request'[s]
  <2>1. /\ UNCHANGED <<executed, pending, tried, reused, conn>>
        /\ r = [by |-> s, turn |-> request[s].turn + 1, method |-> m]
        /\ request[s].turn < MaxTurns
        /\ pc' = [pc EXCEPT ![s] = "pick"]
        /\ \A t \in Sessions \ {s} : request'[t] = request[t]
    BY <1>3 DEF Arrive, Goto, linkVars, Core, TypeOK, SessionsOK
  <2>2. r \in Requests /\ r.by = s /\ r.turn = request[s].turn + 1
    BY <2>1, ForwardAssumption DEF Core, TypeOK, SessionsOK, Requests
  <2>3. Spent(r) = 0
    BY <1>0, <2>2 DEF SpendInv
  <2>4. ~Waiting(r)
    BY <2>2, <2>3 DEF Spent, Core, TypeOK
  <2>5. pc'[s] = "pick" /\ Spent(request[s])' = 0 /\ tried'[s] = tried[s]
    BY <1>2, <2>1, <2>3 DEF Core, TypeOK
  <2>6. Budget(s)' >= 0
    BY <1>0, <2>5 DEF Budget
  <2>7. WithinBudget(s)'
    BY <2>1, <2>4, <2>5, <2>6 DEF WithinBudget, Waiting
  <2> QED
    BY <1>0, <2>1, <2>2, <2>7, SpendLocal
<1> DEFINE Rest == \A t \in Sessions \ {s} :
                     /\ pc'[t] = pc[t] /\ tried'[t] = tried[t]
                     /\ reused'[t] = reused[t] /\ conn'[t] = conn[t]
<1>4. ASSUME UNCHANGED <<executed, pending, request>>, Rest,
             \/ pc'[s] = "idle"
             \/ x <= Budget(s)' /\ \A k \in Conns : pending[k] # request[s]
      PROVE  SpendInv'
  <2>1. WithinBudget(s)'
    BY <1>2, <1>4 DEF WithinBudget
  <2> QED
    BY <1>0, <1>4, <2>1, SpendLocal
<1>5. ASSUME pc[s] \in {"pick", "take", "dial", "send"}
      PROVE  \A k \in Conns : pending[k] # request[s]
  BY <1>5 DEF SpendInv, WithinBudget
<1> USE DEF Core, TypeOK, Goto
<1>6. ASSUME PickPeer(s) PROVE SpendInv'
  <2>1. Picked(tried[s]) \in Peers \ tried[s]
    BY <1>6, PickIs DEF PickPeer
  <2>2. /\ UNCHANGED <<executed, pending, request>> /\ Rest /\ pc[s] = "pick"
        /\ pc'[s] = "take" /\ tried'[s] = tried[s] \cup {Picked(tried[s])}
    BY <1>6 DEF PickPeer, linkVars
  <2>3. Cardinality(tried'[s]) = c + 1
    BY <1>0, <2>1, <2>2
  <2>4. x <= Budget(s)'
    BY <1>0, <1>1, <2>2, <2>3 DEF Budget, Idempotent
  <2> QED
    BY <1>4, <1>5, <2>2, <2>4
<1>7. ASSUME \/ NoPeerLeft(s) \/ ReadTimeout(s) \/ RelayFailed(s)
             \/ \E ok \in BOOLEAN : BadHead(s, ok)
             \/ \E inBuffer \in BOOLEAN : Relayed(s, inBuffer)
      PROVE  SpendInv'
  <2>1. UNCHANGED <<executed, pending>> /\ \E from \in {"pick", "await", "relay"} : Over(s, from)
    BY <1>7 DEF NoPeerLeft, ReadTimeout, GiveUp, RelayFailed, BadHead, Relayed, linkVars
  <2>2. UNCHANGED request /\ Rest /\ pc'[s] = "idle"
    BY <2>1 DEF Over
  <2> QED
    BY <1>4, <2>1, <2>2
<1>8. ASSUME NEW old \in 0..Keepalive, TakeIdle(s, old) PROVE SpendInv'
  <2>1. /\ UNCHANGED <<executed, pending, request, tried>> /\ Rest /\ pc[s] = "take"
        /\ \/ pc'[s] = "dial"
           \/ pc'[s] = "send" /\ reused'[s]
    <3>1. PICK n : n = FoundAt(peer[s], old, Quiet)
      OBVIOUS
    <3>2. /\ UNCHANGED <<executed, pending, request, tried>> /\ pc[s] = "take"
          /\ pc' = [pc EXCEPT ![s] = IF n = 0 THEN "dial" ELSE "send"]
          /\ conn' = [conn EXCEPT ![s] = IF n = 0 THEN None ELSE pool[peer[s]][n]]
          /\ reused' = [reused EXCEPT ![s] = n # 0]
      BY <1>8, <3>1 DEF TakeIdle, linkVars
    <3>3. Rest /\ (pc'[s] = "dial" \/ (pc'[s] = "send" /\ n # 0))
      BY <3>2
    <3>4. n # 0 => reused'[s]
      <4>1. reused \in [Sessions -> BOOLEAN]
        OBVIOUS
      <4> HIDE DEF Core, TypeOK
      <4> QED
        BY <3>2, <4>1, Zenon
    <3> QED
      BY <3>2, <3>3, <3>4
  <2>2. x <= Budget(s)'
    BY <1>0, <1>1, <2>1 DEF Budget, Idempotent
  <2> QED
    BY <1>4, <1>5, <2>1, <2>2
<1>9. ASSUME NEW k \in Conns, Dialled(s, k) PROVE SpendInv'
  <2>1. pending[k] = None
    BY <1>9 DEF Dialled, Unused, LinkInv, LinksOK
  <2>2. /\ UNCHANGED <<executed, pending, request, tried, reused>> /\ Rest /\ pc[s] = "dial"
        /\ pc'[s] = "send" /\ ~reused[s]
    BY <1>9, <2>1 DEF Dialled, SessionsOK
  <2>3. x <= Budget(s)'
    BY <1>0, <1>1, <2>2 DEF Budget, Idempotent
  <2> QED
    BY <1>4, <1>5, <2>2, <2>3
<1>10. ASSUME DialFailed(s) PROVE SpendInv'
  <2>1. /\ UNCHANGED <<executed, pending, request, tried, reused>> /\ Rest
        /\ pc[s] = "dial" /\ pc'[s] = "pick"
    BY <1>10 DEF DialFailed, sessVars, linkVars
  <2>2. x <= Budget(s)'
    BY <1>0, <1>1, <2>1 DEF Budget, Idempotent
  <2> QED
    BY <1>4, <1>5, <2>1, <2>2
<1>11. ASSUME SendFailed(s) PROVE SpendInv'
  <2>1. /\ UNCHANGED <<executed, pending, request>> /\ Rest /\ pc[s] = "send"
        /\ \/ pc'[s] = "idle"
           \/ pc'[s] = "dial" /\ reused[s] /\ UNCHANGED tried
    <3>1. /\ UNCHANGED <<executed, pending>>
          /\ IF Stale(s, FALSE) THEN Redial(s, "send") ELSE GiveUp(s, "send")
      BY <1>11 DEF SendFailed, linkVars
    <3>2. CASE Stale(s, FALSE)
      BY <3>1, <3>2 DEF Stale, Redial
    <3>3. CASE ~Stale(s, FALSE)
      BY <3>1, <3>3 DEF GiveUp, Over
    <3> QED
      BY <3>2, <3>3
  <2>2. pc'[s] = "dial" => x <= Budget(s)'
    BY <1>0, <1>1, <2>1 DEF Budget, Idempotent
  <2> QED
    BY <1>4, <1>5, <2>1, <2>2
<1>12. ASSUME NoResponse(s) PROVE SpendInv'
  <2>1. /\ UNCHANGED <<executed, pending, request>> /\ Rest /\ pc[s] = "await"
        /\ ~upOpen[conn[s]]
        /\ \/ pc'[s] = "idle"
           \/ pc'[s] = "dial" /\ reused[s] /\ Idempotent(s) /\ UNCHANGED tried
    <3>1. /\ UNCHANGED <<executed, pending>> /\ ~upOpen[conn[s]]
          /\ IF Stale(s, TRUE) THEN Redial(s, "await") ELSE GiveUp(s, "await")
      BY <1>12 DEF NoResponse, linkVars
    <3>2. CASE Stale(s, TRUE)
      BY <3>1, <3>2 DEF Stale, Redial
    <3>3. CASE ~Stale(s, TRUE)
      BY <3>1, <3>3 DEF GiveUp, Over
    <3> QED
      BY <3>1, <3>2, <3>3
  <2>2. pc'[s] = "dial" => x <= Budget(s)'
    BY <1>0, <1>1, <2>1 DEF Budget, Idempotent
  <2>3. \A k \in Conns : pending[k] # request[s]
    <3>1. conn[s] \in Conns /\ request[s] \in Requests
      BY <2>1 DEF SessionsOK, Holding
    <3>2. pending[conn[s]] = None
      BY <2>1, <3>1 DEF LinkInv, LinksOK
    <3>3. WithinBudget(s)
      BY DEF SpendInv
    <3>4. \A k \in Conns : pending[k] = request[s] => k = conn[s]
      BY <2>1, <3>3 DEF WithinBudget
    <3> QED
      BY <1>0, <3>1, <3>2, <3>4
  <2> QED
    BY <1>4, <2>1, <2>2, <2>3
<1>13. ASSUME HeadRead(s) PROVE SpendInv'
  <2>1. /\ UNCHANGED <<executed, pending, request, tried, reused, conn>> /\ Rest
        /\ pc[s] = "await" /\ pc'[s] = "relay" /\ reply[conn[s]] # None
    BY <1>13 DEF HeadRead, sessVars, linkVars
  <2>2. x <= Budget(s)'
    BY <1>0, <1>1, <2>1 DEF Budget, Idempotent
  <2>3. \A k \in Conns : pending[k] # request[s]
    <3>1. conn[s] \in Conns /\ request[s] \in Requests
      BY <2>1 DEF SessionsOK, Holding
    <3>2. pending[conn[s]] = None
      BY <2>1, <3>1 DEF LinkInv, LinksOK
    <3>3. WithinBudget(s)
      BY DEF SpendInv
    <3>4. \A k \in Conns : pending[k] = request[s] => k = conn[s]
      BY <2>1, <3>3 DEF WithinBudget
    <3> QED
      BY <1>0, <3>1, <3>2, <3>4
  <2> QED
    BY <1>4, <2>1, <2>2, <2>3
<1> QED
  <2> HIDE DEF Core, TypeOK, Goto
  <2> QED
    BY <1>3, <1>6, <1>7, <1>8, <1>9, <1>10, <1>11, <1>12, <1>13, Zenon DEF SessionStep

\* The steps that deliver a request, carry it out or lose it.
LEMMA SpendNext ==
  ASSUME Core, Core', LinkInv, SpendInv, [Next]_vars
  PROVE  SpendInv'
<1>0. /\ \A r \in Requests : Spent(r) \in Nat
      /\ None \notin Conns \cup Requests \cup Replies
      /\ NPeers \in Nat
      /\ \A t \in Sessions : Cardinality(tried[t]) \in 0..NPeers
  <2>1. \A r \in Requests : executed[r] \in Nat
    BY DEF Core, TypeOK
  <2>2. \A t \in Sessions : tried[t] \in SUBSET Peers
    BY DEF Core, TypeOK
  <2> QED
    BY <2>1, <2>2, Tries, GroupAssumption, ForwardAssumption DEF Spent
<1>1. ASSUME NEW s \in Sessions, Sent(s) PROVE SpendInv'
  <2> USE DEF Core, TypeOK
  <2> DEFINE k == conn[s]
             r == request[s]
  <2>1. /\ pc[s] = "send" /\ pc' = [pc EXCEPT ![s] = "await"]
        /\ UNCHANGED <<request, tried, reused, conn, executed>>
        /\ pending' = [pending EXCEPT ![k] = IF upOpen[k] THEN r ELSE None]
    BY <1>1 DEF Sent, Goto, sessVars
  <2>2. k \in Conns /\ r \in Requests /\ r.by = s
    BY <2>1 DEF SessionsOK, Holding
  <2>3. pending[k] = None /\ Spent(r) <= Budget(s) /\ \A l \in Conns : pending[l] # r
    BY <2>1, <2>2 DEF LinkInv, OwnResponse, SpendInv, WithinBudget
  <2>4. \A q \in Requests \ {r} : Spent(q)' = Spent(q)
    BY <1>0, <2>1, <2>2, <2>3 DEF Spent, Waiting
  <2>5. Spent(r)' \in Nat /\ Spent(r)' <= Spent(r) + 1
    BY <2>1, <2>2 DEF Spent
  <2>6. Budget(s)' = Budget(s) + 1 /\ Budget(s)' <= Cap(r) /\ Budget(s) \in Int
    BY <1>0, <2>1 DEF Budget, Idempotent, Cap
  <2>7. Spent(r)' <= Budget(s)' /\ Spent(r)' <= Cap(r)
    <3>1. Spent(r) \in Nat /\ Cap(r) \in Nat
      BY <1>0, <2>2 DEF Cap
    <3> HIDE DEF r
    <3> QED
      BY <2>3, <2>5, <2>6, <3>1
  <2>8. WithinBudget(s)'
    BY <2>1, <2>2, <2>3, <2>7 DEF WithinBudget
  <2>9. ASSUME NEW t \in Sessions \ {s} PROVE WithinBudget(t)'
    <3>1. Budget(t)' = Budget(t) /\ pc'[t] = pc[t]
      BY <2>1 DEF Budget, Idempotent
    <3>2. pc[t] # "idle" => request[t] \in Requests \ {r} /\ Spent(request[t])' = Spent(request[t])
      BY <2>1, <2>2, <2>4 DEF SessionsOK
    <3> QED
      BY <1>0, <2>1, <2>2, <3>1, <3>2 DEF WithinBudget, SpendInv
  <2>10. \A l, m \in Conns : pending'[l] = pending'[m] => l = m \/ pending'[l] = None
    BY <2>1, <2>2, <2>3 DEF SpendInv
  <2>11. \A q \in Requests :
           Spent(q)' <= Cap(q) /\ (q.turn > request'[q.by].turn => Spent(q)' = 0)
    <3>1. TAKE q \in Requests
    <3>2. CASE q = r
      <4>1. ~(r.turn > request'[r.by].turn)
        BY <2>1, <2>2 DEF Requests
      <4> QED
        BY <2>1, <2>7, <3>2, <4>1 DEF Spent, Waiting
    <3>3. CASE q # r
      BY <2>1, <2>4, <3>3 DEF SpendInv
    <3> QED
      BY <3>2, <3>3
  <2> QED
    BY <2>8, <2>9, <2>10, <2>11 DEF SpendInv, Cap
<1>2. ASSUME NEW k \in Conns,
             UNCHANGED <<pc, request, tried, reused, conn>>,
             pending[k] # None => executed' = executed
                               \/ executed' = [executed EXCEPT ![pending[k]] = @ + 1],
             pending[k] = None => UNCHANGED executed,
             pending' = [pending EXCEPT ![k] = None]
      PROVE  SpendInv'
  <2>1. ASSUME NEW r \in Requests PROVE Spent(r)' \in Nat /\ Spent(r)' <= Spent(r)
    <3>1. executed[r] \in Nat
      BY DEF Core, TypeOK
    <3>2. CASE pending[k] = r
      <4>1. Waiting(r) /\ ~Waiting(r)'
        BY <1>0, <1>2, <3>2 DEF Waiting, SpendInv, Core, TypeOK
      <4>2. executed'[r] \in {executed[r], executed[r] + 1}
        BY <1>0, <1>2, <3>1, <3>2 DEF Core, TypeOK
      <4> QED
        BY <3>1, <4>1, <4>2 DEF Spent
    <3>3. CASE pending[k] # r
      <4>1. Waiting(r)' => Waiting(r)
        BY <1>0, <1>2 DEF Waiting, Core, TypeOK
      <4>2. executed'[r] = executed[r]
        BY <1>0, <1>2, <3>3 DEF Core, TypeOK
      <4> QED
        BY <3>1, <4>1, <4>2 DEF Spent
    <3> QED
      BY <3>2, <3>3
  <2>2. ASSUME NEW t \in Sessions PROVE WithinBudget(t)'
    <3>1. Budget(t)' = Budget(t) /\ Budget(t) \in Int
      BY <1>0, <1>2 DEF Budget, Idempotent
    <3>2. pc[t] # "idle" => request[t] \in Requests
      BY DEF Core, TypeOK
    <3>3. pc[t] # "idle" => Spent(request[t])' <= Budget(t)
      BY <1>0, <1>2, <2>1, <3>1, <3>2 DEF WithinBudget, SpendInv
    <3>4. pc[t] # "idle" => \A l \in Conns : pending'[l] = request[t] => pending[l] = request[t]
      BY <1>0, <1>2, <3>2 DEF Core, TypeOK
    <3> QED
      BY <1>2, <3>1, <3>3, <3>4 DEF WithinBudget, SpendInv
  <2>3. \A l, m \in Conns : pending'[l] = pending'[m] => l = m \/ pending'[l] = None
    BY <1>2 DEF SpendInv, Core, TypeOK
  <2>4. \A r \in Requests :
          Spent(r)' <= Cap(r) /\ (r.turn > request'[r.by].turn => Spent(r)' = 0)
    <3>1. TAKE r \in Requests
    <3>2. Cap(r) \in Nat /\ Spent(r) \in Nat
      BY <1>0 DEF Cap
    <3> QED
      BY <1>2, <2>1, <3>2 DEF SpendInv
  <2> QED
    BY <2>2, <2>3, <2>4 DEF SpendInv, Cap
<1>3. ASSUME NEW k \in Conns,
             (\E kind \in Kinds : Serve(k, kind)) \/ ServeAndClose(k) \/ UpstreamCloses(k)
      PROVE  SpendInv'
  <2>1. /\ UNCHANGED <<pc, request, tried, reused, conn>>
        /\ pending' = [pending EXCEPT ![k] = None]
        /\ \/ UNCHANGED executed
           \/ pending[k] # None /\ executed' = [executed EXCEPT ![pending[k]] = @ + 1]
    <3>1. ASSUME NEW kind \in Kinds, Serve(k, kind)
          PROVE  /\ pending' = [pending EXCEPT ![k] = None] /\ pending[k] # None
                 /\ executed' = [executed EXCEPT ![pending[k]] = @ + 1]
                 /\ UNCHANGED <<pc, sessVars>>
      BY <3>1, Zenon DEF Serve, Execute
    <3>2. CASE ServeAndClose(k)
      BY <3>2 DEF ServeAndClose, Execute, sessVars
    <3>3. CASE UpstreamCloses(k)
      BY <3>3 DEF UpstreamCloses, sessVars
    <3> QED
      BY <1>3, <3>1, <3>2, <3>3 DEF sessVars
  <2> QED
    BY <1>2, <2>1
<1>4. CASE UNCHANGED <<pc, sessVars, linkVars, executed>>
  <2>1. \A r : Spent(r)' = Spent(r)
    BY <1>4 DEF Spent, Waiting, linkVars
  <2>2. \A t \in Sessions : Budget(t)' = Budget(t)
    BY <1>4 DEF Budget, Idempotent, sessVars
  <2>3. \A t \in Sessions : WithinBudget(t)'
    BY <1>4, <2>1, <2>2 DEF WithinBudget, SpendInv, sessVars, linkVars
  <2> QED
    BY <1>4, <2>1, <2>3 DEF SpendInv, sessVars, linkVars, Cap
<1>5. ASSUME NEW s \in Sessions, SessionStep(s) \/ \E m \in Methods : Arrive(s, m)
      PROVE  SpendInv'
  BY <1>1, <1>5, SpendSilent, Zenon
<1>6. ASSUME NEW i \in Peers, Passes(i) PROVE SpendInv'
  BY <1>4, <1>6 DEF Passes
<1>7. CASE UNCHANGED vars
  BY <1>4, <1>7 DEF vars
<1> QED
  BY <1>3, <1>5, <1>6, <1>7, Zenon DEF Next

-----------------------------------------------------------------------------
(* The theorems.                                                           *)

\* FInv is an inductive invariant.
THEOREM Invariance == Spec => []FInv
<1>1. Init => FInv
  BY CoreInit, LinkInit, SpendInit DEF FInv
<1>2. FInv /\ [Next]_vars => FInv'
  <2> SUFFICES ASSUME FInv, [Next]_vars PROVE FInv'
    OBVIOUS
  <2>1. Core'
    BY CoreNext DEF FInv
  <2>2. LinkInv'
    BY <2>1, LinkNext DEF FInv
  <2>3. SpendInv'
    BY <2>1, SpendNext DEF FInv
  <2> QED
    BY <2>1, <2>2, <2>3 DEF FInv
<1> QED
  BY <1>1, <1>2, PTL DEF Spec

\* Every variable of forward and of its connections keeps its type.
THEOREM ForwardTypes == Spec => []TypeOK
<1>1. FInv => TypeOK
  BY DEF FInv, Core
<1> QED
  BY <1>1, Invariance, PTL

\* No request is carried out more often than AtMostOnce allows, whatever the
\* upstream servers and the network do.
THEOREM CarriedOutAtMostOnce == Spec => []AtMostOnce
<1>1. FInv => AtMostOnce
  <2> SUFFICES ASSUME FInv, NEW r \in Requests PROVE executed[r] <= Cap(r)
    BY DEF AtMostOnce, Cap
  <2>1. /\ executed[r] \in Nat /\ Cap(r) \in Nat
        /\ executed[r] + (IF Waiting(r) THEN 1 ELSE 0) <= Cap(r)
    BY GroupAssumption DEF FInv, Core, TypeOK, SpendInv, Spent, Cap
  <2> QED
    BY <2>1
<1> QED
  BY <1>1, Invariance, PTL

\* A session relays the response to its own request.
THEOREM ResponsesNotMixed == Spec => []OwnResponse
<1>1. FInv => OwnResponse
  BY DEF FInv, LinkInv
<1> QED
  BY <1>1, Invariance, PTL

\* Pooled connections are nobody's, are in one place and are at most Keepalive to
\* a peer.
THEOREM PoolsDetached == Spec => []PoolDetached
<1>1. FInv => PoolDetached
  BY DEF FInv, LinkInv
<1> QED
  BY <1>1, Invariance, PTL
=============================================================================
