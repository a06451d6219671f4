------------------------------ MODULE PageProofs ------------------------------
(***************************************************************************)
(* Proofs about what a page runs and keeps: PageScripts for any            *)
(* references, limits and calls, BrowserStores for any origins, names,     *)
(* limits, times and ages.                                                 *)
(***************************************************************************)
EXTENDS PageScripts, BrowserStores, FiniteSetTheorems, SequenceTheorems,
        WellFoundedInduction, TLAPS

-----------------------------------------------------------------------------
(* The scripts' invariant.                                                 *)

\* The records of timers_.
Timers == [id : 1..MaxCalls, ref : Refs, repeat : BOOLEAN, due : BOOLEAN]

\* What a holder is to look after: the id of the call and its reference.
Claim(x) == <<x.id, x.ref>>
Claims(s) == {Claim(s[n]) : n \in 1..Len(s)}

\* No two entries of s share an id or a reference.
Once(s) ==
  \A m, n \in 1..Len(s) : s[m].id = s[n].id \/ s[m].ref = s[n].ref => m = n

AtWork == {w \in workers : ~w.waking}

\* The places a claim may be in.  poll_timers' batch and callback claim nothing:
\* the timer is where it was.
Places == {"timers", "raf", "workers", "inbox", "batch", "running"}
HeldBy == [p \in Places |->
  CASE p = "timers" -> Claims(timers)
    [] p = "raf" -> Claims(raf)
    [] p = "workers" -> {Claim(w) : w \in AtWork}
    [] p = "inbox" -> Claims(inbox)
    [] p = "batch" -> IF turn = "timers" THEN {} ELSE Claims(batch)
    [] p = "running" -> IF turn = "timers" \/ running = NoCall THEN {} ELSE {Claim(running)}]

\* P gives the claims of each place.  They share neither id nor reference, each is
\* in one place, and the references R are those claimed, by calls up to k.
All(P) == UNION {P[p] : p \in Places}
PlacesOK(P, R, k) ==
  /\ All(P) \subseteq (1..k) \X R
  /\ \A r \in R : \E c \in All(P) : c[2] = r
  /\ \A c, d \in All(P) : c[1] = d[1] \/ c[2] = d[2] => c = d
  /\ \A p, q \in Places : p # q => P[p] \cap P[q] = {}

EachOnce ==
  /\ Once(timers) /\ Once(raf) /\ Once(inbox)
  /\ turn # "timers" => Once(batch)

\* A begun or cleared callback is in no queue, but the one-shot timer that runs.
NotOver ==
  /\ \A p \in Places \ {"timers", "running"} : \A c \in HeldBy[p] : c[1] \notin over
  /\ \A n \in 1..Len(timers) : timers[n].id \in over =>
       turn = "timers" /\ running # NoCall /\ running.id = timers[n].id /\ ~timers[n].repeat

\* Where the render thread is, and what it may have in hand there.
TurnOK ==
  /\ cancelled <=> turn = "gone"
  /\ turn \notin {"fetches", "timers", "frames"} => batch = << >> /\ running = NoCall
  /\ turn # "timers" => batch \in Seq(Entries)

OwnInv == turn # "gone" => PlacesOK(HeldBy, refs, calls) /\ EachOnce /\ NotOver

SlotsInv ==
  /\ IsFiniteSet(refs) /\ IsFiniteSet(AtWork)
  /\ inflight = Cardinality(AtWork)
  /\ \A w \in workers : w.id <= calls
  /\ over \subseteq 1..calls
  /\ turn \notin {"handlers", "gone"} /\ inbox # << >> =>
       posted \/ \E w \in workers : w.waking

ScriptsInv == ScriptsTypeOK /\ TurnOK /\ OwnInv /\ SlotsInv

-----------------------------------------------------------------------------
(* What queues claim.                                                      *)

\* An entry is put last.
LEMMA Appended ==
  ASSUME NEW S, NEW s \in Seq(S), NEW x \in S
  PROVE  /\ Append(s, x) \in Seq(S)
         /\ Claims(Append(s, x)) = Claims(s) \cup {Claim(x)}
         /\ Once(s) /\ (\A c \in Claims(s) : c[1] # x.id /\ c[2] # x.ref)
              => Once(Append(s, x))
<1> DEFINE t == Append(s, x)
<1>1. /\ t \in Seq(S) /\ Len(t) = Len(s) + 1 /\ Len(s) \in Nat
      /\ \A n \in 1..Len(s) : t[n] = s[n]
      /\ t[Len(s) + 1] = x
  OBVIOUS
<1> HIDE DEF t
<1>2. Claims(t) = Claims(s) \cup {Claim(x)}
  <2>1. ASSUME NEW n \in 1..Len(t)
        PROVE  Claim(t[n]) \in Claims(s) \cup {Claim(x)}
    <3>1. CASE n = Len(s) + 1
      BY <1>1, <3>1
    <3>2. CASE n \in 1..Len(s)
      BY <1>1, <3>2 DEF Claims
    <3> QED
      BY <1>1, <3>1, <3>2
  <2>2. ASSUME NEW n \in 1..Len(s)
        PROVE  Claim(s[n]) \in Claims(t)
    <3>1. n \in 1..Len(t) /\ t[n] = s[n]
      BY <1>1
    <3> QED
      BY <3>1 DEF Claims
  <2>3. Claim(x) \in Claims(t)
    <3>1. Len(t) \in 1..Len(t) /\ t[Len(t)] = x
      BY <1>1
    <3> QED
      BY <3>1 DEF Claims
  <2> QED
    BY <2>1, <2>2, <2>3 DEF Claims
<1>3. ASSUME Once(s), \A c \in Claims(s) : c[1] # x.id /\ c[2] # x.ref
      PROVE  Once(t)
  <2>1. \A n \in 1..Len(s) : s[n].id # x.id /\ s[n].ref # x.ref
    <3>1. TAKE n \in 1..Len(s)
    <3>2. Claim(s[n]) \in Claims(s)
      BY DEF Claims
    <3> QED
      BY <1>3, <3>2 DEF Claim
  <2> QED
    BY <1>1, <1>3, <2>1 DEF Once
<1> QED
  BY <1>1, <1>2, <1>3 DEF t

\* The n-th is taken out.
LEMMA Removed ==
  ASSUME NEW S, NEW s \in Seq(S), NEW n \in 1..Len(s), Once(s)
  PROVE  /\ RemoveAt(s, n) \in Seq(S)
         /\ Claims(RemoveAt(s, n)) = Claims(s) \ {Claim(s[n])}
         /\ Once(RemoveAt(s, n))
         /\ \A m \in 1..Len(RemoveAt(s, n)) : \E k \in 1..Len(s) \ {n} : RemoveAt(s, n)[m] = s[k]
<1> DEFINE t == RemoveAt(s, n)
           Nth(m) == IF m < n THEN m ELSE m + 1
<1>1. /\ t \in Seq(S) /\ Len(s) \in Nat /\ Len(t) = Len(s) - 1
      /\ \A m \in 1..Len(t) : t[m] = s[Nth(m)]
  <2> DEFINE a == SubSeq(s, 1, n - 1)
             b == SubSeq(s, n + 1, Len(s))
  <2>1. a \in Seq(S) /\ Len(a) = n - 1 /\ \A m \in 1..(n - 1) : a[m] = s[m]
    OBVIOUS
  <2>2. /\ b \in Seq(S) /\ Len(b) = Len(s) - n
        /\ \A m \in 1..(Len(s) - n) : b[m] = s[n + m]
    OBVIOUS
  <2>3. t = a \o b
    BY DEF RemoveAt
  <2> HIDE DEF a, b, t
  <2>4. Len(s) \in Nat
    OBVIOUS
  <2>5. /\ t \in Seq(S) /\ Len(t) = Len(a) + Len(b)
        /\ \A m \in 1..(Len(a) + Len(b)) : t[m] = IF m <= Len(a) THEN a[m] ELSE b[m - Len(a)]
    BY <2>1, <2>2, <2>3, ConcatProperties
  <2>6. Len(t) = Len(s) - 1
    BY <2>1, <2>2, <2>4, <2>5
  <2>7. ASSUME NEW m \in 1..Len(t), m >= n
        PROVE  t[m] = s[m + 1]
    <3>1. m - (n - 1) \in 1..(Len(s) - n) /\ n + (m - (n - 1)) = m + 1
      BY <2>4, <2>6, <2>7
    <3>2. t[m] = b[m - (n - 1)]
      BY <2>1, <2>2, <2>4, <2>5, <2>6, <2>7
    <3> QED
      BY <2>2, <3>1, <3>2
  <2>8. ASSUME NEW m \in 1..Len(t), m < n
        PROVE  t[m] = s[m]
    BY <2>1, <2>2, <2>4, <2>5, <2>6, <2>8
  <2>9. \A m \in 1..Len(t) : t[m] = s[IF m < n THEN m ELSE m + 1]
    <3>1. TAKE m \in 1..Len(t)
    <3>2. m \in Int /\ n \in Int
      BY <2>4, <2>6
    <3> QED
      BY <2>7, <2>8, <3>2
  <2> QED
    BY <2>4, <2>5, <2>6, <2>9
<1> HIDE DEF t
<1>2. \A m \in 1..Len(t) : Nth(m) \in 1..Len(s) \ {n}
  BY <1>1
<1>3. ASSUME NEW k \in 1..Len(s) \ {n}
      PROVE  \E m \in 1..Len(t) : Nth(m) = k
  <2>1. CASE k < n
    <3>1. k \in 1..Len(t) /\ Nth(k) = k
      BY <1>1, <2>1
    <3> QED
      BY <3>1
  <2>2. CASE k > n
    <3>1. k - 1 \in 1..Len(t) /\ Nth(k - 1) = k
      BY <1>1, <2>2
    <3> QED
      BY <3>1
  <2> QED
    BY <2>1, <2>2
<1>4. \A m, k \in 1..Len(t) : Nth(m) = Nth(k) => m = k
  BY <1>1
<1> HIDE DEF Nth
<1>5. Once(t)
  <2>1. SUFFICES ASSUME NEW m \in 1..Len(t), NEW k \in 1..Len(t),
                        t[m].id = t[k].id \/ t[m].ref = t[k].ref
                 PROVE  m = k
    BY DEF Once
  <2>2. t[m] = s[Nth(m)] /\ t[k] = s[Nth(k)] /\ Nth(m) \in 1..Len(s) /\ Nth(k) \in 1..Len(s)
    BY <1>1, <1>2
  <2>3. Nth(m) = Nth(k)
    BY <2>1, <2>2 DEF Once
  <2> QED
    BY <1>4, <2>3
<1>6. \A k \in 1..Len(s) : Claim(s[k]) = Claim(s[n]) => k = n
  BY DEF Once, Claim
<1>7. Claims(t) = Claims(s) \ {Claim(s[n])}
  <2>1. ASSUME NEW m \in 1..Len(t)
        PROVE  Claim(t[m]) \in Claims(s) \ {Claim(s[n])}
    <3>1. t[m] = s[Nth(m)] /\ Nth(m) \in 1..Len(s) /\ Nth(m) # n
      BY <1>1, <1>2
    <3> QED
      BY <3>1, <1>6 DEF Claims
  <2>2. ASSUME NEW k \in 1..Len(s), Claim(s[k]) # Claim(s[n])
        PROVE  Claim(s[k]) \in Claims(t)
    <3>1. k # n
      BY <2>2
    <3>2. PICK m \in 1..Len(t) : Nth(m) = k
      BY <1>3, <3>1
    <3> QED
      BY <1>1, <3>2 DEF Claims
  <2> QED
    BY <2>1, <2>2 DEF Claims
<1>8. \A m \in 1..Len(t) : \E k \in 1..Len(s) \ {n} : t[m] = s[k]
  BY <1>1, <1>2
<1> QED
  BY <1>1, <1>5, <1>7, <1>8 DEF t

\* The first is taken.
LEMMA Taken ==
  ASSUME NEW S, NEW s \in Seq(S), s # << >>, Once(s)
  PROVE  /\ Head(s) \in S /\ Tail(s) \in Seq(S)
         /\ Claim(Head(s)) \in Claims(s)
         /\ Claims(Tail(s)) = Claims(s) \ {Claim(Head(s))}
         /\ Once(Tail(s))
<1>1. 1 \in 1..Len(s) /\ Head(s) = s[1] /\ Len(s) \in Nat
  OBVIOUS
<1>2. Tail(s) = RemoveAt(s, 1)
  <2> DEFINE t == RemoveAt(s, 1)
             u == Tail(s)
  <2>1. t \in Seq(S) /\ Len(t) = Len(s) - 1 /\ \A m \in 1..Len(t) : t[m] = s[m + 1]
    <3> DEFINE a == SubSeq(s, 1, 0)
               b == SubSeq(s, 2, Len(s))
    <3>1. a \in Seq(S) /\ Len(a) = 0
      BY <1>1
    <3>2. b = Tail(s)
      BY TailIsSubSeq
    <3>3. t = a \o b
      BY DEF RemoveAt
    <3>4. a = << >>
      BY <3>1
    <3> QED
      BY <1>1, <3>2, <3>3, <3>4
  <2>2. u \in Seq(S) /\ Len(u) = Len(s) - 1 /\ \A m \in 1..Len(u) : u[m] = s[m + 1]
    BY <1>1
  <2> HIDE DEF t, u
  <2>3. t = u
    BY <2>1, <2>2, SeqEqual
  <2> QED
    BY <2>3 DEF t, u
<1>3. Head(s) \in S
  BY <1>1, ElementOfSeq
<1>4. Claim(Head(s)) \in Claims(s)
  BY <1>1 DEF Claims
<1> QED
  <2>1. /\ RemoveAt(s, 1) \in Seq(S) /\ Once(RemoveAt(s, 1))
        /\ Claims(RemoveAt(s, 1)) = Claims(s) \ {Claim(s[1])}
    BY <1>1, Removed
  <2> QED
    BY <1>1, <1>2, <1>3, <1>4, <2>1

\* One is put before the other.
LEMMA Joined ==
  ASSUME NEW S, NEW s \in Seq(S), NEW t \in Seq(S), Once(s), Once(t),
         \A c \in Claims(s), d \in Claims(t) : c[1] # d[1] /\ c[2] # d[2]
  PROVE  /\ s \o t \in Seq(S)
         /\ Claims(s \o t) = Claims(s) \cup Claims(t)
         /\ Once(s \o t)
<1> DEFINE u == s \o t
<1>1. /\ u \in Seq(S) /\ Len(s) \in Nat /\ Len(t) \in Nat /\ Len(u) = Len(s) + Len(t)
      /\ \A n \in 1..Len(s) : u[n] = s[n]
      /\ \A n \in 1..Len(t) : u[Len(s) + n] = t[n]
  OBVIOUS
<1> HIDE DEF u
<1>2. \A n \in 1..Len(u) : n \notin 1..Len(s) =>
        n - Len(s) \in 1..Len(t) /\ u[n] = t[n - Len(s)]
  <2>1. TAKE n \in 1..Len(u)
  <2>2. HAVE n \notin 1..Len(s)
  <2>3. n - Len(s) \in 1..Len(t) /\ Len(s) + (n - Len(s)) = n
    BY <1>1, <2>2
  <2> QED
    BY <1>1, <2>3
<1>3. Claims(u) = Claims(s) \cup Claims(t)
  <2>1. ASSUME NEW n \in 1..Len(u)
        PROVE  Claim(u[n]) \in Claims(s) \cup Claims(t)
    BY <1>1, <1>2 DEF Claims
  <2>2. ASSUME NEW n \in 1..Len(s)
        PROVE  Claim(s[n]) \in Claims(u)
    <3>1. n \in 1..Len(u)
      BY <1>1
    <3> QED
      BY <1>1, <3>1 DEF Claims
  <2>3. ASSUME NEW n \in 1..Len(t)
        PROVE  Claim(t[n]) \in Claims(u)
    <3>1. Len(s) + n \in 1..Len(u)
      BY <1>1
    <3> QED
      BY <1>1, <3>1 DEF Claims
  <2> QED
    BY <2>1, <2>2, <2>3 DEF Claims
<1>4. Once(u)
  <2>1. \A m \in 1..Len(s), n \in 1..Len(t) : s[m].id # t[n].id /\ s[m].ref # t[n].ref
    <3>1. TAKE m \in 1..Len(s), n \in 1..Len(t)
    <3>2. Claim(s[m]) \in Claims(s) /\ Claim(t[n]) \in Claims(t)
      BY DEF Claims
    <3> QED
      BY <3>2 DEF Claim
  <2>2. SUFFICES ASSUME NEW m \in 1..Len(u), NEW n \in 1..Len(u), m < n,
                        u[m].id = u[n].id \/ u[m].ref = u[n].ref
                 PROVE  FALSE
    BY <1>1 DEF Once
  <2>3. CASE n \in 1..Len(s)
    <3>1. m \in 1..Len(s)
      BY <2>2, <2>3
    <3> QED
      BY <1>1, <2>2, <2>3, <3>1 DEF Once
  <2>4. CASE m \in 1..Len(s) /\ n \notin 1..Len(s)
    BY <1>1, <1>2, <2>1, <2>2, <2>4
  <2>5. CASE m \notin 1..Len(s) /\ n \notin 1..Len(s)
    <3>1. m - Len(s) # n - Len(s)
      BY <1>1, <2>2
    <3>2. /\ m - Len(s) \in 1..Len(t) /\ u[m] = t[m - Len(s)]
          /\ n - Len(s) \in 1..Len(t) /\ u[n] = t[n - Len(s)]
      BY <1>2, <2>5
    <3> QED
      BY <2>2, <3>1, <3>2 DEF Once
  <2> QED
    BY <2>3, <2>4, <2>5
<1> QED
  BY <1>1, <1>3, <1>4 DEF u

\* The same entries by id and reference.
LEMMA SameClaims ==
  ASSUME NEW s, NEW t, Len(t) = Len(s),
         \A n \in 1..Len(s) : t[n].id = s[n].id /\ t[n].ref = s[n].ref
  PROVE  Claims(t) = Claims(s) /\ (Once(s) => Once(t))
<1>1. \A n \in 1..Len(s) : Claim(t[n]) = Claim(s[n])
  BY DEF Claim
<1>2. Claims(t) = Claims(s)
  BY <1>1 DEF Claims
<1> QED
  BY <1>2 DEF Once

\* Nothing is claimed by an empty queue.
LEMMA Empty == Claims(<< >>) = {} /\ Once(<< >>)
BY DEF Claims, Once

-----------------------------------------------------------------------------
(* How claims move.                                                        *)

\* From one place to another.
LEMMA Moved ==
  ASSUME NEW P, NEW Q, NEW R, NEW k \in Nat, PlacesOK(P, R, k),
         NEW p \in Places, NEW q \in Places \ {p}, NEW D \in SUBSET P[p],
         Q[p] = P[p] \ D, Q[q] = P[q] \cup D,
         \A o \in Places \ {p, q} : Q[o] = P[o]
  PROVE  PlacesOK(Q, R, k)
<1>1. All(Q) = All(P)
  <2>1. \A o \in Places : Q[o] \subseteq All(P)
    BY DEF All
  <2>2. \A o \in Places : P[o] \subseteq All(Q)
    BY DEF All
  <2> QED
    BY <2>1, <2>2 DEF All
<1>2. \A o, u \in Places : o # u => Q[o] \cap Q[u] = {}
  <2>1. \A o, u \in Places : o # u => P[o] \cap P[u] = {}
    BY DEF PlacesOK
  <2> QED
    BY <2>1
<1> QED
  BY <1>1, <1>2 DEF PlacesOK

\* A new one.
LEMMA Added ==
  ASSUME NEW P, NEW Q, NEW R, NEW k \in Nat, PlacesOK(P, R, k),
         NEW p \in Places, NEW r, r \notin R,
         Q[p] = P[p] \cup {<<k + 1, r>>},
         \A o \in Places \ {p} : Q[o] = P[o]
  PROVE  PlacesOK(Q, R \cup {r}, k + 1)
<1> DEFINE new == <<k + 1, r>>
<1>1. All(Q) = All(P) \cup {new}
  <2>1. \A o \in Places : Q[o] \subseteq All(P) \cup {new}
    BY DEF All
  <2>2. \A o \in Places : P[o] \subseteq All(Q)
    BY DEF All
  <2>3. new \in All(Q)
    BY DEF All
  <2> QED
    BY <2>1, <2>2, <2>3 DEF All
<1>2. /\ \A c \in All(P) : c[1] \in 1..k /\ c[2] \in R /\ c \in (1..k) \X R
      /\ new[1] = k + 1 /\ new[2] = r /\ new \in (1..(k + 1)) \X (R \cup {r})
  BY DEF PlacesOK
<1>3. \A o, u \in Places : o # u => Q[o] \cap Q[u] = {}
  <2>1. \A o, u \in Places : o # u => P[o] \cap P[u] = {}
    BY DEF PlacesOK
  <2>2. \A o \in Places : new \notin P[o]
    <3>1. new \notin All(P)
      BY <1>2
    <3> QED
      BY <3>1 DEF All
  <2> QED
    BY <2>1, <2>2
<1>4. All(Q) \subseteq (1..(k + 1)) \X (R \cup {r})
  <2>1. \A c \in All(P) : c \in (1..(k + 1)) \X (R \cup {r})
    BY <1>2
  <2> QED
    BY <1>1, <1>2, <2>1
<1>5. \A c, d \in All(Q) : c[1] = d[1] \/ c[2] = d[2] => c = d
  <2>1. \A c, d \in All(P) : c[1] = d[1] \/ c[2] = d[2] => c = d
    BY DEF PlacesOK
  <2>2. \A c \in All(P) : c[1] # new[1] /\ c[2] # new[2]
    BY <1>2
  <2> HIDE DEF new
  <2> QED
    BY <1>1, <2>1, <2>2
<1>6. \A x \in R \cup {r} : \E c \in All(Q) : c[2] = x
  BY <1>1, <1>2 DEF PlacesOK
<1> QED
  BY <1>3, <1>4, <1>5, <1>6 DEF PlacesOK

\* One that is given up, with its reference.
LEMMA Dropped ==
  ASSUME NEW P, NEW Q, NEW R, NEW k \in Nat, PlacesOK(P, R, k),
         NEW p \in Places, NEW c \in P[p],
         Q[p] = P[p] \ {c}, \A o \in Places \ {p} : Q[o] = P[o]
  PROVE  PlacesOK(Q, R \ {c[2]}, k)
<1>1. \A o, u \in Places : o # u => P[o] \cap P[u] = {}
  BY DEF PlacesOK
<1>2. All(Q) = All(P) \ {c} /\ c \in All(P)
  <2>1. \A o \in Places : Q[o] \subseteq All(P) \ {c}
    BY <1>1 DEF All
  <2>2. \A o \in Places : P[o] \ {c} \subseteq All(Q)
    BY DEF All
  <2> QED
    BY <2>1, <2>2 DEF All
<1>3. \A d, e \in All(P) : d[1] = e[1] \/ d[2] = e[2] => d = e
  BY DEF PlacesOK
<1>4. All(Q) \subseteq (1..k) \X (R \ {c[2]})
  <2>1. \A d \in All(P) \ {c} : d \in (1..k) \X R /\ d[2] # c[2]
    BY <1>2, <1>3 DEF PlacesOK
  <2> QED
    BY <1>2, <2>1
<1>5. \A x \in R \ {c[2]} : \E d \in All(Q) : d[2] = x
  BY <1>2 DEF PlacesOK
<1>6. \A o, u \in Places : o # u => Q[o] \cap Q[u] = {}
  BY <1>1
<1> QED
  BY <1>2, <1>3, <1>4, <1>5, <1>6 DEF PlacesOK

\* None moves, though a call may be refused.
LEMMA Unmoved ==
  ASSUME NEW P, NEW Q, NEW R, NEW k \in Nat, PlacesOK(P, R, k), NEW j \in Nat, k <= j,
         \A o \in Places : Q[o] = P[o]
  PROVE  PlacesOK(Q, R, j)
<1>1. All(Q) = All(P)
  BY DEF All
<1>2. \A c \in (1..k) \X R : c \in (1..j) \X R
  OBVIOUS
<1> QED
  BY <1>1, <1>2 DEF PlacesOK

\* HeldBy, place by place, before a step and after it.
LEMMA HeldIs ==
  /\ HeldBy["timers"] = Claims(timers) /\ HeldBy["raf"] = Claims(raf)
  /\ HeldBy["workers"] = {Claim(w) : w \in AtWork} /\ HeldBy["inbox"] = Claims(inbox)
  /\ HeldBy["batch"] = IF turn = "timers" THEN {} ELSE Claims(batch)
  /\ HeldBy["running"] =
       IF turn = "timers" \/ running = NoCall THEN {} ELSE {Claim(running)}
  /\ HeldBy'["timers"] = Claims(timers') /\ HeldBy'["raf"] = Claims(raf')
  /\ HeldBy'["workers"] = {Claim(w) : w \in AtWork'} /\ HeldBy'["inbox"] = Claims(inbox')
  /\ HeldBy'["batch"] = IF turn' = "timers" THEN {} ELSE Claims(batch')
  /\ HeldBy'["running"] =
       IF turn' = "timers" \/ running' = NoCall THEN {} ELSE {Claim(running')}
<1>1. {"timers", "raf", "workers", "inbox", "batch", "running"} = Places
  BY DEF Places
<1> QED
  BY <1>1 DEF HeldBy, Claims, Claim

\* What holds of a state with an engine.
LEMMA Facts ==
  ASSUME ScriptsInv
  PROVE  /\ timers \in Seq(Timers) /\ raf \in Seq(Entries) /\ inbox \in Seq(Entries)
         /\ calls \in Nat /\ over \subseteq 1..calls /\ MaxCalls \in Nat /\ calls <= MaxCalls
         /\ workers \subseteq [id : 1..MaxCalls, ref : Refs, waking : BOOLEAN]
         /\ turn # "timers" => batch \in Seq(Entries)
         /\ running \in Entries \cup {NoCall}
         /\ InPage => turn # "gone"
         /\ turn # "gone" => PlacesOK(HeldBy, refs, calls) /\ EachOnce /\ NotOver
BY ScriptsAssumption DEF ScriptsInv, ScriptsTypeOK, TurnOK, OwnInv, SlotsInv, InPage, Timers

\* All that is claimed is of a call made and of a reference taken.
LEMMA Fresh ==
  ASSUME ScriptsInv, turn # "gone", NEW p \in Places, NEW c \in HeldBy[p]
  PROVE  c[1] \in 1..calls /\ c[2] \in refs
<1>1. All(HeldBy) \subseteq (1..calls) \X refs
  BY DEF ScriptsInv, OwnInv, PlacesOK
<1> QED
  BY <1>1 DEF All

-----------------------------------------------------------------------------
(* Steps of the page.                                                      *)

\* Nothing that is claimed changes hands.
LEMMA QuietOwn ==
  ASSUME ScriptsInv, UNCHANGED <<refs, timers, raf, inbox, batch, running, turn, over>>,
         AtWork' = AtWork, calls' \in Nat, calls <= calls'
  PROVE  OwnInv'
<1>1. SUFFICES ASSUME turn # "gone"
               PROVE  PlacesOK(HeldBy', refs', calls') /\ EachOnce' /\ NotOver'
  BY DEF OwnInv
<1>2. PlacesOK(HeldBy, refs, calls) /\ EachOnce /\ NotOver /\ calls \in Nat
  BY <1>1, Facts
<1>3. \A p \in Places : HeldBy'[p] = HeldBy[p]
  BY HeldIs DEF Places
<1>4. PlacesOK(HeldBy', refs', calls')
  BY <1>2, <1>3, Unmoved
<1>5. EachOnce'
  BY <1>2 DEF EachOnce, Once
<1>6. NotOver'
  BY <1>2, <1>3 DEF NotOver
<1> QED
  BY <1>4, <1>5, <1>6

\* What a call that is not refused adds: a claim nobody has.
LEMMA AsksFresh ==
  ASSUME ScriptsInv, NEW r \in Refs, Asks(r)
  PROVE  /\ turn # "gone" /\ r \notin refs /\ calls' = calls + 1 /\ calls' \in 1..MaxCalls
         /\ \A p \in Places : \A c \in HeldBy[p] : c[1] # calls' /\ c[2] # r
         /\ \A i \in over : i # calls'
<1>1. turn # "gone" /\ r \notin refs /\ calls' = calls + 1 /\ calls < MaxCalls
  BY Facts DEF Asks
<1>2. calls \in Nat /\ MaxCalls \in Nat /\ over \subseteq 1..calls
  BY Facts
<1> QED
  BY <1>1, <1>2, Fresh

\* setTimeout and setInterval.
LEMMA SetTimerOwn ==
  ASSUME ScriptsInv, NEW r \in Refs, NEW b \in BOOLEAN, SetTimer(r, b)
  PROVE  OwnInv'
<1>1. /\ turn # "gone" /\ r \notin refs /\ calls' = calls + 1 /\ calls' \in 1..MaxCalls
      /\ \A p \in Places : \A c \in HeldBy[p] : c[1] # calls' /\ c[2] # r
      /\ \A i \in over : i # calls'
  BY AsksFresh DEF SetTimer
<1>2. /\ PlacesOK(HeldBy, refs, calls) /\ EachOnce /\ NotOver /\ calls \in Nat
      /\ timers \in Seq(Timers)
  BY <1>1, Facts
<1>3. /\ AtWork' = AtWork
      /\ UNCHANGED <<raf, inbox, batch, running, turn, over>>
  BY DEF SetTimer, AtWork
<1>4. CASE Len(timers) >= MaxTimers
  <2>1. UNCHANGED <<refs, timers>>
    BY <1>4 DEF SetTimer
  <2> QED
    BY <1>1, <1>2, <1>3, <2>1, QuietOwn
<1>5. CASE ~(Len(timers) >= MaxTimers)
  <2> DEFINE x == [id |-> calls', ref |-> r, repeat |-> b, due |-> FALSE]
  <2>1. refs' = refs \cup {r} /\ timers' = Append(timers, x)
    BY <1>5 DEF SetTimer
  <2>2. x \in Timers /\ Claim(x) = <<calls + 1, r>> /\ x.id = calls' /\ x.ref = r
    BY <1>1 DEF Timers, Claim
  <2> HIDE DEF x
  <2>3. Once(timers) /\ \A c \in Claims(timers) : c[1] # x.id /\ c[2] # x.ref
    BY <1>1, <1>2, <2>2, HeldIs DEF EachOnce, Places
  <2>4. /\ Claims(timers') = Claims(timers) \cup {Claim(x)} /\ Once(timers')
        /\ timers' \in Seq(Timers)
    BY <1>2, <2>1, <2>2, <2>3, Appended
  <2>5. /\ HeldBy'["timers"] = HeldBy["timers"] \cup {<<calls + 1, r>>}
        /\ \A o \in Places \ {"timers"} : HeldBy'[o] = HeldBy[o]
    BY <1>3, <2>2, <2>4, HeldIs DEF Places
  <2>6. PlacesOK(HeldBy', refs', calls')
    <3>1. "timers" \in Places
      BY DEF Places
    <3>2. r \notin refs /\ calls \in Nat /\ PlacesOK(HeldBy, refs, calls)
      BY <1>1, <1>2
    <3>3. PlacesOK(HeldBy', refs \cup {r}, calls + 1)
      BY <2>5, <3>1, <3>2, Added
    <3> QED
      BY <1>1, <2>1, <3>3
  <2>7. EachOnce'
    BY <1>2, <1>3, <2>4 DEF EachOnce, Once
  <2>8. NotOver'
    <3>1. ASSUME NEW n \in 1..Len(timers'), timers'[n].id \in over
          PROVE  /\ turn = "timers" /\ running # NoCall
                 /\ running.id = timers'[n].id /\ ~timers'[n].repeat
      <4>1. n = Len(timers) + 1 => timers'[n].id = calls'
        BY <1>2, <2>1, <2>2
      <4>2. n # Len(timers) + 1
        BY <1>1, <3>1, <4>1
      <4>3. n \in 1..Len(timers) /\ timers'[n] = timers[n]
        BY <1>2, <2>1, <4>2
      <4> QED
        BY <1>2, <3>1, <4>3 DEF NotOver
    <3> QED
      BY <1>2, <1>3, <2>5, <3>1 DEF NotOver
  <2> QED
    BY <2>6, <2>7, <2>8 DEF OwnInv
<1> QED
  BY <1>4, <1>5

\* requestAnimationFrame.
LEMMA AddRafOwn ==
  ASSUME ScriptsInv, NEW r \in Refs, AddRaf(r)
  PROVE  OwnInv'
<1>1. /\ turn # "gone" /\ r \notin refs /\ calls' = calls + 1 /\ calls' \in 1..MaxCalls
      /\ \A p \in Places : \A c \in HeldBy[p] : c[1] # calls' /\ c[2] # r
      /\ \A i \in over : i # calls'
  BY AsksFresh DEF AddRaf
<1>2. /\ PlacesOK(HeldBy, refs, calls) /\ EachOnce /\ NotOver /\ calls \in Nat
      /\ raf \in Seq(Entries)
  BY <1>1, Facts
<1>3. /\ AtWork' = AtWork
      /\ UNCHANGED <<timers, inbox, batch, running, turn, over>>
  BY DEF AddRaf, AtWork
<1>4. CASE Len(raf) >= MaxRaf
  <2>1. UNCHANGED <<refs, raf>>
    BY <1>4 DEF AddRaf
  <2> QED
    BY <1>1, <1>2, <1>3, <2>1, QuietOwn
<1>5. CASE ~(Len(raf) >= MaxRaf)
  <2> DEFINE x == [id |-> calls', ref |-> r]
  <2>1. refs' = refs \cup {r} /\ raf' = Append(raf, x)
    BY <1>5 DEF AddRaf
  <2>2. x \in Entries /\ Claim(x) = <<calls + 1, r>> /\ x.id = calls' /\ x.ref = r
    BY <1>1 DEF Entries, Claim
  <2> HIDE DEF x
  <2>3. Once(raf) /\ \A c \in Claims(raf) : c[1] # x.id /\ c[2] # x.ref
    BY <1>1, <1>2, <2>2, HeldIs DEF EachOnce, Places
  <2>4. Claims(raf') = Claims(raf) \cup {Claim(x)} /\ Once(raf')
    BY <1>2, <2>1, <2>2, <2>3, Appended
  <2>5. /\ HeldBy'["raf"] = HeldBy["raf"] \cup {<<calls + 1, r>>}
        /\ \A o \in Places \ {"raf"} : HeldBy'[o] = HeldBy[o]
    BY <1>3, <2>2, <2>4, HeldIs DEF Places
  <2>6. PlacesOK(HeldBy', refs', calls')
    <3>1. "raf" \in Places
      BY DEF Places
    <3>2. r \notin refs /\ calls \in Nat /\ PlacesOK(HeldBy, refs, calls)
      BY <1>1, <1>2
    <3>3. PlacesOK(HeldBy', refs \cup {r}, calls + 1)
      BY <2>5, <3>1, <3>2, Added
    <3> QED
      BY <1>1, <2>1, <3>3
  <2>7. EachOnce'
    BY <1>2, <1>3, <2>4 DEF EachOnce, Once
  <2>8. NotOver'
    <3>1. \A c \in HeldBy'["raf"] : c[1] \notin over
      BY <1>1, <1>2, <2>5 DEF NotOver, Places
    <3> QED
      BY <1>2, <1>3, <2>5, <3>1 DEF NotOver, Places
  <2> QED
    BY <2>6, <2>7, <2>8 DEF OwnInv
<1> QED
  BY <1>4, <1>5

\* fetch.
LEMMA StartFetchOwn ==
  ASSUME ScriptsInv, NEW r \in Refs, StartFetch(r)
  PROVE  OwnInv'
<1>1. /\ turn # "gone" /\ r \notin refs /\ calls' = calls + 1 /\ calls' \in 1..MaxCalls
      /\ \A p \in Places : \A c \in HeldBy[p] : c[1] # calls' /\ c[2] # r
      /\ \A i \in over : i # calls'
  BY AsksFresh DEF StartFetch
<1>2. PlacesOK(HeldBy, refs, calls) /\ EachOnce /\ NotOver /\ calls \in Nat
  BY <1>1, Facts
<1>3. UNCHANGED <<timers, raf, inbox, batch, running, turn, over>>
  BY DEF StartFetch
<1>4. CASE inflight >= MaxInflight
  <2>1. UNCHANGED <<refs, workers>>
    BY <1>4 DEF StartFetch
  <2>2. AtWork' = AtWork
    BY <2>1 DEF AtWork
  <2> QED
    BY <1>1, <1>2, <1>3, <2>1, <2>2, QuietOwn
<1>5. CASE ~(inflight >= MaxInflight)
  <2> DEFINE x == [id |-> calls', ref |-> r, waking |-> FALSE]
  <2>1. refs' = refs \cup {r} /\ workers' = workers \cup {x}
    BY <1>5 DEF StartFetch
  <2>2. ~x.waking /\ Claim(x) = <<calls + 1, r>>
    BY <1>1 DEF Claim
  <2> HIDE DEF x
  <2>3. AtWork' = AtWork \cup {x}
    BY <2>1, <2>2 DEF AtWork
  <2>4. {Claim(w) : w \in AtWork'} = {Claim(w) : w \in AtWork} \cup {<<calls + 1, r>>}
    BY <2>2, <2>3
  <2>5. /\ HeldBy'["workers"] = HeldBy["workers"] \cup {<<calls + 1, r>>}
        /\ \A o \in Places \ {"workers"} : HeldBy'[o] = HeldBy[o]
    BY <1>3, <2>4, HeldIs DEF Places
  <2>6. PlacesOK(HeldBy', refs', calls')
    <3>1. "workers" \in Places
      BY DEF Places
    <3>2. r \notin refs /\ calls \in Nat /\ PlacesOK(HeldBy, refs, calls)
      BY <1>1, <1>2
    <3>3. PlacesOK(HeldBy', refs \cup {r}, calls + 1)
      BY <2>5, <3>1, <3>2, Added
    <3> QED
      BY <1>1, <2>1, <3>3
  <2>7. EachOnce'
    BY <1>2, <1>3 DEF EachOnce, Once
  <2>8. NotOver'
    <3>1. \A c \in HeldBy'["workers"] : c[1] \notin over
      BY <1>1, <1>2, <2>5 DEF NotOver, Places
    <3> QED
      BY <1>2, <1>3, <2>5, <3>1 DEF NotOver, Places
  <2> QED
    BY <2>6, <2>7, <2>8 DEF OwnInv
<1> QED
  BY <1>4, <1>5

\* What clear_timer does to the claims, whoever calls it.
LEMMA ClearedIs ==
  ASSUME ScriptsInv, turn # "gone", NEW id, Cleared(id),
         UNCHANGED <<raf, inbox, batch, turn, calls>>, AtWork' = AtWork,
         turn = "timers" \/ running' = running
  PROVE  /\ PlacesOK(HeldBy', refs', calls') /\ EachOnce'
         /\ \A p \in Places \ {"timers"} : HeldBy'[p] = HeldBy[p] /\ \A c \in HeldBy[p] : c[1] # id
         /\ \A m \in 1..Len(timers') :
              timers'[m].id # id /\ \E k \in 1..Len(timers) : timers'[m] = timers[k]
         /\ timers' \in Seq(Timers) /\ refs' \subseteq refs /\ id \in 1..calls
<1>1. /\ PlacesOK(HeldBy, refs, calls) /\ EachOnce /\ calls \in Nat
      /\ timers \in Seq(Timers)
  BY Facts
<1>2. PICK n \in 1..Len(timers) :
        timers[n].id = id /\ timers' = RemoveAt(timers, n) /\ refs' = refs \ {timers[n].ref}
  BY <1>1 DEF Cleared
<1> DEFINE c == Claim(timers[n])
<1>3. c \in Claims(timers) /\ c[1] = id /\ c[2] = timers[n].ref
  BY <1>2 DEF Claims, Claim
<1> HIDE DEF c
<1>4. Once(timers)
  BY <1>1 DEF EachOnce
<1>5. /\ timers' \in Seq(Timers) /\ Once(timers') /\ Claims(timers') = Claims(timers) \ {c}
      /\ \A m \in 1..Len(timers') : \E k \in 1..Len(timers) \ {n} : timers'[m] = timers[k]
  <2> DEFINE t == RemoveAt(timers, n)
  <2>1. /\ t \in Seq(Timers) /\ Once(t) /\ Claims(t) = Claims(timers) \ {Claim(timers[n])}
        /\ \A m \in 1..Len(t) : \E k \in 1..Len(timers) \ {n} : t[m] = timers[k]
    BY <1>1, <1>4, Removed
  <2>2. timers' = t
    BY <1>2
  <2> HIDE DEF t
  <2> QED
    BY <2>1, <2>2 DEF c
<1>6. \A p \in Places \ {"timers"} : HeldBy'[p] = HeldBy[p]
  BY HeldIs DEF Places
<1>7. "timers" \in Places /\ HeldBy["timers"] = Claims(timers) /\ HeldBy'["timers"] = Claims(timers')
  BY HeldIs DEF Places
<1>8. PlacesOK(HeldBy', refs', calls')
  BY <1>1, <1>2, <1>3, <1>5, <1>6, <1>7, Dropped
<1>9. EachOnce'
  BY <1>1, <1>5 DEF EachOnce, Once
<1>10. \A p \in Places \ {"timers"} : \A d \in HeldBy[p] : d[1] # id
  <2>1. TAKE p \in Places \ {"timers"}
  <2>2. TAKE d \in HeldBy[p]
  <2>3. c \in All(HeldBy) /\ d \in All(HeldBy) /\ d # c
    BY <1>1, <1>3, <1>7 DEF All, PlacesOK
  <2> QED
    BY <1>1, <1>3, <2>3 DEF PlacesOK
<1>11. \A m \in 1..Len(timers') :
         timers'[m].id # id /\ \E k \in 1..Len(timers) : timers'[m] = timers[k]
  BY <1>2, <1>4, <1>5 DEF Once
<1>12. id \in 1..calls
  BY <1>3, <1>7, Fresh
<1> QED
  BY <1>2, <1>5, <1>6, <1>8, <1>9, <1>10, <1>11, <1>12

\* clearTimeout and clearInterval.
LEMMA ClearTimerOwn ==
  ASSUME ScriptsInv, NEW id, ClearTimer(id)
  PROVE  OwnInv'
<1>1. turn # "gone" /\ Cleared(id) /\ over' = over \cup {id}
  BY Facts DEF ClearTimer
<1>2. UNCHANGED <<raf, inbox, batch, turn, calls, running>> /\ AtWork' = AtWork
  BY DEF ClearTimer, AtWork
<1>3. /\ PlacesOK(HeldBy', refs', calls') /\ EachOnce'
      /\ \A p \in Places \ {"timers"} : HeldBy'[p] = HeldBy[p] /\ \A c \in HeldBy[p] : c[1] # id
      /\ \A m \in 1..Len(timers') :
           timers'[m].id # id /\ \E k \in 1..Len(timers) : timers'[m] = timers[k]
  BY <1>1, <1>2, ClearedIs
<1>4. NotOver
  BY <1>1, Facts
<1>5. NotOver'
  BY <1>1, <1>2, <1>3, <1>4 DEF NotOver
<1> QED
  BY <1>3, <1>5 DEF OwnInv

\* cancelAnimationFrame.
LEMMA CancelRafOwn ==
  ASSUME ScriptsInv, NEW id, CancelRaf(id)
  PROVE  OwnInv'
<1>1. /\ turn # "gone" /\ over' = over \cup {id} /\ AtWork' = AtWork
      /\ UNCHANGED <<timers, inbox, batch, turn, calls, running>>
  BY Facts DEF CancelRaf, AtWork
<1>2. /\ PlacesOK(HeldBy, refs, calls) /\ EachOnce /\ NotOver /\ calls \in Nat
      /\ raf \in Seq(Entries)
  BY <1>1, Facts
<1>3. PICK n \in 1..Len(raf) :
        raf[n].id = id /\ raf' = RemoveAt(raf, n) /\ refs' = refs \ {raf[n].ref}
  BY <1>2 DEF CancelRaf
<1> DEFINE c == Claim(raf[n])
<1>4. c \in Claims(raf) /\ c[1] = id /\ c[2] = raf[n].ref
  BY <1>3 DEF Claims, Claim
<1> HIDE DEF c
<1>5. Once(raf)
  BY <1>2 DEF EachOnce
<1>6. Once(raf') /\ Claims(raf') = Claims(raf) \ {c}
  BY <1>2, <1>3, <1>5, Removed DEF c
<1>7. \A p \in Places \ {"raf"} : HeldBy'[p] = HeldBy[p]
  BY <1>1, HeldIs DEF Places
<1>8. "raf" \in Places /\ HeldBy["raf"] = Claims(raf) /\ HeldBy'["raf"] = Claims(raf')
  BY HeldIs DEF Places
<1>9. PlacesOK(HeldBy', refs', calls')
  BY <1>1, <1>2, <1>3, <1>4, <1>6, <1>7, <1>8, Dropped
<1>10. EachOnce'
  BY <1>1, <1>2, <1>6 DEF EachOnce, Once
<1>11. \A p \in Places : \A d \in HeldBy'[p] : d[1] # id
  <2>1. TAKE p \in Places
  <2>2. TAKE d \in HeldBy'[p]
  <2>3. c \in All(HeldBy) /\ d \in All(HeldBy) /\ d # c
    BY <1>2, <1>4, <1>6, <1>7, <1>8 DEF All, PlacesOK
  <2> QED
    BY <1>2, <1>4, <2>3 DEF PlacesOK
<1>12. \A m \in 1..Len(timers) : timers[m].id # id
  <2>1. TAKE m \in 1..Len(timers)
  <2>2. Claim(timers[m]) \in HeldBy'["timers"] /\ "timers" \in Places
    BY <1>1, HeldIs DEF Claims, Places
  <2> QED
    BY <1>11, <2>2 DEF Claim
<1>13. NotOver'
  <2>1. \A p \in Places \ {"timers", "running"} : \A d \in HeldBy'[p] : d[1] \notin over
    BY <1>2, <1>6, <1>7, <1>8 DEF NotOver
  <2> QED
    BY <1>1, <1>2, <1>11, <1>12, <2>1 DEF NotOver
<1> QED
  BY <1>9, <1>10, <1>13 DEF OwnInv

-----------------------------------------------------------------------------
(* Steps of the fetch threads.                                             *)

\* A result moves into the inbox.
LEMMA CompleteOwn ==
  ASSUME ScriptsInv, NEW w, Complete(w)
  PROVE  OwnInv'
<1>1. SUFFICES ASSUME turn # "gone"
               PROVE  PlacesOK(HeldBy', refs', calls') /\ EachOnce' /\ NotOver'
  BY DEF OwnInv, Complete
<1>2. /\ PlacesOK(HeldBy, refs, calls) /\ EachOnce /\ NotOver /\ calls \in Nat
      /\ inbox \in Seq(Entries)
      /\ workers \subseteq [id : 1..MaxCalls, ref : Refs, waking : BOOLEAN]
  BY <1>1, Facts
<1>3. ~cancelled
  BY <1>1 DEF ScriptsInv, TurnOK
<1> DEFINE x == [id |-> w.id, ref |-> w.ref]
<1>4. /\ w \in AtWork /\ inbox' = Append(inbox, x)
      /\ workers' = (workers \ {w}) \cup {[w EXCEPT !.waking = TRUE]}
      /\ UNCHANGED <<refs, timers, raf, batch, running, turn, calls, over>>
  BY <1>3 DEF Complete, AtWork
<1>5. AtWork' = AtWork \ {w}
  <2>1. [w EXCEPT !.waking = TRUE].waking
    BY <1>2, <1>4 DEF AtWork
  <2> QED
    BY <1>4, <2>1 DEF AtWork
<1>6. x \in Entries /\ Claim(x) = Claim(w) /\ x.id = w.id /\ x.ref = w.ref
  BY <1>2, <1>4 DEF Entries, Claim, AtWork
<1> HIDE DEF x
<1>7. Claim(w) \in HeldBy["workers"] /\ Claim(w)[1] = w.id /\ Claim(w)[2] = w.ref
  BY <1>4, HeldIs DEF Claim
<1>8. \A c \in HeldBy["inbox"] : c[1] # w.id /\ c[2] # w.ref
  <2>1. TAKE c \in HeldBy["inbox"]
  <2>2. c \in All(HeldBy) /\ Claim(w) \in All(HeldBy) /\ c # Claim(w)
    BY <1>2, <1>7 DEF All, PlacesOK, Places
  <2> QED
    BY <1>2, <1>7, <2>2 DEF PlacesOK
<1>9. Claims(inbox') = Claims(inbox) \cup {Claim(w)} /\ Once(inbox')
  BY <1>2, <1>4, <1>6, <1>8, Appended, HeldIs DEF EachOnce
<1>10. {Claim(v) : v \in AtWork'} = {Claim(v) : v \in AtWork} \ {Claim(w)}
  <2>1. ASSUME NEW v \in AtWork, Claim(v) = Claim(w)
        PROVE  v = w
    <3>1. /\ v \in [id : 1..MaxCalls, ref : Refs, waking : BOOLEAN] /\ ~v.waking
          /\ w \in [id : 1..MaxCalls, ref : Refs, waking : BOOLEAN] /\ ~w.waking
      BY <1>2, <1>4 DEF AtWork
    <3>2. v.id = w.id /\ v.ref = w.ref
      BY <2>1 DEF Claim
    <3> QED
      BY <3>1, <3>2
  <2> QED
    BY <1>5, <2>1
<1>11. /\ HeldBy'["workers"] = HeldBy["workers"] \ {Claim(w)}
       /\ HeldBy'["inbox"] = HeldBy["inbox"] \cup {Claim(w)}
       /\ \A o \in Places \ {"workers", "inbox"} : HeldBy'[o] = HeldBy[o]
  BY <1>4, <1>9, <1>10, HeldIs DEF Places
<1>12. PlacesOK(HeldBy', refs', calls')
  <2>1. "workers" \in Places /\ "inbox" \in Places \ {"workers"}
        /\ {Claim(w)} \in SUBSET HeldBy["workers"]
    BY <1>7 DEF Places
  <2>2. PlacesOK(HeldBy', refs, calls)
    BY <1>2, <1>11, <2>1, Moved
  <2> QED
    BY <1>4, <2>2
<1>13. EachOnce'
  BY <1>2, <1>4, <1>9 DEF EachOnce, Once
<1>14. NotOver'
  <2>1. Claim(w)[1] \notin over
    BY <1>2, <1>7 DEF NotOver, Places
  <2> QED
    BY <1>2, <1>4, <1>11, <2>1 DEF NotOver, Places
<1> QED
  BY <1>12, <1>13, <1>14

\* The window is woken.
LEMMA WakeOwn ==
  ASSUME ScriptsInv, NEW w, Wake(w)
  PROVE  OwnInv'
<1>1. AtWork' = AtWork
  BY DEF Wake, AtWork
<1> QED
  BY <1>1, Facts, QuietOwn DEF Wake

-----------------------------------------------------------------------------
(* Steps of the render thread.                                             *)

\* A turn begins with nothing in hand.
LEMMA TurnOwn ==
  ASSUME ScriptsInv, turn # "gone", batch = << >>, running = NoCall, running' = NoCall,
         batch' = << >> \/ turn' = "timers",
         UNCHANGED <<refs, timers, raf, inbox, workers, calls, over>>
  PROVE  OwnInv'
<1>1. PlacesOK(HeldBy, refs, calls) /\ EachOnce /\ NotOver /\ calls \in Nat
  BY Facts
<1>2. \A p \in Places : HeldBy'[p] = HeldBy[p]
  BY HeldIs, Empty DEF Places, AtWork
<1>3. PlacesOK(HeldBy', refs', calls')
  BY <1>1, <1>2, Unmoved
<1>4. EachOnce'
  <2>1. turn' # "timers" => Once(batch')
    BY Empty
  <2> QED
    BY <1>1, <2>1 DEF EachOnce, Once
<1>5. NotOver'
  BY <1>1, <1>2 DEF NotOver
<1> QED
  BY <1>3, <1>4, <1>5 DEF OwnInv

\* A loop takes all that waits in a queue: s is the queue, of place p.
LEMMA SwappedOwn ==
  ASSUME ScriptsInv, turn # "gone", turn' \notin {"timers", "gone"}, running = NoCall, running' = NoCall,
         batch = << >>, NEW p \in {"raf", "inbox"},
         HeldBy'[p] = {}, Claims(batch') = HeldBy[p], Once(batch'), Once(raf'), Once(inbox'),
         \A o \in {"raf", "inbox"} \ {p} : HeldBy'[o] = HeldBy[o],
         UNCHANGED <<refs, timers, workers, calls, over>>
  PROVE  OwnInv'
<1>1. PlacesOK(HeldBy, refs, calls) /\ EachOnce /\ NotOver /\ calls \in Nat
  BY Facts
<1>2. /\ HeldBy'["batch"] = HeldBy[p] /\ HeldBy["batch"] = {}
      /\ HeldBy'["running"] = HeldBy["running"] /\ HeldBy'["timers"] = HeldBy["timers"]
      /\ HeldBy'["workers"] = HeldBy["workers"]
  BY HeldIs, Empty DEF AtWork
<1>3. \A o \in Places \ {p, "batch"} : HeldBy'[o] = HeldBy[o]
  BY <1>2 DEF Places
<1>4. PlacesOK(HeldBy', refs', calls')
  <2>1. p \in Places /\ "batch" \in Places \ {p} /\ HeldBy[p] \in SUBSET HeldBy[p]
    BY DEF Places
  <2>2. HeldBy'[p] = HeldBy[p] \ HeldBy[p] /\ HeldBy'["batch"] = HeldBy["batch"] \cup HeldBy[p]
    BY <1>2
  <2>3. PlacesOK(HeldBy', refs, calls)
    BY <1>1, <1>3, <2>1, <2>2, Moved
  <2> QED
    BY <2>3
<1>5. EachOnce'
  BY <1>1 DEF EachOnce, Once
<1>6. NotOver'
  <2>1. \A o \in Places \ {"timers", "running"} : \A c \in HeldBy'[o] : c[1] \notin over
    BY <1>1, <1>2, <1>3 DEF NotOver, Places
  <2> QED
    BY <1>1, <2>1 DEF NotOver
<1> QED
  BY <1>4, <1>5, <1>6 DEF OwnInv

\* poll_fetches takes what is done.
LEMMA PollFetchesOwn ==
  ASSUME ScriptsInv, NEW v, PollFetches(v)
  PROVE  OwnInv'
<1>1. /\ turn = "handlers" /\ turn' = "fetches" /\ batch' = inbox /\ inbox' = << >>
      /\ UNCHANGED <<refs, timers, raf, workers, running, calls, over>>
  BY DEF PollFetches
<1>2. batch = << >> /\ running = NoCall
  BY <1>1 DEF ScriptsInv, TurnOK
<1>3. EachOnce
  BY <1>1, Facts
<1>4. HeldBy'["inbox"] = {} /\ Claims(batch') = HeldBy["inbox"] /\ HeldBy'["raf"] = HeldBy["raf"]
  BY <1>1, HeldIs, Empty
<1>5. Once(batch') /\ Once(raf') /\ Once(inbox')
  BY <1>1, <1>3, Empty DEF EachOnce
<1> QED
  BY <1>1, <1>2, <1>4, <1>5, SwappedOwn

\* run_raf takes all frames, if any.
LEMMA RunRafOwn ==
  ASSUME ScriptsInv, NEW b, RunRaf(b)
  PROVE  OwnInv'
<1>1. /\ turn = "timers" /\ turn' = "frames" /\ batch = << >> /\ running = NoCall
      /\ UNCHANGED <<refs, timers, inbox, workers, running, calls, over>>
      /\ (batch' = raf /\ raf' = << >>) \/ UNCHANGED <<batch, raf>>
  BY DEF RunRaf
<1>2. EachOnce
  BY <1>1, Facts
<1>3. CASE batch' = raf /\ raf' = << >>
  <2>1. HeldBy'["raf"] = {} /\ Claims(batch') = HeldBy["raf"] /\ HeldBy'["inbox"] = HeldBy["inbox"]
    BY <1>1, <1>3, HeldIs, Empty
  <2>2. Once(batch') /\ Once(raf') /\ Once(inbox')
    BY <1>1, <1>2, <1>3, Empty DEF EachOnce
  <2> QED
    BY <1>1, <2>1, <2>2, SwappedOwn
<1>4. CASE UNCHANGED <<batch, raf>>
  BY <1>1, <1>4, TurnOwn
<1> QED
  BY <1>1, <1>3, <1>4

\* A fetch's or a frame's callback begins.
LEMMA TakeOwn ==
  ASSUME ScriptsInv, turn \in {"fetches", "frames"}, running = NoCall, batch # << >>,
         Begin(Head(batch), TRUE), batch' = Tail(batch),
         UNCHANGED <<refs, timers, raf, inbox, workers, turn, calls>>
  PROVE  OwnInv' /\ running'.id \notin over
<1>1. /\ PlacesOK(HeldBy, refs, calls) /\ EachOnce /\ NotOver /\ calls \in Nat
      /\ batch \in Seq(Entries)
  BY Facts
<1> DEFINE x == Head(batch)
<1>2. /\ x \in Entries /\ Claim(x) \in Claims(batch)
      /\ Claims(batch') = Claims(batch) \ {Claim(x)} /\ Once(batch')
  BY <1>1, Taken DEF EachOnce
<1>3. /\ running' = [id |-> x.id, ref |-> x.ref] /\ over' = over \cup {x.id}
      /\ running' \in Entries
  BY <1>2 DEF Begin, Entries
<1> HIDE DEF x
<1>4. running' # NoCall
  BY <1>3, ScriptsAssumption DEF Entries
<1>5. Claim(running') = Claim(x) /\ Claim(x)[1] = x.id
  BY <1>3 DEF Claim
<1>6. /\ HeldBy["batch"] = Claims(batch) /\ HeldBy'["batch"] = HeldBy["batch"] \ {Claim(x)}
      /\ HeldBy["running"] = {} /\ HeldBy'["running"] = HeldBy["running"] \cup {Claim(x)}
      /\ \A o \in Places \ {"batch", "running"} : HeldBy'[o] = HeldBy[o]
  BY <1>2, <1>4, <1>5, HeldIs DEF Places, AtWork
<1>7. x.id \notin over
  BY <1>1, <1>2, <1>5, <1>6 DEF NotOver, Places
<1>8. PlacesOK(HeldBy', refs', calls')
  <2>1. "batch" \in Places /\ "running" \in Places \ {"batch"}
        /\ {Claim(x)} \in SUBSET HeldBy["batch"]
    BY <1>2, <1>6 DEF Places
  <2>2. PlacesOK(HeldBy', refs, calls)
    BY <1>1, <1>6, <2>1, Moved
  <2> QED
    BY <2>2
<1>9. EachOnce'
  BY <1>1, <1>2 DEF EachOnce, Once
<1>10. \A p \in Places \ {"running"} : \A c \in HeldBy'[p] : c[1] # x.id
  <2>1. TAKE p \in Places \ {"running"}
  <2>2. TAKE c \in HeldBy'[p]
  <2>3. c \in All(HeldBy) /\ Claim(x) \in All(HeldBy) /\ c # Claim(x)
    BY <1>1, <1>2, <1>6 DEF All, PlacesOK, Places
  <2> QED
    BY <1>1, <1>5, <2>3 DEF PlacesOK
<1>11. \A m \in 1..Len(timers) : timers[m].id # x.id
  <2>1. TAKE m \in 1..Len(timers)
  <2>2. Claim(timers[m]) \in HeldBy'["timers"] /\ "timers" \in Places
    BY HeldIs DEF Claims, Places
  <2> QED
    BY <1>10, <2>2 DEF Claim
<1>12. NotOver'
  <2>1. \A p \in Places \ {"timers", "running"} : \A c \in HeldBy'[p] : c[1] \notin over
    BY <1>1, <1>6 DEF NotOver
  <2> QED
    BY <1>1, <1>3, <1>10, <1>11, <2>1 DEF NotOver
<1> QED
  BY <1>3, <1>7, <1>8, <1>9, <1>12 DEF OwnInv

\* A timer's callback begins, if the timer is still there.
LEMMA CallTimerOwn ==
  ASSUME ScriptsInv, CallTimer
  PROVE  OwnInv' /\ (running' # running => running'.id \notin over)
<1>1. /\ turn = "timers" /\ running = NoCall /\ AtWork' = AtWork
      /\ UNCHANGED <<refs, raf, inbox, turn, calls>>
  BY DEF CallTimer, AtWork
<1>2. /\ PlacesOK(HeldBy, refs, calls) /\ EachOnce /\ NotOver /\ calls \in Nat
      /\ timers \in Seq(Timers)
  BY <1>1, Facts
<1>3. CASE UNCHANGED <<running, timers, over>>
  <2>1. \A p \in Places : HeldBy'[p] = HeldBy[p]
    BY <1>1, <1>3, HeldIs DEF Places
  <2>2. PlacesOK(HeldBy', refs', calls')
    BY <1>1, <1>2, <2>1, Unmoved
  <2>3. EachOnce'
    BY <1>1, <1>2, <1>3 DEF EachOnce, Once
  <2>4. NotOver'
    BY <1>1, <1>2, <1>3, <2>1 DEF NotOver
  <2> QED
    BY <1>3, <2>2, <2>3, <2>4 DEF OwnInv
<1>4. CASE ~UNCHANGED <<running, timers, over>>
  <2>1. PICK t \in Named(timers, Head(batch).id) :
          /\ Begin(t, ~t.repeat)
          /\ timers' = [n \in DOMAIN timers |->
               IF timers[n].id = t.id /\ t.repeat THEN [timers[n] EXCEPT !.due = FALSE]
               ELSE timers[n]]
    BY <1>4 DEF CallTimer, StillThere
  <2>2. PICK k \in 1..Len(timers) : timers[k] = t
    BY <1>2, <2>1 DEF Named, ToSet
  <2>3. t \in Timers /\ \A n \in 1..Len(timers) : timers[n] \in Timers
    BY <1>2, <2>2, ElementOfSeq
  <2>4. /\ Len(timers') = Len(timers) /\ Len(timers) \in Nat
        /\ \A n \in 1..Len(timers) :
             /\ timers'[n].id = timers[n].id /\ timers'[n].ref = timers[n].ref
             /\ timers'[n].repeat = timers[n].repeat
    <3>1. DOMAIN timers = 1..Len(timers) /\ Len(timers) \in Nat
      BY <1>2
    <3>2. DOMAIN timers' = 1..Len(timers)
      BY <2>1, <3>1
    <3>3. Len(timers') = Len(timers)
      <4>1. timers' \in Seq(Timers)
        <5>1. \A n \in 1..Len(timers) : timers'[n] \in Timers
          BY <2>1, <2>3, <3>1 DEF Timers
        <5> QED
          BY <2>1, <3>1, <5>1
      <4> QED
        BY <3>1, <3>2, <4>1
    <3>4. ASSUME NEW n \in 1..Len(timers)
          PROVE  /\ timers'[n].id = timers[n].id /\ timers'[n].ref = timers[n].ref
                 /\ timers'[n].repeat = timers[n].repeat
      BY <2>1, <2>3, <3>1 DEF Timers
    <3> QED
      BY <3>1, <3>3, <3>4
  <2>5. Claims(timers') = Claims(timers) /\ Once(timers')
    BY <1>2, <2>4, SameClaims DEF EachOnce
  <2>6. \A p \in Places : HeldBy'[p] = HeldBy[p]
    BY <1>1, <2>5, HeldIs DEF Places
  <2>7. PlacesOK(HeldBy', refs', calls')
    BY <1>1, <1>2, <2>6, Unmoved
  <2>8. EachOnce'
    BY <1>1, <1>2, <2>5 DEF EachOnce, Once
  <2>9. \A n \in 1..Len(timers) : timers[n].id \notin over
    BY <1>1, <1>2 DEF NotOver
  <2>10. /\ running' = [id |-> t.id, ref |-> t.ref] /\ running' \in Entries
         /\ over' = IF ~t.repeat THEN over \cup {t.id} ELSE over
    BY <2>1, <2>3 DEF Begin, Timers, Entries
  <2>11. running' # NoCall
    BY <2>10, ScriptsAssumption DEF Entries
  <2>12. NotOver'
    <3>1. \A p \in Places \ {"timers", "running"} : \A c \in HeldBy'[p] : c[1] \notin over'
      <4>1. TAKE p \in Places \ {"timers", "running"}
      <4>2. TAKE c \in HeldBy'[p]
      <4>3. Claim(t) \in HeldBy["timers"] /\ Claim(t)[1] = t.id /\ "timers" \in Places
        BY <2>2, HeldIs DEF Claims, Claim, Places
      <4>4. c \in HeldBy[p]
        BY <2>6
      <4>5. c \in All(HeldBy) /\ Claim(t) \in All(HeldBy) /\ c # Claim(t)
        BY <1>2, <4>3, <4>4 DEF All, PlacesOK
      <4>6. c[1] # t.id
        BY <1>2, <4>3, <4>5 DEF PlacesOK
      <4>7. c[1] \notin over
        BY <1>2, <4>4 DEF NotOver
      <4> QED
        BY <2>10, <4>6, <4>7
    <3>2. ASSUME NEW n \in 1..Len(timers'), timers'[n].id \in over'
          PROVE  running'.id = timers'[n].id /\ ~timers'[n].repeat
      <4>1. n \in 1..Len(timers) /\ timers[n].id \in over'
        BY <2>4, <3>2
      <4>2. ~t.repeat /\ timers[n].id = t.id
        BY <2>9, <2>10, <4>1
      <4>3. n = k
        BY <1>2, <2>2, <4>1, <4>2 DEF EachOnce, Once
      <4> QED
        BY <2>2, <2>4, <2>10, <4>1, <4>2, <4>3
    <3> QED
      BY <1>1, <2>11, <3>1, <3>2 DEF NotOver
  <2>13. running'.id \notin over
    BY <2>2, <2>9, <2>10
  <2> QED
    BY <2>7, <2>8, <2>12, <2>13 DEF OwnInv
<1> QED
  BY <1>3, <1>4

\* Frames that are left go back to the front.
LEMMA LeftOver ==
  ASSUME NEW P, NEW R, NEW k \in Nat, PlacesOK(P, R, k), Once(raf), Once(batch),
         P["raf"] = Claims(raf), P["batch"] = Claims(batch),
         raf \in Seq(Entries), batch \in Seq(Entries)
  PROVE  Claims(batch \o raf) = P["raf"] \cup P["batch"] /\ Once(batch \o raf)
<1>1. \A c \in Claims(batch), d \in Claims(raf) : c[1] # d[1] /\ c[2] # d[2]
  <2>1. TAKE c \in Claims(batch), d \in Claims(raf)
  <2>2. c \in All(P) /\ d \in All(P) /\ c # d
    BY DEF All, PlacesOK, Places
  <2> QED
    BY <2>2 DEF PlacesOK
<1>2. Claims(batch \o raf) = Claims(batch) \cup Claims(raf) /\ Once(batch \o raf)
  BY <1>1, Joined
<1> QED
  BY <1>2

\* The callback of a fetch or a frame is over, and its reference freed.
LEMMA EndsOwn ==
  ASSUME ScriptsInv, NEW b \in BOOLEAN, CallbackEnds(b), turn \in {"fetches", "frames"}
  PROVE  OwnInv'
<1>1. /\ running # NoCall /\ running' = NoCall /\ refs' = refs \ {running.ref}
      /\ raf' = (IF b THEN batch \o raf ELSE raf) /\ batch' = (IF b THEN << >> ELSE batch)
      /\ UNCHANGED <<timers, inbox, workers, turn, calls, over>>
  BY DEF CallbackEnds, FreesRef
<1>2. /\ PlacesOK(HeldBy, refs, calls) /\ EachOnce /\ NotOver /\ calls \in Nat
      /\ raf \in Seq(Entries) /\ batch \in Seq(Entries)
  BY Facts
<1> DEFINE c == Claim(running)
           Q == [p \in Places |-> IF p = "running" THEN {} ELSE HeldBy[p]]
<1>3. HeldBy["running"] = {c} /\ c[2] = running.ref
  BY <1>1, HeldIs DEF Claim
<1>4. PlacesOK(Q, refs', calls)
  <2>1. "running" \in Places /\ c \in HeldBy["running"]
    BY <1>3 DEF Places
  <2>2. Q["running"] = HeldBy["running"] \ {c} /\ \A o \in Places \ {"running"} : Q[o] = HeldBy[o]
    BY <1>3, <2>1
  <2> HIDE DEF Q, c
  <2>3. PlacesOK(Q, refs \ {c[2]}, calls)
    BY <1>2, <2>1, <2>2, Dropped
  <2> QED
    BY <1>1, <1>3, <2>3
<1>5. /\ Q["raf"] = Claims(raf) /\ Q["batch"] = Claims(batch) /\ Q["running"] = {}
      /\ Q["timers"] = Claims(timers) /\ Q["inbox"] = Claims(inbox)
      /\ Q["workers"] = {Claim(w) : w \in AtWork}
  BY HeldIs DEF Places
<1>6. \A p \in Places \ {"timers", "running"} : \A d \in Q[p] : d[1] \notin over
  BY <1>2 DEF NotOver
<1>7. \A n \in 1..Len(timers) : timers[n].id \notin over
  BY <1>2 DEF NotOver
<1> HIDE DEF Q, c
<1>8. CASE ~b
  <2>1. \A p \in Places : HeldBy'[p] = Q[p]
    BY <1>1, <1>5, <1>8, HeldIs DEF Places, AtWork
  <2>2. PlacesOK(HeldBy', refs', calls')
    BY <1>1, <1>2, <1>4, <2>1, Unmoved
  <2>3. EachOnce'
    BY <1>1, <1>2, <1>8 DEF EachOnce, Once
  <2>4. NotOver'
    BY <1>1, <1>6, <1>7, <2>1 DEF NotOver
  <2> QED
    BY <2>2, <2>3, <2>4 DEF OwnInv
<1>9. CASE b
  <2>1. Once(raf) /\ Once(batch)
    BY <1>2 DEF EachOnce
  <2>2. Claims(raf') = Q["raf"] \cup Q["batch"] /\ Once(raf')
    BY <1>1, <1>2, <1>4, <1>5, <1>9, <2>1, LeftOver
  <2>3. /\ HeldBy'["raf"] = Q["raf"] \cup Q["batch"] /\ HeldBy'["batch"] = Q["batch"] \ Q["batch"]
        /\ \A o \in Places \ {"raf", "batch"} : HeldBy'[o] = Q[o]
    BY <1>1, <1>5, <1>9, <2>2, HeldIs, Empty DEF Places, AtWork
  <2>4. PlacesOK(HeldBy', refs', calls')
    <3>1. "batch" \in Places /\ "raf" \in Places \ {"batch"} /\ Q["batch"] \in SUBSET Q["batch"]
      BY DEF Places
    <3>2. PlacesOK(HeldBy', refs', calls)
      BY <1>2, <1>4, <2>3, <3>1, Moved
    <3> QED
      BY <1>1, <3>2
  <2>5. EachOnce'
    BY <1>1, <1>2, <1>9, <2>2, Empty DEF EachOnce, Once
  <2>6. NotOver'
    <3>1. \A p \in Places \ {"timers", "running"} : \A d \in HeldBy'[p] : d[1] \notin over
      BY <1>6, <2>3 DEF Places
    <3> QED
      BY <1>1, <1>7, <3>1 DEF NotOver
  <2> QED
    BY <2>4, <2>5, <2>6 DEF OwnInv
<1> QED
  BY <1>8, <1>9

\* A timer's callback is over: a one-shot goes, unless it was cleared meanwhile.
LEMMA TimerEndsOwn ==
  ASSUME ScriptsInv, NEW b \in BOOLEAN, CallbackEnds(b), turn = "timers"
  PROVE  OwnInv'
<1>1. /\ running # NoCall /\ running' = NoCall /\ AtWork' = AtWork
      /\ UNCHANGED <<raf, batch, inbox, turn, calls, over>>
      /\ IF \E t \in Named(timers, running.id) : ~t.repeat
         THEN Cleared(running.id)
         ELSE UNCHANGED <<refs, timers>>
  BY DEF CallbackEnds, FreesRef, AtWork
<1>2. /\ PlacesOK(HeldBy, refs, calls) /\ EachOnce /\ NotOver /\ calls \in Nat
      /\ timers \in Seq(Timers)
  BY Facts
<1>3. CASE Cleared(running.id)
  <2> DEFINE id == running.id
  <2>1. /\ PlacesOK(HeldBy', refs', calls') /\ EachOnce'
        /\ \A p \in Places \ {"timers"} : HeldBy'[p] = HeldBy[p] /\ \A c \in HeldBy[p] : c[1] # id
        /\ \A m \in 1..Len(timers') :
             timers'[m].id # id /\ \E k \in 1..Len(timers) : timers'[m] = timers[k]
    <3> HIDE DEF id
    <3>1. Cleared(id)
      BY <1>3 DEF id
    <3> QED
      BY <1>1, <3>1, ClearedIs
  <2>2. NotOver'
    BY <1>1, <1>2, <2>1 DEF NotOver
  <2> QED
    BY <2>1, <2>2 DEF OwnInv
<1>4. CASE UNCHANGED <<refs, timers>> /\ ~\E t \in Named(timers, running.id) : ~t.repeat
  <2>1. \A p \in Places : HeldBy'[p] = HeldBy[p]
    BY <1>1, <1>4, HeldIs DEF Places
  <2>2. PlacesOK(HeldBy', refs', calls')
    BY <1>1, <1>2, <1>4, <2>1, Unmoved
  <2>3. EachOnce'
    BY <1>1, <1>2, <1>4 DEF EachOnce, Once
  <2>4. \A n \in 1..Len(timers) : timers[n].id \notin over
    <3>1. TAKE n \in 1..Len(timers)
    <3>2. timers[n] \in ToSet(timers)
      BY <1>2 DEF ToSet
    <3> QED
      BY <1>2, <1>4, <3>2 DEF NotOver, Named
  <2>5. NotOver'
    BY <1>1, <1>2, <1>4, <2>1, <2>4 DEF NotOver
  <2> QED
    BY <2>2, <2>3, <2>5 DEF OwnInv
<1> QED
  BY <1>1, <1>3, <1>4

\* Time passes.
LEMMA DueOwn ==
  ASSUME ScriptsInv, NEW n, Due(n)
  PROVE  OwnInv'
<1>1. SUFFICES ASSUME turn # "gone"
               PROVE  PlacesOK(HeldBy', refs', calls') /\ EachOnce' /\ NotOver'
  BY DEF OwnInv, Due
<1>2. /\ PlacesOK(HeldBy, refs, calls) /\ EachOnce /\ NotOver /\ calls \in Nat
      /\ timers \in Seq(Timers)
  BY <1>1, Facts
<1>3. /\ n \in 1..Len(timers) /\ timers' = [timers EXCEPT ![n].due = TRUE]
      /\ AtWork' = AtWork /\ UNCHANGED <<refs, raf, inbox, turn, batch, running, calls, over>>
  BY <1>2 DEF Due, AtWork
<1>4. /\ Len(timers') = Len(timers)
      /\ \A m \in 1..Len(timers) :
           /\ timers'[m].id = timers[m].id /\ timers'[m].ref = timers[m].ref
           /\ timers'[m].repeat = timers[m].repeat
  <2>1. \A m \in 1..Len(timers) : timers[m] \in Timers
    BY <1>2, ElementOfSeq
  <2>2. Len(timers') = Len(timers)
    BY <1>2, <1>3
  <2>3. ASSUME NEW m \in 1..Len(timers)
        PROVE  /\ timers'[m].id = timers[m].id /\ timers'[m].ref = timers[m].ref
               /\ timers'[m].repeat = timers[m].repeat
    <3>1. m \in DOMAIN timers /\ n \in DOMAIN timers
      BY <1>2, <1>3
    <3>2. CASE m # n
      BY <1>3, <3>1, <3>2
    <3>3. CASE m = n
      <4>1. timers'[n] = [timers[n] EXCEPT !.due = TRUE]
        BY <1>3, <3>1
      <4> QED
        BY <2>1, <3>3, <4>1 DEF Timers
    <3> QED
      BY <3>2, <3>3
  <2> QED
    BY <2>2, <2>3
<1>5. Claims(timers') = Claims(timers) /\ Once(timers')
  BY <1>2, <1>4, SameClaims DEF EachOnce
<1>6. \A p \in Places : HeldBy'[p] = HeldBy[p]
  BY <1>3, <1>5, HeldIs DEF Places
<1>7. PlacesOK(HeldBy', refs', calls')
  BY <1>2, <1>3, <1>6, Unmoved
<1>8. EachOnce'
  BY <1>2, <1>3, <1>5 DEF EachOnce, Once
<1>9. NotOver'
  BY <1>2, <1>3, <1>4, <1>6 DEF NotOver
<1> QED
  BY <1>7, <1>8, <1>9

\* ~ScriptEngine, and the turns that only pass.
LEMMA PassOwn ==
  ASSUME ScriptsInv, Awake \/ PollTimers \/ Draw \/ Destroy \/ UNCHANGED scriptVars
  PROVE  OwnInv'
<1>1. CASE Awake \/ PollTimers \/ Draw
  <2>1. /\ turn # "gone" /\ batch = << >> /\ running = NoCall /\ running' = NoCall
        /\ UNCHANGED <<refs, timers, raf, inbox, workers, calls, over>>
    BY <1>1 DEF ScriptsInv, TurnOK, Awake, PollTimers, Draw
  <2>2. batch' = << >> \/ turn' = "timers"
    BY <1>1, <2>1 DEF Awake, PollTimers, Draw
  <2> QED
    BY <2>1, <2>2, TurnOwn
<1>2. CASE Destroy
  BY <1>2 DEF Destroy, OwnInv
<1>3. CASE UNCHANGED scriptVars
  BY <1>3, Facts, QuietOwn DEF scriptVars, AtWork
<1> QED
  BY <1>1, <1>2, <1>3

\* Every step leaves each reference with one holder.
LEMMA OwnNext == ScriptsInv /\ [ScriptsNext]_scriptVars => OwnInv'
<1> SUFFICES ASSUME ScriptsInv, [ScriptsNext]_scriptVars PROVE OwnInv'
  OBVIOUS
<1>1. CASE Calls
  BY <1>1, SetTimerOwn, AddRafOwn, StartFetchOwn, ClearTimerOwn, CancelRafOwn DEF Calls
<1>2. ASSUME NEW w \in workers, Complete(w) \/ Wake(w)
      PROVE  OwnInv'
  BY <1>2, CompleteOwn, WakeOwn
<1>3. CASE Awake \/ PollTimers \/ Draw \/ Destroy \/ UNCHANGED scriptVars
  BY <1>3, PassOwn
<1>4. CASE CallFetch \/ CallFrame
  BY <1>4, TakeOwn DEF CallFetch, CallFrame
<1>5. CASE CallTimer
  BY <1>5, CallTimerOwn
<1>6. ASSUME NEW b \in BOOLEAN, PollFetches(b) \/ RunRaf(b) \/ CallbackEnds(b)
      PROVE  OwnInv'
  <2>1. CASE CallbackEnds(b)
    <3>1. turn \in {"fetches", "timers", "frames"}
      BY <2>1 DEF CallbackEnds, ScriptsInv, TurnOK
    <3> QED
      BY <2>1, <3>1, EndsOwn, TimerEndsOwn
  <2> QED
    BY <1>6, <2>1, PollFetchesOwn, RunRafOwn
<1>7. ASSUME NEW n \in 1..MaxTimers, Due(n)
      PROVE  OwnInv'
  BY <1>7, DueOwn
<1> QED
  BY <1>1, <1>2, <1>3, <1>4, <1>5, <1>6, <1>7 DEF ScriptsNext

-----------------------------------------------------------------------------
(* Types, turns and slots.                                                 *)

\* A call by the page.
LEMMA CallsRest == ScriptsInv /\ Calls => ScriptsTypeOK' /\ TurnOK' /\ SlotsInv'
<1> SUFFICES ASSUME ScriptsInv, Calls PROVE ScriptsTypeOK' /\ TurnOK' /\ SlotsInv'
  OBVIOUS
<1>0. /\ ScriptsTypeOK /\ TurnOK /\ SlotsInv /\ timers \in Seq(Timers)
      /\ raf \in Seq(Entries) /\ turn # "gone"
  BY Facts DEF ScriptsInv, Calls, SetTimer, AddRaf, StartFetch, ClearTimer, CancelRaf, Asks
<1>1. ASSUME NEW r \in Refs, AddRaf(r) \/ StartFetch(r) \/ \E b \in BOOLEAN : SetTimer(r, b)
      PROVE  ScriptsTypeOK' /\ TurnOK' /\ SlotsInv'
  <2>1. /\ r \notin refs /\ calls' = calls + 1 /\ calls' \in 1..MaxCalls /\ calls \in Nat
        /\ \A i \in over : i # calls'
    BY <1>1, AsksFresh, Facts DEF AddRaf, StartFetch, SetTimer
  <2>2. IsFiniteSet(refs \cup {r})
    BY <1>0, FS_AddElement DEF SlotsInv
  <2>3. \A x \in 1..calls : x \in 1..calls'
    BY <2>1
  <2>4. CASE AddRaf(r)
    <3>1. raf' \in Seq(Entries)
      <4> DEFINE x == [id |-> calls', ref |-> r]
      <4>1. x \in Entries
        BY <2>1 DEF Entries
      <4>2. raf' = raf \/ raf' = Append(raf, x)
        BY <2>4 DEF AddRaf
      <4> HIDE DEF x
      <4>3. Append(raf, x) \in Seq(Entries)
        BY <1>0, <4>1, Appended
      <4> QED
        BY <1>0, <4>2, <4>3
    <3>2. refs' \in SUBSET Refs /\ IsFiniteSet(refs')
      BY <1>0, <2>2, <2>4 DEF AddRaf, ScriptsTypeOK, SlotsInv
    <3>3. AtWork' = AtWork
      BY <2>4 DEF AddRaf, AtWork
    <3> QED
      BY <1>0, <2>1, <2>3, <2>4, <3>1, <3>2, <3>3 DEF AddRaf, ScriptsTypeOK, TurnOK, SlotsInv
  <2>5. CASE \E b \in BOOLEAN : SetTimer(r, b)
    <3> PICK b \in BOOLEAN : SetTimer(r, b)
      BY <2>5
    <3>1. timers' \in Seq(Timers)
      <4> DEFINE x == [id |-> calls', ref |-> r, repeat |-> b, due |-> FALSE]
      <4>1. x \in Timers
        BY <2>1 DEF Timers
      <4>2. timers' = timers \/ timers' = Append(timers, x)
        BY DEF SetTimer
      <4> HIDE DEF x
      <4>3. Append(timers, x) \in Seq(Timers)
        BY <1>0, <4>1, Appended
      <4> QED
        BY <1>0, <4>2, <4>3
    <3>2. refs' \in SUBSET Refs /\ IsFiniteSet(refs')
      BY <1>0, <2>2 DEF SetTimer, ScriptsTypeOK, SlotsInv
    <3>3. AtWork' = AtWork
      BY DEF SetTimer, AtWork
    <3> QED
      BY <1>0, <2>1, <2>3, <3>1, <3>2, <3>3 DEF SetTimer, ScriptsTypeOK, TurnOK, SlotsInv, Timers
  <2>6. CASE StartFetch(r) /\ inflight >= MaxInflight
    <3>1. AtWork' = AtWork
      BY <2>6 DEF StartFetch, AtWork
    <3> QED
      BY <1>0, <2>1, <2>3, <2>6, <3>1 DEF StartFetch, ScriptsTypeOK, TurnOK, SlotsInv
  <2>7. CASE StartFetch(r) /\ ~(inflight >= MaxInflight)
    <3> DEFINE x == [id |-> calls', ref |-> r, waking |-> FALSE]
    <3>1. refs' = refs \cup {r} /\ inflight' = inflight + 1 /\ workers' = workers \cup {x}
      BY <2>7 DEF StartFetch
    <3>2. x \in [id : 1..MaxCalls, ref : Refs, waking : BOOLEAN] /\ ~x.waking /\ x.id = calls'
      BY <2>1
    <3> HIDE DEF x
    <3>3. AtWork' = AtWork \cup {x} /\ x \notin AtWork
      <4>1. x \notin workers
        BY <1>0, <2>1, <3>2 DEF SlotsInv, ScriptsTypeOK
      <4> QED
        BY <3>1, <3>2, <4>1 DEF AtWork
    <3>4. IsFiniteSet(AtWork') /\ Cardinality(AtWork') = Cardinality(AtWork) + 1
      BY <1>0, <3>3, FS_AddElement DEF SlotsInv
    <3>5. inflight' = Cardinality(AtWork') /\ inflight' \in 0..MaxInflight
      BY <1>0, <2>7, <3>1, <3>4, ScriptsAssumption DEF SlotsInv, ScriptsTypeOK
    <3>6. UNCHANGED <<timers, raf, inbox, cancelled, turn, batch, running, posted, visible, over>>
      BY <2>7 DEF StartFetch
    <3>7. ScriptsTypeOK'
      BY <1>0, <2>1, <3>1, <3>2, <3>5, <3>6 DEF ScriptsTypeOK
    <3>8. TurnOK'
      BY <1>0, <3>6 DEF TurnOK
    <3>9. \A w \in workers' : w.id <= calls'
      BY <1>0, <2>1, <3>1, <3>2 DEF SlotsInv, ScriptsTypeOK
    <3>10. over' \subseteq 1..calls'
      BY <1>0, <2>3, <3>6 DEF SlotsInv
    <3> QED
      BY <1>0, <2>2, <3>1, <3>4, <3>5, <3>6, <3>7, <3>8, <3>9, <3>10 DEF SlotsInv
  <2> QED
    BY <1>1, <2>4, <2>5, <2>6, <2>7
<1>2. ASSUME NEW id, ClearTimer(id)
      PROVE  ScriptsTypeOK' /\ TurnOK' /\ SlotsInv'
  <2>1. /\ AtWork' = AtWork /\ over' = over \cup {id} /\ Cleared(id)
        /\ UNCHANGED <<raf, inflight, inbox, cancelled, workers, turn, batch, running, posted,
                       visible, calls>>
    BY <1>2 DEF ClearTimer, AtWork
  <2>2. timers' \in Seq(Timers) /\ refs' \in SUBSET refs /\ id \in 1..calls
    BY <1>0, <2>1, ClearedIs
  <2>3. IsFiniteSet(refs')
    BY <1>0, <2>2, FS_Subset DEF SlotsInv
  <2>4. id \in 1..MaxCalls
    BY <2>2, Facts
  <2> QED
    BY <1>0, <2>1, <2>2, <2>3, <2>4 DEF ScriptsTypeOK, TurnOK, SlotsInv, Timers
<1>3. ASSUME NEW id, CancelRaf(id)
      PROVE  ScriptsTypeOK' /\ TurnOK' /\ SlotsInv'
  <2>1. /\ AtWork' = AtWork /\ over' = over \cup {id}
        /\ UNCHANGED <<timers, inflight, inbox, cancelled, workers, turn, batch, running, posted,
                       visible, calls>>
    BY <1>3 DEF CancelRaf, AtWork
  <2>2. PICK n \in 1..Len(raf) :
          raf[n].id = id /\ raf' = RemoveAt(raf, n) /\ refs' = refs \ {raf[n].ref}
    BY <1>0, <1>3 DEF CancelRaf
  <2>3. Once(raf)
    BY <1>0, Facts DEF EachOnce
  <2>4. raf' \in Seq(Entries)
    BY <1>0, <2>2, <2>3, Removed
  <2>5. IsFiniteSet(refs')
    BY <1>0, <2>2, FS_RemoveElement DEF SlotsInv
  <2>6. id \in 1..calls
    <3>1. Claim(raf[n]) \in HeldBy["raf"] /\ "raf" \in Places
      BY HeldIs DEF Claims, Places
    <3>2. Claim(raf[n])[1] \in 1..calls
      BY <1>0, <3>1, Fresh
    <3> QED
      BY <2>2, <3>2 DEF Claim
  <2>7. id \in 1..MaxCalls
    BY <2>6, Facts
  <2> QED
    BY <1>0, <2>1, <2>2, <2>4, <2>5, <2>6, <2>7 DEF ScriptsTypeOK, TurnOK, SlotsInv
<1> QED
  BY <1>1, <1>2, <1>3 DEF Calls

\* A fetch thread's step: a slot is given back once, by the thread that had it.
LEMMA WorkersRest ==
  ASSUME ScriptsInv, NEW w \in workers, Complete(w) \/ Wake(w)
  PROVE  ScriptsTypeOK' /\ TurnOK' /\ SlotsInv'
<1>0. /\ ScriptsTypeOK /\ TurnOK /\ SlotsInv /\ inbox \in Seq(Entries)
      /\ w \in [id : 1..MaxCalls, ref : Refs, waking : BOOLEAN]
  BY Facts DEF ScriptsInv
<1>1. CASE Complete(w)
  <2>1. /\ w \in AtWork /\ inflight' = inflight - 1
        /\ inbox' = (IF cancelled THEN inbox ELSE Append(inbox, [id |-> w.id, ref |-> w.ref]))
        /\ workers' = (workers \ {w}) \cup
             (IF cancelled THEN {} ELSE {[w EXCEPT !.waking = TRUE]})
        /\ UNCHANGED <<refs, timers, raf, cancelled, turn, batch, running, posted, visible, calls,
                       over>>
    BY <1>1 DEF Complete, SlotFreed, AtWork
  <2> DEFINE x == [w EXCEPT !.waking = TRUE]
  <2>2. x \in [id : 1..MaxCalls, ref : Refs, waking : BOOLEAN] /\ x.waking /\ x.id = w.id
    BY <1>0
  <2> HIDE DEF x
  <2>3. AtWork' = AtWork \ {w}
    BY <2>1, <2>2 DEF AtWork, x
  <2>4. /\ IsFiniteSet(AtWork') /\ Cardinality(AtWork') = Cardinality(AtWork) - 1
        /\ Cardinality(AtWork') \in Nat
    BY <1>0, <2>1, <2>3, FS_RemoveElement, FS_CardinalityType DEF SlotsInv
  <2>5. inflight' = Cardinality(AtWork') /\ inflight' \in 0..MaxInflight
    BY <1>0, <2>1, <2>4, ScriptsAssumption DEF SlotsInv, ScriptsTypeOK
  <2>6. workers' \subseteq [id : 1..MaxCalls, ref : Refs, waking : BOOLEAN]
    BY <1>0, <2>1, <2>2 DEF ScriptsTypeOK, x
  <2>7. inbox' \in Seq(Entries)
    <3>1. [id |-> w.id, ref |-> w.ref] \in Entries
      BY <1>0 DEF Entries
    <3> QED
      BY <1>0, <2>1, <3>1, Appended
  <2>8. \A v \in workers' : v.id <= calls
    BY <1>0, <2>1, <2>2 DEF SlotsInv, x
  <2>9. turn' \notin {"handlers", "gone"} /\ inbox' # << >> =>
          posted' \/ \E v \in workers' : v.waking
    BY <1>0, <2>1, <2>2 DEF TurnOK, x
  <2>10. ScriptsTypeOK'
    BY <1>0, <2>1, <2>5, <2>6, <2>7 DEF ScriptsTypeOK
  <2>11. TurnOK'
    BY <1>0, <2>1 DEF TurnOK
  <2> QED
    BY <1>0, <2>1, <2>4, <2>5, <2>8, <2>9, <2>10, <2>11 DEF SlotsInv
<1>2. CASE Wake(w)
  <2>1. AtWork' = AtWork
    BY <1>2 DEF Wake, AtWork
  <2> QED
    BY <1>0, <1>2, <2>1 DEF Wake, ScriptsTypeOK, TurnOK, SlotsInv
<1> QED
  BY <1>1, <1>2

\* A callback begins or ends.
LEMMA CallbacksRest ==
  ASSUME ScriptsInv, CallFetch \/ CallFrame \/ CallTimer \/ \E b \in BOOLEAN : CallbackEnds(b)
  PROVE  ScriptsTypeOK' /\ TurnOK' /\ SlotsInv'
<1>0. /\ ScriptsTypeOK /\ TurnOK /\ SlotsInv /\ timers \in Seq(Timers) /\ raf \in Seq(Entries)
      /\ calls \in Nat /\ calls <= MaxCalls /\ MaxCalls \in Nat
  BY Facts DEF ScriptsInv
<1>1. CASE CallFetch \/ CallFrame
  <2>1. /\ turn \in {"fetches", "frames"} /\ running = NoCall /\ batch # << >>
        /\ Begin(Head(batch), TRUE) /\ batch' = Tail(batch)
        /\ UNCHANGED <<refs, timers, raf, inflight, inbox, cancelled, workers, turn, posted,
                       visible, calls>>
    BY <1>1 DEF CallFetch, CallFrame
  <2>2. batch \in Seq(Entries) /\ EachOnce
    BY <2>1, Facts
  <2>3. /\ Head(batch) \in Entries /\ batch' \in Seq(Entries) /\ Claim(Head(batch)) \in Claims(batch)
    BY <2>1, <2>2, Taken DEF EachOnce
  <2> DEFINE x == Head(batch)
  <2>4. x.id \in 1..calls
    <3>1. Claim(x) \in HeldBy["batch"] /\ "batch" \in Places
      BY <2>1, <2>3, HeldIs DEF Places
    <3>2. Claim(x)[1] \in 1..calls
      BY <2>1, <3>1, Fresh
    <3> QED
      BY <3>2 DEF Claim
  <2>5. running' = [id |-> x.id, ref |-> x.ref] /\ over' = over \cup {x.id}
    BY <2>1 DEF Begin
  <2> HIDE DEF x
  <2>6. running' \in Entries
    BY <2>3, <2>5 DEF Entries, x
  <2>7. AtWork' = AtWork
    BY <2>1 DEF AtWork
  <2>8. over' \subseteq 1..calls /\ over' \subseteq 1..MaxCalls
    <3>1. over \subseteq 1..calls
      BY <1>0 DEF SlotsInv
    <3>2. over' \subseteq 1..calls
      BY <2>4, <2>5, <3>1
    <3>3. \A i \in 1..calls : i \in 1..MaxCalls
      BY <1>0
    <3> QED
      BY <3>2, <3>3
  <2>9. ScriptsTypeOK'
    BY <1>0, <2>1, <2>6, <2>8 DEF ScriptsTypeOK
  <2>10. TurnOK'
    BY <1>0, <2>1, <2>3 DEF TurnOK
  <2> QED
    BY <1>0, <2>1, <2>7, <2>8, <2>9, <2>10 DEF SlotsInv
<1>2. CASE CallTimer
  <2>1. /\ turn = "timers" /\ AtWork' = AtWork
        /\ UNCHANGED <<refs, raf, inflight, inbox, cancelled, workers, turn, posted, visible, calls>>
    BY <1>2 DEF CallTimer, AtWork
  <2>2. TurnOK'
    BY <1>0, <2>1 DEF TurnOK
  <2>3. CASE UNCHANGED <<running, timers, over>>
    BY <1>0, <2>1, <2>2, <2>3 DEF ScriptsTypeOK, SlotsInv
  <2>4. CASE ~UNCHANGED <<running, timers, over>>
    <3>1. PICK t \in Named(timers, Head(batch).id) :
            /\ Begin(t, ~t.repeat)
            /\ timers' = [n \in DOMAIN timers |->
                 IF timers[n].id = t.id /\ t.repeat THEN [timers[n] EXCEPT !.due = FALSE]
                 ELSE timers[n]]
      BY <1>2, <2>4 DEF CallTimer, StillThere
    <3>2. PICK k \in 1..Len(timers) : timers[k] = t
      BY <1>0, <3>1 DEF Named, ToSet
    <3>3. t \in Timers /\ \A n \in 1..Len(timers) : timers[n] \in Timers
      BY <1>0, <3>2, ElementOfSeq
    <3>4. timers' \in Seq(Timers)
      <4>1. DOMAIN timers = 1..Len(timers) /\ Len(timers) \in Nat
        BY <1>0
      <4>2. \A n \in 1..Len(timers) : timers'[n] \in Timers
        BY <3>1, <3>3, <4>1 DEF Timers
      <4> QED
        BY <3>1, <4>1, <4>2
    <3>5. t.id \in 1..calls
      <4>1. Claim(t) \in HeldBy["timers"] /\ "timers" \in Places
        BY <3>2, HeldIs DEF Claims, Places
      <4>2. Claim(t)[1] \in 1..calls
        BY <2>1, <4>1, Fresh
      <4> QED
        BY <4>2 DEF Claim
    <3>6. running' \in Entries
      BY <3>1, <3>3 DEF Begin, Timers, Entries
    <3>7. over' \subseteq 1..calls /\ over' \subseteq 1..MaxCalls
      BY <1>0, <3>1, <3>5 DEF Begin, SlotsInv
    <3>8. ScriptsTypeOK'
      BY <1>0, <2>1, <3>4, <3>6, <3>7 DEF ScriptsTypeOK, Timers
    <3> QED
      BY <1>0, <2>1, <2>2, <3>7, <3>8 DEF SlotsInv
  <2> QED
    BY <2>3, <2>4
<1>3. ASSUME NEW b \in BOOLEAN, CallbackEnds(b)
      PROVE  ScriptsTypeOK' /\ TurnOK' /\ SlotsInv'
  <2>1. /\ running # NoCall /\ running' = NoCall /\ AtWork' = AtWork /\ (b => turn = "frames")
        /\ raf' = (IF b THEN batch \o raf ELSE raf) /\ batch' = (IF b THEN << >> ELSE batch)
        /\ UNCHANGED <<inflight, inbox, cancelled, workers, turn, posted, visible, calls, over>>
    BY <1>3 DEF CallbackEnds, AtWork
  <2>2. turn \in {"fetches", "timers", "frames"}
    BY <1>0, <2>1 DEF TurnOK
  <2>3. raf' \in Seq(Entries)
    <3>1. b => batch \in Seq(Entries)
      BY <2>1, Facts
    <3> QED
      BY <1>0, <2>1, <3>1
  <2>4. refs' \in SUBSET refs /\ timers' \in Seq(Timers)
    <3>1. CASE turn \in {"fetches", "frames"}
      BY <1>0, <1>3, <3>1 DEF CallbackEnds, FreesRef
    <3>2. CASE turn = "timers" /\ Cleared(running.id)
      <4> DEFINE id == running.id
      <4> HIDE DEF id
      <4>1. Cleared(id) /\ UNCHANGED <<raf, inbox, batch, turn, calls>>
        BY <2>1, <3>2 DEF id
      <4> QED
        BY <2>1, <3>2, <4>1, ClearedIs
    <3>3. CASE turn = "timers" /\ UNCHANGED <<refs, timers>>
      BY <1>0, <3>3
    <3> QED
      BY <1>3, <2>2, <3>1, <3>2, <3>3 DEF CallbackEnds, FreesRef
  <2>5. IsFiniteSet(refs')
    BY <1>0, <2>4, FS_Subset DEF SlotsInv
  <2>6. ScriptsTypeOK'
    BY <1>0, <2>1, <2>3, <2>4 DEF ScriptsTypeOK, Timers
  <2>7. TurnOK'
    BY <1>0, <2>1, <2>2 DEF TurnOK
  <2> QED
    BY <1>0, <2>1, <2>5, <2>6, <2>7 DEF SlotsInv
<1> QED
  BY <1>1, <1>2, <1>3

\* The other steps of the render thread.
LEMMA TurnsRest ==
  ASSUME ScriptsInv,
         \/ Awake \/ PollTimers \/ Draw \/ Destroy \/ UNCHANGED scriptVars
         \/ \E b \in BOOLEAN : PollFetches(b) \/ RunRaf(b)
         \/ \E n \in 1..MaxTimers : Due(n)
  PROVE  ScriptsTypeOK' /\ TurnOK' /\ SlotsInv'
<1>0. /\ ScriptsTypeOK /\ TurnOK /\ SlotsInv /\ timers \in Seq(Timers) /\ raf \in Seq(Entries)
      /\ inbox \in Seq(Entries)
  BY Facts DEF ScriptsInv
<1>a. << >> \in Seq(Entries) /\ << >> \in Seq(Timers)
  OBVIOUS
<1>1. CASE Awake \/ PollTimers \/ Draw \/ UNCHANGED scriptVars
  <2>1. /\ AtWork' = AtWork
        /\ UNCHANGED <<refs, timers, raf, inflight, inbox, cancelled, workers, running, visible,
                       calls, over>>
        /\ posted' = IF Awake THEN FALSE ELSE posted
    BY <1>1 DEF Awake, PollTimers, Draw, scriptVars, AtWork
  <2>2. TurnOK' /\ turn' \in Turns
    BY <1>0, <1>1, <2>1 DEF Awake, PollTimers, Draw, scriptVars, TurnOK, Turns, ScriptsTypeOK
  <2>3. ScriptsTypeOK'
    BY <1>0, <2>1, <2>2 DEF ScriptsTypeOK
  <2>4. turn' \notin {"handlers", "gone"} => turn \notin {"handlers", "gone"} /\ posted' = posted
    BY <1>1, <2>1 DEF Awake, PollTimers, Draw, scriptVars
  <2> QED
    BY <1>0, <2>1, <2>2, <2>3, <2>4 DEF SlotsInv
<1>2. CASE Destroy
  <2>1. /\ AtWork' = AtWork /\ turn \in {"handlers", "drawing"} /\ turn' = "gone"
        /\ refs' = {} /\ timers' = << >> /\ raf' = << >> /\ cancelled' = TRUE
        /\ UNCHANGED <<inflight, inbox, workers, batch, running, posted, visible, calls, over>>
    BY <1>2 DEF Destroy, AtWork
  <2>2. IsFiniteSet(refs')
    BY <2>1, FS_EmptySet
  <2>3. ScriptsTypeOK'
    BY <1>0, <1>a, <2>1 DEF ScriptsTypeOK, Turns, Timers
  <2>4. TurnOK'
    BY <1>0, <2>1 DEF TurnOK
  <2> QED
    BY <1>0, <2>1, <2>2, <2>3, <2>4 DEF SlotsInv
<1>3. ASSUME NEW b \in BOOLEAN, PollFetches(b) \/ RunRaf(b)
      PROVE  ScriptsTypeOK' /\ TurnOK' /\ SlotsInv'
  <2>1. /\ AtWork' = AtWork
        /\ UNCHANGED <<refs, timers, inflight, cancelled, workers, running, posted, calls, over>>
    BY <1>3 DEF PollFetches, RunRaf, AtWork
  <2>2. /\ turn' \in {"fetches", "frames"} /\ turn # "gone"
        /\ raf' \in Seq(Entries) /\ inbox' \in Seq(Entries) /\ batch' \in Seq(Entries)
        /\ visible' \in BOOLEAN
    BY <1>0, <1>3, <1>a DEF PollFetches, RunRaf, ScriptsTypeOK
  <2>3. inbox' # << >> => inbox' = inbox /\ turn \notin {"handlers", "gone"}
    BY <1>3 DEF PollFetches, RunRaf
  <2>4. ScriptsTypeOK'
    BY <1>0, <2>1, <2>2 DEF ScriptsTypeOK, Turns
  <2>5. TurnOK'
    BY <1>0, <2>1, <2>2 DEF TurnOK
  <2> QED
    BY <1>0, <2>1, <2>3, <2>4, <2>5 DEF SlotsInv
<1>4. ASSUME NEW n, Due(n)
      PROVE  ScriptsTypeOK' /\ TurnOK' /\ SlotsInv'
  <2>1. /\ n \in 1..Len(timers) /\ timers' = [timers EXCEPT ![n].due = TRUE] /\ AtWork' = AtWork
        /\ UNCHANGED <<refs, raf, inflight, inbox, cancelled, workers, turn, batch, running, posted,
                       visible, calls, over>>
    BY <1>0, <1>4 DEF Due, AtWork
  <2>2. timers' \in Seq(Timers)
    <3>1. DOMAIN timers = 1..Len(timers) /\ Len(timers) \in Nat
          /\ \A m \in 1..Len(timers) : timers[m] \in Timers
      BY <1>0, ElementOfSeq
    <3>2. [timers[n] EXCEPT !.due = TRUE] \in Timers
      BY <2>1, <3>1 DEF Timers
    <3>3. timers' = [timers EXCEPT ![n] = [timers[n] EXCEPT !.due = TRUE]]
      BY <2>1
    <3> QED
      BY <1>0, <2>1, <3>1, <3>2, <3>3
  <2> QED
    BY <1>0, <2>1, <2>2 DEF ScriptsTypeOK, TurnOK, SlotsInv, Timers
<1> QED
  BY <1>1, <1>2, <1>3, <1>4

\* All of it is kept by every step.
LEMMA ScriptsInvNext == ScriptsInv /\ [ScriptsNext]_scriptVars => ScriptsInv'
<1> SUFFICES ASSUME ScriptsInv, [ScriptsNext]_scriptVars PROVE ScriptsInv'
  OBVIOUS
<1>1. OwnInv'
  BY OwnNext
<1>2. ScriptsTypeOK' /\ TurnOK' /\ SlotsInv'
  BY CallsRest, WorkersRest, CallbacksRest, TurnsRest DEF ScriptsNext
<1> QED
  BY <1>1, <1>2 DEF ScriptsInv

\* A page begins with nothing asked for.
LEMMA ScriptsInvInit == ScriptsInit => ScriptsInv
<1> SUFFICES ASSUME ScriptsInit PROVE ScriptsInv
  OBVIOUS
<1>1. /\ refs = {} /\ timers = << >> /\ raf = << >> /\ inflight = 0 /\ inbox = << >>
      /\ cancelled = FALSE /\ workers = {} /\ turn = "handlers" /\ batch = << >>
      /\ running = NoCall /\ posted = FALSE /\ visible = TRUE /\ calls = 0 /\ over = {}
  BY DEF ScriptsInit
<1>2. AtWork = {} /\ IsFiniteSet({}) /\ Cardinality({}) = 0
  BY <1>1, FS_EmptySet DEF AtWork
<1>3. \A p \in Places : HeldBy[p] = {}
  BY <1>1, <1>2, HeldIs, Empty DEF Places
<1>4. All(HeldBy) = {}
  BY <1>3 DEF All
<1>5. PlacesOK(HeldBy, refs, calls)
  BY <1>1, <1>3, <1>4 DEF PlacesOK
<1>6. OwnInv
  BY <1>1, <1>3, <1>5, Empty DEF OwnInv, EachOnce, NotOver
<1>7. ScriptsTypeOK
  <2>1. 0 \in 0..MaxInflight /\ 0 \in 0..MaxCalls
    BY ScriptsAssumption
  <2>2. << >> \in Seq(Entries) /\ << >> \in Seq(Timers)
    OBVIOUS
  <2> QED
    BY <1>1, <2>1, <2>2 DEF ScriptsTypeOK, Turns, Timers
<1>8. TurnOK /\ SlotsInv
  BY <1>1, <1>2 DEF TurnOK, SlotsInv
<1> QED
  BY <1>6, <1>7, <1>8 DEF ScriptsInv

\* The invariant.
LEMMA ScriptsInvariance == ScriptsSpec => []ScriptsInv
BY ScriptsInvInit, ScriptsInvNext, PTL DEF ScriptsSpec

-----------------------------------------------------------------------------
(* What the runs check.                                                    *)

\* Every variable of the engine keeps its type, and its fetches their limit.
THEOREM ScriptsTyped == ScriptsSpec => []ScriptsTypeOK
<1>1. ScriptsInv => ScriptsTypeOK
  BY DEF ScriptsInv
<1> QED
  BY <1>1, ScriptsInvariance, PTL

\* The places of Holders are those of HeldBy.
PlaceOf(h) ==
  CASE h.by = "timer" -> "timers"
    [] h.by = "frame" -> "raf"
    [] h.by = "worker" -> "workers"
    [] h.by = "inbox" -> "inbox"
    [] h.by = "batch" -> "batch"
    [] h.by = "running" -> "running"

\* A holder has a claim at its place, and is the only one with that claim.
LEMMA HolderClaims ==
  ASSUME ScriptsInv, turn # "gone", NEW h \in Holders
  PROVE  /\ PlaceOf(h) \in Places /\ Claim(h.x) \in HeldBy[PlaceOf(h)]
         /\ \A k \in Holders : PlaceOf(k) = PlaceOf(h) /\ Claim(k.x) = Claim(h.x) => k = h
<1>0. /\ timers \in Seq(Timers) /\ raf \in Seq(Entries) /\ inbox \in Seq(Entries)
      /\ turn # "timers" => batch \in Seq(Entries)
      /\ workers \subseteq [id : 1..MaxCalls, ref : Refs, waking : BOOLEAN] /\ EachOnce
  BY Facts
<1> DEFINE T == {[by |-> "timer", x |-> t] : t \in ToSet(timers)}
           F == {[by |-> "frame", x |-> f] : f \in ToSet(raf)}
           W == {[by |-> "worker", x |-> w] : w \in AtWork}
           I == {[by |-> "inbox", x |-> d] : d \in ToSet(inbox)}
           B == IF turn = "timers" THEN {} ELSE {[by |-> "batch", x |-> d] : d \in ToSet(batch)}
           R == IF turn = "timers" \/ running = NoCall THEN {}
                ELSE {[by |-> "running", x |-> running]}
<1>1. Holders = T \cup F \cup W \cup I \cup B \cup R
  BY DEF Holders, AtWork
<1>2. /\ \A k \in T : PlaceOf(k) = "timers" /\ \E n \in 1..Len(timers) : k = [by |-> "timer", x |-> timers[n]]
      /\ \A k \in F : PlaceOf(k) = "raf" /\ \E n \in 1..Len(raf) : k = [by |-> "frame", x |-> raf[n]]
      /\ \A k \in W : PlaceOf(k) = "workers" /\ \E w \in AtWork : k = [by |-> "worker", x |-> w]
      /\ \A k \in I : PlaceOf(k) = "inbox" /\ \E n \in 1..Len(inbox) : k = [by |-> "inbox", x |-> inbox[n]]
      /\ \A k \in B : PlaceOf(k) = "batch" /\ turn # "timers"
                      /\ \E n \in 1..Len(batch) : k = [by |-> "batch", x |-> batch[n]]
      /\ \A k \in R : PlaceOf(k) = "running" /\ turn # "timers" /\ running # NoCall
                      /\ k = [by |-> "running", x |-> running]
  <2>1. /\ DOMAIN timers = 1..Len(timers) /\ DOMAIN raf = 1..Len(raf)
        /\ DOMAIN inbox = 1..Len(inbox) /\ (turn # "timers" => DOMAIN batch = 1..Len(batch))
    BY <1>0
  <2>2. \A k \in T : PlaceOf(k) = "timers" /\ \E n \in 1..Len(timers) : k = [by |-> "timer", x |-> timers[n]]
    BY <2>1 DEF PlaceOf, ToSet
  <2>3. \A k \in F : PlaceOf(k) = "raf" /\ \E n \in 1..Len(raf) : k = [by |-> "frame", x |-> raf[n]]
    BY <2>1 DEF PlaceOf, ToSet
  <2>4. \A k \in W : PlaceOf(k) = "workers" /\ \E w \in AtWork : k = [by |-> "worker", x |-> w]
    BY DEF PlaceOf
  <2>5. \A k \in I : PlaceOf(k) = "inbox" /\ \E n \in 1..Len(inbox) : k = [by |-> "inbox", x |-> inbox[n]]
    BY <2>1 DEF PlaceOf, ToSet
  <2>6. \A k \in B : PlaceOf(k) = "batch" /\ turn # "timers"
                    /\ \E n \in 1..Len(batch) : k = [by |-> "batch", x |-> batch[n]]
    BY <2>1 DEF PlaceOf, ToSet
  <2>7. \A k \in R : PlaceOf(k) = "running" /\ turn # "timers" /\ running # NoCall
                    /\ k = [by |-> "running", x |-> running]
    BY DEF PlaceOf
  <2> QED
    BY <2>2, <2>3, <2>4, <2>5, <2>6, <2>7
<1> HIDE DEF T, F, W, I, B, R
<1>3. CASE h \in T
  <2>1. PICK n \in 1..Len(timers) : h = [by |-> "timer", x |-> timers[n]]
    BY <1>2, <1>3
  <2>2. PlaceOf(h) = "timers" /\ Claim(h.x) \in HeldBy["timers"]
    BY <1>2, <1>3, <2>1, HeldIs DEF Claims
  <2>3. ASSUME NEW k \in Holders, PlaceOf(k) = "timers", Claim(k.x) = Claim(h.x)
        PROVE  k = h
    <3>1. PICK m \in 1..Len(timers) : k = [by |-> "timer", x |-> timers[m]]
      BY <1>1, <1>2, <2>3
    <3>2. m = n
      BY <1>0, <2>1, <2>3, <3>1 DEF EachOnce, Once, Claim
    <3> QED
      BY <2>1, <3>1, <3>2
  <2> QED
    BY <2>2, <2>3 DEF Places
<1>4. CASE h \in F
  <2>1. PICK n \in 1..Len(raf) : h = [by |-> "frame", x |-> raf[n]]
    BY <1>2, <1>4
  <2>2. PlaceOf(h) = "raf" /\ Claim(h.x) \in HeldBy["raf"]
    BY <1>2, <1>4, <2>1, HeldIs DEF Claims
  <2>3. ASSUME NEW k \in Holders, PlaceOf(k) = "raf", Claim(k.x) = Claim(h.x)
        PROVE  k = h
    <3>1. PICK m \in 1..Len(raf) : k = [by |-> "frame", x |-> raf[m]]
      BY <1>1, <1>2, <2>3
    <3>2. m = n
      BY <1>0, <2>1, <2>3, <3>1 DEF EachOnce, Once, Claim
    <3> QED
      BY <2>1, <3>1, <3>2
  <2> QED
    BY <2>2, <2>3 DEF Places
<1>5. CASE h \in W
  <2>1. PICK w \in AtWork : h = [by |-> "worker", x |-> w]
    BY <1>2, <1>5
  <2>2. PlaceOf(h) = "workers" /\ Claim(h.x) \in HeldBy["workers"]
    BY <1>2, <1>5, <2>1, HeldIs
  <2>3. ASSUME NEW k \in Holders, PlaceOf(k) = "workers", Claim(k.x) = Claim(h.x)
        PROVE  k = h
    <3>1. PICK v \in AtWork : k = [by |-> "worker", x |-> v]
      BY <1>1, <1>2, <2>3
    <3>2. v.id = w.id /\ v.ref = w.ref /\ ~v.waking /\ ~w.waking
      BY <2>1, <2>3, <3>1 DEF Claim, AtWork
    <3>3. v = w
      BY <1>0, <3>2 DEF AtWork
    <3> QED
      BY <2>1, <3>1, <3>3
  <2> QED
    BY <2>2, <2>3 DEF Places
<1>6. CASE h \in I
  <2>1. PICK n \in 1..Len(inbox) : h = [by |-> "inbox", x |-> inbox[n]]
    BY <1>2, <1>6
  <2>2. PlaceOf(h) = "inbox" /\ Claim(h.x) \in HeldBy["inbox"]
    BY <1>2, <1>6, <2>1, HeldIs DEF Claims
  <2>3. ASSUME NEW k \in Holders, PlaceOf(k) = "inbox", Claim(k.x) = Claim(h.x)
        PROVE  k = h
    <3>1. PICK m \in 1..Len(inbox) : k = [by |-> "inbox", x |-> inbox[m]]
      BY <1>1, <1>2, <2>3
    <3>2. m = n
      BY <1>0, <2>1, <2>3, <3>1 DEF EachOnce, Once, Claim
    <3> QED
      BY <2>1, <3>1, <3>2
  <2> QED
    BY <2>2, <2>3 DEF Places
<1>7. CASE h \in B
  <2>1. turn # "timers"
    BY <1>2, <1>7
  <2>2. PICK n \in 1..Len(batch) : h = [by |-> "batch", x |-> batch[n]]
    BY <1>2, <1>7
  <2>3. PlaceOf(h) = "batch" /\ Claim(h.x) \in HeldBy["batch"]
    BY <1>2, <1>7, <2>1, <2>2, HeldIs DEF Claims
  <2>4. ASSUME NEW k \in Holders, PlaceOf(k) = "batch", Claim(k.x) = Claim(h.x)
        PROVE  k = h
    <3>1. PICK m \in 1..Len(batch) : k = [by |-> "batch", x |-> batch[m]]
      BY <1>1, <1>2, <2>4
    <3>2. m = n
      BY <1>0, <2>1, <2>2, <2>4, <3>1 DEF EachOnce, Once, Claim
    <3> QED
      BY <2>2, <3>1, <3>2
  <2> QED
    BY <2>3, <2>4 DEF Places
<1>8. CASE h \in R
  <2>1. PlaceOf(h) = "running" /\ Claim(h.x) \in HeldBy["running"]
    BY <1>2, <1>8, HeldIs
  <2>2. \A k \in Holders : PlaceOf(k) = "running" => k = h
    BY <1>1, <1>2, <1>8
  <2> QED
    BY <2>1, <2>2 DEF Places
<1> QED
  BY <1>1, <1>3, <1>4, <1>5, <1>6, <1>7, <1>8

\* Whatever is claimed has its holder.
LEMMA ClaimsHeld ==
  ASSUME ScriptsInv, turn # "gone", NEW p \in Places, NEW c \in HeldBy[p]
  PROVE  \E h \in Holders : Claim(h.x) = c
<1>0. /\ timers \in Seq(Timers) /\ raf \in Seq(Entries) /\ inbox \in Seq(Entries)
      /\ turn # "timers" => batch \in Seq(Entries)
  BY Facts
<1>1. CASE p = "timers"
  <2>1. PICK n \in 1..Len(timers) : c = Claim(timers[n])
    BY <1>1, HeldIs DEF Claims
  <2>2. timers[n] \in ToSet(timers)
    BY <1>0 DEF ToSet
  <2>3. [by |-> "timer", x |-> timers[n]] \in Holders
    BY <2>2 DEF Holders
  <2> QED
    BY <2>1, <2>3
<1>2. CASE p = "raf"
  <2>1. PICK n \in 1..Len(raf) : c = Claim(raf[n])
    BY <1>2, HeldIs DEF Claims
  <2>2. raf[n] \in ToSet(raf)
    BY <1>0 DEF ToSet
  <2>3. [by |-> "frame", x |-> raf[n]] \in Holders
    BY <2>2 DEF Holders
  <2> QED
    BY <2>1, <2>3
<1>3. CASE p = "workers"
  <2>1. PICK w \in AtWork : c = Claim(w)
    BY <1>3, HeldIs
  <2>2. [by |-> "worker", x |-> w] \in Holders
    BY DEF Holders, AtWork
  <2> QED
    BY <2>1, <2>2
<1>4. CASE p = "inbox"
  <2>1. PICK n \in 1..Len(inbox) : c = Claim(inbox[n])
    BY <1>4, HeldIs DEF Claims
  <2>2. inbox[n] \in ToSet(inbox)
    BY <1>0 DEF ToSet
  <2>3. [by |-> "inbox", x |-> inbox[n]] \in Holders
    BY <2>2 DEF Holders
  <2> QED
    BY <2>1, <2>3
<1>5. CASE p = "batch"
  <2>1. turn # "timers"
    BY <1>5, HeldIs
  <2>2. PICK n \in 1..Len(batch) : c = Claim(batch[n])
    BY <1>5, <2>1, HeldIs DEF Claims
  <2>3. batch[n] \in ToSet(batch)
    BY <1>0, <2>1 DEF ToSet
  <2>4. [by |-> "batch", x |-> batch[n]] \in Holders
    BY <2>1, <2>3 DEF Holders
  <2> QED
    BY <2>2, <2>4
<1>6. CASE p = "running"
  <2>1. turn # "timers" /\ running # NoCall /\ c = Claim(running)
    BY <1>6, HeldIs
  <2>2. [by |-> "running", x |-> running] \in Holders
    BY <2>1 DEF Holders
  <2> QED
    BY <2>1, <2>2
<1> QED
  BY <1>1, <1>2, <1>3, <1>4, <1>5, <1>6 DEF Places

\* Each reference that is taken has one holder, and each holder one that is taken.
LEMMA InvOwned ==
  ASSUME ScriptsInv
  PROVE  RefsOwned
<1>1. SUFFICES ASSUME turn # "gone"
               PROVE  /\ {h.x.ref : h \in Holders} = refs
                      /\ Cardinality(Holders) = Cardinality(refs)
  BY DEF RefsOwned
<1>2. PlacesOK(HeldBy, refs, calls) /\ IsFiniteSet(refs)
  BY <1>1, Facts DEF ScriptsInv, SlotsInv
<1>3. \A h \in Holders : h.x.ref \in refs
  <2>1. TAKE h \in Holders
  <2>2. Claim(h.x)[2] \in refs
    BY <1>1, HolderClaims, Fresh
  <2> QED
    BY <2>2 DEF Claim
<1>4. \A r \in refs : \E h \in Holders : h.x.ref = r
  <2>1. TAKE r \in refs
  <2>2. PICK p \in Places : \E c \in HeldBy[p] : c[2] = r
    BY <1>2 DEF PlacesOK, All
  <2>3. PICK c \in HeldBy[p] : c[2] = r
    BY <2>2
  <2>4. PICK h \in Holders : Claim(h.x) = c
    BY <1>1, ClaimsHeld
  <2> QED
    BY <2>3, <2>4 DEF Claim
<1>5. \A h, k \in Holders : h.x.ref = k.x.ref => h = k
  <2>1. SUFFICES ASSUME NEW h \in Holders, NEW k \in Holders, h.x.ref = k.x.ref
                 PROVE  h = k
    OBVIOUS
  <2>2. /\ PlaceOf(h) \in Places /\ Claim(h.x) \in HeldBy[PlaceOf(h)]
        /\ PlaceOf(k) \in Places /\ Claim(k.x) \in HeldBy[PlaceOf(k)]
    BY <1>1, HolderClaims
  <2>3. Claim(h.x) \in All(HeldBy) /\ Claim(k.x) \in All(HeldBy)
    BY <2>2 DEF All
  <2>4. Claim(h.x) = Claim(k.x)
    <3>1. Claim(h.x)[2] = Claim(k.x)[2]
      BY <2>1 DEF Claim
    <3> QED
      BY <1>2, <2>3, <3>1 DEF PlacesOK
  <2>5. PlaceOf(h) = PlaceOf(k)
    BY <1>2, <2>2, <2>4 DEF PlacesOK
  <2> QED
    BY <1>1, <2>4, <2>5, HolderClaims
<1>6. {h.x.ref : h \in Holders} = refs
  BY <1>3, <1>4
<1>7. Cardinality(Holders) = Cardinality(refs)
  <2> DEFINE f == [h \in Holders |-> h.x.ref]
  <2>1. f \in Injection(Holders, refs)
    BY <1>3, <1>5 DEF Injection, IsInjective
  <2>2. f \in Surjection(Holders, refs)
    BY <1>3, <1>4 DEF Surjection
  <2> QED
    BY <1>2, <2>1, <2>2, FS_Injection
<1> QED
  BY <1>6, <1>7

\* References are freed once, by their last user.
THEOREM RefsKept == ScriptsSpec => []RefsOwned
<1>1. ScriptsInv => RefsOwned
  BY InvOwned
<1> QED
  BY <1>1, ScriptsInvariance, PTL

\* Where a worker's result goes, and where one in the inbox.
LEMMA ResultsDelivered ==
  ScriptsInv /\ [ScriptsNext]_scriptVars => [Delivery]_scriptVars
<1> SUFFICES ASSUME ScriptsInv, ScriptsNext PROVE Delivery
  BY DEF scriptVars
<1>0. TurnOK /\ inbox \in Seq(Entries)
      /\ \A w \in workers : [id |-> w.id, ref |-> w.ref] \in Entries
  BY Facts DEF ScriptsInv, ScriptsTypeOK, Entries
<1>1. CASE /\ workers \subseteq workers' /\ inbox' = inbox
           /\ turn = "gone" => running' = running
  BY <1>1 DEF Delivery
<1>2. ASSUME NEW w \in workers, Complete(w) PROVE Delivery
  <2> DEFINE x == [id |-> w.id, ref |-> w.ref]
  <2>1. /\ inbox' = (IF turn = "gone" THEN inbox ELSE Append(inbox, x))
        /\ workers \ workers' \subseteq {w} /\ running' = running
    BY <1>0, <1>2 DEF Complete, TurnOK
  <2>2. CASE turn = "gone"
    BY <2>1, <2>2 DEF Delivery
  <2>3. CASE turn # "gone"
    <3> DEFINE t == Append(inbox, x)
    <3>1. /\ DOMAIN inbox = 1..Len(inbox) /\ DOMAIN t = 1..(Len(inbox) + 1)
          /\ t[Len(inbox) + 1] = x /\ \A n \in 1..Len(inbox) : t[n] = inbox[n]
      BY <1>0
    <3>2. inbox' = t /\ Len(inbox) \in Nat
      BY <1>0, <2>1, <2>3
    <3> HIDE DEF t, x
    <3>3. x \in ToSet(inbox') /\ ToSet(inbox) \subseteq ToSet(inbox')
      BY <3>1, <3>2 DEF ToSet
    <3> QED
      BY <2>1, <2>3, <3>3 DEF Delivery, x
  <2> QED
    BY <2>2, <2>3
<1>3. ASSUME NEW w \in workers, Wake(w) PROVE Delivery
  BY <1>3 DEF Wake, Delivery
<1>4. ASSUME NEW v \in BOOLEAN, PollFetches(v) PROVE Delivery
  BY <1>4 DEF PollFetches, Delivery
<1>5. CASE CallFetch \/ CallTimer \/ CallFrame \/ \E b \in BOOLEAN : CallbackEnds(b)
  BY <1>0, <1>1, <1>5 DEF CallFetch, CallTimer, CallFrame, CallbackEnds, TurnOK
<1>6. CASE Awake \/ PollTimers \/ Draw \/ Destroy \/ \E b \in BOOLEAN : RunRaf(b)
  BY <1>1, <1>6 DEF Awake, PollTimers, Draw, Destroy, RunRaf
<1>7. CASE Calls \/ \E n \in 1..MaxTimers : Due(n)
  BY <1>1, <1>7 DEF Calls, SetTimer, AddRaf, StartFetch, ClearTimer, CancelRaf, Due
<1> QED
  BY <1>2, <1>3, <1>4, <1>5, <1>6, <1>7 DEF ScriptsNext

\* Slots, wake-ups and results are not lost, and no result goes to an engine that
\* is gone.
THEOREM FetchesCounted == ScriptsSpec => FetchesAccounted
<1>1. ScriptsInv' => SlotsAndWakes'
  BY DEF ScriptsInv, ScriptsTypeOK, SlotsInv, SlotsAndWakes, AtWork
<1>2. ScriptsInv /\ ScriptsInv' /\ [ScriptsNext]_scriptVars
        => [SlotsAndWakes' /\ Delivery]_scriptVars
  BY <1>1, ResultsDelivered
<1> QED
  BY <1>1, <1>2, ScriptsInvariance, PTL DEF ScriptsSpec, FetchesAccounted

\* No callback begins that is over.
LEMMA BeginsOnce ==
  ScriptsInv /\ [ScriptsNext]_scriptVars =>
    [running' # running /\ running' # NoCall => running'.id \notin over]_scriptVars
<1> SUFFICES ASSUME ScriptsInv, ScriptsNext, running' # running, running' # NoCall
             PROVE  running'.id \notin over
  BY DEF scriptVars
<1>1. CASE CallFetch \/ CallFrame
  BY <1>1, TakeOwn DEF CallFetch, CallFrame
<1>2. CASE CallTimer
  BY <1>2, CallTimerOwn
<1>3. CallFetch \/ CallFrame \/ CallTimer
  BY DEF ScriptsNext, Calls, SetTimer, AddRaf, StartFetch, ClearTimer, CancelRaf, Complete, Wake,
         Awake, PollTimers, Draw, Destroy, PollFetches, RunRaf, CallbackEnds, Due
<1> QED
  BY <1>1, <1>2, <1>3

\* No callback of a timeout, frame or fetch begins twice, nor once cleared.
THEOREM CallsOnce == ScriptsSpec => CalledOnce
<1>1. ScriptsInv /\ [ScriptsNext]_scriptVars =>
        [running' # running /\ running' # NoCall => running'.id \notin over]_scriptVars
  BY BeginsOnce
<1> QED
  BY <1>1, ScriptsInvariance, PTL DEF ScriptsSpec, CalledOnce
-----------------------------------------------------------------------------
(* The stores, first the recursive functions on their sequences.           *)

\* A set of naturals that is not empty has a least element.
LEMMA Least ==
  ASSUME NEW T, T \subseteq Nat, T # {}
  PROVE  \E x \in T : \A y \in T : x <= y
<1> DEFINE R == {ss \in Nat \X Nat : ss[1] < ss[2]}
<1>0. IsWellFoundedOn(R, Nat)
  BY NatLessThanWellFounded, Zenon DEF OpToRel
<1>1. PICK x \in T : \A y \in T : ~ (<<y, x>> \in R)
  <2> HIDE DEF R
  <2> QED
    BY <1>0, WFMin, Zenon
<1>2. ASSUME NEW y \in T PROVE x <= y
  <2>1. <<y, x>> \in Nat \X Nat
    OBVIOUS
  <2>2. ~(y < x)
    BY <1>1, <2>1
  <2> QED
    BY <2>2
<1> QED
  BY <1>2

\* Induction up to n, for a set in the place of a predicate.
LEMMA UpTo ==
  ASSUME NEW n \in Nat, NEW S, 0 \in S, \A m \in 1..n : m - 1 \in S => m \in S
  PROVE  \A m \in 0..n : m \in S
<1> DEFINE T == {m \in 0..n : m \notin S}
<1>1. SUFFICES ASSUME T # {} PROVE FALSE
  OBVIOUS
<1>2. PICK m \in T : \A k \in T : m <= k
  <2>1. T \subseteq Nat
    OBVIOUS
  <2> HIDE DEF T
  <2> QED
    BY <1>1, <2>1, Least
<1>3. m \in 1..n /\ m - 1 \in 0..n /\ m - 1 \notin T
  BY <1>2
<1> QED
  BY <1>2, <1>3

\* The functions that start with base and go by step, n times.
Recursive(n, V, base, step) ==
  {f \in [0..n -> V] : f[0] = base /\ \A m \in 1..n : f[m] = step[<<m, f[m - 1]>>]}

\* Whatever is to be done to what n - 1 steps have given, there is a function that
\* gives it for every n.
LEMMA Recursion ==
  ASSUME NEW n \in Nat, NEW V, NEW base \in V, NEW step \in [(1..n) \X V -> V]
  PROVE  Recursive(n, V, base, step) # {}
<1> DEFINE Good(f, k) == f[0] = base /\ \A m \in 1..k : f[m] = step[<<m, f[m - 1]>>]
           S == {k \in 0..n : \E f \in [0..k -> V] : Good(f, k)}
<1>1. 0 \in S
  <2> DEFINE f == [m \in 0..0 |-> base]
  <2>1. f \in [0..0 -> V] /\ Good(f, 0)
    OBVIOUS
  <2> HIDE DEF f
  <2>2. \E h \in [0..0 -> V] : Good(h, 0)
    BY <2>1
  <2> QED
    BY <2>2
<1>2. ASSUME NEW k \in 1..n, k - 1 \in S PROVE k \in S
  <2>1. PICK f \in [0..(k - 1) -> V] : Good(f, k - 1)
    BY <1>2
  <2> DEFINE g == [m \in 0..k |-> IF m = k THEN step[<<k, f[k - 1]>>] ELSE f[m]]
  <2>2. f[k - 1] \in V /\ step[<<k, f[k - 1]>>] \in V
    BY <1>2, <2>1
  <2>3. g \in [0..k -> V]
    BY <2>1, <2>2
  <2>4. g[0] = base
    BY <1>2, <2>1
  <2>5. ASSUME NEW m \in 1..k PROVE g[m] = step[<<m, g[m - 1]>>]
    <3>1. CASE m = k
      <4>1. k \in 0..k /\ k - 1 \in 0..k /\ k - 1 # k
        OBVIOUS
      <4>2. g[k] = step[<<k, f[k - 1]>>] /\ g[k - 1] = f[k - 1]
        BY <4>1
      <4> QED
        BY <3>1, <4>2
    <3>2. CASE m # k
      <4>1. m \in 1..(k - 1) /\ m - 1 \in 0..(k - 1) /\ m - 1 # k
        BY <3>2
      <4>2. g[m] = f[m] /\ g[m - 1] = f[m - 1]
        BY <4>1
      <4> QED
        BY <2>1, <4>1, <4>2
    <3> QED
      BY <3>1, <3>2
  <2>6. Good(g, k)
    BY <2>4, <2>5
  <2> HIDE DEF g
  <2>7. \E h \in [0..k -> V] : Good(h, k)
    BY <2>3, <2>6
  <2> QED
    BY <2>7
<1>3. n \in S
  <2> HIDE DEF S
  <2> QED
    BY <1>1, <1>2, UpTo
<1> QED
  BY <1>3 DEF Recursive

-----------------------------------------------------------------------------
(* What an area takes.                                                     *)

\* Items have sizes within the limit.
LEMMA ItemSizes == \A x \in Items : x.val \in Nat /\ x.val <= MaxValue
<1>1. MaxValue \in Nat
  BY StoresAssumption
<1> QED
  BY <1>1 DEF Items

\* Sizes adds up one item at a time.
LEMMA SizesAre ==
  ASSUME NEW s \in Seq(Items)
  PROVE  /\ Sizes(s) \in [0..Len(s) -> Nat]
         /\ Sizes(s)[0] = 0
         /\ \A n \in 1..Len(s) : Sizes(s)[n] = Sizes(s)[n - 1] + 1 + s[n].val
<1> DEFINE step == [mv \in (1..Len(s)) \X Nat |-> mv[2] + 1 + s[mv[1]].val]
           Is(f) == f = [n \in 0..Len(s) |->
                           IF n = 0 THEN 0 ELSE f[n - 1] + 1 + s[n].val]
<1>1. Len(s) \in Nat /\ \A n \in 1..Len(s) : s[n].val \in Nat
  BY ItemSizes
<1>2. step \in [(1..Len(s)) \X Nat -> Nat]
  BY <1>1
<1>3. PICK f \in [0..Len(s) -> Nat] :
         f[0] = 0 /\ \A m \in 1..Len(s) : f[m] = step[<<m, f[m - 1]>>]
  <2> DEFINE V == Nat
             k == Len(s)
             base == 0
  <2>1. step \in [(1..k) \X V -> V] /\ base \in V /\ k \in Nat
    BY <1>1, <1>2
  <2> HIDE DEF step, V, k, base
  <2>2. Recursive(k, V, base, step) # {}
    BY <2>1, Recursion
  <2> QED
    BY <2>2 DEF Recursive, V, k, base
<1>4. \A m \in 1..Len(s) : f[m] = f[m - 1] + 1 + s[m].val
  <2>1. TAKE m \in 1..Len(s)
  <2>2. m - 1 \in 0..Len(s) /\ f[m - 1] \in Nat
    OBVIOUS
  <2>3. <<m, f[m - 1]>> \in (1..Len(s)) \X Nat
    BY <2>2
  <2> QED
    BY <1>3, <2>3
<1>5. Is(f)
  BY <1>3, <1>4
<1>6. Is(Sizes(s))
  <2>1. Sizes(s) = CHOOSE g : Is(g)
    BY DEF Sizes
  <2> HIDE DEF Is
  <2> QED
    BY <1>5, <2>1
<1> DEFINE g == Sizes(s)
<1>7. /\ g[0] = 0
      /\ \A n \in 1..Len(s) : g[n] = g[n - 1] + 1 + s[n].val
  <2>1. \A n \in 0..Len(s) : g[n] = IF n = 0 THEN 0 ELSE g[n - 1] + 1 + s[n].val
    <3> HIDE DEF g
    <3>1. Is(g)
      BY <1>6 DEF g
    <3> QED
      BY <3>1
  <2> HIDE DEF g
  <2> QED
    BY <2>1
<1>8. g \in [0..Len(s) -> Nat]
  <2> DEFINE S == {n \in 0..Len(s) : g[n] \in Nat}
  <2>1. 0 \in S
    BY <1>7
  <2>2. ASSUME NEW n \in 1..Len(s), n - 1 \in S PROVE n \in S
    <3>1. g[n] = g[n - 1] + 1 + s[n].val
      BY <1>7
    <3>2. g[n - 1] \in Nat /\ s[n].val \in Nat
      BY <1>1, <2>2
    <3> HIDE DEF g
    <3> QED
      BY <3>1, <3>2
  <2>3. \A n \in 0..Len(s) : n \in S
    <3> HIDE DEF S
    <3> QED
      BY <1>1, <2>1, <2>2, UpTo
  <2>4. g = [n \in 0..Len(s) |-> IF n = 0 THEN 0 ELSE g[n - 1] + 1 + s[n].val]
    BY <1>6
  <2> HIDE DEF g
  <2> QED
    BY <2>3, <2>4
<1> QED
  BY <1>7, <1>8

\* What the first n items take does not depend on those after them.
LEMMA SizesSame ==
  ASSUME NEW s \in Seq(Items), NEW t \in Seq(Items), NEW k \in Nat,
         k <= Len(s), k <= Len(t), \A i \in 1..k : s[i] = t[i]
  PROVE  Sizes(s)[k] = Sizes(t)[k]
<1> DEFINE S == {n \in 0..k : Sizes(s)[n] = Sizes(t)[n]}
<1>1. 0 \in S
  BY SizesAre
<1>2. ASSUME NEW n \in 1..k, n - 1 \in S PROVE n \in S
  <2>1. n \in 1..Len(s) /\ n \in 1..Len(t) /\ s[n] = t[n]
    OBVIOUS
  <2>2. /\ Sizes(s)[n] = Sizes(s)[n - 1] + 1 + s[n].val
        /\ Sizes(t)[n] = Sizes(t)[n - 1] + 1 + t[n].val
    BY <2>1, SizesAre
  <2> QED
    BY <1>2, <2>1, <2>2
<1> HIDE DEF S
<1>3. \A n \in 0..k : n \in S
  BY <1>1, <1>2, UpTo, Zenon
<1> QED
  BY <1>3 DEF S

\* An area takes so much, and nothing when it is empty.
LEMMA BytesNat ==
  /\ \A s \in Seq(Items) : Bytes(s) \in Nat
  /\ << >> \in Seq(Items) /\ Bytes(<< >>) = 0
<1>1. ASSUME NEW s \in Seq(Items) PROVE Bytes(s) \in Nat
  <2>1. Len(s) \in 0..Len(s)
    OBVIOUS
  <2> QED
    BY <2>1, SizesAre DEF Bytes
<1>2. << >> \in Seq(Items) /\ Len(<< >>) = 0
  OBVIOUS
<1> QED
  BY <1>1, <1>2, SizesAre DEF Bytes

\* An item that is added takes its own.
LEMMA BytesAppend ==
  ASSUME NEW s \in Seq(Items), NEW x \in Items
  PROVE  Bytes(Append(s, x)) = Bytes(s) + 1 + x.val
<1> DEFINE t == Append(s, x)
<1>1. /\ t \in Seq(Items) /\ Len(t) = Len(s) + 1 /\ t[Len(s) + 1] = x
      /\ Len(s) \in Nat /\ \A i \in 1..Len(s) : t[i] = s[i]
  OBVIOUS
<1> HIDE DEF t
<1>2. Sizes(t)[Len(s)] = Sizes(s)[Len(s)]
  BY <1>1, SizesSame
<1>3. Sizes(t)[Len(s) + 1] = Sizes(t)[Len(s) + 1 - 1] + 1 + t[Len(s) + 1].val
  BY <1>1, SizesAre
<1>4. Len(s) + 1 - 1 = Len(s)
  BY <1>1
<1> QED
  BY <1>1, <1>2, <1>3, <1>4 DEF t, Bytes

\* An item that is replaced gives back what it took.
LEMMA BytesReplace ==
  ASSUME NEW s \in Seq(Items), NEW i \in 1..Len(s), NEW x \in Items
  PROVE  /\ ReplaceAt(s, i, x) \in Seq(Items)
         /\ Len(ReplaceAt(s, i, x)) = Len(s)
         /\ Bytes(ReplaceAt(s, i, x)) = Bytes(s) - s[i].val + x.val
<1> DEFINE t == ReplaceAt(s, i, x)
<1>1. /\ t \in Seq(Items) /\ Len(t) = Len(s)
      /\ \A n \in 1..Len(s) : t[n] = IF n = i THEN x ELSE s[n]
  BY DEF ReplaceAt
<1>2. s[i].val \in Nat /\ x.val \in Nat /\ Len(s) \in Nat
  BY ItemSizes
<1> HIDE DEF t
<1> DEFINE S == {n \in 0..Len(s) :
                   Sizes(t)[n] = IF n < i THEN Sizes(s)[n]
                                 ELSE Sizes(s)[n] - s[i].val + x.val}
<1>3. 0 \in S
  BY <1>1, <1>2, SizesAre
<1>4. ASSUME NEW n \in 1..Len(s), n - 1 \in S PROVE n \in S
  <2>1. /\ Sizes(t)[n] = Sizes(t)[n - 1] + 1 + t[n].val
        /\ Sizes(s)[n] = Sizes(s)[n - 1] + 1 + s[n].val
    BY <1>1, SizesAre
  <2>2. Sizes(s)[n - 1] \in Nat /\ s[n].val \in Nat
    <3>1. n - 1 \in 0..Len(s) /\ s[n] \in Items
      OBVIOUS
    <3> QED
      BY <3>1, SizesAre, ItemSizes
  <2>3. CASE n < i
    BY <1>1, <1>4, <2>1, <2>2, <2>3
  <2>4. CASE n = i
    BY <1>1, <1>2, <1>4, <2>1, <2>2, <2>4
  <2>5. CASE n > i
    <3>1. Sizes(t)[n - 1] = Sizes(s)[n - 1] - s[i].val + x.val /\ t[n] = s[n]
      BY <1>1, <1>4, <2>5
    <3> DEFINE p == Sizes(s)[n - 1]
               q == s[n].val
               u == s[i].val
               v == x.val
    <3>3. (p - u + v) + 1 + q = (p + 1 + q) - u + v
      <4>1. p \in Nat /\ q \in Nat /\ u \in Nat /\ v \in Nat
        BY <1>2, <2>2
      <4> HIDE DEF p, q, u, v
      <4> QED
        BY <4>1
    <3>4. Sizes(t)[n] = Sizes(s)[n] - s[i].val + x.val
      BY <2>1, <3>1, <3>3
    <3> QED
      BY <2>5, <3>4
  <2> QED
    BY <2>3, <2>4, <2>5
<1> HIDE DEF S
<1>5. \A n \in 0..Len(s) : n \in S
  BY <1>2, <1>3, <1>4, UpTo, Zenon
<1>6. Sizes(t)[Len(s)] = Sizes(s)[Len(s)] - s[i].val + x.val
  BY <1>2, <1>5 DEF S
<1> QED
  BY <1>1, <1>6 DEF t, Bytes

\* One taken out of a sequence.
LEMMA RemovedIs ==
  ASSUME NEW S, NEW s \in Seq(S), NEW i \in 1..Len(s)
  PROVE  /\ RemoveAt(s, i) \in Seq(S)
         /\ Len(RemoveAt(s, i)) = Len(s) - 1
         /\ \A n \in 1..(Len(s) - 1) :
              RemoveAt(s, i)[n] = IF n < i THEN s[n] ELSE s[n + 1]
<1> DEFINE a == SubSeq(s, 1, i - 1)
           b == SubSeq(s, i + 1, Len(s))
<1>1. /\ a \in Seq(S) /\ Len(a) = i - 1 /\ \A n \in 1..(i - 1) : a[n] = s[n]
      /\ b \in Seq(S) /\ Len(b) = Len(s) - i /\ \A n \in 1..(Len(s) - i) : b[n] = s[n + i]
  OBVIOUS
<1>2. RemoveAt(s, i) = a \o b
  BY DEF RemoveAt
<1> HIDE DEF a, b
<1>3. Len(a \o b) = Len(s) - 1 /\ a \o b \in Seq(S)
  <2>1. \A u, v \in Seq(S) : u \o v \in Seq(S) /\ Len(u \o v) = Len(u) + Len(v)
    OBVIOUS
  <2>2. a \o b \in Seq(S) /\ Len(a \o b) = Len(a) + Len(b)
    BY <1>1, <2>1, Zenon
  <2> QED
    BY <1>1, <2>2
<1>4. ASSUME NEW n \in 1..(Len(s) - 1) PROVE (a \o b)[n] = IF n < i THEN s[n] ELSE s[n + 1]
  <2>1. CASE n < i
    BY <1>1, <2>1
  <2>2. CASE ~(n < i)
    <3>1. n - (i - 1) \in 1..(Len(s) - i) /\ (n - (i - 1)) + i = n + 1
      BY <2>2
    <3>2. (a \o b)[n] = b[n - (i - 1)]
      BY <1>1, <2>2
    <3> QED
      BY <1>1, <2>2, <3>1, <3>2
  <2> QED
    BY <2>1, <2>2
<1> QED
  BY <1>2, <1>3, <1>4

\* An item that is removed gives back what it took.
LEMMA BytesRemove ==
  ASSUME NEW s \in Seq(Items), NEW i \in 1..Len(s)
  PROVE  Bytes(RemoveAt(s, i)) = Bytes(s) - 1 - s[i].val
<1> DEFINE t == RemoveAt(s, i)
<1>1. /\ t \in Seq(Items) /\ Len(t) = Len(s) - 1
      /\ \A n \in 1..(Len(s) - 1) : t[n] = IF n < i THEN s[n] ELSE s[n + 1]
  BY RemovedIs
<1>2. s[i].val \in Nat /\ Len(s) - 1 \in Nat /\ Len(s) \in Nat
  BY ItemSizes
<1> HIDE DEF t
<1> DEFINE S == {n \in 0..(Len(s) - 1) :
                   Sizes(t)[n] = IF n < i THEN Sizes(s)[n]
                                 ELSE Sizes(s)[n + 1] - 1 - s[i].val}
<1>3. 0 \in S
  BY <1>1, <1>2, SizesAre
<1>4. ASSUME NEW n \in 1..(Len(s) - 1), n - 1 \in S PROVE n \in S
  <2>1. /\ Sizes(t)[n] = Sizes(t)[n - 1] + 1 + t[n].val
        /\ Sizes(s)[n] = Sizes(s)[n - 1] + 1 + s[n].val
        /\ Sizes(s)[n + 1] = Sizes(s)[n] + 1 + s[n + 1].val
    <3>1. n \in 1..Len(t) /\ n \in 1..Len(s) /\ n + 1 \in 1..Len(s) /\ (n + 1) - 1 = n
      BY <1>1
    <3> QED
      BY <1>1, <3>1, SizesAre
  <2>2. Sizes(s)[n - 1] \in Nat /\ s[n].val \in Nat /\ s[n + 1].val \in Nat
    <3>1. n - 1 \in 0..Len(s) /\ s[n] \in Items /\ s[n + 1] \in Items
      OBVIOUS
    <3> QED
      BY <3>1, SizesAre, ItemSizes
  <2>3. CASE n < i
    BY <1>1, <1>4, <2>1, <2>2, <2>3
  <2>4. CASE n = i
    <3>1. Sizes(t)[n - 1] = Sizes(s)[n - 1] /\ t[n] = s[n + 1]
      BY <1>1, <1>4, <2>4
    <3>2. Sizes(t)[n] = Sizes(s)[n + 1] - 1 - s[i].val
      BY <1>2, <2>1, <2>2, <2>4, <3>1
    <3> QED
      BY <2>4, <3>2
  <2>5. CASE n > i
    <3>1. Sizes(t)[n - 1] = Sizes(s)[(n - 1) + 1] - 1 - s[i].val /\ t[n] = s[n + 1]
      BY <1>1, <1>4, <2>5
    <3>2. (n - 1) + 1 = n
      OBVIOUS
    <3> DEFINE p == Sizes(s)[n]
               q == s[n + 1].val
               u == s[i].val
    <3>3. (p - 1 - u) + 1 + q = (p + 1 + q) - 1 - u
      <4>1. p \in Nat
        <5>1. n \in 0..Len(s)
          OBVIOUS
        <5> QED
          BY <5>1, SizesAre
      <4>2. q \in Nat /\ u \in Nat
        BY <1>2, <2>2
      <4> HIDE DEF p, q, u
      <4> QED
        BY <4>1, <4>2
    <3>4. Sizes(t)[n] = Sizes(s)[n + 1] - 1 - s[i].val
      BY <2>1, <3>1, <3>2, <3>3
    <3> QED
      BY <2>5, <3>4
  <2> QED
    BY <2>3, <2>4, <2>5
<1> HIDE DEF S
<1>5. \A n \in 0..(Len(s) - 1) : n \in S
  BY <1>2, <1>3, <1>4, UpTo, Zenon
<1>6. Sizes(t)[Len(s) - 1] = Sizes(s)[Len(s)] - 1 - s[i].val
  <2>1. CASE Len(s) - 1 < i
    <3>1. i = Len(s) /\ Len(s) - 1 \in 0..Len(s)
      BY <1>2, <2>1
    <3>2. /\ Sizes(s)[Len(s)] = Sizes(s)[Len(s) - 1] + 1 + s[i].val
          /\ Sizes(s)[Len(s) - 1] \in Nat
      BY <3>1, SizesAre
    <3>3. Sizes(t)[Len(s) - 1] = Sizes(s)[Len(s) - 1]
      BY <1>2, <1>5, <2>1 DEF S
    <3> QED
      BY <1>2, <3>2, <3>3
  <2>2. CASE ~(Len(s) - 1 < i)
    BY <1>2, <1>5, <2>2 DEF S
  <2> QED
    BY <2>1, <2>2
<1> QED
  BY <1>1, <1>6 DEF t, Bytes

\* A file within the quotas is loaded as it is.
Fitting(file) == Len(file) <= MaxKeys /\ Bytes(file) <= MaxOriginBytes

LEMMA LoadedIs ==
  ASSUME NEW file \in Seq(Items), Fitting(file)
  PROVE  LoadedArea(file) = file
<1> DEFINE Most(n) == n \in 0..Len(file) /\ Fits(file, n)
                        /\ \A m \in 0..Len(file) : Fits(file, m) => m <= n
<1>1. Fits(file, Len(file))
  <2>1. \A i \in 1..Len(file) : file[i].val <= MaxValue
    BY ItemSizes
  <2> QED
    BY <2>1 DEF Fits, Fitting, Bytes
<1>2. Most(Len(file))
  BY <1>1
<1> DEFINE n == CHOOSE n \in 0..Len(file) :
                 Fits(file, n) /\ \A m \in 0..Len(file) : Fits(file, m) => m <= n
<1>3. Most(n)
  BY <1>2, Zenon
<1> HIDE DEF n
<1>4. n = Len(file) /\ SubSeq(file, 1, Len(file)) = file
  BY <1>1, <1>3
<1>5. LoadedArea(file) = SubSeq(file, 1, n)
  BY DEF LoadedArea, n
<1> QED
  BY <1>4, <1>5

-----------------------------------------------------------------------------
(* What is left of a jar.                                                  *)

\* A jar is gone through one cookie at a time.
LEMMA FilteredIs ==
  ASSUME NEW s \in Seq(Cookies), NEW C
  PROVE  /\ Filtered(s, C) \in [0..Len(s) -> Seq(Cookies)]
         /\ Filtered(s, C)[0] = << >>
         /\ \A n \in 1..Len(s) :
              Filtered(s, C)[n] = IF s[n] \in C THEN Append(Filtered(s, C)[n - 1], s[n])
                                  ELSE Filtered(s, C)[n - 1]
<1> DEFINE V == Seq(Cookies)
           k == Len(s)
           base == << >>
           step == [mv \in (1..k) \X V |->
                      IF s[mv[1]] \in C THEN Append(mv[2], s[mv[1]]) ELSE mv[2]]
           Is(f) == f = [n \in 0..k |->
                           IF n = 0 THEN << >>
                           ELSE IF s[n] \in C THEN Append(f[n - 1], s[n]) ELSE f[n - 1]]
<1>1. k \in Nat /\ \A n \in 1..k : s[n] \in Cookies
  OBVIOUS
<1>2. step \in [(1..k) \X V -> V] /\ base \in V
  <2>1. \A n \in 1..k : \A v \in V : (IF s[n] \in C THEN Append(v, s[n]) ELSE v) \in V
    <3>1. \A n \in 1..k, v \in V : Append(v, s[n]) \in V
      BY <1>1
    <3> HIDE DEF k, V
    <3> QED
      BY <3>1
  <2>2. base \in V
    OBVIOUS
  <2> HIDE DEF k, V, base
  <2>3. \A mv \in (1..k) \X V : mv[1] \in 1..k /\ mv[2] \in V
    OBVIOUS
  <2>4. \A mv \in (1..k) \X V :
          (IF s[mv[1]] \in C THEN Append(mv[2], s[mv[1]]) ELSE mv[2]) \in V
    BY <2>1, <2>3
  <2> QED
    BY <2>2, <2>4
<1>3. PICK f \in [0..k -> V] :
         f[0] = base /\ \A m \in 1..k : f[m] = step[<<m, f[m - 1]>>]
  <2> HIDE DEF step, V, k, base
  <2>1. Recursive(k, V, base, step) # {}
    BY <1>1, <1>2, Recursion
  <2> QED
    BY <2>1 DEF Recursive
<1>4. \A m \in 1..k : f[m] = IF s[m] \in C THEN Append(f[m - 1], s[m]) ELSE f[m - 1]
  <2>1. TAKE m \in 1..k
  <2>2. m - 1 \in 0..k /\ f[m - 1] \in V
    <3> HIDE DEF k, V
    <3>1. m - 1 \in 0..k
      BY <1>1
    <3> QED
      BY <3>1
  <2>3. <<m, f[m - 1]>> \in (1..k) \X V
    BY <2>2
  <2>4. step[<<m, f[m - 1]>>] = IF s[m] \in C THEN Append(f[m - 1], s[m]) ELSE f[m - 1]
    <3> HIDE DEF k, V
    <3> QED
      BY <2>3
  <2> HIDE DEF step, k
  <2> QED
    BY <1>3, <2>4
<1>5. Is(f)
  <2> DEFINE next(n) == IF n = 0 THEN << >>
                        ELSE IF s[n] \in C THEN Append(f[n - 1], s[n]) ELSE f[n - 1]
  <2>1. \A n \in 0..k : f[n] = next(n)
    <3> HIDE DEF k
    <3>1. \A n \in 0..k : n = 0 \/ n \in 1..k
      BY <1>1
    <3>2. f[0] = << >> /\ 0 \notin 1..k
      BY <1>1, <1>3
    <3> QED
      BY <1>4, <3>1, <3>2
  <2>2. f = [n \in 0..k |-> f[n]]
    <3> HIDE DEF k, V
    <3> QED
      OBVIOUS
  <2>3. f = [n \in 0..k |-> next(n)]
    <3> HIDE DEF next, k
    <3> QED
      BY <2>1, <2>2
  <2> QED
    BY <2>3
<1>6. Filtered(s, C) = f
  <2>1. Is(Filtered(s, C))
    <3>1. Filtered(s, C) = CHOOSE g : Is(g)
      BY DEF Filtered
    <3> HIDE DEF Is
    <3> QED
      BY <1>5, <3>1
  <2> DEFINE g == Filtered(s, C)
  <2>2. /\ g[0] = << >>
        /\ \A m \in 1..k : g[m] = IF s[m] \in C THEN Append(g[m - 1], s[m]) ELSE g[m - 1]
    <3>1. \A m \in 0..k : g[m] = IF m = 0 THEN << >>
                                 ELSE IF s[m] \in C THEN Append(g[m - 1], s[m]) ELSE g[m - 1]
      <4> HIDE DEF g, k
      <4>1. Is(g)
        BY <2>1 DEF g
      <4> QED
        BY <4>1
    <3> HIDE DEF g, k
    <3> QED
      BY <1>1, <3>1
  <2> DEFINE S == {m \in 0..k : g[m] = f[m]}
  <2> HIDE DEF g, k, V, step
  <2>3. 0 \in S
    BY <1>1, <1>3, <2>2
  <2>4. ASSUME NEW m \in 1..k, m - 1 \in S PROVE m \in S
    BY <1>1, <1>4, <2>2, <2>4
  <2>5. \A m \in 0..k : g[m] = f[m]
    <3>1. \A m \in 0..k : m \in S
      <4> HIDE DEF S
      <4> QED
        BY <1>1, <2>3, <2>4, UpTo, Zenon
    <3> QED
      BY <3>1
  <2>6. g = [m \in 0..k |-> g[m]]
    <3>1. Is(g)
      BY <2>1 DEF g
    <3> QED
      BY <3>1
  <2>7. f = [m \in 0..k |-> f[m]]
    OBVIOUS
  <2>8. g = f
    BY <2>5, <2>6, <2>7
  <2> QED
    BY <2>8 DEF g
<1> QED
  BY <1>3, <1>4, <1>6

\* What is left of the first n cookies does not depend on those after them, and
\* on the condition only for them.
LEMMA FilteredSame ==
  ASSUME NEW s \in Seq(Cookies), NEW t \in Seq(Cookies), NEW k \in Nat, NEW A, NEW B,
         k <= Len(s), k <= Len(t),
         \A i \in 1..k : s[i] = t[i] /\ (s[i] \in A <=> s[i] \in B)
  PROVE  Filtered(s, A)[k] = Filtered(t, B)[k]
<1> DEFINE S == {n \in 0..k : Filtered(s, A)[n] = Filtered(t, B)[n]}
<1>1. 0 \in S
  BY FilteredIs
<1>2. ASSUME NEW n \in 1..k, n - 1 \in S PROVE n \in S
  <2>1. n \in 1..Len(s) /\ n \in 1..Len(t) /\ s[n] = t[n] /\ (s[n] \in A <=> t[n] \in B)
    OBVIOUS
  <2>2. /\ Filtered(s, A)[n] = IF s[n] \in A THEN Append(Filtered(s, A)[n - 1], s[n])
                               ELSE Filtered(s, A)[n - 1]
        /\ Filtered(t, B)[n] = IF t[n] \in B THEN Append(Filtered(t, B)[n - 1], t[n])
                               ELSE Filtered(t, B)[n - 1]
    BY <2>1, FilteredIs
  <2>3. Filtered(s, A)[n - 1] = Filtered(t, B)[n - 1]
    BY <1>2
  <2> QED
    BY <2>1, <2>2, <2>3
<1> HIDE DEF S
<1>3. \A n \in 0..k : n \in S
  BY <1>1, <1>2, UpTo, Zenon
<1> QED
  BY <1>3 DEF S

\* What is left is a jar, no longer than the one it is left of, of what is asked for.
LEMMA OnlyType ==
  ASSUME NEW s \in Seq(Cookies), NEW C
  PROVE  /\ Only(s, C) \in Seq(Cookies)
         /\ Len(Only(s, C)) <= Len(s)
         /\ \A i \in 1..Len(Only(s, C)) : Only(s, C)[i] \in C
<1> DEFINE f == Filtered(s, C)
           S == {n \in 0..Len(s) : /\ f[n] \in Seq(Cookies) /\ Len(f[n]) <= n
                                   /\ \A i \in 1..Len(f[n]) : f[n][i] \in C}
<1>1. /\ f[0] = << >>
      /\ \A n \in 1..Len(s) : f[n] = IF s[n] \in C THEN Append(f[n - 1], s[n]) ELSE f[n - 1]
  BY FilteredIs
<1>2. Len(s) \in Nat /\ \A n \in 1..Len(s) : s[n] \in Cookies
  OBVIOUS
<1> HIDE DEF f
<1>3. 0 \in S
  <2>1. f[0] \in Seq(Cookies) /\ Len(f[0]) = 0
    BY <1>1
  <2>2. \A i \in 1..Len(f[0]) : f[0][i] \in C
    BY <2>1
  <2>3. Len(f[0]) <= 0 /\ 0 \in 0..Len(s)
    BY <1>2, <2>1
  <2> QED
    BY <2>1, <2>2, <2>3
<1>4. ASSUME NEW n \in 1..Len(s), n - 1 \in S PROVE n \in S
  <2> DEFINE u == f[n - 1]
  <2>1. /\ u \in Seq(Cookies) /\ Len(u) <= n - 1
        /\ \A i \in 1..Len(u) : u[i] \in C
    BY <1>4
  <2>2. f[n] = IF s[n] \in C THEN Append(u, s[n]) ELSE u
    BY <1>1
  <2> HIDE DEF u
  <2>3. CASE s[n] \in C
    <3> DEFINE w == Append(u, s[n])
    <3>1. /\ w \in Seq(Cookies) /\ Len(w) = Len(u) + 1 /\ w[Len(u) + 1] = s[n]
          /\ Len(u) \in Nat /\ \A i \in 1..Len(u) : w[i] = u[i]
      BY <1>2, <2>1
    <3> HIDE DEF w
    <3>2. \A i \in 1..Len(w) : i \in 1..Len(u) \/ i = Len(u) + 1
      BY <3>1
    <3>3. \A i \in 1..Len(w) : w[i] \in C
      BY <2>1, <2>3, <3>1, <3>2
    <3>4. f[n] = w
      BY <2>2, <2>3 DEF w
    <3>5. Len(w) <= n /\ n \in 0..Len(s)
      BY <1>2, <2>1, <3>1
    <3> QED
      BY <3>1, <3>3, <3>4, <3>5
  <2>4. CASE s[n] \notin C
    BY <1>2, <2>1, <2>2, <2>4
  <2> QED
    BY <2>3, <2>4
<1>5. Len(s) \in S
  <2> HIDE DEF S
  <2>1. \A n \in 0..Len(s) : n \in S
    BY <1>2, <1>3, <1>4, UpTo, Zenon
  <2> QED
    BY <1>2, <2>1
<1> QED
  BY <1>5 DEF Only, f

\* Conditions that agree on a jar leave the same of it.
LEMMA OnlySame ==
  ASSUME NEW s \in Seq(Cookies), NEW A, NEW B,
         \A i \in 1..Len(s) : s[i] \in A <=> s[i] \in B
  PROVE  Only(s, A) = Only(s, B)
<1>1. Len(s) \in Nat /\ Len(s) <= Len(s)
  OBVIOUS
<1> QED
  BY <1>1, FilteredSame DEF Only

\* A cookie that is added is left or not.
LEMMA OnlyAppend ==
  ASSUME NEW s \in Seq(Cookies), NEW x \in Cookies, NEW C
  PROVE  Only(Append(s, x), C) = IF x \in C THEN Append(Only(s, C), x) ELSE Only(s, C)
<1> DEFINE t == Append(s, x)
<1>1. /\ t \in Seq(Cookies) /\ Len(t) = Len(s) + 1 /\ t[Len(s) + 1] = x
      /\ Len(s) \in Nat /\ \A i \in 1..Len(s) : t[i] = s[i]
  OBVIOUS
<1> HIDE DEF t
<1>2. Filtered(t, C)[Len(s)] = Filtered(s, C)[Len(s)]
  <2>1. /\ Len(s) <= Len(t) /\ Len(s) <= Len(s)
        /\ \A i \in 1..Len(s) : t[i] = s[i] /\ (t[i] \in C <=> t[i] \in C)
    BY <1>1
  <2> QED
    BY <1>1, <2>1, FilteredSame
<1>3. (Len(s) + 1) - 1 = Len(s) /\ Len(s) + 1 \in 1..Len(t)
  BY <1>1
<1>4. Filtered(t, C)[Len(s) + 1] =
        IF t[Len(s) + 1] \in C THEN Append(Filtered(t, C)[(Len(s) + 1) - 1], t[Len(s) + 1])
        ELSE Filtered(t, C)[(Len(s) + 1) - 1]
  BY <1>1, <1>3, FilteredIs
<1> QED
  BY <1>1, <1>2, <1>3, <1>4 DEF t, Only

\* To leave some of what is left is to leave both at once.
LEMMA OnlyOnly ==
  ASSUME NEW s \in Seq(Cookies), NEW A, NEW B
  PROVE  Only(Only(s, A), B) = Only(s, A \cap B)
<1> DEFINE f == Filtered(s, A)
           g == Filtered(s, A \cap B)
           S == {n \in 0..Len(s) : Only(f[n], B) = g[n]}
<1>1. /\ f \in [0..Len(s) -> Seq(Cookies)] /\ f[0] = << >>
      /\ \A n \in 1..Len(s) : f[n] = IF s[n] \in A THEN Append(f[n - 1], s[n]) ELSE f[n - 1]
  BY FilteredIs
<1>2. /\ g[0] = << >>
      /\ \A n \in 1..Len(s) :
           g[n] = IF s[n] \in A \cap B THEN Append(g[n - 1], s[n]) ELSE g[n - 1]
  BY FilteredIs
<1>3. Len(s) \in Nat /\ \A n \in 1..Len(s) : s[n] \in Cookies
  OBVIOUS
<1> HIDE DEF f, g
<1>4. 0 \in S
  <2>1. << >> \in Seq(Cookies) /\ Len(<< >>) = 0
    OBVIOUS
  <2>2. Only(<< >>, B) = << >>
    BY <2>1, FilteredIs DEF Only
  <2> QED
    BY <1>1, <1>2, <1>3, <2>2
<1>5. ASSUME NEW n \in 1..Len(s), n - 1 \in S PROVE n \in S
  <2>1. f[n - 1] \in Seq(Cookies) /\ s[n] \in Cookies /\ Only(f[n - 1], B) = g[n - 1]
    <3>1. n - 1 \in 0..Len(s)
      OBVIOUS
    <3> QED
      BY <1>1, <1>3, <1>5, <3>1
  <2>2. Only(Append(f[n - 1], s[n]), B) =
          IF s[n] \in B THEN Append(Only(f[n - 1], B), s[n]) ELSE Only(f[n - 1], B)
    BY <2>1, OnlyAppend
  <2>3. /\ f[n] = IF s[n] \in A THEN Append(f[n - 1], s[n]) ELSE f[n - 1]
        /\ g[n] = IF s[n] \in A \cap B THEN Append(g[n - 1], s[n]) ELSE g[n - 1]
    BY <1>1, <1>2
  <2>4. Only(f[n], B) = g[n]
    BY <2>1, <2>2, <2>3
  <2> QED
    BY <2>4
<1>6. Len(s) \in S
  <2> HIDE DEF S
  <2>1. \A n \in 0..Len(s) : n \in S
    BY <1>3, <1>4, <1>5, UpTo, Zenon
  <2> QED
    BY <1>3, <2>1
<1> QED
  BY <1>6 DEF Only, f, g

-----------------------------------------------------------------------------
(* Where a name is.                                                        *)

\* The least of some places in a sequence, or 0, is 0 or one of its places.
LEMMA PlaceIs ==
  ASSUME NEW n \in Nat, NEW I, I \subseteq 1..n
  PROVE  (IF I # {} THEN Min(I) ELSE 0) \in 0..n
<1>1. CASE I = {}
  BY <1>1
<1>2. CASE I # {}
  <2>1. I \subseteq Nat
    OBVIOUS
  <2>2. \E x \in I : \A y \in I : x <= y
    BY <1>2, <2>1, Least
  <2>3. Min(I) \in I
    BY <2>2, Zenon DEF Min
  <2> DEFINE m == Min(I)
  <2>4. m \in 1..n
    BY <2>3
  <2> HIDE DEF m
  <2>5. m \in 0..n
    BY <2>4
  <2> QED
    BY <1>2, <2>5 DEF m
<1> QED
  BY <1>1, <1>2

\* An item's place.
LEMMA AtIs ==
  ASSUME NEW o \in Origins, NEW k \in Names, Area(o) \in Seq(Items)
  PROVE  At(o, k) \in 0..Len(Area(o))
<1> DEFINE I == {i \in 1..Len(Area(o)) : Area(o)[i].key = k}
<1>1. At(o, k) = IF I # {} THEN Min(I) ELSE 0
  BY DEF At, SelectInSeq
<1>2. Len(Area(o)) \in Nat /\ I \subseteq 1..Len(Area(o))
  OBVIOUS
<1> HIDE DEF I
<1> QED
  BY <1>1, <1>2, PlaceIs

\* A cookie's place.
LEMMA CookieIs ==
  ASSUME NEW o \in Origins, NEW n \in Names, Jars[o] \in Seq(Cookies)
  PROVE  Cookie(o, n) \in 0..Len(Jars[o])
<1> DEFINE I == {i \in 1..Len(Jars[o]) : Jars[o][i].name = n}
<1>1. Cookie(o, n) = IF I # {} THEN Min(I) ELSE 0
  BY DEF Cookie, SelectInSeq
<1>2. Len(Jars[o]) \in Nat /\ I \subseteq 1..Len(Jars[o])
  OBVIOUS
<1> HIDE DEF I
<1> QED
  BY <1>1, <1>2, PlaceIs

-----------------------------------------------------------------------------
(* The stores' invariant: what SurvivesRestart says of the loaded files is *)
(* said of the files themselves, which are within the limits of loading.   *)

ClockInv ==
  now \in 0..MaxTime /\ writes \in 0..MaxWrites /\ failed \subseteq Origins \cup {"jars", "visits"}

AreasInv ==
  /\ area \in [Origins -> {Absent} \cup Seq(Items)]
  /\ bytes \in [Origins -> 0..MaxOriginBytes] /\ areaDirty \in [Origins -> BOOLEAN]
  /\ areaFile \in [Origins -> Seq(Items)]
  /\ \A o \in Origins :
       /\ Fitting(areaFile[o])
       /\ area[o] = Absent => ~areaDirty[o]
       /\ area[o] # Absent => Len(area[o]) <= MaxKeys /\ bytes[o] = Bytes(area[o])
       /\ area[o] # Absent /\ ~areaDirty[o] /\ o \notin failed => areaFile[o] = area[o]

JarsInv ==
  /\ jars \in {Absent} \cup [Origins -> Seq(Cookies)] /\ jarsDirty \in BOOLEAN
  /\ jarsFile \in [Origins -> Seq(Cookies)]
  /\ \A o \in Origins :
       /\ Len(jarsFile[o]) <= MaxCookies
       /\ \A n \in 1..Len(jarsFile[o]) : jarsFile[o][n].expires # 0
       /\ jars # Absent => Len(jars[o]) <= MaxCookies
       /\ jars # Absent /\ ~jarsDirty /\ "jars" \notin failed =>
            Unexpired(jarsFile[o]) = Lasting(jars[o])
  /\ jars = Absent => ~jarsDirty

VisitsInv ==
  /\ visits \in {Absent} \cup Seq(Entered) /\ visitsDirty \in BOOLEAN
  /\ visitsFile \in Seq(Entered) /\ Len(visitsFile) <= MaxVisits
  /\ visits = Absent => ~visitsDirty
  /\ visits # Absent => Len(visits) <= MaxVisits
  /\ visits # Absent /\ ~visitsDirty /\ "visits" \notin failed => visitsFile = visits

StoresInv == ClockInv /\ AreasInv /\ JarsInv /\ VisitsInv

\* The limits are numbers.
LEMMA Limits ==
  /\ MaxValue \in Nat /\ MaxOriginBytes \in Nat /\ MaxKeys \in Nat /\ MaxCookies \in Nat
  /\ MaxVisits \in Nat /\ MaxTime \in Nat /\ MaxAge \in Nat /\ MaxWrites \in Nat
BY StoresAssumption

\* What is read is not Absent.
LEMMA Present ==
  /\ Absent \notin Seq(Items) /\ Absent \notin Seq(Entered)
  /\ Absent \notin [Origins -> Seq(Cookies)]
  /\ "jars" \notin Origins /\ "visits" \notin Origins
<1>1. /\ {"jars", "visits"} \cap Origins = {}
      /\ Absent \notin Seq(Items) \cup Seq(Entered) \cup [Origins -> Seq(Cookies)]
  BY StoresAssumption
<1> QED
  BY <1>1, Zenon

\* Areas are left as they are by what does not change them.
LEMMA AreasRest ==
  ASSUME AreasInv, UNCHANGED areaVars, \A o \in Origins : o \in failed' <=> o \in failed
  PROVE  AreasInv'
BY DEF AreasInv, areaVars, Fitting

\* Jars are left as they are by what changes neither them nor the time.
LEMMA JarsRest ==
  ASSUME JarsInv, UNCHANGED <<jarVars, now>>, "jars" \in failed' <=> "jars" \in failed
  PROVE  JarsInv'
BY DEF JarsInv, jarVars, Unexpired, Lasting, Expired

\* Visits are left as they are by what does not change them.
LEMMA VisitsRest ==
  ASSUME VisitsInv, UNCHANGED visitVars, "visits" \in failed' <=> "visits" \in failed
  PROVE  VisitsInv'
BY DEF VisitsInv, visitVars

\* What was not given and empty files are in order.
LEMMA StoresBase == StoresInit => StoresInv
<1> SUFFICES ASSUME StoresInit PROVE StoresInv
  OBVIOUS
<1>1. ClockInv
  BY Limits DEF StoresInit, ClockInv
<1>2. AreasInv
  <2>1. << >> \in Seq(Items) /\ Len(<< >>) = 0 /\ Bytes(<< >>) = 0
    BY BytesNat
  <2>2. Fitting(<< >>)
    BY <2>1, Limits DEF Fitting
  <2> QED
    BY <2>1, <2>2, Limits DEF StoresInit, AreasInv
<1>3. JarsInv
  <2>1. /\ jarsFile \in [Origins -> Seq(Cookies)]
        /\ \A o \in Origins : Len(jarsFile[o]) = 0
    BY DEF StoresInit
  <2>2. jars = Absent /\ jarsDirty = FALSE
    BY DEF StoresInit
  <2>3. \A o \in Origins : 1..Len(jarsFile[o]) = {} /\ Len(jarsFile[o]) <= MaxCookies
    BY <2>1, Limits
  <2> QED
    BY <2>1, <2>2, <2>3 DEF JarsInv
<1>4. VisitsInv
  <2>1. visitsFile \in Seq(Entered) /\ Len(visitsFile) = 0
    BY DEF StoresInit
  <2>2. visits = Absent /\ visitsDirty = FALSE
    BY DEF StoresInit
  <2>3. Len(visitsFile) <= MaxVisits
    BY <2>1, Limits
  <2> QED
    BY <2>1, <2>2, <2>3 DEF VisitsInv
<1> QED
  BY <1>1, <1>2, <1>3, <1>4 DEF StoresInv

-----------------------------------------------------------------------------
(* Areas.                                                                  *)

\* An area that is used is within its quotas, and its bytes are counted.
LEMMA AreaIs ==
  ASSUME AreasInv, NEW o \in Origins
  PROVE  Area(o) \in Seq(Items) /\ Fitting(Area(o)) /\ AreaBytes(o) = Bytes(Area(o))
<1>1. CASE area[o] = Absent
  BY <1>1, LoadedIs DEF AreasInv, Area, AreaBytes
<1>2. CASE area[o] # Absent
  <2>1. /\ area[o] \in Seq(Items) /\ Len(area[o]) <= MaxKeys
        /\ bytes[o] = Bytes(area[o]) /\ bytes[o] \in 0..MaxOriginBytes
    BY <1>2 DEF AreasInv
  <2>2. bytes[o] <= MaxOriginBytes
    BY <2>1, Limits
  <2> QED
    BY <1>2, <2>1, <2>2 DEF Area, AreaBytes, Fitting
<1> QED
  BY <1>1, <1>2

\* An area within its quotas, counted right, can be put in the place of another.
LEMMA AreaSet ==
  ASSUME StoresInv, NEW o \in Origins, NEW items \in Seq(Items), NEW size,
         Fitting(items), size = Bytes(items), SetArea(o, items, size)
  PROVE  StoresInv'
<1> USE DEF StoresInv
<1>1. ClockInv'
  BY Limits DEF ClockInv, SetArea, Write
<1>2. AreasInv'
  <2>1. size \in 0..MaxOriginBytes
    BY BytesNat, Limits DEF Fitting
  <2>2. items # Absent
    BY Present
  <2>3. /\ area' = [area EXCEPT ![o] = items] /\ bytes' = [bytes EXCEPT ![o] = size]
        /\ areaDirty' = [areaDirty EXCEPT ![o] = TRUE]
        /\ areaFile' = areaFile /\ failed' = failed
    BY DEF SetArea
  <2>4. /\ area' \in [Origins -> {Absent} \cup Seq(Items)]
        /\ bytes' \in [Origins -> 0..MaxOriginBytes] /\ areaDirty' \in [Origins -> BOOLEAN]
        /\ areaFile' \in [Origins -> Seq(Items)]
    BY <2>1, <2>3 DEF AreasInv
  <2>5. ASSUME NEW p \in Origins
        PROVE  /\ Fitting(areaFile'[p])
               /\ area'[p] = Absent => ~areaDirty'[p]
               /\ area'[p] # Absent => Len(area'[p]) <= MaxKeys /\ bytes'[p] = Bytes(area'[p])
               /\ area'[p] # Absent /\ ~areaDirty'[p] /\ p \notin failed' => areaFile'[p] = area'[p]
    <3>1. CASE p = o
      <4>1. area'[p] = items /\ bytes'[p] = size /\ areaDirty'[p]
        BY <2>3, <3>1 DEF AreasInv
      <4>2. Len(items) <= MaxKeys
        BY DEF Fitting
      <4> QED
        BY <2>2, <2>3, <4>1, <4>2 DEF AreasInv
    <3>2. CASE p # o
      <4>1. area'[p] = area[p] /\ bytes'[p] = bytes[p] /\ areaDirty'[p] = areaDirty[p]
        BY <2>3, <3>2 DEF AreasInv
      <4> QED
        BY <2>3, <4>1 DEF AreasInv
    <3> QED
      BY <3>1, <3>2
  <2> QED
    BY <2>4, <2>5 DEF AreasInv, Fitting
<1>3. JarsInv' /\ VisitsInv'
  BY JarsRest, VisitsRest DEF SetArea
<1> QED
  BY <1>1, <1>2, <1>3

\* setItem keeps to the quotas.
LEMMA SetItemStep ==
  ASSUME StoresInv, NEW o \in Origins, NEW k \in Names, NEW v \in 1..(MaxValue + 1),
         SetItem(o, k, v)
  PROVE  StoresInv'
<1> DEFINE s == Area(o)
           i == At(o, k)
           x == [key |-> k, val |-> v]
           t == IF i = 0 THEN Append(s, x) ELSE ReplaceAt(s, i, x)
           size == AreaBytes(o) - Freed(o, k) + 1 + v
<1>1. s \in Seq(Items) /\ Fitting(s) /\ AreaBytes(o) = Bytes(s) /\ Bytes(s) \in Nat
  BY AreaIs, BytesNat DEF StoresInv
<1>2. i \in 0..Len(s)
  BY <1>1, AtIs
<1>3. x \in Items /\ x.val = v /\ v \in Nat
  BY Limits DEF SetItem, Items
<1>4. /\ size <= MaxOriginBytes /\ (i = 0 => Len(s) < MaxKeys)
      /\ SetArea(o, t, size)
  BY DEF SetItem
<1>5. Freed(o, k) = IF i = 0 THEN 0 ELSE 1 + s[i].val
  BY DEF Freed, Was
<1> HIDE DEF s, i, x, size
<1>6. t \in Seq(Items) /\ Len(t) <= MaxKeys /\ size = Bytes(t)
  <2>1. CASE i = 0
    <3>1. /\ Append(s, x) \in Seq(Items) /\ Len(Append(s, x)) = Len(s) + 1
          /\ Len(s) \in Nat
      BY <1>1, <1>3
    <3>2. Bytes(Append(s, x)) = Bytes(s) + 1 + x.val
      BY <1>1, <1>3, BytesAppend
    <3>3. size = Bytes(s) + 1 + v
      BY <1>1, <1>3, <1>5, <2>1 DEF size
    <3> QED
      BY <1>3, <1>4, <2>1, <3>1, <3>2, <3>3, Limits
  <2>2. CASE i # 0
    <3>1. i \in 1..Len(s)
      BY <1>1, <1>2, <2>2
    <3>2. /\ ReplaceAt(s, i, x) \in Seq(Items) /\ Len(ReplaceAt(s, i, x)) = Len(s)
          /\ Bytes(ReplaceAt(s, i, x)) = Bytes(s) - s[i].val + x.val
      BY <1>1, <1>3, <3>1, BytesReplace
    <3>3. s[i].val \in Nat
      BY <1>1, <3>1, ItemSizes
    <3>4. size = Bytes(s) - (1 + s[i].val) + 1 + v
      BY <1>1, <1>5, <2>2 DEF size
    <3>5. size = Bytes(s) - s[i].val + v
      <4> DEFINE b == Bytes(s)
                 w == s[i].val
      <4>1. b \in Nat /\ w \in Nat /\ v \in Nat
        BY <1>1, <1>3, <3>3
      <4> HIDE DEF b, w
      <4>2. b - (1 + w) + 1 + v = b - w + v
        BY <4>1
      <4> QED
        BY <3>4, <4>2 DEF b, w
    <3> QED
      BY <1>1, <1>3, <2>2, <3>2, <3>5 DEF Fitting
  <2> QED
    BY <2>1, <2>2
<1>7. Fitting(t)
  BY <1>4, <1>6 DEF Fitting
<1> HIDE DEF t
<1> QED
  BY <1>4, <1>6, <1>7, AreaSet

\* removeItem takes from what an area holds.
LEMMA RemoveItemStep ==
  ASSUME StoresInv, NEW o \in Origins, NEW k \in Names, RemoveItem(o, k)
  PROVE  StoresInv'
<1> DEFINE s == Area(o)
           i == At(o, k)
           t == RemoveAt(s, i)
           size == AreaBytes(o) - Was(o, k)
<1>1. /\ s \in Seq(Items) /\ Fitting(s) /\ AreaBytes(o) = Bytes(s) /\ Bytes(s) \in Nat
      /\ Len(s) \in Nat
  BY AreaIs, BytesNat DEF StoresInv
<1>2. i \in 1..Len(s)
  <2>1. i \in 0..Len(s)
    BY <1>1, AtIs
  <2> QED
    BY <1>1, <2>1 DEF RemoveItem
<1>3. SetArea(o, t, size)
  BY DEF RemoveItem
<1>4. size = Bytes(s) - (1 + s[i].val)
  BY <1>1, <1>2 DEF Was
<1> HIDE DEF s, i, size
<1>5. s[i].val \in Nat
  BY <1>1, <1>2, ItemSizes
<1>6. /\ t \in Seq(Items) /\ Len(t) = Len(s) - 1
      /\ Bytes(t) = Bytes(s) - 1 - s[i].val
  BY <1>1, <1>2, RemovedIs, BytesRemove
<1> HIDE DEF t
<1>7. size = Bytes(t) /\ Bytes(t) <= Bytes(s) /\ Len(t) <= Len(s)
  <2> DEFINE b == Bytes(s)
             w == s[i].val
  <2>1. b \in Nat /\ w \in Nat
    BY <1>1, <1>5
  <2> HIDE DEF b, w
  <2>2. b - (1 + w) = b - 1 - w /\ b - 1 - w <= b
    BY <2>1
  <2> QED
    BY <1>1, <1>4, <1>6, <2>2 DEF b, w
<1>8. Fitting(t)
  <2>1. Bytes(t) \in Nat /\ Len(t) \in Nat
    BY <1>6, BytesNat
  <2> QED
    BY <1>1, <1>7, <2>1, Limits DEF Fitting
<1> QED
  BY <1>3, <1>6, <1>7, <1>8, AreaSet

\* clear leaves nothing.
LEMMA ClearAreaStep ==
  ASSUME StoresInv, NEW o \in Origins, ClearArea(o)
  PROVE  StoresInv'
<1>1. << >> \in Seq(Items) /\ Bytes(<< >>) = 0 /\ Fitting(<< >>)
  BY BytesNat, Limits DEF Fitting
<1> QED
  BY <1>1, AreaSet DEF ClearArea

\* A file is as the area it is written from, or its failure is remembered.
LEMMA FlushAreaStep ==
  ASSUME StoresInv, NEW o \in Origins, NEW good \in BOOLEAN, FlushArea(o, good)
  PROVE  StoresInv'
<1> USE DEF StoresInv
<1>1. /\ areaDirty[o] /\ areaDirty' = [areaDirty EXCEPT ![o] = FALSE]
      /\ areaFile' = (IF good THEN [areaFile EXCEPT ![o] = area[o]] ELSE areaFile)
      /\ failed' = (IF good THEN failed \ {o} ELSE failed \cup {o})
      /\ UNCHANGED <<area, bytes, jarVars, visitVars, now, writes>>
  BY DEF FlushArea, Saved
<1>2. ClockInv'
  BY <1>1 DEF ClockInv
<1>3. area[o] # Absent /\ area[o] \in Seq(Items) /\ Fitting(area[o])
  <2>1. area[o] # Absent
    BY <1>1 DEF AreasInv
  <2> QED
    BY <2>1, AreaIs DEF Area
<1>4. AreasInv'
  <2>1. /\ areaDirty' \in [Origins -> BOOLEAN] /\ areaFile' \in [Origins -> Seq(Items)]
    BY <1>1, <1>3 DEF AreasInv
  <2>2. ASSUME NEW p \in Origins
        PROVE  /\ Fitting(areaFile'[p])
               /\ area[p] = Absent => ~areaDirty'[p]
               /\ area[p] # Absent /\ ~areaDirty'[p] /\ p \notin failed' => areaFile'[p] = area[p]
    <3>1. CASE p = o
      <4>1. ~areaDirty'[p]
        BY <1>1, <3>1 DEF AreasInv
      <4>2. CASE good
        <5>1. areaFile'[p] = area[p]
          BY <1>1, <3>1, <4>2 DEF AreasInv
        <5> QED
          BY <1>3, <3>1, <4>1, <5>1
      <4>3. CASE ~good
        BY <1>1, <3>1, <4>1, <4>3 DEF AreasInv
      <4> QED
        BY <4>2, <4>3
    <3>2. CASE p # o
      <4>1. /\ areaFile'[p] = areaFile[p] /\ areaDirty'[p] = areaDirty[p]
            /\ p \in failed' <=> p \in failed
        BY <1>1, <3>2 DEF AreasInv
      <4> QED
        BY <4>1 DEF AreasInv
    <3> QED
      BY <3>1, <3>2
  <2> QED
    BY <1>1, <2>1, <2>2 DEF AreasInv, Fitting
<1>5. JarsInv' /\ VisitsInv'
  <2>1. "jars" # o /\ "visits" # o
    BY Present
  <2>2. /\ "jars" \in failed' <=> "jars" \in failed
        /\ "visits" \in failed' <=> "visits" \in failed
    BY <1>1, <2>1
  <2> QED
    BY <1>1, <2>2, JarsRest, VisitsRest
<1> QED
  BY <1>2, <1>4, <1>5

-----------------------------------------------------------------------------
(* Jars.                                                                   *)

\* What has expired leaves a jar a jar within its limit, and takes nothing from
\* what is to be saved of it.
LEMMA UnexpiredIs ==
  ASSUME NEW s \in Seq(Cookies)
  PROVE  /\ Unexpired(s) \in Seq(Cookies) /\ Len(Unexpired(s)) <= Len(s)
         /\ Lasting(Unexpired(s)) = Lasting(s)
         /\ Unexpired(Lasting(s)) = Lasting(s)
         /\ (\A n \in 1..Len(s) : s[n].expires # 0) => Lasting(s) = Unexpired(s)
<1> DEFINE A == {c \in Cookies : ~Expired(c)}
           L == {c \in Cookies : c.expires # 0 /\ ~Expired(c)}
<1>1. A \cap L = L /\ L \cap A = L
  OBVIOUS
<1>2. \A c \in Cookies : c.expires # 0 => (c \in L <=> c \in A)
  OBVIOUS
<1>3. \A n \in 1..Len(s) : s[n] \in Cookies
  OBVIOUS
<1>4. /\ Unexpired(s) = Only(s, A) /\ Lasting(s) = Only(s, L)
      /\ Lasting(Only(s, A)) = Only(Only(s, A), L)
      /\ Unexpired(Only(s, L)) = Only(Only(s, L), A)
  BY DEF Unexpired, Lasting
<1> HIDE DEF A, L
<1>5. Only(Only(s, A), L) = Only(s, A \cap L) /\ Only(Only(s, L), A) = Only(s, L \cap A)
  BY OnlyOnly
<1>6. (\A n \in 1..Len(s) : s[n].expires # 0) => Only(s, L) = Only(s, A)
  BY <1>2, <1>3, OnlySame
<1>7. Only(s, A) \in Seq(Cookies) /\ Len(Only(s, A)) <= Len(s)
  BY OnlyType
<1> QED
  BY <1>1, <1>4, <1>5, <1>6, <1>7

\* What is saved is a jar within the limit, and of cookies that last.
LEMMA LastingIs ==
  ASSUME NEW s \in Seq(Cookies)
  PROVE  /\ Lasting(s) \in Seq(Cookies) /\ Len(Lasting(s)) <= Len(s)
         /\ \A n \in 1..Len(Lasting(s)) : Lasting(s)[n].expires # 0
<1> DEFINE L == {c \in Cookies : c.expires # 0 /\ ~Expired(c)}
<1>1. \A c \in L : c.expires # 0
  OBVIOUS
<1>2. Lasting(s) = Only(s, L)
  BY DEF Lasting
<1> HIDE DEF L
<1> QED
  BY <1>1, <1>2, OnlyType

\* A jar that is loaded is what has not expired of its file.
LEMMA LoadedJarIs ==
  ASSUME JarsInv, NEW o \in Origins
  PROVE  LoadedJars[o] = Unexpired(jarsFile[o]) /\ LoadedJars \in [Origins -> Seq(Cookies)]
<1>1. ASSUME NEW p \in Origins
      PROVE  LoadedJars[p] = Unexpired(jarsFile[p]) /\ Unexpired(jarsFile[p]) \in Seq(Cookies)
  <2> DEFINE u == Unexpired(jarsFile[p])
  <2>1. u \in Seq(Cookies) /\ Len(u) <= Len(jarsFile[p])
    BY UnexpiredIs DEF JarsInv
  <2>2. LoadedJars[p] = SubSeq(u, 1, IF Len(u) < MaxCookies THEN Len(u) ELSE MaxCookies)
    BY DEF LoadedJars
  <2>3. Len(jarsFile[p]) <= MaxCookies /\ Len(jarsFile[p]) \in Nat
    BY DEF JarsInv
  <2> HIDE DEF u
  <2>4. Len(u) \in Nat /\ Len(u) <= MaxCookies
    BY <2>1, <2>3, Limits
  <2>5. (IF Len(u) < MaxCookies THEN Len(u) ELSE MaxCookies) = Len(u)
    BY <2>4, Limits
  <2>6. SubSeq(u, 1, Len(u)) = u
    BY <2>1
  <2> QED
    BY <2>1, <2>2, <2>5, <2>6 DEF u
<1>2. LoadedJars = [p \in Origins |-> LoadedJars[p]]
  BY DEF LoadedJars
<1> QED
  BY <1>1, <1>2

\* Jars that are used are within their limit.
LEMMA JarsAre ==
  ASSUME JarsInv
  PROVE  /\ Jars \in [Origins -> Seq(Cookies)]
         /\ \A o \in Origins : Len(Jars[o]) <= MaxCookies
<1>1. CASE jars = Absent
  <2>1. Jars = LoadedJars
    BY <1>1 DEF Jars
  <2>2. LoadedJars \in [Origins -> Seq(Cookies)]
    <3>1. CASE Origins = {}
      BY <3>1 DEF LoadedJars
    <3>2. CASE Origins # {}
      BY <3>2, LoadedJarIs
    <3> QED
      BY <3>1, <3>2
  <2>3. ASSUME NEW o \in Origins PROVE Len(LoadedJars[o]) <= MaxCookies
    <3>1. /\ jarsFile[o] \in Seq(Cookies) /\ Len(jarsFile[o]) <= MaxCookies
          /\ LoadedJars[o] = Unexpired(jarsFile[o])
      BY LoadedJarIs DEF JarsInv
    <3>2. Unexpired(jarsFile[o]) \in Seq(Cookies) /\ Len(Unexpired(jarsFile[o])) <= Len(jarsFile[o])
      BY <3>1, UnexpiredIs
    <3>3. Len(jarsFile[o]) \in Nat /\ Len(Unexpired(jarsFile[o])) \in Nat
      BY <3>1, <3>2
    <3> QED
      BY <3>1, <3>2, <3>3, Limits
  <2> QED
    BY <2>1, <2>2, <2>3
<1>2. CASE jars # Absent
  BY <1>2 DEF Jars, JarsInv
<1> QED
  BY <1>1, <1>2

\* A jar within the limit can be put in the place of another.
LEMMA JarSet ==
  ASSUME StoresInv, NEW o \in Origins, NEW jar \in Seq(Cookies), Len(jar) <= MaxCookies,
         SetJar(o, jar)
  PROVE  StoresInv'
<1> USE DEF StoresInv
<1>1. ClockInv'
  BY Limits DEF ClockInv, SetJar, Write
<1>2. JarsInv'
  <2>1. /\ jars' = [Jars EXCEPT ![o] = jar] /\ jarsDirty' = TRUE
        /\ jarsFile' = jarsFile /\ failed' = failed
    BY DEF SetJar
  <2>2. jars' \in [Origins -> Seq(Cookies)]
    BY <2>1, JarsAre
  <2>3. jars' # Absent
    BY <2>2, Present
  <2>4. \A p \in Origins : Len(jars'[p]) <= MaxCookies
    BY <2>1, JarsAre
  <2> QED
    BY <2>1, <2>2, <2>3, <2>4 DEF JarsInv
<1>3. AreasInv' /\ VisitsInv'
  BY AreasRest, VisitsRest DEF SetJar
<1> QED
  BY <1>1, <1>2, <1>3

\* store_locked keeps to the limit.
LEMMA StoreStep ==
  ASSUME StoresInv, NEW o \in Origins, NEW n \in Names, NEW only \in BOOLEAN, NEW age \in Ages,
         Store(o, n, only, age)
  PROVE  StoresInv'
<1> DEFINE jar == Jars[o]
           i == Cookie(o, n)
           c == [name |-> n, only |-> only, expires |-> Expiry(age)]
<1>1. jar \in Seq(Cookies) /\ Len(jar) <= MaxCookies /\ Len(jar) \in Nat
  BY JarsAre DEF StoresInv
<1>2. i \in 0..Len(jar)
  BY <1>1, CookieIs
<1>3. c \in Cookies
  <2>1. now \in 0..MaxTime /\ MaxTime \in Nat /\ MaxAge \in Nat
    BY Limits DEF StoresInv, ClockInv
  <2>2. Expiry(age) \in 0..(MaxTime + MaxAge)
    <3>1. CASE age = Absent
      BY <2>1, <3>1 DEF Expiry
    <3>2. CASE age # Absent
      <4>1. age \in 0..MaxAge /\ Expiry(age) = now + age
        BY <3>2 DEF Ages, Expiry
      <4> QED
        BY <2>1, <4>1
    <3> QED
      BY <3>1, <3>2
  <2> QED
    BY <2>2 DEF Cookies
<1>4. \/ i # 0 /\ SetJar(o, RemoveAt(jar, i))
      \/ i # 0 /\ SetJar(o, ReplaceAt(jar, i, c))
      \/ Len(jar) < MaxCookies /\ SetJar(o, Append(jar, c))
  BY DEF Store, RoomIn
<1> HIDE DEF jar, i, c
<1>5. ASSUME i # 0
      PROVE  /\ RemoveAt(jar, i) \in Seq(Cookies) /\ Len(RemoveAt(jar, i)) <= MaxCookies
             /\ ReplaceAt(jar, i, c) \in Seq(Cookies) /\ Len(ReplaceAt(jar, i, c)) <= MaxCookies
  <2>1. i \in 1..Len(jar)
    BY <1>1, <1>2, <1>5
  <2>2. RemoveAt(jar, i) \in Seq(Cookies) /\ Len(RemoveAt(jar, i)) = Len(jar) - 1
    BY <1>1, <2>1, RemovedIs
  <2>3. ReplaceAt(jar, i, c) \in Seq(Cookies) /\ Len(ReplaceAt(jar, i, c)) = Len(jar)
    BY <1>1, <1>3, <2>1 DEF ReplaceAt
  <2> QED
    BY <1>1, <2>2, <2>3, Limits
<1>6. ASSUME Len(jar) < MaxCookies
      PROVE  Append(jar, c) \in Seq(Cookies) /\ Len(Append(jar, c)) <= MaxCookies
  BY <1>1, <1>3, <1>6, Limits
<1> QED
  BY <1>4, <1>5, <1>6, JarSet

\* What is removed from a jar, by whomever, leaves a jar within the limit.
LEMMA RemoveCookieStep ==
  ASSUME StoresInv, NEW o \in Origins, NEW n \in Names, NEW b \in BOOLEAN,
         RemoveCookie(o, n, b)
  PROVE  StoresInv'
<1> DEFINE jar == Jars[o]
           i == Cookie(o, n)
<1>1. jar \in Seq(Cookies) /\ Len(jar) <= MaxCookies /\ Len(jar) \in Nat
  BY JarsAre DEF StoresInv
<1>2. i \in 1..Len(jar)
  <2>1. i \in 0..Len(jar) /\ i # 0
    BY <1>1, CookieIs DEF RemoveCookie
  <2> HIDE DEF i
  <2> QED
    BY <1>1, <2>1
<1>3. SetJar(o, RemoveAt(jar, i))
  BY DEF RemoveCookie
<1> HIDE DEF jar, i
<1>4. RemoveAt(jar, i) \in Seq(Cookies) /\ Len(RemoveAt(jar, i)) = Len(jar) - 1
  BY <1>1, <1>2, RemovedIs
<1>5. Len(RemoveAt(jar, i)) <= MaxCookies
  BY <1>1, <1>4, Limits
<1> QED
  BY <1>3, <1>4, <1>5, JarSet

\* So does what a jar is cleared of.
LEMMA ClearJarStep ==
  ASSUME StoresInv, NEW o \in Origins, NEW b \in BOOLEAN, ClearJar(o, b)
  PROVE  StoresInv'
<1> DEFINE C == {c \in Cookies : c.only}
           left == IF b THEN Only(Jars[o], C) ELSE << >>
<1>1. SetJar(o, left)
  BY DEF ClearJar
<1>2. Jars[o] \in Seq(Cookies) /\ Len(Jars[o]) <= MaxCookies /\ Len(Jars[o]) \in Nat
  BY JarsAre DEF StoresInv
<1> HIDE DEF C
<1>3. left \in Seq(Cookies) /\ Len(left) <= MaxCookies
  <2>1. CASE b
    <3>1. Only(Jars[o], C) \in Seq(Cookies) /\ Len(Only(Jars[o], C)) <= Len(Jars[o])
      BY <1>2, OnlyType
    <3>2. Len(Only(Jars[o], C)) \in Nat
      BY <3>1
    <3> QED
      BY <1>2, <2>1, <3>1, <3>2, Limits
  <2>2. CASE ~b
    <3>1. left \in Seq(Cookies) /\ Len(left) = 0
      BY <2>2
    <3> HIDE DEF left
    <3> QED
      BY <3>1, Limits
  <2> QED
    BY <2>1, <2>2
<1> HIDE DEF left
<1> QED
  BY <1>1, <1>3, JarSet

\* What has expired is dropped from a jar that is used, which changes nothing of
\* what would be saved.
LEMMA UseJarStep ==
  ASSUME StoresInv, NEW o \in Origins, UseJar(o)
  PROVE  StoresInv'
<1> USE DEF StoresInv
<1>1. ClockInv'
  BY DEF ClockInv, UseJar
<1>2. JarsInv'
  <2>1. /\ jars' = [Jars EXCEPT ![o] = Unexpired(Jars[o])]
        /\ UNCHANGED <<jarsDirty, jarsFile, now, failed>>
    BY DEF UseJar
  <2>2. Jars \in [Origins -> Seq(Cookies)] /\ \A p \in Origins : Len(Jars[p]) <= MaxCookies
    BY JarsAre
  <2>3. ASSUME NEW p \in Origins
        PROVE  /\ jars'[p] \in Seq(Cookies) /\ Len(jars'[p]) <= MaxCookies
               /\ Lasting(jars'[p]) = Lasting(Jars[p])
    <3>1. jars'[p] = IF p = o THEN Unexpired(Jars[p]) ELSE Jars[p]
      BY <2>1, <2>2
    <3>2. Jars[p] \in Seq(Cookies) /\ Len(Jars[p]) <= MaxCookies /\ Len(Jars[p]) \in Nat
      BY <2>2
    <3>3. /\ Unexpired(Jars[p]) \in Seq(Cookies) /\ Len(Unexpired(Jars[p])) <= Len(Jars[p])
          /\ Lasting(Unexpired(Jars[p])) = Lasting(Jars[p])
      BY <3>2, UnexpiredIs
    <3>4. Len(Unexpired(Jars[p])) \in Nat
      BY <3>3
    <3>5. Len(Unexpired(Jars[p])) <= MaxCookies
      BY <3>2, <3>3, <3>4, Limits
    <3> QED
      BY <3>1, <3>2, <3>3, <3>5
  <2>4. jars' \in [Origins -> Seq(Cookies)] /\ jars' # Absent
    <3>1. jars' = [p \in Origins |-> jars'[p]]
      BY <2>1, <2>2
    <3>2. jars' \in [Origins -> Seq(Cookies)]
      BY <2>3, <3>1
    <3> QED
      BY <3>2, Present
  <2>5. ASSUME NEW p \in Origins, ~jarsDirty, "jars" \notin failed
        PROVE  Unexpired(jarsFile[p]) = Lasting(jars'[p])
    <3>1. CASE jars = Absent
      <4>1. jarsFile[p] \in Seq(Cookies) /\ \A n \in 1..Len(jarsFile[p]) : jarsFile[p][n].expires # 0
        BY DEF JarsInv
      <4>2. Jars[p] = Unexpired(jarsFile[p])
        BY <3>1, LoadedJarIs DEF Jars
      <4>3. /\ Lasting(Unexpired(jarsFile[p])) = Lasting(jarsFile[p])
            /\ Lasting(jarsFile[p]) = Unexpired(jarsFile[p])
        BY <4>1, UnexpiredIs
      <4> QED
        BY <2>3, <4>2, <4>3
    <3>2. CASE jars # Absent
      BY <2>3, <2>5, <3>2 DEF JarsInv, Jars
    <3> QED
      BY <3>1, <3>2
  <2> QED
    BY <2>1, <2>3, <2>4, <2>5 DEF JarsInv, Unexpired, Lasting, Expired
<1>3. AreasInv' /\ VisitsInv'
  BY AreasRest, VisitsRest DEF UseJar
<1> QED
  BY <1>1, <1>2, <1>3

\* What is saved is what lasts, or the failure is remembered.
LEMMA FlushJarsStep ==
  ASSUME StoresInv, NEW good \in BOOLEAN, FlushJars(good)
  PROVE  StoresInv'
<1> USE DEF StoresInv
<1>1. /\ jarsDirty /\ jarsDirty' = FALSE
      /\ jarsFile' = (IF good THEN [o \in Origins |-> Lasting(jars[o])] ELSE jarsFile)
      /\ failed' = (IF good THEN failed \ {"jars"} ELSE failed \cup {"jars"})
      /\ UNCHANGED <<areaVars, jars, visitVars, now, writes>>
  BY DEF FlushJars, Saved
<1>2. ClockInv'
  BY <1>1 DEF ClockInv
<1>3. JarsInv'
  <2>1. jars # Absent /\ jars \in [Origins -> Seq(Cookies)]
    BY <1>1 DEF JarsInv
  <2>2. ASSUME good, NEW o \in Origins
        PROVE  /\ jarsFile'[o] \in Seq(Cookies) /\ Len(jarsFile'[o]) <= MaxCookies
               /\ \A n \in 1..Len(jarsFile'[o]) : jarsFile'[o][n].expires # 0
               /\ Unexpired(jarsFile'[o]) = Lasting(jars[o])
    <3>1. jarsFile'[o] = Lasting(jars[o])
      BY <1>1, <2>2
    <3>2. jars[o] \in Seq(Cookies) /\ Len(jars[o]) <= MaxCookies /\ Len(jars[o]) \in Nat
      BY <2>1 DEF JarsInv
    <3>3. /\ Lasting(jars[o]) \in Seq(Cookies) /\ Len(Lasting(jars[o])) <= Len(jars[o])
          /\ \A n \in 1..Len(Lasting(jars[o])) : Lasting(jars[o])[n].expires # 0
          /\ Unexpired(Lasting(jars[o])) = Lasting(jars[o])
      BY <3>2, LastingIs, UnexpiredIs
    <3>4. Len(Lasting(jars[o])) \in Nat
      BY <3>3
    <3>5. Len(Lasting(jars[o])) <= MaxCookies
      BY <3>2, <3>3, <3>4, Limits
    <3> QED
      BY <3>1, <3>3, <3>5
  <2>3. CASE good
    <3>1. jarsFile' = [o \in Origins |-> jarsFile'[o]]
      BY <1>1, <2>3
    <3>2. jarsFile' \in [Origins -> Seq(Cookies)]
      BY <2>2, <2>3, <3>1
    <3> QED
      BY <1>1, <2>1, <2>2, <2>3, <3>2 DEF JarsInv, Unexpired, Lasting, Expired
  <2>4. CASE ~good
    <3>1. jarsFile' = jarsFile /\ "jars" \in failed'
      BY <1>1, <2>4
    <3> QED
      BY <1>1, <2>1, <3>1 DEF JarsInv
  <2> QED
    BY <2>3, <2>4
<1>4. AreasInv' /\ VisitsInv'
  <2>1. \A o \in Origins : o \in failed' <=> o \in failed
    BY <1>1, Present
  <2>2. "visits" \in failed' <=> "visits" \in failed
    BY <1>1
  <2> QED
    BY <1>1, <2>1, <2>2, AreasRest, VisitsRest
<1> QED
  BY <1>2, <1>3, <1>4

\* As time passes, the same cookies expire in memory and in the file.
LEMMA TickStep ==
  ASSUME StoresInv, Tick
  PROVE  StoresInv'
<1> USE DEF StoresInv
<1>1. /\ now < MaxTime /\ now' = now + 1
      /\ UNCHANGED <<areaVars, jarVars, visitVars, failed, writes>>
  BY DEF Tick
<1>2. ClockInv'
  BY <1>1, Limits DEF ClockInv
<1>3. JarsInv'
  <2> DEFINE A == {c \in Cookies : ~Expired(c)}
             L == {c \in Cookies : c.expires # 0 /\ ~Expired(c)}
             B == {c \in Cookies : ~(c.expires # 0 /\ c.expires <= now + 1)}
             M == {c \in Cookies : c.expires # 0 /\ ~(c.expires # 0 /\ c.expires <= now + 1)}
  <2>1. \A c \in Cookies : c.expires <= now => c.expires <= now + 1
    <3>1. now \in 0..MaxTime /\ MaxTime + MaxAge \in Nat
      BY Limits DEF ClockInv
    <3>2. \A c \in Cookies : c.expires \in 0..(MaxTime + MaxAge)
      BY DEF Cookies
    <3>3. \A e \in 0..(MaxTime + MaxAge) : e <= now => e <= now + 1
      BY <3>1
    <3> QED
      BY <3>2, <3>3
  <2>2. A \cap B = B /\ L \cap B = M
    BY <2>1 DEF Expired
  <2>3. ASSUME NEW o \in Origins, jars # Absent, ~jarsDirty, "jars" \notin failed
        PROVE  Only(jarsFile[o], B) = Only(jars[o], M)
    <3>1. jarsFile[o] \in Seq(Cookies) /\ jars[o] \in Seq(Cookies)
      BY <2>3 DEF JarsInv
    <3>2. Only(jarsFile[o], A) = Only(jars[o], L)
      BY <2>3 DEF JarsInv, Unexpired, Lasting
    <3> HIDE DEF A, L, B, M
    <3>3. /\ Only(Only(jarsFile[o], A), B) = Only(jarsFile[o], A \cap B)
          /\ Only(Only(jars[o], L), B) = Only(jars[o], L \cap B)
      BY <3>1, OnlyOnly
    <3> QED
      BY <2>2, <3>2, <3>3
  <2>4. ASSUME NEW o \in Origins
        PROVE  /\ Unexpired(jarsFile[o])' = Only(jarsFile[o], B)
               /\ Lasting(jars[o])' = Only(jars[o], M)
    BY <1>1 DEF Unexpired, Lasting, Expired, jarVars
  <2> HIDE DEF B, M
  <2>5. ASSUME NEW o \in Origins, jars # Absent, ~jarsDirty, "jars" \notin failed
        PROVE  Unexpired(jarsFile[o])' = Lasting(jars[o])'
    BY <2>3, <2>4, <2>5
  <2> QED
    BY <1>1, <2>5 DEF JarsInv, jarVars
<1>4. AreasInv' /\ VisitsInv'
  BY <1>1, AreasRest, VisitsRest
<1> QED
  BY <1>2, <1>3, <1>4

-----------------------------------------------------------------------------
(* Visits, and the end of a process.                                       *)

\* Of visits the last ones are loaded, as many as the limit allows: all of them
\* where they are within it.
LEMMA LoadedVisitsIs ==
  ASSUME NEW s \in Seq(Entered)
  PROVE  /\ LoadedVisits(s) \in Seq(Entered) /\ Len(LoadedVisits(s)) <= MaxVisits
         /\ Len(s) <= MaxVisits => LoadedVisits(s) = s
<1>1. Len(s) \in Nat /\ MaxVisits \in Nat
  BY Limits
<1>2. CASE Len(s) > MaxVisits
  <2> DEFINE k == Len(s) - MaxVisits + 1
  <2>1. k \in Nat \ {0} /\ k \in 1..(Len(s) + 1) /\ Len(s) - k + 1 = MaxVisits
    BY <1>1, <1>2
  <2>2. LoadedVisits(s) = SubSeq(s, k, Len(s))
    BY <1>2 DEF LoadedVisits
  <2> HIDE DEF k
  <2>3. SubSeq(s, k, Len(s)) \in Seq(Entered)
    BY <1>1, <2>1
  <2>4. Len(SubSeq(s, k, Len(s))) = MaxVisits
    BY <1>1, <2>1
  <2> QED
    BY <1>1, <1>2, <2>2, <2>3, <2>4
<1>3. CASE ~(Len(s) > MaxVisits)
  <2>1. LoadedVisits(s) = SubSeq(s, 1, Len(s))
    BY <1>3 DEF LoadedVisits
  <2>2. SubSeq(s, 1, Len(s)) = s /\ Len(s) <= MaxVisits
    BY <1>1, <1>3
  <2> QED
    BY <2>1, <2>2
<1> QED
  BY <1>2, <1>3

\* Visits that are used are within the limit.
LEMMA VisitsAre ==
  ASSUME VisitsInv
  PROVE  Visits \in Seq(Entered) /\ Len(Visits) <= MaxVisits
<1>1. CASE visits = Absent
  BY <1>1, LoadedVisitsIs DEF VisitsInv, Visits
<1>2. CASE visits # Absent
  BY <1>2 DEF VisitsInv, Visits
<1> QED
  BY <1>1, <1>2

\* record keeps to the limit.
LEMMA RecordStep ==
  ASSUME StoresInv, NEW u \in Origins, Record(u)
  PROVE  StoresInv'
<1> USE DEF StoresInv
<1>1. ClockInv'
  BY Limits DEF ClockInv, Record, Write
<1>2. VisitsInv'
  <2> DEFINE s == Visits
             x == [url |-> u, at |-> now]
  <2>1. s \in Seq(Entered) /\ Len(s) <= MaxVisits /\ Len(s) \in Nat
    BY VisitsAre
  <2>2. x \in Entered
    BY DEF Entered, ClockInv
  <2>3. /\ visitsDirty' = TRUE /\ visitsFile' = visitsFile
        /\ visits' = IF s # << >> /\ Last(s).url = u THEN ReplaceAt(s, Len(s), x)
                     ELSE LoadedVisits(Append(s, x))
    BY DEF Record
  <2> HIDE DEF s, x
  <2>4. visits' \in Seq(Entered) /\ Len(visits') <= MaxVisits
    <3>1. CASE s # << >> /\ Last(s).url = u
      <4>1. ReplaceAt(s, Len(s), x) \in Seq(Entered) /\ Len(ReplaceAt(s, Len(s), x)) = Len(s)
        BY <2>1, <2>2, <3>1 DEF ReplaceAt
      <4> QED
        BY <2>1, <2>3, <3>1, <4>1
    <3>2. CASE ~(s # << >> /\ Last(s).url = u)
      <4>1. Append(s, x) \in Seq(Entered)
        BY <2>1, <2>2
      <4> QED
        BY <2>3, <3>2, <4>1, LoadedVisitsIs
    <3> QED
      BY <3>1, <3>2
  <2> QED
    BY <2>3, <2>4, Present DEF VisitsInv
<1>3. AreasInv' /\ JarsInv'
  BY AreasRest, JarsRest DEF Record
<1> QED
  BY <1>1, <1>2, <1>3

\* clear leaves no visit, and no file or a failure that is remembered.
LEMMA ClearVisitsStep ==
  ASSUME StoresInv, NEW removed \in BOOLEAN, ClearVisits(removed)
  PROVE  StoresInv'
<1> USE DEF StoresInv
<1>1. /\ visits' = << >> /\ visitsDirty' = FALSE
      /\ visitsFile' = (IF removed THEN << >> ELSE visitsFile)
      /\ failed' = (IF removed THEN failed \ {"visits"} ELSE failed \cup {"visits"})
      /\ UNCHANGED <<areaVars, jarVars, now>>
      /\ writes < MaxWrites /\ writes' = writes + 1
  BY DEF ClearVisits, Write
<1>2. ClockInv'
  BY <1>1, Limits DEF ClockInv
<1>3. VisitsInv'
  <2>1. visits' \in Seq(Entered) /\ Len(visits') = 0
    BY <1>1
  <2>2. Len(visits') <= MaxVisits
    BY <2>1, Limits
  <2>3. CASE removed
    BY <1>1, <2>1, <2>2, <2>3, Present DEF VisitsInv
  <2>4. CASE ~removed
    BY <1>1, <2>1, <2>2, <2>4, Present DEF VisitsInv
  <2> QED
    BY <2>3, <2>4
<1>4. AreasInv' /\ JarsInv'
  <2>1. \A o \in Origins : o \in failed' <=> o \in failed
    BY <1>1, Present
  <2>2. "jars" \in failed' <=> "jars" \in failed
    BY <1>1
  <2> QED
    BY <1>1, <2>1, <2>2, AreasRest, JarsRest
<1> QED
  BY <1>2, <1>3, <1>4

\* The file is as the visits are, or the failure is remembered.
LEMMA FlushVisitsStep ==
  ASSUME StoresInv, NEW good \in BOOLEAN, FlushVisits(good)
  PROVE  StoresInv'
<1> USE DEF StoresInv
<1>1. /\ visitsDirty /\ visitsDirty' = FALSE
      /\ visitsFile' = (IF good THEN visits ELSE visitsFile)
      /\ failed' = (IF good THEN failed \ {"visits"} ELSE failed \cup {"visits"})
      /\ UNCHANGED <<areaVars, jarVars, visits, now, writes>>
  BY DEF FlushVisits, Saved
<1>2. ClockInv'
  BY <1>1 DEF ClockInv
<1>3. VisitsInv'
  <2>1. CASE good
    BY <1>1, <2>1 DEF VisitsInv
  <2>2. CASE ~good
    BY <1>1, <2>2 DEF VisitsInv
  <2> QED
    BY <2>1, <2>2
<1>4. AreasInv' /\ JarsInv'
  <2>1. \A o \in Origins : o \in failed' <=> o \in failed
    BY <1>1, Present
  <2>2. "jars" \in failed' <=> "jars" \in failed
    BY <1>1
  <2> QED
    BY <1>1, <2>1, <2>2, AreasRest, JarsRest
<1> QED
  BY <1>2, <1>3, <1>4

\* What could not be loaded is empty, and the failure is remembered.
LEMMA LoadFailsStep ==
  ASSUME StoresInv, (\E o \in Origins : AreaLoadFails(o)) \/ JarsLoadFail \/ VisitsLoadFail
  PROVE  StoresInv'
<1> USE DEF StoresInv
<1>1. ASSUME NEW o \in Origins, AreaLoadFails(o) PROVE StoresInv'
  <2>1. /\ area[o] = Absent /\ area' = [area EXCEPT ![o] = << >>]
        /\ bytes' = [bytes EXCEPT ![o] = 0] /\ failed' = failed \cup {o}
        /\ UNCHANGED <<areaDirty, areaFile, jarVars, visitVars, now, writes>>
    BY <1>1 DEF AreaLoadFails
  <2>2. ClockInv'
    BY <2>1 DEF ClockInv
  <2>3. << >> \in Seq(Items) /\ Len(<< >>) = 0 /\ Bytes(<< >>) = 0 /\ 0 \in 0..MaxOriginBytes
    BY BytesNat, Limits
  <2>4. ASSUME NEW p \in Origins
        PROVE  /\ area'[p] = Absent => ~areaDirty'[p]
               /\ area'[p] # Absent => Len(area'[p]) <= MaxKeys /\ bytes'[p] = Bytes(area'[p])
               /\ area'[p] # Absent /\ ~areaDirty'[p] /\ p \notin failed' => areaFile'[p] = area'[p]
    <3>1. CASE p = o
      <4>1. area'[p] = << >> /\ bytes'[p] = 0 /\ p \in failed' /\ << >> # Absent
        BY <2>1, <2>3, <3>1, Present DEF AreasInv
      <4> QED
        BY <2>3, <4>1, Limits
    <3>2. CASE p # o
      <4>1. area'[p] = area[p] /\ bytes'[p] = bytes[p] /\ (p \in failed' <=> p \in failed)
        BY <2>1, <3>2 DEF AreasInv
      <4> QED
        BY <2>1, <4>1 DEF AreasInv
    <3> QED
      BY <3>1, <3>2
  <2>5. area' \in [Origins -> {Absent} \cup Seq(Items)] /\ bytes' \in [Origins -> 0..MaxOriginBytes]
    BY <2>1, <2>3 DEF AreasInv
  <2>6. AreasInv'
    BY <2>1, <2>4, <2>5 DEF AreasInv, Fitting
  <2>7. /\ "jars" \in failed' <=> "jars" \in failed
        /\ "visits" \in failed' <=> "visits" \in failed
    BY <2>1, Present
  <2> QED
    BY <2>1, <2>2, <2>6, <2>7, JarsRest, VisitsRest
<1>2. CASE JarsLoadFail
  <2>1. /\ jars = Absent /\ jars' = [o \in Origins |-> << >>] /\ failed' = failed \cup {"jars"}
        /\ UNCHANGED <<areaVars, jarsDirty, jarsFile, visitVars, now, writes>>
    BY <1>2 DEF JarsLoadFail
  <2>2. ClockInv'
    BY <2>1 DEF ClockInv
  <2>3. jars' \in [Origins -> Seq(Cookies)] /\ \A o \in Origins : Len(jars'[o]) <= MaxCookies
    BY <2>1, Limits
  <2>4. jars' # Absent
    BY <2>3, Present
  <2>5. JarsInv'
    BY <2>1, <2>3, <2>4 DEF JarsInv
  <2>6. /\ \A o \in Origins : o \in failed' <=> o \in failed
        /\ "visits" \in failed' <=> "visits" \in failed
    BY <2>1, Present
  <2> QED
    BY <2>1, <2>2, <2>5, <2>6, AreasRest, VisitsRest
<1>3. CASE VisitsLoadFail
  <2>1. /\ visits = Absent /\ visits' = << >> /\ failed' = failed \cup {"visits"}
        /\ UNCHANGED <<areaVars, jarVars, visitsDirty, visitsFile, now, writes>>
    BY <1>3 DEF VisitsLoadFail
  <2>2. ClockInv'
    BY <2>1 DEF ClockInv
  <2>3. visits' \in Seq(Entered) /\ Len(visits') = 0
    BY <2>1
  <2>4. VisitsInv'
    BY <2>1, <2>3, Present, Limits DEF VisitsInv
  <2>5. /\ \A o \in Origins : o \in failed' <=> o \in failed
        /\ "jars" \in failed' <=> "jars" \in failed
    BY <2>1, Present
  <2> QED
    BY <2>1, <2>2, <2>4, <2>5, AreasRest, JarsRest
<1> QED
  BY <1>1, <1>2, <1>3

\* What is started again has read nothing, and changed nothing of the files.
LEMMA RestartStep ==
  ASSUME StoresInv, Restart
  PROVE  StoresInv'
<1> USE DEF StoresInv
<1>1. ClockInv'
  BY DEF ClockInv, Restart
<1>2. AreasInv'
  BY Limits DEF AreasInv, Restart, Fitting
<1>3. JarsInv' /\ VisitsInv'
  BY DEF JarsInv, VisitsInv, Restart
<1> QED
  BY <1>1, <1>2, <1>3

-----------------------------------------------------------------------------
\* The stores' invariant is kept by every step.
LEMMA StoresStep ==
  ASSUME StoresInv, [StoresNext]_storeVars
  PROVE  StoresInv'
<1>1. CASE UNCHANGED storeVars
  <2>1. UNCHANGED <<areaVars, jarVars, visitVars, now, failed, writes>>
    BY <1>1 DEF storeVars
  <2>2. ClockInv'
    BY <2>1 DEF StoresInv, ClockInv
  <2>3. AreasInv' /\ JarsInv' /\ VisitsInv'
    BY <2>1, AreasRest, JarsRest, VisitsRest DEF StoresInv
  <2> QED
    BY <2>2, <2>3 DEF StoresInv
<1>2. ASSUME NEW o \in Origins, NEW k \in Names, NEW v \in 1..(MaxValue + 1), SetItem(o, k, v)
      PROVE  StoresInv'
  BY <1>2, SetItemStep
<1>3. ASSUME NEW o \in Origins, NEW k \in Names, RemoveItem(o, k)
      PROVE  StoresInv'
  BY <1>3, RemoveItemStep
<1>4. ASSUME NEW o \in Origins, NEW k \in Names, NEW age \in Ages, NEW only \in BOOLEAN,
             ScriptSets(o, k, age) \/ ServerSets(o, k, only, age)
      PROVE  StoresInv'
  <2>1. \E b \in BOOLEAN : Store(o, k, b, age)
    BY <1>4 DEF ScriptSets, ServerSets
  <2> QED
    BY <2>1, StoreStep
<1>5. ASSUME NEW o \in Origins, NEW k \in Names, NEW b \in BOOLEAN, RemoveCookie(o, k, b)
      PROVE  StoresInv'
  BY <1>5, RemoveCookieStep
<1>6. ASSUME NEW o \in Origins, NEW b \in BOOLEAN, ClearJar(o, b) \/ FlushArea(o, b)
      PROVE  StoresInv'
  BY <1>6, ClearJarStep, FlushAreaStep
<1>7. ASSUME NEW o \in Origins, ClearArea(o) \/ UseJar(o) \/ Record(o)
      PROVE  StoresInv'
  BY <1>7, ClearAreaStep, UseJarStep, RecordStep
<1>8. ASSUME NEW b \in BOOLEAN, ClearVisits(b) \/ FlushJars(b) \/ FlushVisits(b)
      PROVE  StoresInv'
  BY <1>8, ClearVisitsStep, FlushJarsStep, FlushVisitsStep
<1>9. CASE Restart \/ Tick
  BY <1>9, RestartStep, TickStep
<1>10. CASE (\E o \in Origins : AreaLoadFails(o)) \/ JarsLoadFail \/ VisitsLoadFail
  BY <1>10, LoadFailsStep
<1> QED
  BY <1>1, <1>2, <1>3, <1>4, <1>5, <1>6, <1>7, <1>8, <1>9, <1>10 DEF StoresNext

\* The stores' invariant says what their type does.
LEMMA StoresInvType == StoresInv => StoresTypeOK
<1> SUFFICES ASSUME StoresInv PROVE StoresTypeOK
  OBVIOUS
<1> QED
  BY DEF StoresInv, ClockInv, AreasInv, JarsInv, VisitsInv, StoresTypeOK

\* Whatever is within the limits of loading comes back as it was saved.
LEMMA StoresInvSurvives == StoresInv => SurvivesRestart
<1> SUFFICES ASSUME StoresInv PROVE SurvivesRestart
  OBVIOUS
<1>1. ASSUME NEW o \in Origins, area[o] # Absent
      PROVE  /\ bytes[o] = Bytes(area[o])
             /\ ~areaDirty[o] /\ o \notin failed => LoadedArea(areaFile[o]) = area[o]
  <2>1. LoadedArea(areaFile[o]) = areaFile[o]
    BY LoadedIs DEF StoresInv, AreasInv
  <2> QED
    BY <1>1, <2>1 DEF StoresInv, AreasInv
<1>2. ASSUME jars # Absent, ~jarsDirty, "jars" \notin failed, NEW o \in Origins
      PROVE  LoadedJars[o] = Lasting(jars[o])
  BY <1>2, LoadedJarIs DEF StoresInv, JarsInv
<1>3. visits # Absent /\ ~visitsDirty /\ "visits" \notin failed => LoadedVisits(visitsFile) = visits
  BY LoadedVisitsIs DEF StoresInv, VisitsInv
<1> QED
  BY <1>1, <1>2, <1>3 DEF SurvivesRestart

\* The stores' invariant holds of every state.
LEMMA StoresInvariance == StoresSpec => []StoresInv
<1>1. StoresInit => StoresInv
  BY StoresBase
<1>2. StoresInv /\ [StoresNext]_storeVars => StoresInv'
  BY StoresStep
<1> QED
  BY <1>1, <1>2, PTL DEF StoresSpec

\* Every variable of the stores has its type, and what is in memory is within the
\* limits that setItem, store_locked and record keep.
THEOREM StoresTyped == StoresSpec => []StoresTypeOK
BY StoresInvariance, StoresInvType, PTL

\* What is in an area, a jar or the visits, and was saved, comes back after any
\* end of the process: no file is beyond what load reads of it, and a cookie
\* expires in memory when it does in the file.
THEOREM ComesBack == StoresSpec => []SurvivesRestart
BY StoresInvariance, StoresInvSurvives, PTL
=============================================================================
