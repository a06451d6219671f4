------------------------ MODULE UpstreamGroupProofs ------------------------
(***************************************************************************)
(* Lemmas about UpstreamGroup's operators, for any peers and weights.      *)
(***************************************************************************)
EXTENDS UpstreamGroup, FiniteSetTheorems, WellFoundedInduction, TLAPS

-----------------------------------------------------------------------------
(* The least-number principle for a set of naturals, and the sums it gives. *)

\* A set of naturals that is not empty has a least element.
LEMMA Least ==
  ASSUME NEW T, T \subseteq Nat, T # {}
  PROVE  \E x \in T : \A y \in T : x <= y
<1> DEFINE R == {ss \in Nat \X Nat : ss[1] < ss[2]}
<1>0. IsWellFoundedOn(R, Nat)
  BY NatLessThanWellFounded, Zenon DEF OpToRel
<1>1. PICK x \in T : \A y \in T : ~ (<<y, x>> \in R)
  <2> HIDE DEF R
  <2> QED
    BY <1>0, WFMin, Zenon
<1>2. ASSUME NEW y \in T PROVE x <= y
  <2>1. <<y, x>> \in Nat \X Nat
    OBVIOUS
  <2>2. ~(y < x)
    BY <1>1, <2>1
  <2> QED
    BY <2>2
<1> QED
  BY <1>2

\* Induction up to n, for a set in the place of a predicate.
LEMMA UpTo ==
  ASSUME NEW n \in Nat, NEW S, 0 \in S, \A m \in 1..n : m - 1 \in S => m \in S
  PROVE  \A m \in 0..n : m \in S
<1> DEFINE T == {m \in 0..n : m \notin S}
<1>1. SUFFICES ASSUME T # {} PROVE FALSE
  OBVIOUS
<1>2. PICK m \in T : \A k \in T : m <= k
  <2>1. T \subseteq Nat
    OBVIOUS
  <2> HIDE DEF T
  <2> QED
    BY <1>1, <2>1, Least
<1>3. m \in 1..n /\ m - 1 \in 0..n /\ m - 1 \notin T
  BY <1>2
<1> QED
  BY <1>2, <1>3

\* What Sums(f, E) must satisfy, up to n.
IsSums(s, f, E, n) ==
  s = [m \in 0..n |-> IF m = 0 THEN 0 ELSE s[m - 1] + (IF m \in E THEN f[m] ELSE 0)]

\* A function that satisfies the recursion exists, whatever is summed.
LEMMA SumsExist ==
  ASSUME NEW f, NEW E
  PROVE  \A n \in Nat : \E s : IsSums(s, f, E, n)
<1> DEFINE T == {n \in Nat : ~ \E s : IsSums(s, f, E, n)}
<1>1. SUFFICES ASSUME T # {} PROVE FALSE
  OBVIOUS
<1>2. PICK n \in T : \A m \in T : n <= m
  BY <1>1, Least
<1>3. n # 0
  <2>1. IsSums([m \in 0..0 |-> 0], f, E, 0)
    BY DEF IsSums
  <2> QED
    BY <2>1
<1>4. n \in Nat /\ n - 1 \in Nat /\ n - 1 \notin T
  BY <1>2, <1>3
<1>5. PICK s : IsSums(s, f, E, n - 1)
  BY <1>4
<1> DEFINE g == [m \in 0..n |-> IF m = n THEN s[n - 1] + (IF n \in E THEN f[n] ELSE 0)
                               ELSE s[m]]
<1>6. g = [m \in 0..n |-> IF m = 0 THEN 0 ELSE g[m - 1] + (IF m \in E THEN f[m] ELSE 0)]
  <2>1. ASSUME NEW m \in 0..n
        PROVE  g[m] = IF m = 0 THEN 0 ELSE g[m - 1] + (IF m \in E THEN f[m] ELSE 0)
    <3>1. CASE m = n
      BY <1>3, <1>4, <3>1
    <3>2. CASE m # n
      <4>1. m \in 0..(n - 1) /\ (m # 0 => m - 1 \in 0..n /\ m - 1 # n)
        BY <1>4, <3>2
      <4>2. s[m] = IF m = 0 THEN 0 ELSE s[m - 1] + (IF m \in E THEN f[m] ELSE 0)
        BY <1>5, <4>1 DEF IsSums
      <4> QED
        BY <4>1, <4>2, <3>2
    <3> QED
      BY <3>1, <3>2
  <2> HIDE DEF g
  <2>2. g = [m \in 0..n |-> g[m]]
    BY DEF g
  <2> QED
    BY <2>1, <2>2
<1> HIDE DEF g
<1>7. IsSums(g, f, E, n)
  BY <1>6 DEF IsSums
<1> QED
  BY <1>2, <1>7

\* Sums adds up one peer at a time, as pick's loop does.
LEMMA SumsAre ==
  ASSUME NEW f, NEW E
  PROVE  /\ Sums(f, E)[0] = 0
         /\ \A n \in Peers :
              Sums(f, E)[n] = Sums(f, E)[n - 1] + (IF n \in E THEN f[n] ELSE 0)
<1> DEFINE s == Sums(f, E)
<1>0. NPeers \in Nat
  BY GroupAssumption
<1>1. \E g : IsSums(g, f, E, NPeers)
  BY <1>0, SumsExist
<1>2. IsSums(s, f, E, NPeers)
  BY <1>1 DEF IsSums, Sums
<1> HIDE DEF s
<1>3. s[0] = 0 /\ \A n \in Peers : s[n] = s[n - 1] + (IF n \in E THEN f[n] ELSE 0)
  <2>1. \A n \in 0..NPeers : s[n] = IF n = 0 THEN 0 ELSE s[n - 1] + (IF n \in E THEN f[n] ELSE 0)
    BY <1>2 DEF IsSums
  <2>2. 0 \in 0..NPeers /\ \A n \in Peers : n \in 0..NPeers /\ n # 0
    BY <1>0 DEF Peers
  <2> QED
    BY <2>1, <2>2
<1> QED
  BY <1>3 DEF s

\* The sums of integers are integers.
LEMMA SumsInt ==
  ASSUME NEW f \in [Peers -> Int], NEW E
  PROVE  \A n \in 0..NPeers : Sums(f, E)[n] \in Int
<1> DEFINE S == {n \in 0..NPeers : Sums(f, E)[n] \in Int}
<1>0. NPeers \in Nat
  BY GroupAssumption
<1>1. 0 \in S
  BY <1>0, SumsAre
<1>2. ASSUME NEW m \in 1..NPeers, m - 1 \in S PROVE m \in S
  <2>1. Sums(f, E)[m] = Sums(f, E)[m - 1] + (IF m \in E THEN f[m] ELSE 0)
    <3>1. m \in Peers
      BY DEF Peers
    <3> QED
      BY <3>1, SumsAre
  <2>2. f[m] \in Int /\ Sums(f, E)[m - 1] \in Int
    BY <1>2 DEF Peers
  <2> QED
    BY <2>1, <2>2
<1>3. \A n \in 0..NPeers : n \in S
  <2> HIDE DEF S
  <2> QED
    BY <1>0, <1>1, <1>2, UpTo
<1> QED
  BY <1>3

\* What a sum does not see it does not count.
At(f, E, n) == IF n \in E THEN f[n] ELSE 0
Splits(f, A, g, B, h, C) == \A n \in Peers : At(f, A, n) = At(g, B, n) + At(h, C, n)

\* Sums add up: over two groups of peers, or of two functions.
LEMMA SumsPlus ==
  ASSUME NEW f \in [Peers -> Int], NEW g \in [Peers -> Int], NEW h \in [Peers -> Int],
         NEW A, NEW B, NEW C, Splits(f, A, g, B, h, C)
  PROVE  Sums(f, A)[NPeers] = Sums(g, B)[NPeers] + Sums(h, C)[NPeers]
<1> DEFINE S == {n \in 0..NPeers : Sums(f, A)[n] = Sums(g, B)[n] + Sums(h, C)[n]}
<1>0. NPeers \in Nat /\ 0 \in 0..NPeers /\ NPeers \in 0..NPeers
  BY GroupAssumption
<1>1. 0 \in S
  BY <1>0, SumsAre
<1>2. ASSUME NEW n \in 1..NPeers, n - 1 \in S PROVE n \in S
  <2>0. n \in Peers /\ n \in 0..NPeers /\ n - 1 \in 0..NPeers
    BY <1>0 DEF Peers
  <2>1. /\ Sums(f, A)[n] = Sums(f, A)[n - 1] + At(f, A, n)
        /\ Sums(g, B)[n] = Sums(g, B)[n - 1] + At(g, B, n)
        /\ Sums(h, C)[n] = Sums(h, C)[n - 1] + At(h, C, n)
    BY <2>0, SumsAre DEF At
  <2>2. /\ Sums(f, A)[n - 1] \in Int /\ Sums(g, B)[n - 1] \in Int /\ Sums(h, C)[n - 1] \in Int
        /\ At(f, A, n) \in Int /\ At(g, B, n) \in Int /\ At(h, C, n) \in Int
    BY <2>0, SumsInt DEF At
  <2>3. Sums(f, A)[n] = Sums(g, B)[n] + Sums(h, C)[n]
    BY <1>2, <2>0, <2>1, <2>2 DEF Splits
  <2> QED
    BY <2>0, <2>3
<1> HIDE DEF S
<1>3. NPeers \in S
  BY <1>0, <1>1, <1>2, UpTo
<1> QED
  BY <1>3 DEF S

\* A sum over one peer.
LEMMA SumsOne ==
  ASSUME NEW f \in [Peers -> Int], NEW b \in Peers
  PROVE  Sums(f, {b})[NPeers] = f[b]
<1> DEFINE S == {n \in 0..NPeers : Sums(f, {b})[n] = IF b <= n THEN f[b] ELSE 0}
<1>0. NPeers \in Nat /\ 0 \in 0..NPeers /\ NPeers \in 0..NPeers /\ b \in 1..NPeers
  BY GroupAssumption DEF Peers
<1>1. 0 \in S
  BY <1>0, SumsAre
<1>2. ASSUME NEW n \in 1..NPeers, n - 1 \in S PROVE n \in S
  <2>0. n \in Peers /\ n \in 0..NPeers /\ n - 1 \in 0..NPeers
    BY <1>0 DEF Peers
  <2>1. Sums(f, {b})[n] = Sums(f, {b})[n - 1] + (IF n = b THEN f[n] ELSE 0)
    BY <2>0, SumsAre
  <2>2. Sums(f, {b})[n - 1] = (IF b <= n - 1 THEN f[b] ELSE 0) /\ f[b] \in Int /\ f[n] \in Int
    BY <1>2, <2>0
  <2>3. Sums(f, {b})[n] = IF b <= n THEN f[b] ELSE 0
    BY <1>0, <2>0, <2>1, <2>2
  <2> QED
    BY <2>0, <2>3
<1> HIDE DEF S
<1>3. NPeers \in S
  BY <1>0, <1>1, <1>2, UpTo
<1> QED
  BY <1>0, <1>3 DEF S

\* How many peers a group has.
One == [i \in Peers |-> 1]
Count(E) == Sums(One, E)[NPeers]

\* A sum of what is at most c each.
LEMMA SumsBound ==
  ASSUME NEW f \in [Peers -> Int], NEW c \in Int, NEW E, \A n \in Peers : n \in E => f[n] <= c
  PROVE  Sums(f, E)[NPeers] <= c * Count(E)
<1> DEFINE S == {n \in 0..NPeers : Sums(f, E)[n] <= c * Sums(One, E)[n]}
<1>0. /\ NPeers \in Nat /\ 0 \in 0..NPeers /\ NPeers \in 0..NPeers
      /\ One \in [Peers -> Int] /\ \A n \in Peers : One[n] = 1
  BY GroupAssumption DEF One
<1>1. 0 \in S
  BY <1>0, SumsAre
<1>2. ASSUME NEW n \in 1..NPeers, n - 1 \in S PROVE n \in S
  <2>0. n \in Peers /\ n \in 0..NPeers /\ n - 1 \in 0..NPeers
    BY <1>0 DEF Peers
  <2> DEFINE s == Sums(f, E)[n - 1]
             k == Sums(One, E)[n - 1]
  <2>1. /\ Sums(f, E)[n] = s + (IF n \in E THEN f[n] ELSE 0)
        /\ Sums(One, E)[n] = k + (IF n \in E THEN 1 ELSE 0)
    BY <1>0, <2>0, SumsAre
  <2>2. s \in Int /\ k \in Int /\ f[n] \in Int /\ (n \in E => f[n] <= c)
    BY <1>0, <2>0, SumsInt
  <2>3. s <= c * k
    BY <1>2
  <2> HIDE DEF s, k
  <2>4. c * (k + 1) = c * k + c /\ c * k \in Int /\ c * (k + 0) = c * k
    BY <2>2
  <2>5. Sums(f, E)[n] <= c * Sums(One, E)[n]
    <3>1. CASE n \in E
      <4>1. Sums(f, E)[n] = s + f[n] /\ Sums(One, E)[n] = k + 1 /\ f[n] <= c
        BY <2>1, <2>2, <3>1
      <4> QED
        BY <2>2, <2>3, <2>4, <4>1
    <3>2. CASE n \notin E
      <4>1. Sums(f, E)[n] = s /\ Sums(One, E)[n] = k
        BY <2>1, <2>2, <3>2
      <4> QED
        BY <2>3, <4>1
    <3> QED
      BY <3>1, <3>2
  <2> QED
    BY <2>0, <2>5
<1> HIDE DEF S
<1>3. NPeers \in S
  BY <1>0, <1>1, <1>2, UpTo
<1> QED
  BY <1>3 DEF S, Count

\* Groups have no fewer than no peers and no more than there are.
LEMMA Counts ==
  /\ Count(Peers) = NPeers /\ Count({}) = 0
  /\ \A E : Count(E) \in 0..NPeers /\ (E \cap Peers # {} => Count(E) > 0)
<1>0. /\ NPeers \in Nat /\ 0 \in 0..NPeers /\ NPeers \in 0..NPeers
      /\ One \in [Peers -> Int] /\ \A n \in Peers : One[n] = 1
  BY GroupAssumption DEF One
<1>1. ASSUME NEW E
      PROVE  \A n \in 0..NPeers : /\ Sums(One, E)[n] \in 0..n
                                  /\ E = Peers => Sums(One, E)[n] = n
                                  /\ E = {} => Sums(One, E)[n] = 0
                                  /\ E \cap 1..n # {} => Sums(One, E)[n] > 0
  <2> DEFINE S == {n \in 0..NPeers : /\ Sums(One, E)[n] \in 0..n
                                     /\ E = Peers => Sums(One, E)[n] = n
                                     /\ E = {} => Sums(One, E)[n] = 0
                                     /\ E \cap 1..n # {} => Sums(One, E)[n] > 0}
  <2>1. 0 \in S
    BY <1>0, SumsAre
  <2>2. ASSUME NEW n \in 1..NPeers, n - 1 \in S PROVE n \in S
    <3>1. n \in Peers /\ n \in 0..NPeers /\ n - 1 \in 0..NPeers
      BY <1>0 DEF Peers
    <3>2. Sums(One, E)[n] = Sums(One, E)[n - 1] + (IF n \in E THEN 1 ELSE 0)
      BY <1>0, <3>1, SumsAre
    <3>3. /\ Sums(One, E)[n - 1] \in 0..(n - 1)
          /\ E = Peers => Sums(One, E)[n - 1] = n - 1
          /\ E = {} => Sums(One, E)[n - 1] = 0
          /\ E \cap 1..(n - 1) # {} => Sums(One, E)[n - 1] > 0
      BY <2>2
    <3>4. n \notin E => E \cap 1..n \subseteq E \cap 1..(n - 1)
      BY <3>1
    <3> QED
      BY <3>1, <3>2, <3>3, <3>4
  <2> HIDE DEF S
  <2>3. \A n \in 0..NPeers : n \in S
    BY <1>0, <2>1, <2>2, UpTo
  <2> QED
    BY <2>3 DEF S
<1> QED
  BY <1>0, <1>1 DEF Count, Peers

\* What the chosen peer pays is an integer.
LEMMA PriceInt == \A E : Price(E) \in Int
<1> TAKE E
<1>1. Weight \in [Peers -> Int] /\ NPeers \in 0..NPeers
  BY GroupAssumption
<1> QED
  BY <1>1, SumsInt DEF Price

-----------------------------------------------------------------------------
(* pick                                                                    *)

\* j is before i in the order pick chooses by.
Beats(E, j, i) ==
  Raised(E)[j] > Raised(E)[i] \/ (Raised(E)[j] = Raised(E)[i] /\ j < i)

\* Of the peers that pick looks at it chooses one that none of them beats.
LEMMA BestIsBest ==
  ASSUME weight \in [Peers -> Int], NEW E, E \subseteq Peers, E # {}
  PROVE  Best(E) \in E /\ \A j \in E : ~Beats(E, j, Best(E))
<1> DEFINE above(i) == {j \in E : Beats(E, j, i)}
           T == {Cardinality(above(i)) : i \in E}
<1>0. /\ NPeers \in Nat /\ Peers \subseteq Int /\ IsFiniteSet(E)
      /\ Raised(E) \in [Peers -> Int]
  <2>1. NPeers \in Nat /\ Weight \in [Peers -> Int] /\ Peers \subseteq Int
    BY GroupAssumption DEF Peers
  <2>2. IsFiniteSet(Peers)
    BY <2>1, FS_Interval DEF Peers
  <2>3. IsFiniteSet(E)
    BY <2>2, FS_Subset
  <2> QED
    BY <2>1, <2>3 DEF Raised
<1>1. ASSUME NEW i \in E PROVE IsFiniteSet(above(i)) /\ Cardinality(above(i)) \in Nat
  BY <1>0, FS_Subset, FS_CardinalityType
<1>2. T \subseteq Nat /\ T # {}
  BY <1>1
<1>3. PICK i \in E : \A j \in E : Cardinality(above(i)) <= Cardinality(above(j))
  <2>1. PICK x \in T : \A y \in T : x <= y
    BY <1>2, Least
  <2> QED
    BY <2>1
<1>4. above(i) = {}
  <2>1. SUFFICES ASSUME above(i) # {} PROVE FALSE
    OBVIOUS
  <2>2. PICK j \in E : Beats(E, j, i)
    BY <2>1
  <2>3. ASSUME NEW k \in E, Beats(E, k, j) PROVE Beats(E, k, i)
    <3>1. /\ Raised(E)[i] \in Int /\ Raised(E)[j] \in Int /\ Raised(E)[k] \in Int
          /\ i \in Int /\ j \in Int /\ k \in Int
      BY <1>0
    <3> QED
      BY <2>2, <2>3, <3>1 DEF Beats
  <2>4. ~Beats(E, j, j)
    <3>1. Raised(E)[j] \in Int /\ j \in Int
      BY <1>0
    <3> QED
      BY <3>1 DEF Beats
  <2>a. above(j) \subseteq above(i)
    BY <2>3
  <2>b. j \in above(i) /\ j \notin above(j)
    BY <2>2, <2>4
  <2> HIDE DEF above
  <2>5. /\ Cardinality(above(j)) <= Cardinality(above(i))
        /\ Cardinality(above(i)) = Cardinality(above(j)) => above(i) = above(j)
    BY <1>1, <2>a, FS_Subset
  <2>6. Cardinality(above(j)) < Cardinality(above(i))
    BY <1>1, <2>b, <2>5
  <2> QED
    BY <1>1, <1>3, <2>6
<1>5. \A j \in E : ~Beats(E, j, i)
  BY <1>4
<1> HIDE DEF above, T
<1>6. ASSUME NEW k \in E, NEW j \in E
      PROVE  ~Beats(E, j, k) <=> \/ Raised(E)[k] > Raised(E)[j]
                                 \/ Raised(E)[k] = Raised(E)[j] /\ k <= j
  <2>1. Raised(E)[j] \in Int /\ Raised(E)[k] \in Int /\ j \in Int /\ k \in Int
    BY <1>0
  <2> QED
    BY <2>1 DEF Beats
<1>7. \A j \in E : \/ Raised(E)[i] > Raised(E)[j]
                   \/ Raised(E)[i] = Raised(E)[j] /\ i <= j
  BY <1>5, <1>6
<1>8. /\ Best(E) \in E
      /\ \A j \in E : \/ Raised(E)[Best(E)] > Raised(E)[j]
                      \/ Raised(E)[Best(E)] = Raised(E)[j] /\ Best(E) <= j
  BY <1>7 DEF Best
<1> QED
  BY <1>6, <1>8

\* pick returns a peer that was not tried, and keeps the weights integers.
LEMMA PickIs ==
  ASSUME weight \in [Peers -> Int], NEW tried, Pick(tried)
  PROVE  /\ Picked(tried) \in Peers \ tried
         /\ weight' \in [Peers -> Int]
         /\ UNCHANGED <<fails, lapsed, down, pool>>
<1> DEFINE E == Candidates(tried)
<1>1. E \subseteq Peers \ tried /\ E # {}
  BY DEF Pick, Candidates, Eligible
<1>2. Best(E) \in E
  BY <1>1, BestIsBest
<1>3. Paid(E) \in [Peers -> Int]
  <2>1. Raised(E) \in [Peers -> Int]
    BY GroupAssumption DEF Raised
  <2> QED
    BY <1>1, <1>2, <2>1, PriceInt DEF Paid
<1> QED
  BY <1>1, <1>2, <1>3 DEF Pick, Picked, healthVars

\* The chosen peer pays exactly what the peers gained: a pick moves weight from
\* peer to peer and leaves their sum as it is.
LEMMA PaidSums ==
  ASSUME weight \in [Peers -> Int], NEW E, E \subseteq Peers, E # {}
  PROVE  Sums(Paid(E), Peers)[NPeers] = Sums(weight, Peers)[NPeers]
<1> DEFINE b == Best(E)
           p == Price(E)
           S == {n \in 0..NPeers :
                   Sums(Paid(E), Peers)[n] =
                     Sums(weight, Peers)[n] + Sums(Weight, E)[n] - (IF b <= n THEN p ELSE 0)}
<1>0. /\ NPeers \in Nat /\ Weight \in [Peers -> Int] /\ Peers \subseteq Int /\ 0 \notin Peers
      /\ \A n \in Peers : n \in 0..NPeers /\ n - 1 \in 0..NPeers
      /\ \A n \in Peers : n > 0
  BY GroupAssumption DEF Peers
<1>1. b \in E /\ b \in Peers /\ p \in Int
  BY BestIsBest, PriceInt
<1>2. /\ Paid(E) \in [Peers -> Int]
      /\ \A n \in Peers : Paid(E)[n] =
           weight[n] + (IF n \in E THEN Weight[n] ELSE 0) - (IF n = b THEN p ELSE 0)
  <2> HIDE DEF b, p
  <2>1. Raised(E) \in [Peers -> Int]
    BY <1>0 DEF Raised
  <2>2. Paid(E) = [Raised(E) EXCEPT ![b] = Raised(E)[b] - p]
    BY <1>1, <2>1 DEF Paid, b, p
  <2> QED
    BY <1>0, <1>1, <2>1, <2>2 DEF Raised
<1>3. /\ \A n \in 0..NPeers : Sums(weight, Peers)[n] \in Int /\ Sums(Weight, E)[n] \in Int
      /\ \A n \in 0..NPeers : Sums(Paid(E), Peers)[n] \in Int
  BY <1>0, <1>2, SumsInt
<1> HIDE DEF b, p
<1>4. 0 \in S
  <2>1. ~(b <= 0)
    BY <1>0, <1>1
  <2> QED
    BY <1>0, <2>1, SumsAre
<1>5. ASSUME NEW n \in 1..NPeers, n - 1 \in S PROVE n \in S
  <2>1. n \in Peers
    BY DEF Peers
  <2>2. /\ Sums(Paid(E), Peers)[n] = Sums(Paid(E), Peers)[n - 1] + Paid(E)[n]
        /\ Sums(weight, Peers)[n] = Sums(weight, Peers)[n - 1] + weight[n]
        /\ Sums(Weight, E)[n] = Sums(Weight, E)[n - 1] + (IF n \in E THEN Weight[n] ELSE 0)
    BY <2>1, SumsAre
  <2>3. /\ n \in Int /\ b \in Int /\ weight[n] \in Int /\ Weight[n] \in Int /\ p \in Int
        /\ Sums(weight, Peers)[n - 1] \in Int /\ Sums(Weight, E)[n - 1] \in Int
    BY <1>0, <1>1, <1>3, <2>1
  <2>4. Sums(Paid(E), Peers)[n - 1] =
          Sums(weight, Peers)[n - 1] + Sums(Weight, E)[n - 1] - (IF b <= n - 1 THEN p ELSE 0)
    BY <1>5
  <2>5. Paid(E)[n] = weight[n] + (IF n \in E THEN Weight[n] ELSE 0) - (IF n = b THEN p ELSE 0)
    BY <1>2, <2>1
  <2>6. Sums(Paid(E), Peers)[n] =
          Sums(weight, Peers)[n] + Sums(Weight, E)[n] - (IF b <= n THEN p ELSE 0)
    BY <2>2, <2>3, <2>4, <2>5
  <2> QED
    BY <2>6
<1>6. NPeers \in S
  <2> HIDE DEF S
  <2>1. \A n \in 0..NPeers : n \in S
    BY <1>0, <1>4, <1>5, UpTo
  <2> QED
    BY <1>0, <2>1
<1>7. b <= NPeers /\ Sums(Weight, E)[NPeers] = p
  BY <1>1, <1>0 DEF Peers, Price, p
<1> QED
  BY <1>0, <1>3, <1>6, <1>7, <1>1

-----------------------------------------------------------------------------
(* report                                                                  *)

HealthTypes ==
  /\ fails \in [Peers -> FailCounts]
  /\ lapsed \in [Peers -> BOOLEAN] /\ down \in [Peers -> BOOLEAN]

\* The failure count stays below max_fails.
LEMMA ReportTypes ==
  ASSUME HealthTypes, NEW i \in Peers, NEW ok \in BOOLEAN, Report(i, ok)
  PROVE  HealthTypes'
<1> USE GroupAssumption DEF HealthTypes, FailCounts
<1>1. CASE ok \/ MaxFails = 0
  BY <1>1 DEF Report, Forgiven, healthVars
<1>2. CASE ~ok /\ MaxFails # 0
  <2>1. FailsNow(i) \in 1..MaxFails
    BY <1>2 DEF FailsNow
  <2>2. CASE FailsNow(i) >= MaxFails
    <3>1. fails' = [fails EXCEPT ![i] = 0] /\ down' = [down EXCEPT ![i] = TRUE]
          /\ lapsed' = [lapsed EXCEPT ![i] = FALSE]
      BY <1>2, <2>2 DEF Report, TooMany
    <3> QED
      BY <1>2, <3>1
  <2>3. CASE ~(FailsNow(i) >= MaxFails)
    <3>1. fails' = [fails EXCEPT ![i] = FailsNow(i)] /\ down' = down
          /\ lapsed' = [lapsed EXCEPT ![i] = FALSE]
      BY <1>2, <2>3 DEF Report, TooMany
    <3>2. FailsNow(i) \in 0..(MaxFails - 1)
      BY <2>1, <2>3
    <3> QED
      BY <1>2, <3>1, <3>2
  <2> QED
    BY <2>2, <2>3
<1> QED
  BY <1>1, <1>2

\* Time passes without a failure being counted.
LEMMA PassTypes ==
  ASSUME HealthTypes, NEW i \in Peers, TimePasses(i)
  PROVE  HealthTypes'
BY DEF HealthTypes, TimePasses
=============================================================================
