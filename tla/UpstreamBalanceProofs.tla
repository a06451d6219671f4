----------------------- MODULE UpstreamBalanceProofs -----------------------
(***************************************************************************)
(* Proofs about UpstreamBalance, for any number of peers, any weights and  *)
(* any max_fails.                                                          *)
(***************************************************************************)
EXTENDS UpstreamBalance, UpstreamGroupProofs

\* With WeightsBalanced: no peer has more failures counted against it than were
\* reported without a success between them.
BalanceInv ==
  /\ TypeOK /\ WeightsBalanced
  /\ \A i \in Peers : fails[i] <= streak[i]

\* A fresh group is balanced and has counted nothing.
LEMMA BalanceInit == Init => BalanceInv
<1> SUFFICES ASSUME Init PROVE BalanceInv
  OBVIOUS
<1> USE GroupAssumption
<1>1. TypeOK
  BY DEF Init, GroupInit, TypeOK, FailCounts
<1>2. WeightsBalanced
  <2> DEFINE S == {n \in 0..NPeers : Sums(weight, Peers)[n] = 0}
  <2>1. 0 \in S
    BY SumsAre
  <2>2. ASSUME NEW n \in 1..NPeers, n - 1 \in S PROVE n \in S
    <3>1. n \in Peers /\ weight[n] = 0
      BY DEF Peers, Init, GroupInit
    <3>2. Sums(weight, Peers)[n] = Sums(weight, Peers)[n - 1] + weight[n]
      BY <3>1, SumsAre
    <3> QED
      BY <2>2, <3>1, <3>2
  <2> HIDE DEF S
  <2>3. NPeers \in S
    BY <2>1, <2>2, UpTo
  <2> QED
    BY <2>3 DEF S, WeightsBalanced
<1> QED
  BY <1>1, <1>2 DEF BalanceInv, Init, GroupInit

\* A failure that takes a peer down is the last of MaxFails reported in a row.
LEMMA BalanceNext ==
  ASSUME BalanceInv, [Next]_vars
  PROVE  /\ BalanceInv'
         /\ \A i \in Peers : down'[i] /\ ~down[i] => streak'[i] = MaxFails
<1> USE GroupAssumption
<1>1. ASSUME NEW tried \in SUBSET Peers, PickFor(tried)
      PROVE  BalanceInv' /\ UNCHANGED down
  <2> DEFINE E == Candidates(tried)
  <2>1. E \subseteq Peers /\ E # {} /\ weight' = Paid(E) /\ UNCHANGED streak
    BY <1>1 DEF PickFor, Pick, Candidates, Eligible
  <2>2. weight' \in [Peers -> Int] /\ UNCHANGED <<fails, lapsed, down, pool>>
    BY <1>1, PickIs DEF PickFor, BalanceInv, TypeOK
  <2>3. WeightsBalanced'
    BY <2>1, PaidSums DEF BalanceInv, TypeOK, WeightsBalanced
  <2> QED
    BY <2>1, <2>2, <2>3 DEF BalanceInv, TypeOK
<1>2. ASSUME NEW i \in Peers, NEW ok \in BOOLEAN, ReportOn(i, ok)
      PROVE  /\ BalanceInv'
             /\ \A j \in Peers : down'[j] /\ ~down[j] => streak'[j] = MaxFails
  <2>1. HealthTypes'
    BY <1>2, ReportTypes DEF ReportOn, BalanceInv, TypeOK, HealthTypes
  <2> DEFINE n == IF lapsed[i] THEN 1 ELSE streak[i] + 1
             m == IF ok THEN 0 ELSE IF n > MaxFails THEN MaxFails ELSE n
  <2>2. /\ streak' = [streak EXCEPT ![i] = m] /\ UNCHANGED <<weight, pool>>
        /\ Report(i, ok)
    BY <1>2 DEF ReportOn
  <2>3. m \in 0..MaxFails /\ streak' \in [Peers -> 0..MaxFails]
    BY <2>2 DEF BalanceInv, TypeOK
  <2>4. /\ \A j \in Peers \ {i} : fails'[j] = fails[j] /\ down'[j] = down[j]
        /\ fails'[i] <= m
        /\ down'[i] /\ ~down[i] => m = MaxFails
    <3>1. CASE ok \/ MaxFails = 0
      BY <2>2, <3>1 DEF BalanceInv, TypeOK, Report, Forgiven, FailCounts, healthVars
    <3>2. CASE ~ok /\ MaxFails # 0
      <4>1. FailsNow(i) \in 1..MaxFails /\ FailsNow(i) <= m
        BY <3>2 DEF FailsNow, BalanceInv, TypeOK, FailCounts
      <4>2. \/ /\ TooMany(FailsNow(i)) /\ down' = [down EXCEPT ![i] = TRUE]
               /\ fails' = [fails EXCEPT ![i] = 0]
            \/ /\ UNCHANGED down /\ fails' = [fails EXCEPT ![i] = FailsNow(i)]
        BY <2>2, <3>2 DEF Report
      <4>3. TooMany(FailsNow(i)) => m = MaxFails
        BY <2>3, <4>1 DEF TooMany
      <4> HIDE DEF m
      <4> QED
        BY <2>3, <4>1, <4>2, <4>3 DEF BalanceInv, TypeOK
    <3> QED
      BY <3>1, <3>2
  <2> HIDE DEF m
  <2>5. /\ \A j \in Peers : fails'[j] <= streak'[j]
        /\ \A j \in Peers : down'[j] /\ ~down[j] => streak'[j] = MaxFails
    BY <2>2, <2>3, <2>4 DEF BalanceInv, TypeOK
  <2> QED
    BY <2>1, <2>2, <2>3, <2>5 DEF BalanceInv, TypeOK, WeightsBalanced, HealthTypes
<1>3. ASSUME NEW i \in Peers, Passes(i)
      PROVE  BalanceInv' /\ \A j \in Peers : ~(down'[j] /\ ~down[j])
  BY <1>3 DEF Passes, TimePasses, BalanceInv, TypeOK, WeightsBalanced
<1>4. CASE UNCHANGED vars
  BY <1>4 DEF vars, groupVars, BalanceInv, TypeOK, WeightsBalanced
<1> QED
  BY <1>1, <1>2, <1>3, <1>4 DEF Next

\* The state of every peer keeps its type; a failure count stays below max_fails.
THEOREM TypeCorrect == Spec => []TypeOK
<1>1. BalanceInv => TypeOK
  BY DEF BalanceInv
<1>2. BalanceInv /\ [Next]_vars => BalanceInv'
  BY BalanceNext
<1> QED
  BY BalanceInit, <1>1, <1>2, PTL DEF Spec

\* The weights of pick always sum to zero, whichever peers were eligible.
THEOREM Balanced == Spec => []WeightsBalanced
<1>1. BalanceInv => WeightsBalanced
  BY DEF BalanceInv
<1>2. BalanceInv /\ [Next]_vars => BalanceInv'
  BY BalanceNext
<1> QED
  BY BalanceInit, <1>1, <1>2, PTL DEF Spec

\* report takes a peer down only after MaxFails failures within a window with no
\* success between them.
THEOREM DownEarned == Spec => DownIsEarned
<1>1. BalanceInv /\ [Next]_vars => BalanceInv'
  BY BalanceNext
<1>2. BalanceInv /\ [Next]_vars =>
        [\A i \in Peers : down'[i] /\ ~down[i] => streak'[i] = MaxFails]_vars
  BY BalanceNext
<1> QED
  BY BalanceInit, <1>1, <1>2, PTL DEF Spec, DownIsEarned

-----------------------------------------------------------------------------
(* How far weights drift                                                   *)

\* What a group of peers together may be short of: most when it is half of all.
DriftInv ==
  \A A \in SUBSET Peers :
    2 * Sums(weight, A)[NPeers] >= -(Total * Count(A) * (NPeers - Count(A)))

\* The arithmetic of a pick that takes V from a group of k of N peers, of weight s,
\* through its member of weight w: without that member the group would be short
\* of enough, and together with the m peers that gained V, of weight j.
LEMMA PayArithmetic ==
  ASSUME NEW T \in Int, NEW V \in Int, NEW g \in Int, NEW k \in Int, NEW m \in Int,
         NEW N \in Int, NEW s \in Int, NEW w \in Int, NEW j \in Int,
         2 * (s - w) >= -(T * (k - 1) * (N - (k - 1))),
         2 * (s + j) >= -(T * (k + m) * (N - (k + m))),
         j + V <= (w + g) * m, V + g <= T, V >= 0, g >= 0, m >= 1
  PROVE  2 * (s - V) >= -(T * k * (N - k))
<1> DEFINE X == 2 * s + T * k * (N - k)
<1>0. X \in Int /\ T >= 0 /\ \A x, y \in Int : x >= 0 /\ y >= 0 => x * y >= 0
  OBVIOUS
<1>1. X + T * (2 * k - N - 1) - 2 * w >= 0
  <2>1. T * (k - 1) * (N - (k - 1)) = T * k * (N - k) + T * (2 * k - N - 1)
    OBVIOUS
  <2> QED
    BY <2>1
<1>2. m * (X + T * (2 * k - N - 1) - 2 * w) >= 0
  <2>1. X + T * (2 * k - N - 1) - 2 * w \in Int /\ m >= 0
    OBVIOUS
  <2> HIDE DEF X
  <2> QED
    BY <1>0, <1>1, <2>1
<1>3. 2 * j + X + T * m * (N - 2 * k - m) >= 0
  <2>1. T * (k + m) * (N - (k + m)) = T * k * (N - k) + T * m * (N - 2 * k - m)
    OBVIOUS
  <2> QED
    BY <2>1
<1>4. 2 * j + 2 * V <= 2 * (w * m) + 2 * (g * m)
  <2>1. (w + g) * m = w * m + g * m
    OBVIOUS
  <2> QED
    BY <2>1
<1> HIDE DEF X
<1>5. (m + 1) * X >= 2 * V + T * m * (m + 1) - 2 * (g * m)
  <2>1. m * (X + T * (2 * k - N - 1) - 2 * w) = m * X + T * m * (2 * k - N - 1) - 2 * (w * m)
    BY <1>0
  <2>2. T * m * (2 * k - N - 1) + T * m * (N - 2 * k - m) = -(T * m * (m + 1))
    OBVIOUS
  <2>3. (m + 1) * X = m * X + X
    BY <1>0
  <2> DEFINE p == T * m * (2 * k - N - 1)
             q == T * m * (N - 2 * k - m)
             r == T * m * (m + 1)
             y == m * X
             wm == w * m
             gm == g * m
  <2>4. p \in Int /\ q \in Int /\ r \in Int /\ y \in Int /\ wm \in Int /\ gm \in Int
    BY <1>0
  <2>5. /\ y + p - 2 * wm >= 0 /\ 2 * j + X + q >= 0 /\ 2 * j + 2 * V <= 2 * wm + 2 * gm
        /\ p + q = -r /\ (m + 1) * X = y + X
    BY <1>2, <1>3, <1>4, <2>1, <2>2, <2>3
  <2>6. (m + 1) * X >= 2 * V + r - 2 * gm
    <3> HIDE DEF p, q, r, y, wm, gm
    <3> QED
      BY <1>0, <2>4, <2>5
  <2> QED
    BY <2>6
<1>6. X >= 2 * V
  <2>1. SUFFICES ASSUME X < 2 * V PROVE FALSE
    BY <1>0
  <2> DEFINE d == T * (m + 1) - 2 * g - 2 * V
  <2>2. d >= 0
    <3>1. T * (m + 1) = T * 2 + T * (m - 1) /\ T * (m - 1) >= 0
      BY <1>0
    <3> QED
      BY <3>1
  <2>3. m * d >= 0 /\ d \in Int
    <3>1. d \in Int /\ m >= 0
      OBVIOUS
    <3> HIDE DEF d
    <3> QED
      BY <1>0, <2>2, <3>1
  <2>4. m * d = T * m * (m + 1) - 2 * (g * m) - 2 * (V * m)
    OBVIOUS
  <2>5. (m + 1) * (2 * V - X) = 2 * (V * m) + 2 * V - (m + 1) * X /\ (m + 1) * (2 * V - X) > 0
    BY <1>0, <2>1
  <2> HIDE DEF d
  <2> QED
    BY <1>0, <1>5, <2>3, <2>4, <2>5
<1> QED
  BY <1>0, <1>6 DEF X

\* What a group has together after a pick: what it had, what its eligible peers
\* gained, and less the price if the chosen one is of it.
LEMMA PaidWithin ==
  ASSUME weight \in [Peers -> Int], NEW E \in SUBSET Peers, E # {}, NEW A \in SUBSET Peers
  PROVE  Sums(Paid(E), A)[NPeers] =
           Sums(weight, A)[NPeers] + Sums(Weight, A \cap E)[NPeers]
             - (IF Best(E) \in A THEN Price(E) ELSE 0)
<1> DEFINE b == Best(E)
           p == Price(E)
           z == [i \in Peers |-> IF i = b THEN -p ELSE 0]
           r == Raised(E)
<1>0. /\ Weight \in [Peers -> Int] /\ NPeers \in 0..NPeers
      /\ b \in E /\ b \in Peers /\ p \in Int /\ z \in [Peers -> Int] /\ r \in [Peers -> Int]
      /\ Sums(weight, A)[NPeers] \in Int /\ Sums(Weight, A \cap E)[NPeers] \in Int
  <2>1. Weight \in [Peers -> Int] /\ NPeers \in 0..NPeers
    BY GroupAssumption
  <2>2. b \in E /\ p \in Int
    BY BestIsBest, PriceInt
  <2>3. Sums(weight, A)[NPeers] \in Int /\ Sums(Weight, A \cap E)[NPeers] \in Int
    BY <2>1, SumsInt
  <2> QED
    BY <2>1, <2>2, <2>3 DEF Raised
<1> HIDE DEF b, p
<1>1. Paid(E) = [r EXCEPT ![b] = r[b] - p] /\ Paid(E) \in [Peers -> Int]
  BY <1>0 DEF Paid, b, p
<1>2. Sums(r, A)[NPeers] = Sums(weight, A)[NPeers] + Sums(Weight, A \cap E)[NPeers]
  <2>1. ASSUME NEW n \in Peers PROVE At(r, A, n) = At(weight, A, n) + At(Weight, A \cap E, n)
    <3>1. weight[n] \in Int /\ Weight[n] \in Int
      BY <1>0
    <3> QED
      BY <3>1 DEF At, Raised
  <2>2. Splits(r, A, weight, A, Weight, A \cap E)
    BY <2>1 DEF Splits
  <2> HIDE DEF r
  <2> QED
    BY <1>0, <2>2, SumsPlus
<1> HIDE DEF r
<1>3. CASE b \notin A
  <2>1. ASSUME NEW n \in Peers PROVE At(Paid(E), A, n) = At(r, A, n) + At(One, {}, n)
    BY <1>0, <1>1, <1>3 DEF At
  <2>2. One \in [Peers -> Int] /\ Splits(Paid(E), A, r, A, One, {})
    BY <2>1 DEF One, Splits
  <2>3. Sums(Paid(E), A)[NPeers] = Sums(r, A)[NPeers] + Sums(One, {})[NPeers]
    <3>1. Paid(E) \in [Peers -> Int] /\ r \in [Peers -> Int]
      BY <1>0, <1>1
    <3> HIDE DEF z
    <3> QED
      BY <2>2, <3>1, SumsPlus
  <2>4. Sums(One, {})[NPeers] = 0 /\ Sums(r, A)[NPeers] \in Int
    BY <1>0, Counts, SumsInt DEF Count
  <2>5. Sums(Paid(E), A)[NPeers] = Sums(r, A)[NPeers] - (IF b \in A THEN p ELSE 0)
    BY <1>3, <2>3, <2>4
  <2>6. Sums(Paid(E), A)[NPeers] = Sums(weight, A)[NPeers] + Sums(Weight, A \cap E)[NPeers]
                                     - (IF b \in A THEN p ELSE 0)
    BY <1>0, <1>2, <2>5
  <2> QED
    BY <2>6 DEF b, p
<1>4. CASE b \in A
  <2>1. ASSUME NEW n \in Peers PROVE At(Paid(E), A, n) = At(r, A, n) + At(z, {b}, n)
    BY <1>0, <1>1, <1>4 DEF At
  <2>2. Sums(Paid(E), A)[NPeers] = Sums(r, A)[NPeers] + Sums(z, {b})[NPeers]
    <3>1. Splits(Paid(E), A, r, A, z, {b})
      BY <2>1 DEF Splits
    <3>2. Paid(E) \in [Peers -> Int] /\ r \in [Peers -> Int] /\ z \in [Peers -> Int]
      BY <1>0, <1>1
    <3> HIDE DEF z
    <3> QED
      BY <3>1, <3>2, SumsPlus
  <2>3. Sums(z, {b})[NPeers] = -p
    <3>1. z[b] = -p
      BY <1>0
    <3> HIDE DEF z
    <3> QED
      BY <1>0, <3>1, SumsOne
  <2>4. Sums(r, A)[NPeers] \in Int
    BY <1>0, SumsInt
  <2>5. Sums(Paid(E), A)[NPeers] = Sums(r, A)[NPeers] - (IF b \in A THEN p ELSE 0)
    BY <1>0, <1>4, <2>2, <2>3, <2>4
  <2>6. Sums(Paid(E), A)[NPeers] = Sums(weight, A)[NPeers] + Sums(Weight, A \cap E)[NPeers]
                                     - (IF b \in A THEN p ELSE 0)
    BY <1>0, <1>2, <2>5
  <2> QED
    BY <2>6 DEF b, p
<1> QED
  BY <1>3, <1>4

\* Disjoint groups add up, of whatever is summed.
LEMMA SumsSplit ==
  ASSUME NEW f \in [Peers -> Int], NEW B \in SUBSET Peers, NEW C \in SUBSET Peers, B \cap C = {}
  PROVE  Sums(f, B \cup C)[NPeers] = Sums(f, B)[NPeers] + Sums(f, C)[NPeers]
<1>1. ASSUME NEW n \in Peers PROVE At(f, B \cup C, n) = At(f, B, n) + At(f, C, n)
  <2>1. f[n] \in Int
    OBVIOUS
  <2> QED
    BY <2>1 DEF At
<1>2. Splits(f, B \cup C, f, B, f, C)
  BY <1>1 DEF Splits
<1> QED
  BY <1>2, SumsPlus

\* No sum of the configured weights is negative.
LEMMA WeighsSomething == \A A : Sums(Weight, A)[NPeers] \in Int /\ Sums(Weight, A)[NPeers] >= 0
<1> TAKE A
<1> DEFINE z == [i \in Peers |-> 0 - Weight[i]]
<1>0. /\ Weight \in [Peers -> Int] /\ NPeers \in 0..NPeers /\ \A n \in Peers : Weight[n] >= 0
      /\ z \in [Peers -> Int]
  BY GroupAssumption
<1>1. Sums(z, A)[NPeers] <= 0 * Count(A) /\ Count(A) \in Int
  <2>1. \A n \in Peers : n \in A => z[n] <= 0
    BY <1>0
  <2>2. Count(A) \in Int
    BY Counts
  <2> HIDE DEF z
  <2> QED
    BY <1>0, <2>1, <2>2, SumsBound
<1>2. ASSUME NEW n \in Peers PROVE At(One, {}, n) = At(Weight, A, n) + At(z, A, n)
  <2>1. Weight[n] \in Int /\ z[n] = 0 - Weight[n]
    BY <1>0
  <2> QED
    BY <2>1 DEF At
<1>3. One \in [Peers -> Int] /\ Count({}) = 0
  BY Counts DEF One
<1>a. Splits(One, {}, Weight, A, z, A)
  BY <1>2 DEF Splits
<1> HIDE DEF z
<1>4. Count({}) = Sums(Weight, A)[NPeers] + Sums(z, A)[NPeers]
  BY <1>0, <1>a, <1>3, SumsPlus DEF Count
<1>5. Sums(Weight, A)[NPeers] \in Int /\ Sums(z, A)[NPeers] \in Int
  BY <1>0, SumsInt
<1> QED
  BY <1>1, <1>3, <1>4, <1>5

\* No pick leaves a group shorter than that.
LEMMA PaidDrift ==
  ASSUME weight \in [Peers -> Int], DriftInv, NEW E \in SUBSET Peers, E # {},
         weight' = Paid(E)
  PROVE  DriftInv'
<1> DEFINE b == Best(E)
           T == Total
           N == NPeers
           S(A) == Sums(weight, A)[N]
           G(A) == Sums(Weight, A)[N]
<1>0. /\ N \in Nat /\ N \in 0..N /\ Weight \in [Peers -> Int] /\ b \in E /\ b \in Peers
      /\ T = G(Peers) /\ (\A A : G(A) \in Int /\ G(A) >= 0) /\ Price(E) = G(E)
      /\ \A A : S(A) \in Int
      /\ \A A : Count(A) \in Nat
  <2>1. N \in Nat /\ N \in 0..N /\ Weight \in [Peers -> Int]
    BY GroupAssumption
  <2>2. b \in E
    BY BestIsBest
  <2>3. \A A : S(A) \in Int
    BY <2>1, SumsInt
  <2>4. \A A : Count(A) \in Nat
    BY <2>1, Counts
  <2> QED
    BY <2>1, <2>2, <2>3, <2>4, WeighsSomething DEF Total, Price
<1>1. SUFFICES ASSUME NEW A \in SUBSET Peers
               PROVE  2 * Sums(weight', A)[N] >= -(T * Count(A) * (N - Count(A)))
  BY DEF DriftInv, Total
<1>2. Sums(weight', A)[N] = S(A) + G(A \cap E) - (IF b \in A THEN G(E) ELSE 0)
  BY <1>0, PaidWithin
<1>3. 2 * S(A) >= -(T * Count(A) * (N - Count(A)))
  BY DEF DriftInv
<1> DEFINE J == E \ A
           k == Count(A)
           m == Count(J)
           w == weight[b]
           g == Weight[b]
           V == G(J)
<1>4. G(E) = G(A \cap E) + V
  <2>1. (A \cap E) \cup J = E /\ (A \cap E) \cap J = {} /\ A \cap E \in SUBSET Peers /\ J \in SUBSET Peers
    OBVIOUS
  <2> QED
    BY <1>0, <2>1, SumsSplit
<1>5. k \in Int /\ m \in Int /\ w \in Int /\ g \in Int /\ V \in Int /\ T \in Int /\ V >= 0 /\ g >= 0
  BY <1>0, GroupAssumption
<1>6. CASE b \notin A \/ J = {}
  <2>1. Sums(weight', A)[N] >= S(A)
    <3>1. CASE b \notin A
      BY <1>0, <1>2, <3>1
    <3>2. CASE b \in A /\ J = {}
      <4>1. A \cap E = E
        BY <3>2
      <4> QED
        BY <1>0, <1>2, <3>2, <4>1
    <3> QED
      BY <1>6, <3>1, <3>2
  <2>2. Sums(weight', A)[N] \in Int
    BY <1>0, <1>2
  <2>3. T * Count(A) * (N - Count(A)) \in Int /\ S(A) \in Int
    BY <1>0
  <2> HIDE DEF S, T
  <2> QED
    BY <1>3, <2>1, <2>2, <2>3
<1>7. CASE b \in A /\ J # {}
  <2>1. Sums(weight', A)[N] = S(A) - V
    <3> HIDE DEF S, G, V
    <3> QED
      BY <1>0, <1>2, <1>4, <1>5, <1>7
  <2>2. S(A \ {b}) = S(A) - w /\ Count(A \ {b}) = k - 1
    <3>1. A = (A \ {b}) \cup {b} /\ (A \ {b}) \cap {b} = {} /\ A \ {b} \in SUBSET Peers /\ {b} \in SUBSET Peers
      BY <1>0, <1>7
    <3>2. S(A) = S(A \ {b}) + S({b}) /\ S({b}) = w
      BY <1>0, <3>1, SumsSplit, SumsOne
    <3>3. One \in [Peers -> Int] /\ One[b] = 1
      BY <1>0 DEF One
    <3>4. Count(A) = Count(A \ {b}) + Count({b}) /\ Count({b}) = 1
      BY <1>0, <3>1, <3>3, SumsSplit, SumsOne DEF Count
    <3> HIDE DEF S
    <3> QED
      BY <1>0, <1>5, <3>2, <3>4
  <2>3. S(A \cup J) = S(A) + S(J) /\ Count(A \cup J) = k + m
    <3>1. A \cap J = {} /\ J \in SUBSET Peers /\ One \in [Peers -> Int]
      BY DEF One
    <3> QED
      BY <3>1, SumsSplit DEF Count
  <2>4. 2 * (S(A) - w) >= -(T * (k - 1) * (N - (k - 1)))
    <3>1. 2 * S(A \ {b}) >= -(T * Count(A \ {b}) * (N - Count(A \ {b})))
      <4>1. A \ {b} \in SUBSET Peers
        OBVIOUS
      <4> QED
        BY <4>1, Zenon DEF DriftInv
    <3> QED
      BY <2>2, <3>1
  <2>5. 2 * (S(A) + S(J)) >= -(T * (k + m) * (N - (k + m)))
    <3>1. 2 * S(A \cup J) >= -(T * Count(A \cup J) * (N - Count(A \cup J)))
      <4>1. A \cup J \in SUBSET Peers
        OBVIOUS
      <4> QED
        BY <4>1, Zenon DEF DriftInv
    <3> QED
      BY <2>3, <3>1
  <2>6. S(J) + V <= (w + g) * m
    <3> DEFINE r == Raised(E)
    <3>1. /\ r \in [Peers -> Int] /\ r[b] = w + g
          /\ \A n \in Peers : n \in J => r[n] = weight[n] + Weight[n]
      BY <1>0 DEF Raised
    <3>2. ASSUME NEW n \in Peers, n \in J PROVE r[n] <= r[b]
      <4>1. ~Beats(E, n, b)
        BY <3>2, BestIsBest
      <4>2. r[n] \in Int /\ r[b] \in Int
        BY <1>0, <3>1
      <4> QED
        BY <4>1, <4>2 DEF Beats
    <3>3. ASSUME NEW n \in Peers PROVE At(r, J, n) = At(weight, J, n) + At(Weight, J, n)
      <4>1. weight[n] \in Int /\ Weight[n] \in Int
        BY <1>0
      <4> HIDE DEF J, r
      <4> QED
        BY <3>1, <4>1 DEF At
    <3>a. Splits(r, J, weight, J, Weight, J)
      BY <3>3 DEF Splits
    <3> HIDE DEF r, J
    <3>4. Sums(r, J)[N] = S(J) + V
      BY <1>0, <3>1, <3>a, SumsPlus
    <3>5. r[b] \in Int
      BY <1>0, <3>1
    <3>6. Sums(r, J)[N] <= r[b] * m
      BY <3>1, <3>2, <3>5, SumsBound
    <3> QED
      BY <3>1, <3>4, <3>6
  <2>7. V + g <= T
    <3> DEFINE K == Peers \ (J \cup {b})
    <3>1. /\ J \cap {b} = {} /\ J \cup {b} \in SUBSET Peers /\ {b} \in SUBSET Peers
          /\ J \in SUBSET Peers /\ (J \cup {b}) \cup K = Peers
          /\ (J \cup {b}) \cap K = {} /\ K \in SUBSET Peers
      BY <1>0, <1>7
    <3> HIDE DEF K, J
    <3>2. G(Peers) = G(J \cup {b}) + G(K) /\ G(J \cup {b}) = G(J) + G({b}) /\ G({b}) = g
      BY <1>0, <3>1, SumsSplit, SumsOne
    <3>3. G(J) \in Int /\ G({b}) \in Int /\ G(K) \in Int /\ G(K) >= 0 /\ T = G(Peers)
      BY <1>0
    <3> HIDE DEF G, T
    <3> QED
      BY <1>5, <3>2, <3>3 DEF V
  <2>8. m >= 1
    <3>1. J \cap Peers # {}
      BY <1>7
    <3> HIDE DEF J
    <3> QED
      BY <1>5, <3>1, Counts
  <2>9. S(A) \in Int /\ S(J) \in Int /\ N \in Int
    BY <1>0
  <2> HIDE DEF S, G, V, J, k, m, w, g, T, N
  <2>10. 2 * (S(A) - V) >= -(T * k * (N - k))
    BY <1>5, <2>4, <2>5, <2>6, <2>7, <2>8, <2>9, PayArithmetic
  <2> QED
    BY <2>1, <2>10 DEF k
<1> QED
  BY <1>6, <1>7

\* A fresh group is short of nothing ...
LEMMA DriftInit == Init => DriftInv
<1> SUFFICES ASSUME Init, NEW A \in SUBSET Peers
             PROVE  2 * Sums(weight, A)[NPeers] >= -(Total * Count(A) * (NPeers - Count(A)))
  BY DEF DriftInv
<1>1. weight \in [Peers -> Int] /\ One \in [Peers -> Int] /\ \A n \in Peers : weight[n] = 0
  BY DEF Init, GroupInit, One
<1>2. Splits(weight, A, One, {}, One, {})
  BY <1>1 DEF Splits, At
<1>3. Sums(weight, A)[NPeers] = Count({}) + Count({})
  BY <1>1, <1>2, SumsPlus DEF Count
<1>4. Total \in Nat /\ Count(A) \in Nat /\ NPeers - Count(A) \in Nat /\ Count({}) = 0
  <2>1. Count(A) \in 0..NPeers /\ Count({}) = 0 /\ NPeers \in Nat
    BY Counts, GroupAssumption
  <2> QED
    BY <2>1, WeighsSomething DEF Total
<1>5. \A x, y, z \in Nat : x * y * z >= 0 /\ x * y * z \in Int
  OBVIOUS
<1>6. Total * Count(A) * (NPeers - Count(A)) >= 0 /\ Total * Count(A) * (NPeers - Count(A)) \in Int
  BY <1>4, <1>5
<1> QED
  BY <1>3, <1>4, <1>6

\* ... and only picks change weights.
LEMMA DriftNext == BalanceInv /\ DriftInv /\ [Next]_vars => DriftInv'
<1> SUFFICES ASSUME BalanceInv, DriftInv, [Next]_vars PROVE DriftInv'
  OBVIOUS
<1>1. ASSUME NEW tried \in SUBSET Peers, PickFor(tried) PROVE DriftInv'
  <2> DEFINE E == Candidates(tried)
  <2>1. E \in SUBSET Peers /\ E # {} /\ weight' = Paid(E)
    BY <1>1 DEF PickFor, Pick, Candidates, Eligible
  <2>2. weight \in [Peers -> Int]
    BY DEF BalanceInv, TypeOK
  <2> HIDE DEF E
  <2> QED
    BY <2>1, <2>2, PaidDrift
<1>2. ASSUME weight' = weight PROVE DriftInv'
  BY <1>2 DEF DriftInv
<1> QED
  BY <1>1, <1>2 DEF Next, ReportOn, Passes, TimePasses, vars, groupVars

\* For any peers and weights: no current_weight of pick drifts further from zero
\* than half the sum of all weights for every other peer.
THEOREM DriftBounded == Spec => []NoDrift
<1>1. BalanceInv /\ DriftInv => NoDrift
  <2> SUFFICES ASSUME BalanceInv, DriftInv, NEW i \in Peers
               PROVE  /\ 2 * weight[i] <= Total * (NPeers - 1)
                      /\ -(2 * weight[i]) <= Total * (NPeers - 1)
    BY DEF NoDrift
  <2> DEFINE R == Peers \ {i}
             w == weight[i]
             s == Sums(weight, R)[NPeers]
  <2>1. /\ NPeers \in Nat /\ NPeers \in 0..NPeers /\ weight \in [Peers -> Int] /\ w \in Int
        /\ One \in [Peers -> Int] /\ One[i] = 1 /\ Total \in Int
        /\ Sums(weight, Peers)[NPeers] = 0
    BY GroupAssumption, WeighsSomething DEF BalanceInv, TypeOK, WeightsBalanced, One, Total
  <2>2. {i} \cup R = Peers /\ {i} \cap R = {} /\ {i} \in SUBSET Peers /\ R \in SUBSET Peers
    OBVIOUS
  <2> HIDE DEF R
  <2>3. Sums(weight, {i})[NPeers] = w /\ Sums(weight, Peers)[NPeers] = Sums(weight, {i})[NPeers] + s
    BY <2>1, <2>2, SumsOne, SumsSplit
  <2>4. Count({i}) = 1 /\ Count(Peers) = Count({i}) + Count(R) /\ Count(Peers) = NPeers
    BY <2>1, <2>2, SumsOne, SumsSplit, Counts DEF Count
  <2>5. s \in Int /\ Count(R) \in Int
    BY <2>1, SumsInt, Counts
  <2>6. /\ 2 * Sums(weight, {i})[NPeers] >= -(Total * Count({i}) * (NPeers - Count({i})))
        /\ 2 * s >= -(Total * Count(R) * (NPeers - Count(R)))
    BY <2>2, Zenon DEF DriftInv
  <2> HIDE DEF w, s
  <2>7. s = -w /\ Count(R) = NPeers - 1
    BY <2>1, <2>3, <2>4, <2>5
  <2>8. /\ 2 * w >= -(Total * 1 * (NPeers - 1))
        /\ 2 * (-w) >= -(Total * (NPeers - 1) * (NPeers - (NPeers - 1)))
    BY <2>3, <2>4, <2>6, <2>7
  <2>9. /\ Total * 1 * (NPeers - 1) = Total * (NPeers - 1)
        /\ Total * (NPeers - 1) * (NPeers - (NPeers - 1)) = Total * (NPeers - 1)
        /\ Total * (NPeers - 1) \in Int
    BY <2>1
  <2> QED
    BY <2>1, <2>8, <2>9 DEF w
<1>2. BalanceInv /\ [Next]_vars => BalanceInv'
  BY BalanceNext
<1> QED
  BY BalanceInit, DriftInit, DriftNext, <1>1, <1>2, PTL DEF Spec
===========================================================================
