---------------------------- MODULE BundlesProofs ----------------------------
(***************************************************************************)
(* What priceBundle does with the margin of any members, by induction over  *)
(* its sums, its turns and its rounds; and the inductive invariant of       *)
(* Bundles with what follows from it, for any number of requests, bundles   *)
(* and products, and any contents.                                          *)
(***************************************************************************)
EXTENDS Bundles, FiniteSetTheorems, WellFoundedInduction, TLAPS

-----------------------------------------------------------------------------
(* Recursive functions *)

LEMMA LeastNat ==
  ASSUME NEW S, S \subseteq Nat, S # {}
  PROVE  \E m \in S : \A n \in S : m <= n
<1>1. PICK m \in S : \A n \in S : <<n, m>> \notin OpToRel(<, Nat)
  BY NatLessThanWellFounded, WFMin
<1>2. ASSUME NEW n \in S PROVE m <= n
  <2>1. <<n, m>> \notin OpToRel(<, Nat)
    BY <1>1
  <2>2. n \in Nat /\ m \in Nat
    OBVIOUS
  <2>3. ~(n < m)
    BY <2>1, <2>2 DEF OpToRel
  <2> QED BY <2>2, <2>3
<1> QED BY <1>2

\* Induction, in terms of the set of the numbers it is about.
LEMMA Induction ==
  ASSUME NEW S, 0 \in S, \A k \in Nat : k \in S => k + 1 \in S
  PROVE  Nat \subseteq S
<1> DEFINE Bad == Nat \ S
<1> SUFFICES ASSUME Bad # {} PROVE FALSE
  OBVIOUS
<1>1. PICK m \in Bad : \A n \in Bad : m <= n
  <2>1. Bad \subseteq Nat
    OBVIOUS
  <2> HIDE DEF Bad
  <2> QED BY <2>1, LeastNat
<1>2. m - 1 \in Nat /\ (m - 1) + 1 = m
  OBVIOUS
<1>3. m - 1 \notin Bad
  BY <1>1, <1>2
<1> QED BY <1>2, <1>3

\* f is a run of N steps from a, of which R[k] is the k-th.
IsRun(f, N, H, a, R) ==
  /\ f \in [0..N -> H]
  /\ f[0] = a /\ \A k \in 1..N : f[k] = R[k][f[k - 1]]

LEMMA Iterates ==
  ASSUME NEW N \in Nat, NEW H, NEW a \in H, NEW R \in [1..N -> [H -> H]]
  PROVE  \E f : IsRun(f, N, H, a, R)
<1> DEFINE Runs(m) == {f \in [0..m -> H] :
                         f[0] = a /\ \A k \in 1..m : f[k] = R[k][f[k - 1]]}
           S == {m \in Nat : m <= N => Runs(m) # {}}
<1>1. 0 \in S
  <2>1. [k \in 0..0 |-> a] \in Runs(0)
    OBVIOUS
  <2> QED BY <2>1
<1>2. ASSUME NEW m \in Nat, m \in S PROVE m + 1 \in S
  <2> SUFFICES ASSUME m + 1 <= N PROVE Runs(m + 1) # {}
    OBVIOUS
  <2>1. PICK f \in Runs(m) : TRUE
    BY <1>2
  <2> DEFINE g == [k \in 0..(m + 1) |-> IF k = m + 1 THEN R[m + 1][f[m]] ELSE f[k]]
  <2>2. f[m] \in H /\ R[m + 1] \in [H -> H]
    BY <2>1
  <2>3. g \in [0..(m + 1) -> H] /\ g[0] = a
    BY <2>1, <2>2
  <2>4. ASSUME NEW k \in 1..(m + 1) PROVE g[k] = R[k][g[k - 1]]
    <3>1. CASE k = m + 1
      <4>1. k - 1 = m /\ m \in 0..(m + 1) /\ m # m + 1
        BY <3>1
      <4>2. g[k - 1] = f[m]
        BY <4>1
      <4> QED BY <3>1, <4>2
    <3>2. CASE k # m + 1
      <4>1. /\ k \in 1..m /\ k - 1 \in 0..m
            /\ k \in 0..(m + 1) /\ k - 1 \in 0..(m + 1) /\ k - 1 # m + 1
        BY <3>2
      <4>2. g[k - 1] = f[k - 1] /\ g[k] = f[k]
        BY <3>2, <4>1
      <4> QED BY <2>1, <4>1, <4>2
    <3> QED BY <3>1, <3>2
  <2> HIDE DEF g
  <2>5. g \in Runs(m + 1)
    BY <2>3, <2>4
  <2> QED BY <2>5
<1>3. Nat \subseteq S
  <2> HIDE DEF S
  <2> QED BY <1>1, <1>2, Induction
<1>4. Runs(N) # {}
  BY <1>3
<1> QED BY <1>4 DEF IsRun

\* What follows the steps is a run.
LEMMA FollowsIsRun ==
  ASSUME NEW N \in Nat, NEW H, NEW a \in H, NEW R \in [1..N -> [H -> H]],
         NEW f, f = [k \in 0..N |-> f[k]], f[0] = a,
         \A k \in 0..(N - 1) : f[k] \in H => f[k + 1] = R[k + 1][f[k]]
  PROVE  IsRun(f, N, H, a, R)
<1> DEFINE S == {k \in Nat : k <= N => f[k] \in H}
<1>1. 0 \in S
  OBVIOUS
<1>2. ASSUME NEW k \in Nat, k \in S PROVE k + 1 \in S
  <2> SUFFICES ASSUME k + 1 <= N PROVE f[k + 1] \in H
    OBVIOUS
  <2>1. k \in 0..(N - 1) /\ k + 1 \in 1..N
    OBVIOUS
  <2>2. f[k] \in H /\ R[k + 1] \in [H -> H]
    BY <1>2, <2>1
  <2> QED BY <2>1, <2>2
<1>3. Nat \subseteq S
  <2> HIDE DEF S
  <2> QED BY <1>1, <1>2, Induction
<1>4. \A k \in 0..N : f[k] \in H
  BY <1>3
<1>5. ASSUME NEW k \in 1..N PROVE f[k] = R[k][f[k - 1]]
  <2>1. k - 1 \in 0..(N - 1) /\ (k - 1) + 1 = k /\ k - 1 \in 0..N
    OBVIOUS
  <2> QED BY <1>4, <2>1
<1>6. f \in [0..N -> H]
  BY <1>4
<1> QED BY <1>5, <1>6 DEF IsRun

\* What never grows from one step to the next never grows.
LEMMA NeverGrows ==
  ASSUME NEW N \in Nat, NEW f, \A k \in 0..N : f[k] \in Nat,
         \A k \in 1..N : f[k] <= f[k - 1],
         NEW m \in 0..N
  PROVE  \A k \in m..N : f[k] <= f[m]
<1> DEFINE S == {d \in Nat : m + d <= N => f[m + d] <= f[m]}
<1>1. 0 \in S
  OBVIOUS
<1>2. ASSUME NEW d \in Nat, d \in S PROVE d + 1 \in S
  <2> SUFFICES ASSUME m + (d + 1) <= N PROVE f[m + (d + 1)] <= f[m]
    OBVIOUS
  <2>1. /\ m + (d + 1) \in 1..N /\ m + d \in 0..N
        /\ (m + (d + 1)) - 1 = m + d
    OBVIOUS
  <2>2. f[m + (d + 1)] <= f[m + d]
    BY <2>1
  <2>3. f[m + d] <= f[m]
    BY <1>2, <2>1
  <2>4. /\ f[m + (d + 1)] \in Nat /\ f[m + d] \in Nat /\ f[m] \in Nat
    BY <2>1
  <2> QED BY <2>2, <2>3, <2>4
<1>3. Nat \subseteq S
  <2> HIDE DEF S
  <2> QED BY <1>1, <1>2, Induction
<1>4. ASSUME NEW k \in m..N PROVE f[k] <= f[m]
  <2>1. k - m \in Nat /\ m + (k - m) = k /\ k <= N
    OBVIOUS
  <2>2. k - m \in S
    BY <1>3, <2>1
  <2> QED BY <2>1, <2>2
<1> QED BY <1>4

-----------------------------------------------------------------------------
(* Sums *)

LEMMA IsSequence ==
  ASSUME NEW n \in Nat, NEW T, NEW f \in [1..n -> T]
  PROVE  f \in Seq(T) /\ Len(f) = n
OBVIOUS

\* The partial sums of n terms f.
AreSums(s, n, f) ==
  /\ s \in [0..n -> Int]
  /\ s[0] = 0
  /\ \A k \in 0..(n - 1) : s[k + 1] = s[k] + f[k + 1]

LEMMA SumsRecur ==
  ASSUME NEW n \in Nat, NEW f \in [1..n -> Int]
  PROVE  AreSums(Sums(f), n, f) /\ Total(f) = Sums(f)[n]
<1> DEFINE Adds(g) ==
             g = [k \in 0..n |-> IF k = 0 THEN 0 ELSE g[k - 1] + f[k]]
           R == [k \in 1..n |-> [v \in Int |-> v + f[k]]]
<1>1. Len(f) = n
  BY IsSequence
<1>2. Sums(f) = CHOOSE g : Adds(g)
  BY <1>1 DEF Sums
<1>3. PICK g : IsRun(g, n, Int, 0, R)
  <2>1. R \in [1..n -> [Int -> Int]] /\ 0 \in Int
    OBVIOUS
  <2> HIDE DEF R
  <2> QED BY <2>1, Iterates
<1>4. ASSUME NEW k \in 1..n PROVE g[k] = g[k - 1] + f[k]
  <2>1. k - 1 \in 0..n
    OBVIOUS
  <2> QED BY <1>3, <2>1 DEF IsRun
<1>5. Adds(g)
  BY <1>3, <1>4 DEF IsRun
<1> DEFINE h == Sums(f)
<1>6. Adds(h)
  <2> HIDE DEF Adds
  <2> QED BY <1>2, <1>5
<1>7. IsRun(h, n, Int, 0, R)
  <2>1. R \in [1..n -> [Int -> Int]] /\ 0 \in Int
    OBVIOUS
  <2>2. \A k \in 0..n : h[k] = IF k = 0 THEN 0 ELSE h[k - 1] + f[k]
    <3> HIDE DEF h
    <3> QED BY <1>6
  <2>3. h = [k \in 0..n |-> h[k]] /\ h[0] = 0
    <3> HIDE DEF h
    <3> QED BY <1>6
  <2>4. ASSUME NEW k \in 0..(n - 1), h[k] \in Int
        PROVE  h[k + 1] = R[k + 1][h[k]]
    <3>1. k + 1 \in 0..n /\ k + 1 # 0 /\ (k + 1) - 1 = k /\ k + 1 \in 1..n
      OBVIOUS
    <3> HIDE DEF h
    <3> QED BY <2>2, <2>4, <3>1
  <2> HIDE DEF h, R
  <2> QED BY <2>1, <2>3, <2>4, FollowsIsRun
<1>8. ASSUME NEW k \in 0..(n - 1) PROVE h[k + 1] = h[k] + f[k + 1]
  <2>1. k + 1 \in 1..n /\ (k + 1) - 1 = k /\ k \in 0..n
    OBVIOUS
  <2> HIDE DEF h
  <2> QED BY <1>7, <2>1 DEF IsRun
<1>9. h \in [0..n -> Int] /\ h[0] = 0
  BY <1>7 DEF IsRun
<1> QED BY <1>1, <1>8, <1>9 DEF Total, AreSums

\* Two sums are the sum of the terms added.
LEMMA TotalAdds ==
  ASSUME NEW n \in Nat, NEW f \in [1..n -> Int], NEW g \in [1..n -> Int],
         NEW h \in [1..n -> Int], \A i \in 1..n : h[i] = f[i] + g[i]
  PROVE  Total(h) = Total(f) + Total(g)
<1>0. /\ AreSums(Sums(f), n, f) /\ Total(f) = Sums(f)[n]
      /\ AreSums(Sums(g), n, g) /\ Total(g) = Sums(g)[n]
      /\ AreSums(Sums(h), n, h) /\ Total(h) = Sums(h)[n]
  BY SumsRecur
<1> DEFINE S == {k \in Nat : k <= n => Sums(h)[k] = Sums(f)[k] + Sums(g)[k]}
<1>1. 0 \in S
  BY <1>0 DEF AreSums
<1>2. ASSUME NEW k \in Nat, k \in S PROVE k + 1 \in S
  <2> SUFFICES ASSUME k + 1 <= n
               PROVE  Sums(h)[k + 1] = Sums(f)[k + 1] + Sums(g)[k + 1]
    OBVIOUS
  <2>1. k + 1 \in 1..n /\ (k + 1) - 1 = k /\ k \in 0..n /\ k \in 0..(n - 1)
    OBVIOUS
  <2>2. /\ Sums(h)[k + 1] = Sums(h)[k] + h[k + 1]
        /\ Sums(f)[k + 1] = Sums(f)[k] + f[k + 1]
        /\ Sums(g)[k + 1] = Sums(g)[k] + g[k + 1]
    BY <1>0, <2>1 DEF AreSums
  <2>3. Sums(h)[k] \in Int /\ Sums(f)[k] \in Int /\ Sums(g)[k] \in Int
    BY <1>0, <2>1 DEF AreSums
  <2>4. Sums(h)[k] = Sums(f)[k] + Sums(g)[k]
    BY <1>2, <2>1
  <2>5. /\ h[k + 1] = f[k + 1] + g[k + 1]
        /\ f[k + 1] \in Int /\ g[k + 1] \in Int
    BY <2>1
  <2> QED BY <2>2, <2>3, <2>4, <2>5
<1>3. n \in S
  <2> HIDE DEF S
  <2>1. Nat \subseteq S
    BY <1>1, <1>2, Induction
  <2> QED BY <2>1
<1> QED BY <1>0, <1>3

\* A bound on the terms, scaled by c, is one on the sum.
LEMMA TotalScaled ==
  ASSUME NEW n \in Nat, NEW f \in [1..n -> Int], NEW w \in [1..n -> Int],
         NEW m \in Int, NEW c \in Int,
         \A i \in 1..n : f[i] * m <= c * w[i]
  PROVE  Total(f) * m <= c * Total(w)
<1>0. /\ AreSums(Sums(f), n, f) /\ Total(f) = Sums(f)[n]
      /\ AreSums(Sums(w), n, w) /\ Total(w) = Sums(w)[n]
  BY SumsRecur
<1> DEFINE S == {k \in Nat : k <= n => Sums(f)[k] * m <= c * Sums(w)[k]}
<1>1. 0 \in S
  <2>1. Sums(f)[0] = 0 /\ Sums(w)[0] = 0
    BY <1>0 DEF AreSums
  <2>2. 0 * m = 0 /\ c * 0 = 0
    OBVIOUS
  <2> QED BY <2>1, <2>2
<1>2. ASSUME NEW k \in Nat, k \in S PROVE k + 1 \in S
  <2> SUFFICES ASSUME k + 1 <= n
               PROVE  Sums(f)[k + 1] * m <= c * Sums(w)[k + 1]
    OBVIOUS
  <2>1. k + 1 \in 1..n /\ (k + 1) - 1 = k /\ k \in 0..n /\ k \in 0..(n - 1)
    OBVIOUS
  <2>2. /\ Sums(f)[k + 1] = Sums(f)[k] + f[k + 1]
        /\ Sums(w)[k + 1] = Sums(w)[k] + w[k + 1]
    BY <1>0, <2>1 DEF AreSums
  <2>3. Sums(f)[k] \in Int /\ Sums(w)[k] \in Int
    BY <1>0, <2>1 DEF AreSums
  <2>4. Sums(f)[k] * m <= c * Sums(w)[k]
    BY <1>2, <2>1
  <2>5. /\ f[k + 1] * m <= c * w[k + 1]
        /\ f[k + 1] \in Int /\ w[k + 1] \in Int
    BY <2>1
  <2>6. /\ (Sums(f)[k] + f[k + 1]) * m = Sums(f)[k] * m + f[k + 1] * m
        /\ c * (Sums(w)[k] + w[k + 1]) = c * Sums(w)[k] + c * w[k + 1]
    BY <2>3, <2>5
  <2>7. /\ Sums(f)[k] * m \in Int /\ f[k + 1] * m \in Int
        /\ c * Sums(w)[k] \in Int /\ c * w[k + 1] \in Int
    BY <2>3, <2>5
  <2> QED BY <2>2, <2>4, <2>5, <2>6, <2>7
<1>3. n \in S
  <2> HIDE DEF S
  <2>1. Nat \subseteq S
    BY <1>1, <1>2, Induction
  <2> QED BY <2>1
<1> QED BY <1>0, <1>3

\* g is f, but for d more at j.
IsMore(g, f, n, j, d) ==
  /\ g \in [1..n -> Int] /\ f \in [1..n -> Int]
  /\ g[j] = f[j] + d
  /\ \A i \in 1..n : i # j => g[i] = f[i]

\* More for one term is as much more for the sum.
LEMMA TotalMore ==
  ASSUME NEW n \in Nat, NEW f, NEW g, NEW j \in 1..n, NEW d \in Int,
         IsMore(g, f, n, j, d)
  PROVE  Total(g) = Total(f) + d
<1> USE DEF IsMore
<1>0. /\ AreSums(Sums(f), n, f) /\ Total(f) = Sums(f)[n]
      /\ AreSums(Sums(g), n, g) /\ Total(g) = Sums(g)[n]
  BY SumsRecur
<1> DEFINE S == {k \in Nat : k <= n =>
                   Sums(g)[k] = Sums(f)[k] + (IF k < j THEN 0 ELSE d)}
<1>1. 0 \in S
  BY <1>0 DEF AreSums
<1>2. ASSUME NEW k \in Nat, k \in S PROVE k + 1 \in S
  <2> SUFFICES ASSUME k + 1 <= n
               PROVE  Sums(g)[k + 1]
                        = Sums(f)[k + 1] + (IF k + 1 < j THEN 0 ELSE d)
    OBVIOUS
  <2>1. k + 1 \in 1..n /\ (k + 1) - 1 = k /\ k \in 0..n /\ k \in 0..(n - 1)
    OBVIOUS
  <2>2. /\ Sums(g)[k + 1] = Sums(g)[k] + g[k + 1]
        /\ Sums(f)[k + 1] = Sums(f)[k] + f[k + 1]
    BY <1>0, <2>1 DEF AreSums
  <2>3. Sums(g)[k] \in Int /\ Sums(f)[k] \in Int
    BY <1>0, <2>1 DEF AreSums
  <2>4. Sums(g)[k] = Sums(f)[k] + (IF k < j THEN 0 ELSE d)
    BY <1>2, <2>1
  <2>5. /\ g[k + 1] = IF k + 1 = j THEN f[k + 1] + d ELSE f[k + 1]
        /\ f[k + 1] \in Int /\ g[k + 1] \in Int
    BY <2>1
  <2>6. CASE k + 1 = j
    <3>1. k < j /\ ~(k + 1 < j)
      BY <2>6
    <3>2. g[k + 1] = f[k + 1] + d /\ f[k + 1] \in Int
      BY <2>5, <2>6
    <3>3. Sums(g)[k] = Sums(f)[k]
      BY <2>3, <2>4, <3>1
    <3>4. Sums(g)[k + 1] = Sums(f)[k + 1] + d
      BY <2>2, <2>3, <3>2, <3>3
    <3> QED BY <3>1, <3>4
  <2>7. CASE k + 1 # j
    <3>1. k + 1 < j <=> k < j
      BY <2>7
    <3>2. g[k + 1] = f[k + 1] /\ f[k + 1] \in Int
      BY <2>5, <2>7
    <3> QED BY <2>2, <2>3, <2>4, <3>1, <3>2
  <2> QED BY <2>6, <2>7
<1>3. n \in S
  <2> HIDE DEF S
  <2>1. Nat \subseteq S
    BY <1>1, <1>2, Induction
  <2> QED BY <2>1
<1>4. Sums(g)[n] = Sums(f)[n] + d
  BY <1>3
<1> QED BY <1>0, <1>4

LEMMA TotalIsInt ==
  ASSUME NEW n \in Nat, NEW f \in [1..n -> Int]
  PROVE  Total(f) \in Int
BY SumsRecur DEF AreSums

\* A sum of naturals is one.
LEMMA TotalIsNat ==
  ASSUME NEW n \in Nat, NEW f \in [1..n -> Nat]
  PROVE  Total(f) \in Nat
<1>1. f \in [1..n -> Int]
  OBVIOUS
<1>2. \A i \in 1..n : f[i] * (-1) <= 0 * f[i]
  OBVIOUS
<1>3. Total(f) \in Int
  BY <1>1, TotalIsInt
<1>4. Total(f) * (-1) <= 0 * Total(f)
  <2> DEFINE m == -1
             c == 0
  <2>1. m \in Int /\ c \in Int /\ \A i \in 1..n : f[i] * m <= c * f[i]
    BY <1>2
  <2> HIDE DEF m, c
  <2>2. Total(f) * m <= c * Total(f)
    BY <1>1, <2>1, TotalScaled
  <2> QED BY <2>2 DEF m, c
<1> QED BY <1>3, <1>4

-----------------------------------------------------------------------------
(* The turns *)

\* What a price is made of.
AreMembers(ms) ==
  /\ Len(ms) \in Nat /\ DOMAIN ms = 1..Len(ms)
  /\ \A i \in DOMAIN ms : ms[i].basePrice \in Nat /\ ms[i].qty \in Nat \ {0}

\* The members that have their turn before i.
Earlier(ms, i) == {j \in DOMAIN ms : Before(ms, j, i)}

LEMMA IntervalSize ==
  ASSUME NEW a \in Int, NEW b \in Int, a <= b + 1
  PROVE  IsFiniteSet(a..b) /\ Cardinality(a..b) = b - a + 1
<1>1. /\ IsFiniteSet(a..b)
      /\ Cardinality(a..b) = IF a > b THEN 0 ELSE b - a + 1
  BY FS_Interval
<1> QED BY <1>1

LEMMA EarlierIsFinite ==
  ASSUME NEW ms, AreMembers(ms), NEW i \in DOMAIN ms
  PROVE  /\ IsFiniteSet(Earlier(ms, i)) /\ Rank(ms, i) \in 0..(Len(ms) - 1)
         /\ Rank(ms, i) = Cardinality(Earlier(ms, i))
<1>1. /\ IsFiniteSet(DOMAIN ms) /\ Cardinality(DOMAIN ms) = Len(ms)
  <2> DEFINE n == Len(ms)
             one == 1
  <2>1. n \in Int /\ DOMAIN ms = one..n /\ one \in Int /\ one <= n + 1
        /\ n - one + 1 = n
    BY DEF AreMembers
  <2> HIDE DEF n, one
  <2>2. IsFiniteSet(one..n) /\ Cardinality(one..n) = n - one + 1
    BY <2>1, IntervalSize
  <2> QED BY <2>1, <2>2 DEF n
<1>2. /\ IsFiniteSet(DOMAIN ms \ {i})
      /\ Cardinality(DOMAIN ms \ {i}) = Len(ms) - 1
  BY <1>1, FS_RemoveElement
<1>3. Earlier(ms, i) \in SUBSET (DOMAIN ms \ {i})
  BY DEF Earlier, Before, AreMembers
<1>4. /\ IsFiniteSet(Earlier(ms, i)) /\ Cardinality(Earlier(ms, i)) \in Nat
      /\ Cardinality(Earlier(ms, i)) <= Cardinality(DOMAIN ms \ {i})
  BY <1>2, <1>3, FS_Subset, FS_CardinalityType
<1>5. Len(ms) \in Nat
  BY DEF AreMembers
<1> QED BY <1>2, <1>4, <1>5 DEF Rank, Earlier

LEMMA RankGrows ==
  ASSUME NEW ms, AreMembers(ms), NEW i \in DOMAIN ms, NEW j \in DOMAIN ms,
         Before(ms, i, j)
  PROVE  Rank(ms, i) < Rank(ms, j)
<1>1. i \notin Earlier(ms, i)
  BY DEF Earlier, Before, AreMembers
<1>2. Earlier(ms, i) \cup {i} \in SUBSET Earlier(ms, j)
  BY DEF Earlier, Before, AreMembers
<1>3. Cardinality(Earlier(ms, i) \cup {i}) = Cardinality(Earlier(ms, i)) + 1
  BY <1>1, EarlierIsFinite, FS_AddElement
<1>4. Cardinality(Earlier(ms, i) \cup {i}) <= Cardinality(Earlier(ms, j))
  BY <1>2, EarlierIsFinite, FS_Subset
<1>5. Rank(ms, i) \in Nat /\ Rank(ms, j) \in Nat
  BY EarlierIsFinite
<1> QED BY <1>3, <1>4, <1>5, EarlierIsFinite

LEMMA RanksDiffer ==
  ASSUME NEW ms, AreMembers(ms), NEW i \in DOMAIN ms, NEW j \in DOMAIN ms,
         i # j
  PROVE  Rank(ms, i) # Rank(ms, j)
<1>1. Before(ms, i, j) \/ Before(ms, j, i)
  BY DEF Before, AreMembers
<1>2. Rank(ms, i) \in Nat /\ Rank(ms, j) \in Nat
  BY EarlierIsFinite
<1> QED BY <1>1, <1>2, RankGrows

\* Every turn is that of a member.
LEMMA RanksAreTaken ==
  ASSUME NEW ms, AreMembers(ms), NEW k \in 0..(Len(ms) - 1)
  PROVE  \E i \in DOMAIN ms : Rank(ms, i) = k
<1> SUFFICES ASSUME \A i \in DOMAIN ms : Rank(ms, i) # k PROVE FALSE
  OBVIOUS
<1> DEFINE n == Len(ms)
           f == [i \in DOMAIN ms |-> Rank(ms, i)]
           T == (0..(n - 1)) \ {k}
<1>1. n \in Nat /\ n > 0 /\ DOMAIN ms = 1..n
  BY DEF AreMembers
<1>2. /\ IsFiniteSet(DOMAIN ms) /\ Cardinality(DOMAIN ms) = n
      /\ IsFiniteSet(0..(n - 1)) /\ Cardinality(0..(n - 1)) = n
  <2> DEFINE zero == 0
             one == 1
             m == n - 1
  <2>1. /\ zero \in Int /\ one \in Int /\ m \in Int /\ n \in Int
        /\ one <= n + 1 /\ zero <= m + 1
        /\ n - one + 1 = n /\ m - zero + 1 = n
    BY <1>1
  <2> HIDE DEF zero, one, m, n
  <2>2. /\ IsFiniteSet(one..n) /\ Cardinality(one..n) = n - one + 1
        /\ IsFiniteSet(zero..m) /\ Cardinality(zero..m) = m - zero + 1
    BY <2>1, IntervalSize
  <2> QED BY <1>1, <2>1, <2>2 DEF zero, one, m
<1>3. IsFiniteSet(T) /\ Cardinality(T) = n - 1
  BY <1>2, FS_RemoveElement
<1>4. f \in [DOMAIN ms -> T]
  BY EarlierIsFinite
<1> HIDE DEF f, T, n
<1>5. Cardinality(T) < Cardinality(DOMAIN ms)
  BY <1>1, <1>2, <1>3
<1>6. \E i, j \in DOMAIN ms : i # j /\ f[i] = f[j]
  BY <1>2, <1>3, <1>4, <1>5, FS_PigeonHole
<1> QED BY <1>6, RanksDiffer DEF f

\* Each member has its turn.
LEMMA TurnsTypes ==
  ASSUME NEW ms, AreMembers(ms)
  PROVE  /\ \A k \in 1..Len(ms) : Turns(ms)[k] \in DOMAIN ms
         /\ \A i \in DOMAIN ms : \E k \in 1..Len(ms) : Turns(ms)[k] = i
<1>1. Len(ms) \in Nat /\ DOMAIN ms = 1..Len(ms)
  BY DEF AreMembers
<1>2. ASSUME NEW k \in 1..Len(ms)
      PROVE  /\ Turns(ms)[k] \in DOMAIN ms
             /\ Rank(ms, Turns(ms)[k]) = k - 1
  <2>1. Turns(ms)[k] = CHOOSE i \in DOMAIN ms : Rank(ms, i) = k - 1
    BY <1>1 DEF Turns
  <2>2. k - 1 \in 0..(Len(ms) - 1)
    BY <1>1
  <2>3. \E i \in DOMAIN ms : Rank(ms, i) = k - 1
    BY <2>2, RanksAreTaken
  <2> QED BY <2>1, <2>3
<1>3. ASSUME NEW i \in DOMAIN ms
      PROVE  \E k \in 1..Len(ms) : Turns(ms)[k] = i
  <2> DEFINE k == Rank(ms, i) + 1
  <2>1. k \in 1..Len(ms) /\ k - 1 = Rank(ms, i)
    BY <1>1, EarlierIsFinite
  <2>2. Turns(ms)[k] \in DOMAIN ms /\ Rank(ms, Turns(ms)[k]) = Rank(ms, i)
    BY <1>2, <2>1
  <2>3. Turns(ms)[k] = i
    BY <2>2, RanksDiffer
  <2> QED BY <2>1, <2>3
<1> QED BY <1>2, <1>3

-----------------------------------------------------------------------------
(* Handing out *)

\* What is left and what the lines carry make up the margin.
Hands(ms, margin) ==
  {h \in [left : Nat, unit : [DOMAIN ms -> Nat]] :
     h.left + Carried(ms, h.unit) = margin}

LEMMA CarriedIsNat ==
  ASSUME NEW ms, AreMembers(ms), NEW unit \in [DOMAIN ms -> Nat]
  PROVE  Carried(ms, unit) \in Nat
<1> DEFINE f == [i \in DOMAIN ms |-> unit[i] * ms[i].qty]
<1>1. Len(ms) \in Nat /\ f \in [1..Len(ms) -> Nat]
  BY DEF AreMembers
<1> HIDE DEF f
<1>2. Total(f) \in Nat
  BY <1>1, TotalIsNat
<1> QED BY <1>2 DEF Carried, f

\* A turn keeps what the hand-out adds up to, and never leaves more.
LEMMA VisitKeeps ==
  ASSUME NEW ms, AreMembers(ms), NEW margin \in Nat,
         NEW h \in Hands(ms, margin), NEW i \in DOMAIN ms
  PROVE  /\ Visit(ms, h, i) \in Hands(ms, margin)
         /\ Visit(ms, h, i).left <= h.left
         /\ ms[i].qty = 1 /\ h.left > 0 => Visit(ms, h, i).left < h.left
<1>1. /\ h \in [left : Nat, unit : [DOMAIN ms -> Nat]]
      /\ h.left + Carried(ms, h.unit) = margin
      /\ h.left \in Nat /\ h.unit \in [DOMAIN ms -> Nat]
  BY DEF Hands
<1>2. CASE ~Takes(ms, i, h.left)
  BY <1>1, <1>2 DEF Visit, Takes, AreMembers
<1>3. CASE Takes(ms, i, h.left)
  <2> DEFINE q == ms[i].qty
             unit == [h.unit EXCEPT ![i] = @ + 1]
             left == h.left - q
             f == [j \in DOMAIN ms |-> h.unit[j] * ms[j].qty]
             g == [j \in DOMAIN ms |-> unit[j] * ms[j].qty]
  <2>1. Visit(ms, h, i) = [left |-> left, unit |-> unit]
    BY <1>3 DEF Visit
  <2>2. q \in Nat \ {0} /\ q <= h.left
    BY <1>3 DEF Takes, AreMembers
  <2>3. left \in Nat /\ left < h.left /\ unit \in [DOMAIN ms -> Nat]
    BY <1>1, <2>2
  <2>4. Len(ms) \in Nat /\ i \in 1..Len(ms) /\ DOMAIN ms = 1..Len(ms)
    BY DEF AreMembers
  <2>5. f \in [1..Len(ms) -> Int] /\ g \in [1..Len(ms) -> Int]
    <3>1. \A j \in DOMAIN ms : h.unit[j] * ms[j].qty \in Int
                               /\ unit[j] * ms[j].qty \in Int
      BY <1>1, <2>3 DEF AreMembers
    <3> HIDE DEF unit
    <3> QED BY <2>4, <3>1
  <2>6. g[i] = f[i] + q
    <3> DEFINE u == h.unit[i]
    <3>1. unit[i] = u + 1 /\ u \in Nat
      BY <1>1
    <3>2. g[i] = unit[i] * q /\ f[i] = u * q
      OBVIOUS
    <3> HIDE DEF unit, f, g, q, u
    <3>3. (u + 1) * q = u * q + q
      BY <2>2, <3>1
    <3> QED BY <3>1, <3>2, <3>3
  <2>7. \A j \in 1..Len(ms) : j # i => g[j] = f[j]
    BY <1>1, <2>4
  <2>8. Total(g) = Total(f) + q
    <3> HIDE DEF f, g, unit, left, q
    <3>1. q \in Int
      BY <2>2
    <3>2. IsMore(g, f, Len(ms), i, q)
      BY <2>5, <2>6, <2>7 DEF IsMore
    <3> QED BY <2>4, <3>1, <3>2, TotalMore
  <2>9. Carried(ms, unit) = Total(g) /\ Carried(ms, h.unit) = Total(f)
    BY DEF Carried
  <2>10. Total(f) \in Int
    <3> HIDE DEF f
    <3> QED BY <2>4, <2>5, TotalIsInt
  <2> HIDE DEF f, g, unit
  <2>11. left + Carried(ms, unit) = margin
    BY <1>1, <2>2, <2>8, <2>9, <2>10
  <2> QED BY <2>1, <2>3, <2>11 DEF Hands
<1> QED BY <1>2, <1>3

\* A round visits the members in their turns.
LEMMA RoundVisits ==
  ASSUME NEW ms, AreMembers(ms), NEW margin \in Nat,
         NEW h \in Hands(ms, margin)
  PROVE  \E v : /\ v \in [0..Len(ms) -> Hands(ms, margin)]
                /\ v[0] = h /\ v[Len(ms)] = Round(ms, h)
                /\ \A k \in 1..Len(ms) : v[k] = Visit(ms, v[k - 1], Turns(ms)[k])
<1> DEFINE n == Len(ms)
           H == Hands(ms, margin)
           Visits(v) == v = [k \in 0..n |->
                               IF k = 0 THEN h
                               ELSE Visit(ms, v[k - 1], Turns(ms)[k])]
           R == [k \in 1..n |-> [x \in H |-> Visit(ms, x, Turns(ms)[k])]]
           v == CHOOSE w : Visits(w)
<1>1. n \in Nat /\ h \in H
  BY DEF AreMembers
<1>2. R \in [1..n -> [H -> H]]
  BY VisitKeeps, TurnsTypes
<1>3. PICK w : IsRun(w, n, H, h, R)
  <2> HIDE DEF n, H, R
  <2> QED BY <1>1, <1>2, Iterates
<1> HIDE DEF H
<1>4. ASSUME NEW k \in 1..n PROVE w[k] = Visit(ms, w[k - 1], Turns(ms)[k])
  <2>1. k - 1 \in 0..n
    BY <1>1
  <2> HIDE DEF n
  <2> QED BY <1>3, <2>1 DEF IsRun
<1>5. Visits(w)
  <2> HIDE DEF R, n
  <2> QED BY <1>1, <1>3, <1>4 DEF IsRun
<1>6. Visits(v)
  <2> HIDE DEF Visits
  <2> QED BY <1>5
<1>7. Round(ms, h) = v[n]
  BY DEF Round
<1> HIDE DEF v
<1>8. \A k \in 0..n : v[k] = IF k = 0 THEN h ELSE Visit(ms, v[k - 1], Turns(ms)[k])
  BY <1>6
<1>9. v = [k \in 0..n |-> v[k]] /\ v[0] = h
  BY <1>1, <1>6
<1>10. ASSUME NEW k \in 0..(n - 1), v[k] \in H
       PROVE  v[k + 1] = R[k + 1][v[k]]
  <2>1. k + 1 \in 0..n /\ k + 1 # 0 /\ (k + 1) - 1 = k /\ k + 1 \in 1..n
    BY <1>1
  <2> HIDE DEF n
  <2> QED BY <1>8, <1>10, <2>1
<1>11. IsRun(v, n, H, h, R)
  <2> HIDE DEF R, n
  <2> QED BY <1>1, <1>2, <1>9, <1>10, FollowsIsRun
<1>12. ASSUME NEW k \in 1..n PROVE v[k] = Visit(ms, v[k - 1], Turns(ms)[k])
  <2>1. k \in 0..n /\ k # 0
    BY <1>1
  <2> QED BY <1>8, <2>1
<1> QED BY <1>7, <1>11, <1>12 DEF IsRun, H

\* A round keeps what the hand-out adds up to; while something is left, and one
\* of the members is of a single unit, it leaves less.
LEMMA RoundKeeps ==
  ASSUME NEW ms, AreMembers(ms), NEW margin \in Nat,
         NEW h \in Hands(ms, margin)
  PROVE  /\ Round(ms, h) \in Hands(ms, margin)
         /\ Round(ms, h).left <= h.left
         /\ (\E i \in DOMAIN ms : ms[i].qty = 1) /\ h.left > 0 =>
              Round(ms, h).left < h.left
<1> DEFINE n == Len(ms)
           H == Hands(ms, margin)
<1>1. PICK v : /\ v \in [0..n -> H]
               /\ v[0] = h /\ v[n] = Round(ms, h)
               /\ \A k \in 1..n : v[k] = Visit(ms, v[k - 1], Turns(ms)[k])
  BY RoundVisits
<1>2. n \in Nat /\ 0 \in 0..n /\ n \in 0..n
  BY DEF AreMembers
<1>3. \A k \in 0..n : v[k] \in H /\ v[k].left \in Nat
  BY <1>1 DEF Hands
<1>4. \A k \in 1..n : k - 1 \in 0..n
  BY <1>2
<1>5. ASSUME NEW k \in 1..n PROVE v[k].left <= v[k - 1].left
  <2>1. Turns(ms)[k] \in DOMAIN ms /\ v[k - 1] \in H
    BY <1>3, <1>4, TurnsTypes
  <2>2. v[k] = Visit(ms, v[k - 1], Turns(ms)[k])
    BY <1>1
  <2> QED BY <2>1, <2>2, VisitKeeps
<1> DEFINE f == [k \in 0..n |-> v[k].left]
<1>6. \A m \in 0..n : \A k \in m..n : v[k].left <= v[m].left
  <2>1. /\ \A k \in 0..n : f[k] \in Nat
        /\ \A k \in 1..n : f[k] <= f[k - 1]
    BY <1>2, <1>3, <1>4, <1>5
  <2>2. ASSUME NEW m \in 0..n PROVE \A k \in m..n : f[k] <= f[m]
    <3> HIDE DEF f, n
    <3> QED BY <1>2, <2>1, NeverGrows
  <2>3. \A m \in 0..n : m \in 0..n /\ \A k \in m..n : k \in 0..n
    BY <1>2
  <2> QED BY <2>2, <2>3
<1>7. Round(ms, h) \in H /\ Round(ms, h).left <= h.left
  <2>1. 0 \in 0..n /\ n \in 0..n
    BY <1>2
  <2> HIDE DEF n
  <2> QED BY <1>1, <1>3, <1>6, <2>1
<1>8. ASSUME NEW i \in DOMAIN ms, ms[i].qty = 1, h.left > 0
      PROVE  Round(ms, h).left < h.left
  <2>1. PICK k \in 1..n : Turns(ms)[k] = i
    BY TurnsTypes
  <2>2. k - 1 \in 0..n /\ k \in 0..n /\ n \in k..n /\ k - 1 \in 0..n
    BY <1>2
  <2>3. v[k] = Visit(ms, v[k - 1], i) /\ v[k - 1] \in H
    BY <1>1, <1>3, <2>1, <2>2
  <2>4. v[k - 1].left = 0 \/ v[k].left < v[k - 1].left
    BY <1>3, <1>8, <2>2, <2>3, VisitKeeps
  <2> DEFINE last == v[n].left
             at == v[k].left
             before == v[k - 1].left
             first == v[0].left
  <2>5. last <= at /\ at <= before /\ before <= first
    BY <1>2, <1>5, <1>6, <2>2
  <2>6. last \in Nat /\ at \in Nat /\ before \in Nat /\ first \in Nat
    BY <1>2, <1>3, <2>2
  <2>7. first > 0 /\ (before = 0 \/ at < before)
    BY <1>1, <1>8, <2>4
  <2>8. last < first
    <3> HIDE DEF last, at, before, first
    <3> QED BY <2>5, <2>6, <2>7
  <2> QED BY <1>1, <2>8
<1> QED BY <1>7, <1>8

\* As many whole parts as there are make no more than the whole.
LEMMA QuotientBounds ==
  ASSUME NEW limit \in Nat, NEW q \in Nat \ {0}, NEW n \in Nat,
         n <= limit \div q
  PROVE  n * q <= limit
<1>1. limit \div q \in Nat /\ q * (limit \div q) <= limit
  BY SMT
<1>2. n * q <= q * (limit \div q)
  <2> DEFINE d == limit \div q
  <2>1. d \in Nat /\ n <= d
    BY <1>1
  <2> HIDE DEF d
  <2>2. n * q <= q * d
    BY <2>1
  <2> QED BY <2>2 DEF d
<1>3. n * q \in Nat
  OBVIOUS
<1> QED BY <1>1, <1>2, <1>3

LEMMA QuotientIsNat ==
  ASSUME NEW limit \in Nat, NEW q \in Nat \ {0}
  PROVE  limit \div q \in Nat
BY SMT

\* The flooring never carries more than the margin.
LEMMA FlooringFits ==
  ASSUME NEW ms, AreMembers(ms), NEW margin \in Nat
  PROVE  /\ Floored(ms, margin) \in [DOMAIN ms -> Nat]
         /\ Carried(ms, Floored(ms, margin)) <= margin
         /\ Remainder(ms, margin) \in Nat
         /\ Modal(ms) \in Nat
<1> DEFINE n == Len(ms)
           w == [i \in DOMAIN ms |-> Weight(ms, i)]
           M == Modal(ms)
           u(i) == FlooredMargin(ms, margin, i)
           f == [i \in DOMAIN ms |-> Floored(ms, margin)[i] * ms[i].qty]
<1>1. n \in Nat /\ DOMAIN ms = 1..n
  BY DEF AreMembers
<1>2. ASSUME NEW i \in DOMAIN ms
      PROVE  ms[i].qty \in Nat \ {0} /\ Weight(ms, i) \in Nat
  BY DEF AreMembers, Weight
<1>3. w \in [1..n -> Nat] /\ w \in [1..n -> Int]
  BY <1>1, <1>2
<1>4. M = Total(w) /\ M \in Nat
  <2>1. M = Total(w)
    BY DEF Modal
  <2> HIDE DEF w, n
  <2> QED BY <1>1, <1>3, <2>1, TotalIsNat
<1>5. ASSUME NEW i \in DOMAIN ms
      PROVE  /\ u(i) \in Nat
             /\ (u(i) * ms[i].qty) * M <= margin * Weight(ms, i)
             /\ M = 0 => u(i) = 0
  <2> DEFINE q == ms[i].qty
             x == margin * Weight(ms, i)
             s == x \div M
  <2>1. q \in Nat \ {0} /\ x \in Nat
    BY <1>2
  <2> HIDE DEF q, x, M
  <2>2. CASE M = 0
    <3>1. u(i) = 0
      BY <2>2 DEF FlooredMargin, M
    <3>2. (0 * q) * 0 = 0
      BY <2>1
    <3> QED BY <2>1, <2>2, <3>1, <3>2 DEF x, q
  <2>3. CASE M # 0
    <3>1. s \in Nat
      BY <1>4, <2>1, <2>3, QuotientIsNat
    <3>2. u(i) = s \div q
      BY <2>3 DEF FlooredMargin, M, x, q
    <3>3. s * M <= x
      <4>1. s <= x \div M
        BY <3>1
      <4> HIDE DEF s
      <4> QED BY <1>4, <2>1, <2>3, <3>1, <4>1, QuotientBounds
    <3> HIDE DEF s, u
    <3>4. u(i) \in Nat
      BY <2>1, <3>1, <3>2, QuotientIsNat
    <3>5. u(i) * q <= s
      BY <2>1, <3>1, <3>2, <3>4, QuotientBounds
    <3> DEFINE y == u(i) * q
    <3>6. y \in Nat
      BY <2>1, <3>4
    <3>7. y * M <= s * M
      <4> HIDE DEF y
      <4>1. y <= s
        BY <3>5 DEF y
      <4> QED BY <1>4, <3>1, <3>6, <4>1
    <3>8. y * M \in Nat /\ s * M \in Nat
      <4> HIDE DEF y
      <4> QED BY <1>4, <3>1, <3>6
    <3>9. y * M <= x
      <4> HIDE DEF y
      <4> QED BY <2>1, <3>3, <3>7, <3>8
    <3> QED BY <2>3, <3>4, <3>9 DEF q, x
  <2> QED BY <2>2, <2>3
<1> HIDE DEF u, M
<1>6. /\ Floored(ms, margin) \in [DOMAIN ms -> Nat]
      /\ \A i \in DOMAIN ms : f[i] = u(i) * ms[i].qty
  BY <1>5 DEF Floored, u
<1>7. f \in [1..n -> Int]
  <2>1. \A i \in DOMAIN ms : f[i] \in Int
    BY <1>2, <1>5, <1>6
  <2> QED BY <1>1, <2>1
<1>8. Carried(ms, Floored(ms, margin)) = Total(f)
  BY DEF Carried
<1>9. Total(f) \in Int
  <2> HIDE DEF f, n
  <2> QED BY <1>1, <1>7, TotalIsInt
<1>10. Total(f) <= margin
  <2>1. CASE M = 0
    <3> DEFINE m == 1
               c == 0
    <3>1. \A i \in DOMAIN ms : f[i] = 0
      BY <1>2, <1>5, <1>6, <2>1
    <3>2. /\ m \in Int /\ c \in Int
          /\ \A i \in 1..n : f[i] * m <= c * f[i]
      BY <1>1, <3>1
    <3> HIDE DEF f, n, m, c
    <3>3. Total(f) * m <= c * Total(f)
      BY <1>1, <1>7, <3>2, TotalScaled
    <3> QED BY <1>9, <3>3 DEF m, c
  <2>2. CASE M # 0
    <3>1. \A i \in 1..n : f[i] * M <= margin * w[i]
      BY <1>1, <1>5, <1>6
    <3> HIDE DEF f, n, w
    <3>2. Total(f) * M <= margin * M
      <4>1. M \in Int /\ margin \in Int
        BY <1>4
      <4>2. Total(f) * M <= margin * Total(w)
        BY <1>1, <1>3, <1>7, <3>1, <4>1, TotalScaled
      <4> QED BY <1>4, <4>2
    <3> DEFINE t == Total(f)
    <3> HIDE DEF t
    <3>3. t \in Int /\ t * M <= margin * M /\ M > 0 /\ M \in Nat
      BY <1>4, <1>9, <2>2, <3>2 DEF t
    <3>4. t <= margin
      <4> SUFFICES ASSUME t >= margin + 1 PROVE FALSE
        BY <3>3
      <4>1. t * M >= (margin + 1) * M
        BY <3>3
      <4>2. (margin + 1) * M = margin * M + M
        BY <3>3
      <4>3. t * M \in Int /\ margin * M \in Int
        BY <3>3
      <4> QED BY <3>3, <4>1, <4>2, <4>3
    <3> QED BY <3>4 DEF t
  <2> QED BY <2>1, <2>2
<1>11. Carried(ms, Floored(ms, margin)) <= margin
  BY <1>8, <1>10
<1>12. Remainder(ms, margin) \in Nat
  BY <1>8, <1>9, <1>10 DEF Remainder
<1> QED BY <1>4, <1>6, <1>11, <1>12 DEF M

\* What is left in the end and what the lines carry make up the margin; nothing
\* is left if one of the members is of a single unit.
LEMMA HandOut ==
  ASSUME NEW ms, AreMembers(ms), NEW margin \in Nat
  PROVE  /\ HandedOut(ms, margin) \in Hands(ms, margin)
         /\ (\E i \in DOMAIN ms : ms[i].qty = 1) =>
              HandedOut(ms, margin).left = 0
<1> DEFINE n == Remainder(ms, margin)
           H == Hands(ms, margin)
           a == [left |-> n, unit |-> Floored(ms, margin)]
           Hands1(v) == v = [k \in 0..n |-> IF k = 0 THEN a ELSE Round(ms, v[k - 1])]
           R == [k \in 1..n |-> [x \in H |-> Round(ms, x)]]
           v == CHOOSE w : Hands1(w)
<1>1. n \in Nat /\ a \in H
  <2>1. /\ Floored(ms, margin) \in [DOMAIN ms -> Nat] /\ n \in Nat
        /\ Carried(ms, Floored(ms, margin)) \in Nat
    BY FlooringFits, CarriedIsNat
  <2>2. n + Carried(ms, Floored(ms, margin)) = margin
    BY <2>1 DEF Remainder
  <2> HIDE DEF n
  <2> QED BY <2>1, <2>2 DEF Hands
<1>2. R \in [1..n -> [H -> H]]
  <2> HIDE DEF n
  <2> QED BY RoundKeeps
<1>3. PICK w : IsRun(w, n, H, a, R)
  <2> HIDE DEF n, H, R, a
  <2> QED BY <1>1, <1>2, Iterates
<1> HIDE DEF H, a
<1>4. ASSUME NEW k \in 1..n PROVE w[k] = Round(ms, w[k - 1])
  <2> HIDE DEF n
  <2>1. k - 1 \in 0..n
    BY <1>1
  <2> QED BY <1>3, <2>1 DEF IsRun
<1>5. Hands1(w)
  <2> HIDE DEF R, n
  <2> QED BY <1>1, <1>3, <1>4 DEF IsRun
<1>6. Hands1(v)
  <2> HIDE DEF Hands1
  <2> QED BY <1>5
<1>7. HandedOut(ms, margin) = v[n]
  BY DEF HandedOut, a
<1> HIDE DEF v, n
<1>8. \A k \in 0..n : v[k] = IF k = 0 THEN a ELSE Round(ms, v[k - 1])
  BY <1>6
<1>9. v = [k \in 0..n |-> v[k]] /\ v[0] = a
  BY <1>1, <1>6
<1>10. ASSUME NEW k \in 0..(n - 1), v[k] \in H
       PROVE  v[k + 1] = R[k + 1][v[k]]
  <2>1. k + 1 \in 0..n /\ k + 1 # 0 /\ (k + 1) - 1 = k /\ k + 1 \in 1..n
    BY <1>1
  <2> QED BY <1>8, <1>10, <2>1
<1>11. IsRun(v, n, H, a, R)
  <2> HIDE DEF R
  <2> QED BY <1>1, <1>2, <1>9, <1>10, FollowsIsRun
<1>12. \A k \in 0..n : v[k] \in H /\ v[k].left \in Nat
  BY <1>11 DEF IsRun, H, Hands
<1>13. HandedOut(ms, margin) \in H
  BY <1>1, <1>7, <1>12
<1>14. ASSUME \E i \in DOMAIN ms : ms[i].qty = 1
       PROVE  HandedOut(ms, margin).left = 0
  <2> DEFINE S == {k \in Nat : k <= n => v[k].left = 0 \/ v[k].left + k <= n}
  <2>1. 0 \in S
    BY <1>1, <1>9 DEF a
  <2>2. ASSUME NEW k \in Nat, k \in S PROVE k + 1 \in S
    <3> SUFFICES ASSUME k + 1 <= n
                 PROVE  v[k + 1].left = 0 \/ v[k + 1].left + (k + 1) <= n
      OBVIOUS
    <3>1. /\ k \in 0..n /\ k + 1 \in 0..n /\ k + 1 # 0 /\ (k + 1) - 1 = k
          /\ v[k].left = 0 \/ v[k].left + k <= n
      BY <1>1, <2>2
    <3>2. v[k + 1] = Round(ms, v[k]) /\ v[k] \in H
      BY <1>8, <1>12, <3>1
    <3>3. /\ v[k + 1].left <= v[k].left
          /\ v[k].left > 0 => v[k + 1].left < v[k].left
      BY <1>14, <3>2, RoundKeeps DEF H
    <3>4. v[k].left \in Nat /\ v[k + 1].left \in Nat
      BY <1>12, <3>1
    <3> QED BY <1>1, <3>1, <3>3, <3>4
  <2>3. n \in S
    <3> HIDE DEF S
    <3>1. Nat \subseteq S
      BY <2>1, <2>2, Induction
    <3> QED BY <1>1, <3>1
  <2>4. v[n].left \in Nat
    BY <1>1, <1>12
  <2> QED BY <1>1, <1>7, <2>3, <2>4
<1> QED BY <1>13, <1>14 DEF H

\* What a unit carries makes lines that carry no more than the margin, and all of
\* it if one of them is of a single unit.
LEMMA RealizedFits ==
  ASSUME NEW ms, AreMembers(ms), NEW margin \in Nat
  PROVE  /\ UnitMargins(ms, margin) \in [DOMAIN ms -> Nat]
         /\ RealizedMargin(ms, margin) \in Nat
         /\ RealizedMargin(ms, margin) <= margin
         /\ (\E i \in DOMAIN ms : ms[i].qty = 1) =>
              RealizedMargin(ms, margin) = margin
<1> DEFINE h == HandedOut(ms, margin)
<1>1. /\ h \in Hands(ms, margin)
      /\ (\E i \in DOMAIN ms : ms[i].qty = 1) => h.left = 0
  BY HandOut
<1> HIDE DEF h
<1>2. /\ h.left \in Nat /\ h.unit \in [DOMAIN ms -> Nat]
      /\ h.left + Carried(ms, h.unit) = margin
  BY <1>1 DEF Hands
<1>3. /\ UnitMargins(ms, margin) = h.unit
      /\ RealizedMargin(ms, margin) = Carried(ms, h.unit)
  BY DEF UnitMargins, RealizedMargin, h
<1>4. Carried(ms, h.unit) \in Nat
  BY <1>2, CarriedIsNat
<1> QED BY <1>1, <1>2, <1>3, <1>4

\* The lines of one bundle add up to its price.
LEMMA LinesAddUp ==
  ASSUME NEW ms, AreMembers(ms), NEW margin \in Nat
  PROVE  /\ LineTotals(Lines(ms, margin)) = Price(ms, margin)
         /\ LineMargins(Lines(ms, margin)) = RealizedMargin(ms, margin)
<1> DEFINE n == Len(ms)
           lines == Lines(ms, margin)
           unit == UnitMargins(ms, margin)
           w == [i \in DOMAIN ms |-> Weight(ms, i)]
           c == [i \in DOMAIN ms |-> unit[i] * ms[i].qty]
           t == [i \in DOMAIN lines |->
                   (lines[i].basePrice + lines[i].margin) * lines[i].qty]
           m == [i \in DOMAIN lines |-> lines[i].margin * lines[i].qty]
<1>1. /\ n \in Nat /\ DOMAIN ms = 1..n
      /\ \A i \in DOMAIN ms : /\ ms[i].basePrice \in Nat
                              /\ ms[i].qty \in Nat /\ unit[i] \in Nat
  BY RealizedFits DEF AreMembers
<1>2. /\ DOMAIN lines = DOMAIN ms
      /\ \A i \in DOMAIN ms : /\ lines[i].basePrice = ms[i].basePrice
                              /\ lines[i].qty = ms[i].qty
                              /\ lines[i].margin = unit[i]
  BY DEF Lines
<1> HIDE DEF lines, unit, n
<1>3. m = c
  BY <1>2
<1>4. ASSUME NEW i \in 1..n
      PROVE  w[i] \in Int /\ c[i] \in Int /\ t[i] \in Int /\ t[i] = w[i] + c[i]
  <2> DEFINE p == ms[i].basePrice
             q == ms[i].qty
             u == unit[i]
  <2>1. p \in Nat /\ q \in Nat /\ u \in Nat
    BY <1>1
  <2>2. t[i] = (p + u) * q /\ w[i] = p * q /\ c[i] = u * q
    BY <1>1, <1>2 DEF Weight
  <2> HIDE DEF p, q, u, t, w, c
  <2>3. (p + u) * q = p * q + u * q
    BY <2>1
  <2>4. p * q \in Int /\ u * q \in Int
    BY <2>1
  <2> QED BY <2>2, <2>3, <2>4
<1>5. w \in [1..n -> Int] /\ c \in [1..n -> Int] /\ t \in [1..n -> Int]
  BY <1>1, <1>2, <1>4
<1>6. Total(t) = Total(w) + Total(c)
  <2> HIDE DEF t, w, c
  <2> QED BY <1>1, <1>4, <1>5, TotalAdds
<1>7. /\ LineTotals(lines) = Total(t) /\ LineMargins(lines) = Total(c)
      /\ Modal(ms) = Total(w) /\ RealizedMargin(ms, margin) = Total(c)
  BY <1>3 DEF LineTotals, LineMargins, Modal, RealizedMargin, Carried, unit
<1>8. LineTotals(lines) = Price(ms, margin)
  <2>1. CASE ms = <<>>
    <3>1. n = 0
      BY <2>1 DEF n
    <3>2. Total(t) = 0
      <4> HIDE DEF t
      <4> QED BY <1>1, <1>5, <3>1, SumsRecur DEF AreSums
    <3> QED BY <1>7, <2>1, <3>2 DEF Price
  <2>2. CASE ms # <<>>
    BY <1>6, <1>7, <2>2 DEF Price
  <2> QED BY <2>1, <2>2
<1> QED BY <1>7, <1>8 DEF lines

-----------------------------------------------------------------------------
(* Types *)

\* The kind of a task tells its fields.
LEMMA EditTypes ==
  ASSUME TypeOK, NEW r \in Requests, task[r].kind = "edit"
  PROVE  /\ task[r] \in EditTasks
         /\ task[r].bundle \in Bundles /\ task[r].mem \in BundleRows
         /\ task[r].items \in Contents \cup {<<>>}
         /\ task[r].cols \subseteq Columns
         /\ task[r].stage \in {"check", "save", "write", "insert"}
<1>1. task[r] \in EditTasks
  BY DEF TypeOK, Idle
<1> QED  BY <1>1 DEF EditTasks

LEMMA OrderTypes ==
  ASSUME TypeOK, NEW r \in Requests,
         task[r].kind \in {"found", "priced", "loaded", "ordered"}
  PROVE  task[r].bundle \in Bundles /\ task[r].qty \in 1..MostQty
BY DEF TypeOK, Idle, EditTasks

\* The items of a draft or a patch are contents, which are not empty.
LEMMA ContentsOf ==
  /\ \A draft \in Drafts : draft.items \in Contents
  /\ \A patch \in Patches :
       "items" \in DOMAIN patch => patch["items"] \in Contents
  /\ <<>> \notin Contents
BY ContentsAssumption DEF Contents

LEMMA PatchedType ==
  ASSUME NEW row \in BundleRows, NEW patch \in Patches
  PROVE  /\ Patched(row, patch) \in BundleRows
         /\ Patched(row, patch).state = row.state
<1>1. /\ Field(row, patch, "isActive") \in BOOLEAN
      /\ Field(row, patch, "margin") \in Nat
      /\ Field(row, patch, "maxQty") \in Nat
      /\ Field(row, patch, "complete") \in BOOLEAN
  BY BoundAssumption DEF Field, BundleRows
<1> QED  BY <1>1 DEF Patched, BundleRows

LEMMA MergedType ==
  ASSUME NEW mem \in BundleRows, NEW row \in BundleRows, NEW cols
  PROVE  /\ Merged(mem, row, cols) \in BundleRows
         /\ Merged(mem, row, cols).state \in {mem.state, row.state}
         /\ "state" \in cols => Merged(mem, row, cols).state = mem.state
         /\ Merged(mem, row, cols).margin =
              IF "margin" \in cols THEN mem.margin ELSE row.margin
BY DEF Merged, BundleRows

-----------------------------------------------------------------------------
(* Each step keeps the invariant *)

LEMMA InitIInv == Init => IInv
<1> SUFFICES ASSUME Init PROVE IInv
  OBVIOUS
<1>1. TypeOK
  BY DEF Init, TypeOK, NoBundle, BundleRows
<1>2. EditsAreOfRows /\ CalmEditsAreSane /\ MarginSane
  BY DEF Init, EditsAreOfRows, CalmEditsAreSane, MarginSane, Idle
<1> QED  BY <1>1, <1>2 DEF IInv

\* A request that ends, or goes on as one that edits nothing.
LEMMA NoEditKeeps ==
  ASSUME IInv, NEW r \in Requests, NEW t,
         \/ t = Idle
         \/ /\ t.kind \in {"found", "priced", "loaded", "ordered"}
            /\ t.bundle \in Bundles /\ t.qty \in 1..MostQty,
         task' = [task EXCEPT ![r] = t],
         calm' \subseteq calm \cup {r},
         UNCHANGED <<tables, checked>>
  PROVE  IInv'
<1> USE DEF tables
<1>1. t.kind # "edit"
  BY DEF Idle
<1>2. TypeOK'
  BY DEF IInv, TypeOK
<1>3. EditsAreOfRows'
  BY <1>1 DEF IInv, TypeOK, EditsAreOfRows
<1>4. CalmEditsAreSane'
  <2>1. SUFFICES ASSUME NEW q \in calm', task'[q].kind = "edit"
                 PROVE  /\ task'[q] = task[q] /\ q \in calm
    BY DEF IInv, CalmEditsAreSane, Contained
  <2>2. task'[r] = t
    BY DEF IInv, TypeOK
  <2>3. q # r
    BY <1>1, <2>1, <2>2
  <2> QED  BY <2>1, <2>3 DEF IInv, TypeOK
<1>5. MarginSane'
  BY DEF IInv, MarginSane
<1> QED  BY <1>2, <1>3, <1>4, <1>5 DEF IInv

LEMMA CatalogChangesKeeps ==
  ASSUME IInv, NEW p \in Products, NEW view \in Views[p],
         CatalogChanges(p, view)
  PROVE  IInv'
<1> USE DEF CatalogChanges
<1>1. TypeOK'
  BY DEF IInv, TypeOK
<1>2. EditsAreOfRows' /\ MarginSane'
  BY DEF IInv, EditsAreOfRows, MarginSane
<1>3. CalmEditsAreSane'
  BY DEF IInv, CalmEditsAreSane, Contained
<1> QED  BY <1>1, <1>2, <1>3 DEF IInv

LEMMA ProfitChangesKeeps ==
  ASSUME IInv, NEW p \in Products, NEW margin \in Profits,
         ProfitChanges(p, margin)
  PROVE  IInv'
<1> USE DEF ProfitChanges
<1>1. TypeOK'
  BY DEF IInv, TypeOK
<1>2. EditsAreOfRows' /\ MarginSane'
  BY DEF IInv, EditsAreOfRows, MarginSane
<1>3. CalmEditsAreSane'
  BY DEF CalmEditsAreSane
<1> QED  BY <1>1, <1>2, <1>3 DEF IInv

\* An edit that begins, with its items among the contents or none.
LEMMA EditKeeps ==
  ASSUME IInv, NEW r \in Requests, NEW t \in EditTasks,
         t.mem.state = "live", t.stage \in {"check", "insert"},
         t.stage = "insert" =>
           t.cols = Columns /\ t.items # <<>> /\ IsSane(profit, t.items, t.mem.margin),
         t.stage = "check" => bundle[t.bundle].state # "none",
         task' = [task EXCEPT ![r] = t],
         calm' = calm \cup {r},
         UNCHANGED <<tables, checked>>
  PROVE  IInv'
<1> USE DEF tables
<1>1. TypeOK'
  BY DEF IInv, TypeOK
<1>2. EditsAreOfRows'
  BY DEF IInv, TypeOK, EditsAreOfRows
<1>3. CalmEditsAreSane'
  <2>1. SUFFICES ASSUME NEW q \in calm', task'[q].kind = "edit"
                 PROVE  /\ task'[q].stage # "check" =>
                             IsSane(profit, Contained(task'[q]),
                                    task'[q].mem.margin)
                        /\ task'[q].stage = "write" /\ "margin" \notin task'[q].cols =>
                             task'[q].mem.margin
                               = bundle[task'[q].bundle].margin
    BY DEF CalmEditsAreSane, Contained
  <2>2. CASE q = r
    <3>1. task'[q] = t
      BY <2>2 DEF IInv, TypeOK
    <3>2. t.stage # "check" =>
            t.stage = "insert" /\ IsSane(profit, Contained(t), t.mem.margin)
      BY DEF Contained
    <3>3. t.stage # "write"
      OBVIOUS
    <3> QED  BY <3>1, <3>2, <3>3
  <2>3. CASE q # r
    <3>1. task'[q] = task[q] /\ q \in calm
      BY <2>1, <2>3 DEF IInv, TypeOK
    <3> QED  BY <2>1, <3>1 DEF IInv, CalmEditsAreSane
  <2> QED  BY <2>2, <2>3
<1>4. MarginSane'
  BY DEF IInv, MarginSane
<1> QED  BY <1>1, <1>2, <1>3, <1>4 DEF IInv

LEMMA CreateKeeps ==
  ASSUME IInv, NEW r \in Requests, NEW b \in Bundles, NEW draft \in Drafts,
         Create(r, b, draft)
  PROVE  IInv'
<1> DEFINE mem == [state |-> "live", isActive |-> TRUE,
                   margin |-> draft.margin, maxQty |-> draft.maxQty,
                   complete |-> draft.complete]
           t == [kind |-> "edit", stage |-> "insert", bundle |-> b,
                 mem |-> mem, cols |-> Columns, items |-> draft.items]
<1>1. mem \in BundleRows
  BY BoundAssumption DEF BundleRows
<1>2. draft.items \in Contents /\ draft.items # <<>>
  BY ContentsOf
<1>3. t \in EditTasks
  BY <1>1, <1>2 DEF EditTasks
<1>4. /\ task' = [task EXCEPT ![r] = t] /\ calm' = calm \cup {r}
      /\ UNCHANGED <<tables, checked>>
      /\ IsSane(profit, t.items, t.mem.margin)
  BY DEF Create
<1>5. t.mem.state = "live" /\ t.stage = "insert" /\ t.cols = Columns
  OBVIOUS
<1>6. t.items # <<>>
  BY <1>2
<1> HIDE DEF t
<1> QED  BY <1>3, <1>4, <1>5, <1>6, EditKeeps

LEMMA UpdateKeeps ==
  ASSUME IInv, NEW r \in Requests, NEW b \in Bundles, NEW patch \in Patches,
         Update(r, b, patch)
  PROVE  IInv'
<1> DEFINE mem == Patched(bundle[b], patch)
           content == IF "items" \in DOMAIN patch THEN patch["items"] ELSE <<>>
           t == [kind |-> "edit", stage |-> "check", bundle |-> b, mem |-> mem,
                 cols |-> {}, items |-> content]
<1>1. mem \in BundleRows /\ mem.state = "live"
  BY PatchedType DEF IInv, TypeOK, Update, Live
<1>2. content \in Contents \cup {<<>>}
  BY ContentsOf
<1>3. t \in EditTasks
  BY <1>1, <1>2 DEF EditTasks
<1>4. /\ task' = [task EXCEPT ![r] = t] /\ calm' = calm \cup {r}
      /\ UNCHANGED <<tables, checked>>
      /\ bundle[t.bundle].state # "none"
  BY DEF Update, Live
<1>5. t.mem.state = "live" /\ t.stage = "check"
  BY <1>1
<1> HIDE DEF t
<1> QED  BY <1>3, <1>4, <1>5, EditKeeps

LEMMA CheckKeeps ==
  ASSUME IInv, NEW r \in Requests, Check(r)
  PROVE  IInv'
<1> DEFINE t == [task[r] EXCEPT !.stage = "save"]
<1> USE DEF Check, tables
<1>1. task[r] \in EditTasks
  BY EditTypes DEF IInv
<1>2. /\ t \in EditTasks /\ t.stage = "save" /\ t.kind = "edit"
      /\ t.mem = task[r].mem /\ t.bundle = task[r].bundle
      /\ t.items = task[r].items
  BY <1>1 DEF EditTasks
<1>3. task' = [task EXCEPT ![r] = t]
  OBVIOUS
<1> HIDE DEF t
<1>4. TypeOK'
  BY <1>2, <1>3 DEF IInv, TypeOK
<1>5. EditsAreOfRows'
  BY <1>2, <1>3 DEF IInv, TypeOK, EditsAreOfRows
<1>6. IsSane(profit, Contained(t), t.mem.margin)
  BY <1>2 DEF EffectiveIsSane, Contained
<1>7. CalmEditsAreSane'
  BY <1>2, <1>3, <1>6 DEF IInv, TypeOK, CalmEditsAreSane, Contained
<1>8. MarginSane'
  BY DEF IInv, MarginSane
<1> QED  BY <1>4, <1>5, <1>7, <1>8 DEF IInv

LEMMA CompareKeeps ==
  ASSUME IInv, NEW r \in Requests, Compare(r)
  PROVE  IInv'
<1> DEFINE b == task[r].bundle
           cols == {c \in Columns : task[r].mem[c] # bundle[b][c]}
           t == [task[r] EXCEPT !.stage = "write", !.cols = cols]
<1>1. task[r] \in EditTasks /\ b \in Bundles /\ task[r].stage = "save"
  BY EditTypes DEF IInv, Compare
<1>2. /\ t \in EditTasks /\ t.stage = "write" /\ t.kind = "edit"
      /\ t.mem = task[r].mem /\ t.bundle = task[r].bundle
      /\ t.items = task[r].items /\ t.cols = cols
  BY <1>1 DEF EditTasks
<1>3. /\ task' = [task EXCEPT ![r] = t]
      /\ calm' = calm /\ checked' = checked /\ bundle' = bundle
      /\ items' = items /\ member' = member /\ profit' = profit
  BY <1>1 DEF IInv, TypeOK, EditTasks, Compare, tables
<1>4. "margin" \notin t.cols => t.mem.margin = bundle[b].margin
  BY <1>2 DEF Columns
<1> HIDE DEF t, cols, b
<1>5. TypeOK'
  BY <1>2, <1>3 DEF IInv, TypeOK
<1>6. EditsAreOfRows'
  <2>1. task'[r] = t /\ \A q \in Requests \ {r} : task'[q] = task[q]
    BY <1>3 DEF IInv, TypeOK
  <2>2. t.mem.state = "live" /\ bundle[t.bundle].state # "none"
    BY <1>1, <1>2, EditTypes DEF IInv, EditsAreOfRows, EditTasks
  <2> QED  BY <1>2, <1>3, <2>1, <2>2 DEF IInv, EditsAreOfRows
<1>7. CalmEditsAreSane'
  <2>1. task'[r] = t /\ \A q \in Requests \ {r} : task'[q] = task[q]
    BY <1>3 DEF IInv, TypeOK
  <2>2. r \in calm => IsSane(profit, Contained(t), t.mem.margin)
    BY <1>1, <1>2 DEF IInv, CalmEditsAreSane, Contained, EditTasks
  <2>3. calm \subseteq Requests
    BY DEF IInv, TypeOK
  <2> QED  BY <1>2, <1>3, <1>4, <2>1, <2>2, <2>3 DEF IInv, CalmEditsAreSane, b, Contained
<1>8. MarginSane'
  BY <1>3 DEF IInv, MarginSane
<1> QED  BY <1>5, <1>6, <1>7, <1>8 DEF IInv

LEMMA WriteKeeps ==
  ASSUME IInv, NEW r \in Requests, Write(r)
  PROVE  IInv'
<1> DEFINE t == task[r]
           b == t.bundle
           row == Merged(t.mem, bundle[b], t.cols)
<1> USE DEF Write
<1>1. /\ t \in EditTasks /\ b \in Bundles /\ t.mem \in BundleRows
      /\ t.items \in Contents \cup {<<>>}
      /\ bundle[b] \in BundleRows
  BY EditTypes DEF IInv, TypeOK
<1>2. /\ row \in BundleRows
      /\ row.state \in {t.mem.state, bundle[b].state}
      /\ "state" \in t.cols => row.state = t.mem.state
      /\ row.margin = IF "margin" \in t.cols THEN t.mem.margin
                      ELSE bundle[b].margin
  BY <1>1, MergedType
<1>3. row.state # "none" /\ Contained(t) # <<>>
  <2>1. CASE t.stage = "insert"
    <3>1. "state" \in t.cols /\ t.mem.state = "live" /\ t.items # <<>>
      BY <2>1 DEF IInv, EditsAreOfRows, Columns
    <3> QED  BY <1>2, <3>1 DEF Contained
  <2>2. CASE t.stage = "write"
    <3>1. bundle[b].state # "none" /\ t.mem.state = "live"
      BY <2>2 DEF IInv, EditsAreOfRows
    <3>2. items[b] # <<>>
      BY <1>1, <3>1 DEF IInv, TypeOK
    <3> QED  BY <1>2, <3>1, <3>2 DEF Contained
  <2> QED  BY <2>1, <2>2
<1>4. Contained(t) \in Contents \cup {<<>>}
  BY <1>1 DEF Contained, IInv, TypeOK
<1>5. TypeOK'
  BY <1>1, <1>2, <1>3, <1>4 DEF IInv, TypeOK
<1>6. EditsAreOfRows'
  <2>1. SUFFICES ASSUME NEW q \in Requests, task'[q].kind = "edit",
                        task'[q].stage # "insert"
                 PROVE  bundle'[task'[q].bundle].state # "none"
    BY DEF IInv, TypeOK, EditsAreOfRows, Idle
  <2>2. q # r /\ task'[q] = task[q]
    <3>1. task'[r] = Idle /\ Idle.kind = "idle"
      BY DEF IInv, TypeOK, Idle
    <3>2. q # r
      BY <2>1, <3>1
    <3> QED  BY <3>2 DEF IInv, TypeOK
  <2>3. bundle[task[q].bundle].state # "none" /\ task[q].bundle \in Bundles
    BY <2>1, <2>2, EditTypes DEF IInv, EditsAreOfRows
  <2> QED  BY <1>1, <1>3, <2>2, <2>3 DEF IInv, TypeOK
<1>7. CalmEditsAreSane'
  BY DEF CalmEditsAreSane
<1>8. MarginSane'
  <2>1. SUFFICES ASSUME NEW a \in checked'
                 PROVE  IsSane(profit, items'[a], bundle'[a].margin)
    BY DEF MarginSane
  <2>2. a \in Bundles
    BY <1>1, <2>1 DEF IInv, TypeOK
  <2>3. CASE a # b
    BY <2>1, <2>2, <2>3 DEF IInv, TypeOK, MarginSane
  <2>4. CASE a = b
    <3>1. r \in calm
      BY <2>1, <2>4
    <3>2. IsSane(profit, Contained(t), t.mem.margin)
      BY <3>1 DEF IInv, CalmEditsAreSane
    <3>3. row.margin = t.mem.margin
      <4>1. CASE t.stage = "insert"
        BY <1>2, <4>1 DEF IInv, EditsAreOfRows, Columns
      <4>2. CASE t.stage = "write"
        BY <1>2, <3>1, <4>2 DEF IInv, CalmEditsAreSane
      <4> QED  BY <4>1, <4>2
    <3>4. items'[a] = Contained(t) /\ bundle'[a] = row
      BY <1>1, <2>4 DEF IInv, TypeOK
    <3> QED  BY <3>2, <3>3, <3>4
  <2> QED  BY <2>3, <2>4
<1> QED  BY <1>5, <1>6, <1>7, <1>8 DEF IInv

LEMMA SoftRemoveKeeps ==
  ASSUME IInv, NEW b \in Bundles, SoftRemove(b)
  PROVE  IInv'
<1> USE DEF SoftRemove
<1>1. [bundle[b] EXCEPT !.state = "deleted"] \in BundleRows
  <2>1. bundle[b] \in BundleRows
    BY DEF IInv, TypeOK
  <2> QED  BY <2>1 DEF BundleRows
<1>2. \A a \in Bundles :
        /\ bundle'[a].margin = bundle[a].margin
        /\ bundle'[a].state = IF a = b THEN "deleted" ELSE bundle[a].state
  BY DEF IInv, TypeOK, BundleRows
<1>3. TypeOK'
  BY <1>1 DEF IInv, TypeOK, Live
<1>4. EditsAreOfRows'
  BY <1>2, EditTypes DEF IInv, EditsAreOfRows
<1>5. CalmEditsAreSane'
  BY DEF CalmEditsAreSane
<1>6. MarginSane'
  BY <1>2 DEF IInv, TypeOK, MarginSane
<1> QED  BY <1>3, <1>4, <1>5, <1>6 DEF IInv

LEMMA OrderKeeps ==
  ASSUME IInv, NEW r \in Requests,
         PriceBundle(r) \/ LoadMembers(r) \/ ResolveOrderLines(r) \/ End(r)
  PROVE  IInv'
<1>1. task[r].kind \in {"found", "priced", "loaded", "ordered"} =>
        task[r].bundle \in Bundles /\ task[r].qty \in 1..MostQty
  BY OrderTypes DEF IInv
<1>2. CASE PriceBundle(r)
  <2> DEFINE ms == Loaded(task[r].bundle)
             t == [kind |-> "priced", bundle |-> task[r].bundle,
                   qty |-> task[r].qty, price |-> Price(ms, task[r].row.margin)]
  <2>1. /\ task' = [task EXCEPT ![r] =
                      IF Accepts(task[r].row, ms, task[r].qty) THEN t ELSE Idle]
        /\ calm' \subseteq calm \cup {r} /\ UNCHANGED <<tables, checked>>
    BY <1>2 DEF PriceBundle
  <2>2. t.kind = "priced" /\ t.bundle \in Bundles /\ t.qty \in 1..MostQty
    BY <1>1, <1>2 DEF PriceBundle
  <2> HIDE DEF t, ms
  <2>3. CASE Accepts(task[r].row, ms, task[r].qty)
    <3>1. task' = [task EXCEPT ![r] = t]
      BY <2>1, <2>3
    <3> QED  BY <2>1, <2>2, <3>1, NoEditKeeps
  <2>4. CASE ~Accepts(task[r].row, ms, task[r].qty)
    <3>1. task' = [task EXCEPT ![r] = Idle]
      BY <2>1, <2>4
    <3> QED  BY <2>1, <3>1, NoEditKeeps
  <2> QED  BY <2>3, <2>4
<1>3. CASE LoadMembers(r)
  <2> DEFINE t == [kind |-> "loaded", bundle |-> task[r].bundle,
                   qty |-> task[r].qty, price |-> task[r].price,
                   members |-> Loaded(task[r].bundle)]
  <2>1. /\ task' = [task EXCEPT ![r] = t]
        /\ calm' \subseteq calm \cup {r} /\ UNCHANGED <<tables, checked>>
    BY <1>3 DEF LoadMembers
  <2>2. t.kind = "loaded" /\ t.bundle \in Bundles /\ t.qty \in 1..MostQty
    BY <1>1, <1>3 DEF LoadMembers
  <2> HIDE DEF t
  <2> QED  BY <2>1, <2>2, NoEditKeeps
<1>4. CASE ResolveOrderLines(r)
  <2> DEFINE t == [kind |-> "ordered", bundle |-> task[r].bundle,
                   qty |-> task[r].qty, price |-> task[r].price,
                   lines |-> Lines(task[r].members,
                                   bundle[task[r].bundle].margin)]
  <2>1. /\ task' = [task EXCEPT ![r] = t]
        /\ calm' \subseteq calm \cup {r} /\ UNCHANGED <<tables, checked>>
    BY <1>4 DEF ResolveOrderLines
  <2>2. t.kind = "ordered" /\ t.bundle \in Bundles /\ t.qty \in 1..MostQty
    BY <1>1, <1>4 DEF ResolveOrderLines
  <2> HIDE DEF t
  <2> QED  BY <2>1, <2>2, NoEditKeeps
<1>5. CASE End(r)
  <2>1. /\ task' = [task EXCEPT ![r] = Idle]
        /\ calm' \subseteq calm \cup {r} /\ UNCHANGED <<tables, checked>>
    BY <1>5 DEF End
  <2> QED  BY <2>1, NoEditKeeps
<1> QED  BY <1>2, <1>3, <1>4, <1>5

LEMMA FindBundleKeeps ==
  ASSUME IInv, NEW r \in Requests, NEW b \in Bundles, NEW n \in 1..MostQty,
         FindBundle(r, b, n)
  PROVE  IInv'
<1> DEFINE t == [kind |-> "found", bundle |-> b, qty |-> n, row |-> bundle[b]]
<1>1. /\ task' = [task EXCEPT ![r] = t]
      /\ calm' \subseteq calm \cup {r} /\ UNCHANGED <<tables, checked>>
  BY DEF FindBundle
<1>2. t.kind = "found" /\ t.bundle \in Bundles /\ t.qty \in 1..MostQty
  OBVIOUS
<1> HIDE DEF t
<1> QED  BY <1>1, <1>2, NoEditKeeps

LEMMA NextKeeps ==
  ASSUME IInv, [Next]_vars
  PROVE  IInv'
<1>1. CASE Next
  BY <1>1, CatalogChangesKeeps, ProfitChangesKeeps, CreateKeeps,
     SoftRemoveKeeps, UpdateKeeps, CheckKeeps, CompareKeeps, WriteKeeps,
     FindBundleKeeps, OrderKeeps DEF Next
<1>2. CASE UNCHANGED vars
  <2> USE <1>2 DEF vars, tables
  <2>1. TypeOK'
    BY DEF IInv, TypeOK
  <2>2. EditsAreOfRows' /\ MarginSane'
    BY DEF IInv, EditsAreOfRows, MarginSane
  <2>3. CalmEditsAreSane'
    BY DEF IInv, CalmEditsAreSane, Contained
  <2> QED  BY <2>1, <2>2, <2>3 DEF IInv
<1> QED  BY <1>1, <1>2

-----------------------------------------------------------------------------
(* What a calm order has read *)

\* A request takes a step that writes no table that orders read.
LEMMA StepMatches ==
  ASSUME IInv, CalmOrdersMatch, NEW r \in Requests, NEW t,
         task' = [task EXCEPT ![r] = t], UNCHANGED <<bundle, items, member>>,
         calm' \subseteq calm \cup {r},
         r \in calm' => ReadsNow(t)
  PROVE  CalmOrdersMatch'
<1>1. ASSUME NEW q \in calm' PROVE ReadsNow(task[q])'
  <2>1. PICK s : s = task'[q]
    OBVIOUS
  <2>2. ReadsNow(s)
    <3>1. q \in Requests
      BY DEF IInv, TypeOK
    <3>2. task'[q] = IF q = r THEN t ELSE task[q]
      BY <3>1 DEF IInv, TypeOK
    <3> QED BY <2>1, <3>2 DEF CalmOrdersMatch
  <2> QED BY <2>1, <2>2 DEF ReadsNow, Loaded
<1> QED BY <1>1 DEF CalmOrdersMatch

\* Or none that changes a request.
LEMMA UnreadMatches ==
  ASSUME CalmOrdersMatch, UNCHANGED <<task, bundle, items, member>>,
         calm' \subseteq calm
  PROVE  CalmOrdersMatch'
<1>1. ASSUME NEW q \in calm' PROVE ReadsNow(task[q])'
  <2>1. PICK s : s = task'[q]
    OBVIOUS
  <2>2. ReadsNow(s)
    BY <2>1 DEF CalmOrdersMatch
  <2> QED BY <2>1, <2>2 DEF ReadsNow, Loaded
<1> QED BY <1>1 DEF CalmOrdersMatch

LEMMA NextMatches ==
  ASSUME IInv, CalmOrdersMatch, [Next]_vars
  PROVE  CalmOrdersMatch'
<1> USE DEF tables
<1>1. ASSUME NEW p \in Products, NEW view \in Views[p], CatalogChanges(p, view)
      PROVE  CalmOrdersMatch'
  <2>1. \A q \in calm' : task'[q].kind = "edit"
    BY <1>1 DEF CatalogChanges
  <2> QED BY <2>1 DEF CalmOrdersMatch, ReadsNow
<1>2. ASSUME NEW p \in Products, NEW margin \in Profits, ProfitChanges(p, margin)
      PROVE  CalmOrdersMatch'
  BY <1>2, UnreadMatches DEF ProfitChanges
<1>3. ASSUME NEW r \in Requests, NEW b \in Bundles, NEW draft \in Drafts,
             Create(r, b, draft)
      PROVE  CalmOrdersMatch'
  <2> DEFINE t == [kind |-> "edit", stage |-> "insert", bundle |-> b,
                   mem |-> [state |-> "live", isActive |-> TRUE,
                            margin |-> draft.margin, maxQty |-> draft.maxQty,
                            complete |-> draft.complete],
                   cols |-> Columns, items |-> draft.items]
  <2>1. ReadsNow(t)
    BY DEF ReadsNow
  <2>2. task' = [task EXCEPT ![r] = t] /\ calm' = calm \cup {r}
        /\ UNCHANGED <<bundle, items, member>>
    BY <1>3 DEF Create
  <2> HIDE DEF t
  <2> QED BY <2>1, <2>2, StepMatches
<1>4. ASSUME NEW b \in Bundles, SoftRemove(b) PROVE CalmOrdersMatch'
  BY <1>4 DEF SoftRemove, CalmOrdersMatch
<1>5. ASSUME NEW r \in Requests, NEW b \in Bundles, NEW patch \in Patches,
             Update(r, b, patch)
      PROVE  CalmOrdersMatch'
  <2> DEFINE t == [kind |-> "edit", stage |-> "check", bundle |-> b,
                   mem |-> Patched(bundle[b], patch), cols |-> {},
                   items |-> IF "items" \in DOMAIN patch THEN patch["items"]
                             ELSE <<>>]
  <2>1. ReadsNow(t)
    BY DEF ReadsNow
  <2>2. task' = [task EXCEPT ![r] = t] /\ calm' = calm \cup {r}
        /\ UNCHANGED <<bundle, items, member>>
    BY <1>5 DEF Update
  <2> HIDE DEF t
  <2> QED BY <2>1, <2>2, StepMatches
<1>6. ASSUME NEW r \in Requests, Check(r) PROVE CalmOrdersMatch'
  <2> DEFINE t == [task[r] EXCEPT !.stage = "save"]
  <2>1. ReadsNow(t)
    BY <1>6, EditTypes DEF ReadsNow, Check, IInv, EditTasks
  <2>2. task' = [task EXCEPT ![r] = t] /\ calm' = calm
        /\ UNCHANGED <<bundle, items, member>>
    BY <1>6 DEF Check
  <2> HIDE DEF t
  <2> QED BY <2>1, <2>2, StepMatches
<1>7. ASSUME NEW r \in Requests, Compare(r) PROVE CalmOrdersMatch'
  <2> DEFINE t == [task[r] EXCEPT !.stage = "write",
                      !.cols = {c \in Columns :
                         task[r].mem[c] # bundle[task[r].bundle][c]}]
  <2>1. ReadsNow(t)
    BY <1>7, EditTypes DEF ReadsNow, Compare, IInv, EditTasks
  <2>2. task' = [task EXCEPT ![r] = t] /\ calm' = calm
        /\ UNCHANGED <<bundle, items, member>>
    BY <1>7, EditTypes DEF Compare, IInv, TypeOK, EditTasks
  <2> HIDE DEF t
  <2> QED BY <2>1, <2>2, StepMatches
<1>8. ASSUME NEW r \in Requests, Write(r) PROVE CalmOrdersMatch'
  BY <1>8 DEF Write, CalmOrdersMatch
<1>9. ASSUME NEW r \in Requests, NEW b \in Bundles, NEW n \in 1..MostQty,
             FindBundle(r, b, n)
      PROVE  CalmOrdersMatch'
  <2> DEFINE t == [kind |-> "found", bundle |-> b, qty |-> n, row |-> bundle[b]]
  <2>1. ReadsNow(t)
    BY DEF ReadsNow
  <2>2. task' = [task EXCEPT ![r] = t] /\ calm' = calm \cup {r}
        /\ UNCHANGED <<bundle, items, member>>
    BY <1>9 DEF FindBundle
  <2> HIDE DEF t
  <2> QED BY <2>1, <2>2, StepMatches
<1>10. ASSUME NEW r \in Requests, PriceBundle(r) PROVE CalmOrdersMatch'
  <2> DEFINE ms == Loaded(task[r].bundle)
             t == IF Accepts(task[r].row, ms, task[r].qty)
                  THEN [kind |-> "priced", bundle |-> task[r].bundle,
                        qty |-> task[r].qty,
                        price |-> Price(ms, task[r].row.margin)]
                  ELSE Idle
  <2>1. task' = [task EXCEPT ![r] = t] /\ UNCHANGED <<bundle, items, member>>
        /\ calm' \subseteq calm
    BY <1>10 DEF PriceBundle
  <2>2. ASSUME r \in calm' PROVE ReadsNow(t)
    <3>1. task[r].row = bundle[task[r].bundle]
      BY <1>10, <2>1, <2>2 DEF PriceBundle, CalmOrdersMatch, ReadsNow
    <3> QED BY <3>1 DEF ReadsNow, Idle
  <2> HIDE DEF t
  <2> QED BY <2>1, <2>2, StepMatches
<1>11. ASSUME NEW r \in Requests, LoadMembers(r) PROVE CalmOrdersMatch'
  <2> DEFINE t == [kind |-> "loaded", bundle |-> task[r].bundle,
                   qty |-> task[r].qty, price |-> task[r].price,
                   members |-> Loaded(task[r].bundle)]
  <2>1. task' = [task EXCEPT ![r] = t] /\ UNCHANGED <<bundle, items, member>>
        /\ calm' = calm
    BY <1>11 DEF LoadMembers
  <2>2. ASSUME r \in calm' PROVE ReadsNow(t)
    BY <1>11, <2>1, <2>2 DEF LoadMembers, CalmOrdersMatch, ReadsNow
  <2> HIDE DEF t
  <2> QED BY <2>1, <2>2, StepMatches
<1>12. ASSUME NEW r \in Requests, ResolveOrderLines(r) PROVE CalmOrdersMatch'
  <2> DEFINE t == [kind |-> "ordered", bundle |-> task[r].bundle,
                   qty |-> task[r].qty, price |-> task[r].price,
                   lines |-> Lines(task[r].members,
                                   bundle[task[r].bundle].margin)]
  <2>1. task' = [task EXCEPT ![r] = t] /\ UNCHANGED <<bundle, items, member>>
        /\ calm' = calm
    BY <1>12 DEF ResolveOrderLines
  <2>2. ASSUME r \in calm' PROVE ReadsNow(t)
    BY <1>12, <2>1, <2>2 DEF ResolveOrderLines, CalmOrdersMatch, ReadsNow
  <2> HIDE DEF t
  <2> QED BY <2>1, <2>2, StepMatches
<1>13. ASSUME NEW r \in Requests, End(r) PROVE CalmOrdersMatch'
  <2>1. task' = [task EXCEPT ![r] = Idle] /\ calm' = calm \ {r}
        /\ UNCHANGED <<bundle, items, member>>
    BY <1>13 DEF End
  <2>2. r \notin calm'
    BY <2>1
  <2> QED BY <2>1, <2>2, StepMatches
<1>14. CASE UNCHANGED vars
  BY <1>14, UnreadMatches DEF vars
<1> QED BY <1>1, <1>2, <1>3, <1>4, <1>5, <1>6, <1>7, <1>8, <1>9, <1>10,
           <1>11, <1>12, <1>13, <1>14 DEF Next

\* What checkout prices is a sequence of members.
LEMMA LoadedAreMembers ==
  ASSUME TypeOK, NEW b \in Bundles
  PROVE  AreMembers(Loaded(b))
<1> DEFINE content == items[b]
<1>1. content \in Seq(Items)
  <2>1. content \in Contents \cup {<<>>}
    BY DEF TypeOK
  <2>2. <<>> \in Seq(Items)
    OBVIOUS
  <2> QED BY <2>1, <2>2, ContentsAssumption
<1>2. /\ DOMAIN content = 1..Len(content) /\ Len(content) \in Nat
      /\ \A i \in DOMAIN content : content[i] \in Items
  BY <1>1
<1>3. ASSUME NEW i \in DOMAIN content
      PROVE  /\ content[i].qty \in Nat \ {0}
             /\ member[content[i].product].basePrice \in Nat
  BY <1>2, BoundAssumption DEF TypeOK, Items, MemberViews
<1>4. /\ DOMAIN Loaded(b) = DOMAIN content
      /\ \A i \in DOMAIN content :
           /\ Loaded(b)[i].qty = content[i].qty
           /\ Loaded(b)[i].basePrice = member[content[i].product].basePrice
  BY DEF Loaded
<1>5. Len(Loaded(b)) = Len(content)
  <2> DEFINE V == [qty : Nat \ {0}, basePrice : Nat, view : MemberViews]
  <2>1. Loaded(b) \in [1..Len(content) -> V]
    BY <1>2, <1>3, BoundAssumption DEF Loaded, TypeOK, Items
  <2> HIDE DEF V
  <2> QED BY <1>2, <2>1, IsSequence
<1> QED BY <1>2, <1>3, <1>4, <1>5 DEF AreMembers

\* So its lines are those of its price.
LEMMA MatchIsCharged ==
  ASSUME IInv, CalmOrdersMatch
  PROVE  ChargedAsShown
<1> SUFFICES ASSUME NEW r \in calm, task[r].kind = "ordered"
             PROVE  LET lines == task[r].lines
                        margin == bundle[task[r].bundle].margin
                    IN  /\ LineTotals(lines) = task[r].price
                        /\ LineMargins(lines) <= margin
                        /\ (\E i \in DOMAIN lines : lines[i].qty = 1) =>
                             LineMargins(lines) = margin
  BY DEF ChargedAsShown
<1> DEFINE b == task[r].bundle
           ms == Loaded(b)
           margin == bundle[b].margin
<1>1. r \in Requests /\ b \in Bundles
  BY OrderTypes DEF IInv, TypeOK
<1>2. margin \in Nat
  BY <1>1 DEF IInv, TypeOK, BundleRows
<1>3. AreMembers(ms)
  BY <1>1, LoadedAreMembers DEF IInv
<1>4. task[r].price = Price(ms, margin) /\ task[r].lines = Lines(ms, margin)
  BY DEF CalmOrdersMatch, ReadsNow
<1> HIDE DEF ms, margin
<1>5. /\ DOMAIN Lines(ms, margin) = DOMAIN ms
      /\ \A i \in DOMAIN ms : Lines(ms, margin)[i].qty = ms[i].qty
  BY DEF Lines
<1>6. /\ LineTotals(task[r].lines) = task[r].price
      /\ LineMargins(task[r].lines) = RealizedMargin(ms, margin)
  BY <1>2, <1>3, <1>4, LinesAddUp
<1> QED BY <1>2, <1>3, <1>4, <1>5, <1>6, RealizedFits DEF margin, b

-----------------------------------------------------------------------------
(* What is accepted of a bundle *)

\* One of the statuses of some members is the worst.
LEMMA WorstExists ==
  ASSUME NEW ms, \A i \in DOMAIN ms : ms[i].view \in MemberViews
  PROVE  \E s \in PoStatus :
           /\ s = "available" \/ \E i \in DOMAIN ms : MemberStatus(ms[i].view) = s
           /\ \A i \in DOMAIN ms :
                StatusRank(MemberStatus(ms[i].view)) <= StatusRank(s)
<1> DEFINE st(i) == MemberStatus(ms[i].view)
<1>1. \A i \in DOMAIN ms : st(i) \in PoStatus
  BY DEF MemberStatus, MemberViews, PoStatus
<1>2. /\ StatusRank("available") = 0 /\ StatusRank("limited") = 1
      /\ StatusRank("sold_out") = 2 /\ StatusRank("hidden") = 3
  BY DEF StatusRank
<1> HIDE DEF st
<1>3. SUFFICES \E s \in PoStatus :
                 /\ s = "available" \/ \E i \in DOMAIN ms : st(i) = s
                 /\ \A i \in DOMAIN ms : StatusRank(st(i)) <= StatusRank(s)
  BY DEF st
<1>4. CASE \E i \in DOMAIN ms : st(i) = "hidden"
  BY <1>1, <1>2, <1>4 DEF PoStatus
<1>5. CASE ~(\E i \in DOMAIN ms : st(i) = "hidden")
           /\ \E i \in DOMAIN ms : st(i) = "sold_out"
  BY <1>1, <1>2, <1>5 DEF PoStatus
<1>6. CASE ~(\E i \in DOMAIN ms : st(i) \in {"hidden", "sold_out"})
           /\ \E i \in DOMAIN ms : st(i) = "limited"
  BY <1>1, <1>2, <1>6 DEF PoStatus
<1>7. CASE ~\E i \in DOMAIN ms : st(i) \in {"hidden", "sold_out", "limited"}
  BY <1>1, <1>2, <1>7 DEF PoStatus
<1> QED  BY <1>4, <1>5, <1>6, <1>7

\* A bundle that is neither sold out nor hidden has no member that is.
LEMMA OfferedMembers ==
  ASSUME NEW row, NEW ms, \A i \in DOMAIN ms : ms[i].view \in MemberViews,
         Status(row, ms) \notin {"sold_out", "hidden"}, NEW i \in DOMAIN ms
  PROVE  /\ ms[i].view.published /\ ~ms[i].view.gone
         /\ ms[i].view.poStatus \notin {"sold_out", "hidden"}
<1> DEFINE Worst(s) ==
      /\ s = "available" \/ \E j \in DOMAIN ms : MemberStatus(ms[j].view) = s
      /\ \A j \in DOMAIN ms :
           StatusRank(MemberStatus(ms[j].view)) <= StatusRank(s)
<1>1. ms[i].view.published /\ Status(row, ms) = CHOOSE s \in PoStatus : Worst(s)
  BY DEF Status
<1>2. Status(row, ms) \in PoStatus /\ Worst(Status(row, ms))
  BY <1>1, WorstExists
<1>3. /\ StatusRank("available") = 0 /\ StatusRank("limited") = 1
      /\ StatusRank("sold_out") = 2 /\ StatusRank("hidden") = 3
  BY DEF StatusRank
<1>4. MemberStatus(ms[i].view) \in PoStatus
  BY DEF MemberStatus, MemberViews, PoStatus
<1>5. MemberStatus(ms[i].view) \notin {"sold_out", "hidden"}
  BY <1>2, <1>3, <1>4 DEF PoStatus
<1> QED  BY <1>1, <1>5 DEF MemberStatus

LEMMA OfferedIsBuyableNow == TypeOK => OfferedBundleIsBuyable
<1> SUFFICES ASSUME TypeOK, NEW b \in Bundles, NEW n \in 1..MostQty,
                    Accepts(bundle[b], Loaded(b), n),
                    NEW i \in DOMAIN items[b],
                    ~LooseAccepts(member[items[b][i].product],
                                  n * items[b][i].qty)
             PROVE  /\ member[items[b][i].product].seller = "unapproved"
                    /\ ~member[items[b][i].product].gone
  BY DEF OfferedBundleIsBuyable
<1> DEFINE ms == Loaded(b)
           view == member[items[b][i].product]
           q == items[b][i].qty
<1>1. \A j \in DOMAIN items[b] : items[b][j] \in Items
  BY ContentsAssumption DEF TypeOK
<1>2. /\ DOMAIN ms = DOMAIN items[b]
      /\ \A j \in DOMAIN ms : /\ ms[j].view = member[items[b][j].product]
                              /\ ms[j].qty = items[b][j].qty
  BY DEF Loaded
<1>3. \A j \in DOMAIN ms : ms[j].view \in MemberViews
  BY <1>1, <1>2, BoundAssumption DEF TypeOK, Items
<1>4. /\ q \in Nat \ {0} /\ view \in MemberViews /\ view.maxQty \in Nat
      /\ view.seller \in Sellers
  BY <1>1, <1>2, <1>3 DEF Items, MemberViews
<1>5. Status(bundle[b], ms) \notin {"sold_out", "hidden"}
      /\ WithinLimit(bundle[b], ms, n)
  BY DEF Accepts
<1> HIDE DEF ms
<1>6. /\ view.published /\ ~view.gone
      /\ view.poStatus \notin {"sold_out", "hidden"}
  BY <1>2, <1>3, <1>5, OfferedMembers
<1>7. ASSUME view.maxQty # 0 PROVE n * q <= view.maxQty
  <2>1. n <= view.maxQty \div q
    BY <1>2, <1>5, <1>6, <1>7 DEF WithinLimit, Capped
  <2>2. n \in Nat
    BY BoundAssumption
  <2> HIDE DEF view, q
  <2> QED  BY <1>4, <2>1, <2>2, QuotientBounds
<1> QED  BY <1>6, <1>7, <1>4 DEF LooseAccepts, Sellers

-----------------------------------------------------------------------------
(* Theorems *)

\* The inductive invariant: what a calm edit is about to write is sane.
THEOREM Invariance == Spec => []IInv
BY InitIInv, NextKeeps, PTL DEF Spec

\* Rows and requests keep their types, and a bundle that exists its contents.
THEOREM TypeCorrect == Spec => []TypeOK
<1>1. IInv => TypeOK
  BY DEF IInv
<1> QED  BY Invariance, <1>1, PTL

\* A bundle whose last edit nobody disturbed costs no more than its members.
THEOREM MarginIsSane == Spec => []MarginSane
<1>1. IInv => MarginSane
  BY DEF IInv
<1> QED  BY Invariance, <1>1, PTL

\* A bundle is accepted only where its members would be, bought loose, and the
\* one member that may be refused is a merchant's product not approved now.
THEOREM OfferedIsBuyable == Spec => []OfferedBundleIsBuyable
BY TypeCorrect, OfferedIsBuyableNow, PTL

\* Nobody wrote what a calm order has read: it would read the same again.
THEOREM OrdersMatch == Spec => [](IInv /\ CalmOrdersMatch)
<1>1. Init => IInv /\ CalmOrdersMatch
  BY InitIInv DEF Init, CalmOrdersMatch
<1>2. IInv /\ CalmOrdersMatch /\ [Next]_vars => (IInv /\ CalmOrdersMatch)'
  BY NextKeeps, NextMatches
<1> QED BY <1>1, <1>2, PTL DEF Spec

\* The lines that a calm order writes add up to the price that was shown, and
\* carry the margin of the bundle but for what no quantity can share.
THEOREM PricesAreCharged == Spec => []ChargedAsShown
<1>1. IInv /\ CalmOrdersMatch => ChargedAsShown
  BY MatchIsCharged
<1> QED BY OrdersMatch, <1>1, PTL
=============================================================================
