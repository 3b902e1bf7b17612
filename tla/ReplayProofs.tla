---------------------------- MODULE ReplayProofs ----------------------------
(***************************************************************************)
(* Proofs about the two backtesters (BacktestReplay, CsvReplay): their     *)
(* ledgers, their reports, and that they agree.                            *)
(*                                                                         *)
(* Sums and averages are functions defined by recursion over the candles.  *)
(* That they exist, and what they add up to, is proved by induction over   *)
(* sets of natural numbers, which needs no operator as a parameter.        *)
(***************************************************************************)
EXTENDS CsvReplay, FiniteSetTheorems, SequenceTheorems, WellFoundedInduction, TLAPS

----------------------------------------------------------------------------
(* Induction and recursion                                                 *)

LEMMA HasLeast ==
  ASSUME NEW S \in SUBSET Nat, S # {}
  PROVE  \E m \in S : \A n \in S : m <= n
<1>1. PICK m \in S : \A n \in S : ~(<<n, m>> \in OpToRel(<, Nat))
  BY NatLessThanWellFounded, WFMin
<1>2. ASSUME NEW n \in S PROVE m <= n
  <2>1. ~ (n < m)
    BY <1>1 DEF OpToRel
  <2> QED BY <2>1
<1> QED
  BY <1>2

LEMMA Induction ==
  ASSUME NEW N \in Nat, NEW S, 0 \in S, \A n \in 0..(N - 1) : n \in S => n + 1 \in S
  PROVE  0..N \subseteq S
<1> DEFINE missing == {n \in 0..N : n \notin S}
<1> SUFFICES ASSUME missing # {} PROVE FALSE
  OBVIOUS
<1>1. missing \in SUBSET Nat
  OBVIOUS
<1>2. PICK m \in missing : \A n \in missing : m <= n
  BY <1>1, HasLeast
<1>3. m \in 1..N
  BY <1>2
<1>4. m - 1 \in 0..(N - 1) /\ m - 1 \notin missing
  BY <1>2, <1>3
<1>5. m - 1 \in S
  BY <1>4, <1>3
<1>6. m - 1 + 1 = m
  BY <1>3
<1> QED
  BY <1>2, <1>4, <1>5, <1>6

\* A function defined by recursion over 0..N exists.
IsRecursion(f, N, base, step) ==
  f = [n \in 0..N |-> IF n = 0 THEN base ELSE step[n][f[n - 1]]]

LEMMA RecursionExtends ==
  ASSUME NEW N \in Nat, NEW T, NEW base \in T, NEW step \in [1..N -> [T -> T]],
         NEW n \in 0..(N - 1), NEW f \in [0..n -> T], IsRecursion(f, n, base, step)
  PROVE  \E g \in [0..(n + 1) -> T] : IsRecursion(g, n + 1, base, step)
<1> DEFINE g == [i \in 0..(n + 1) |-> IF i <= n THEN f[i] ELSE step[i][f[i - 1]]]
<1>1. step[n + 1] \in [T -> T] /\ f[n] \in T
  OBVIOUS
<1>2. g \in [0..(n + 1) -> T]
  BY <1>1
<1>3. \A i \in 0..(n + 1) : g[i] = IF i = 0 THEN base ELSE step[i][g[i - 1]]
  <2> SUFFICES ASSUME NEW i \in 0..(n + 1)
               PROVE  g[i] = IF i = 0 THEN base ELSE step[i][g[i - 1]]
    OBVIOUS
  <2>1. CASE i = n + 1
    <3>1. i - 1 = n /\ i # 0 /\ ~(i <= n)
      BY <2>1
    <3>2. g[i - 1] = f[i - 1]
      BY <3>1
    <3> QED BY <3>1, <3>2
  <2>2. CASE i <= n
    <3>1. g[i] = f[i] /\ f[i] = IF i = 0 THEN base ELSE step[i][f[i - 1]]
      BY <2>2 DEF IsRecursion
    <3>2. i # 0 => g[i - 1] = f[i - 1]
      BY <2>2
    <3> QED BY <3>1, <3>2
  <2> QED BY <2>1, <2>2
<1>4. IsRecursion(g, n + 1, base, step)
  BY <1>2, <1>3 DEF IsRecursion
<1> QED
  BY <1>2, <1>4

LEMMA RecursionExists ==
  ASSUME NEW N \in Nat, NEW T, NEW base \in T, NEW step \in [1..N -> [T -> T]]
  PROVE  \E f \in [0..N -> T] : IsRecursion(f, N, base, step)
<1> DEFINE reached == {n \in 0..N : \E f \in [0..n -> T] : IsRecursion(f, n, base, step)}
<1>1. 0 \in reached
  <2>1. [i \in 0..0 |-> base] \in [0..0 -> T]
    OBVIOUS
  <2>2. IsRecursion([i \in 0..0 |-> base], 0, base, step)
    BY DEF IsRecursion
  <2> QED BY <2>1, <2>2
<1>2. \A n \in 0..(N - 1) : n \in reached => n + 1 \in reached
  <2> SUFFICES ASSUME NEW n \in 0..(N - 1), n \in reached PROVE n + 1 \in reached
    OBVIOUS
  <2>1. PICK f \in [0..n -> T] : IsRecursion(f, n, base, step)
    OBVIOUS
  <2>2. \E g \in [0..(n + 1) -> T] : IsRecursion(g, n + 1, base, step)
    BY <2>1, RecursionExtends
  <2> QED BY <2>2
<1>3. 0..N \subseteq reached
  <2> HIDE DEF reached
  <2> QED BY <1>1, <1>2, Induction
<1> QED
  BY <1>3

----------------------------------------------------------------------------
(* Sums                                                                    *)

\* What the sum of a sequence is: the recursion of Sums has a solution.
LEMMA SumsRecursion ==
  ASSUME NEW s \in Seq(Int)
  PROVE  /\ Sums(s) \in [0..Len(s) -> Int]
         /\ Sums(s)[0] = 0
         /\ \A n \in 1..Len(s) : Sums(s)[n] = Sums(s)[n - 1] + s[n]
<1> DEFINE step == [n \in 1..Len(s) |-> [x \in Int |-> x + s[n]]]
<1> DEFINE Solves(f) == f = [n \in 0..Len(s) |-> IF n = 0 THEN 0 ELSE f[n - 1] + s[n]]
<1>1. step \in [1..Len(s) -> [Int -> Int]]
  OBVIOUS
<1>2. PICK f \in [0..Len(s) -> Int] : IsRecursion(f, Len(s), 0, step)
  <2>1. Len(s) \in Nat /\ 0 \in Int
    OBVIOUS
  <2> HIDE DEF step
  <2> QED BY <1>1, <2>1, RecursionExists
<1>3. \A n \in 0..Len(s) : f[n] = IF n = 0 THEN 0 ELSE f[n - 1] + s[n]
  <2> SUFFICES ASSUME NEW n \in 0..Len(s) PROVE f[n] = IF n = 0 THEN 0 ELSE f[n - 1] + s[n]
    OBVIOUS
  <2>1. f[n] = IF n = 0 THEN 0 ELSE step[n][f[n - 1]]
    BY <1>2 DEF IsRecursion
  <2>2. ASSUME n # 0 PROVE step[n][f[n - 1]] = f[n - 1] + s[n]
    <3>1. n \in 1..Len(s) /\ n - 1 \in 0..Len(s)
      BY <2>2
    <3>2. f[n - 1] \in Int
      BY <3>1
    <3>3. step[n] = [x \in Int |-> x + s[n]]
      BY <3>1
    <3> HIDE DEF step
    <3> QED BY <3>2, <3>3
  <2> QED BY <2>1, <2>2
<1>4. Solves(f)
  BY <1>3
<1>5. Sums(s) = CHOOSE g : Solves(g)
  BY Zenon DEF Sums
<1>6. Solves(Sums(s))
  <2> HIDE DEF Solves
  <2> QED BY <1>4, <1>5, Zenon
<1>7. \A n \in 0..Len(s) : Sums(s)[n] = IF n = 0 THEN 0 ELSE Sums(s)[n - 1] + s[n]
  <2> DEFINE g == Sums(s)
  <2>1. Solves(g)
    BY <1>6
  <2> HIDE DEF g
  <2>2. \A n \in 0..Len(s) : g[n] = IF n = 0 THEN 0 ELSE g[n - 1] + s[n]
    BY <2>1
  <2> QED BY <2>2 DEF g
<1>8. DOMAIN Sums(s) = 0..Len(s) /\ Sums(s) = [n \in DOMAIN Sums(s) |-> Sums(s)[n]]
  <2> DEFINE g == Sums(s)
  <2>1. Solves(g)
    BY <1>6
  <2> HIDE DEF g
  <2>2. DOMAIN g = 0..Len(s) /\ g = [n \in DOMAIN g |-> g[n]]
    BY <2>1
  <2> QED BY <2>2 DEF g
<1>9. 0..Len(s) \subseteq {n \in 0..Len(s) : Sums(s)[n] \in Int}
  <2> DEFINE typed == {n \in 0..Len(s) : Sums(s)[n] \in Int}
  <2>1. 0 \in typed
    BY <1>7
  <2>2. ASSUME NEW n \in 0..(Len(s) - 1), n \in typed PROVE n + 1 \in typed
    <3>1. Sums(s)[n + 1] = Sums(s)[n] + s[n + 1]
      BY <1>7
    <3>2. s[n + 1] \in Int
      OBVIOUS
    <3> QED BY <2>2, <3>1, <3>2
  <2> HIDE DEF typed
  <2> QED BY <2>1, <2>2, Induction
<1>10. \A n \in 0..Len(s) : Sums(s)[n] \in Int
  BY <1>9
<1>11. Sums(s) \in [0..Len(s) -> Int]
  BY <1>8, <1>10
<1>12. \A n \in 1..Len(s) : Sums(s)[n] = Sums(s)[n - 1] + s[n]
  BY <1>7
<1> QED
  BY <1>7, <1>11, <1>12

LEMMA SumsStep ==
  ASSUME NEW s \in Seq(Int), NEW n \in 0..(Len(s) - 1)
  PROVE  /\ Sums(s)[n + 1] = Sums(s)[n] + s[n + 1]
         /\ Sums(s)[n] \in Int /\ Sums(s)[n + 1] \in Int /\ s[n + 1] \in Int
<1>1. n \in 0..Len(s) /\ n + 1 \in 1..Len(s) /\ n + 1 \in 0..Len(s) /\ n + 1 - 1 = n
  OBVIOUS
<1>2. Sums(s)[n] \in Int /\ Sums(s)[n + 1] \in Int
  BY <1>1, SumsRecursion
<1>3. Sums(s)[n + 1] = Sums(s)[n + 1 - 1] + s[n + 1]
  BY <1>1, SumsRecursion
<1> QED
  BY <1>1, <1>2, <1>3

LEMMA TotalIsInt ==
  ASSUME NEW s \in Seq(Int)
  PROVE  Total(s) \in Int
BY SumsRecursion DEF Total

\* The sum of the first n depends on them alone.
LEMMA SumsAgree ==
  ASSUME NEW s \in Seq(Int), NEW t \in Seq(Int), NEW N \in 0..Len(s), N <= Len(t),
         \A i \in 1..N : s[i] = t[i]
  PROVE  Sums(s)[N] = Sums(t)[N]
<1> DEFINE same == {n \in 0..N : Sums(s)[n] = Sums(t)[n]}
<1>1. 0 \in same
  BY SumsRecursion
<1>2. ASSUME NEW n \in 0..(N - 1), n \in same PROVE n + 1 \in same
  <2>1. Sums(s)[n + 1] = Sums(s)[n] + s[n + 1]
    BY SumsStep
  <2>2. Sums(t)[n + 1] = Sums(t)[n] + t[n + 1]
    BY SumsStep
  <2> QED BY <1>2, <2>1, <2>2
<1>3. 0..N \subseteq same
  <2>1. N \in Nat
    OBVIOUS
  <2> HIDE DEF same
  <2> QED BY <1>1, <1>2, <2>1, Induction
<1> QED
  BY <1>3

LEMMA TotalOfNone ==
  ASSUME NEW s \in Seq(Int), s = <<>>
  PROVE  Total(s) = 0
BY SumsRecursion DEF Total

LEMMA TotalAppend ==
  ASSUME NEW s \in Seq(Int), NEW x \in Int
  PROVE  Total(Append(s, x)) = Total(s) + x
<1> DEFINE t == Append(s, x)
<1>1. t \in Seq(Int) /\ Len(t) = Len(s) + 1 /\ t[Len(s) + 1] = x
      /\ \A i \in 1..Len(s) : s[i] = t[i]
  OBVIOUS
<1> HIDE DEF t
<1>2. Sums(t)[Len(s) + 1] = Sums(t)[Len(s)] + x
  BY <1>1, SumsRecursion
<1>3. Sums(s)[Len(s)] = Sums(t)[Len(s)]
  <2>1. Len(s) \in 0..Len(s) /\ Len(s) <= Len(t)
    BY <1>1
  <2> QED BY <1>1, <2>1, SumsAgree
<1>4. Total(t) = Total(s) + x
  BY <1>1, <1>2, <1>3 DEF Total
<1> QED
  BY <1>4 DEF t

LEMMA TotalBounds ==
  ASSUME NEW s \in Seq(Int), NEW low \in Int, NEW high \in Int,
         \A i \in 1..Len(s) : low <= s[i] /\ s[i] <= high
  PROVE  low * Len(s) <= Total(s) /\ Total(s) <= high * Len(s)
<1> DEFINE N == Len(s)
           bounded == {n \in 0..N : low * n <= Sums(s)[n] /\ Sums(s)[n] <= high * n}
<1>0. N \in Nat
  OBVIOUS
<1>1. 0 \in bounded
  BY SumsRecursion
<1>2. ASSUME NEW n \in 0..(N - 1), n \in bounded PROVE n + 1 \in bounded
  <2>1. Sums(s)[n + 1] = Sums(s)[n] + s[n + 1] /\ Sums(s)[n] \in Int
    BY SumsStep
  <2>2. low <= s[n + 1] /\ s[n + 1] <= high /\ s[n + 1] \in Int
    OBVIOUS
  <2>3. low * (n + 1) = low * n + low /\ high * (n + 1) = high * n + high
    OBVIOUS
  <2>4. low * n \in Int /\ high * n \in Int
    OBVIOUS
  <2>5. low * (n + 1) <= Sums(s)[n + 1] /\ Sums(s)[n + 1] <= high * (n + 1)
    BY <1>2, <2>1, <2>2, <2>3, <2>4
  <2> QED BY <2>5
<1>3. 0..N \subseteq bounded
  <2> HIDE DEF bounded, N
  <2> QED BY <1>0, <1>1, <1>2, Induction
<1> QED
  BY <1>0, <1>3 DEF Total

\* Nothing is lost when gains and losses are summed apart.
LEMMA RisesAndFalls ==
  ASSUME NEW s \in Seq(Int)
  PROVE  /\ Rises(s) \in Seq(Int) /\ Len(Rises(s)) = Len(s)
         /\ Falls(s) \in Seq(Int) /\ Len(Falls(s)) = Len(s)
         /\ \A i \in 1..Len(s) : /\ Rises(s)[i] = Rise(s[i]) /\ Falls(s)[i] = Rise(-s[i])
                                 /\ Rises(s)[i] >= 0 /\ Falls(s)[i] >= 0
                                 /\ s[i] = Rises(s)[i] - Falls(s)[i]
<1>1. \A i \in 1..Len(s) : Rise(s[i]) \in Nat /\ Rise(-s[i]) \in Nat
                           /\ s[i] = Rise(s[i]) - Rise(-s[i])
  BY DEF Rise
<1>2. Rises(s) = [i \in 1..Len(s) |-> Rise(s[i])] /\ Falls(s) = [i \in 1..Len(s) |-> Rise(-s[i])]
  BY DEF Rises, Falls
<1> QED
  BY <1>1, <1>2

LEMMA TotalOfRisesAndFalls ==
  ASSUME NEW s \in Seq(Int)
  PROVE  Total(s) = Total(Rises(s)) - Total(Falls(s))
<1> DEFINE N == Len(s)
           balanced == {n \in 0..N : Sums(s)[n] = Sums(Rises(s))[n] - Sums(Falls(s))[n]}
<1>0. N \in Nat
  OBVIOUS
<1>1. 0 \in balanced
  BY SumsRecursion, RisesAndFalls
<1>2. ASSUME NEW n \in 0..(N - 1), n \in balanced PROVE n + 1 \in balanced
  <2> DEFINE r == Rises(s)
             f == Falls(s)
  <2>1. Sums(s)[n + 1] = Sums(s)[n] + s[n + 1] /\ Sums(s)[n] \in Int /\ s[n + 1] \in Int
    BY SumsStep
  <2>2. r \in Seq(Int) /\ Len(r) = N /\ f \in Seq(Int) /\ Len(f) = N
    BY RisesAndFalls
  <2>3. Sums(r)[n + 1] = Sums(r)[n] + r[n + 1] /\ Sums(r)[n] \in Int /\ r[n + 1] \in Int
    <3> HIDE DEF r
    <3> QED BY <2>2, SumsStep
  <2>4. Sums(f)[n + 1] = Sums(f)[n] + f[n + 1] /\ Sums(f)[n] \in Int /\ f[n + 1] \in Int
    <3> HIDE DEF f
    <3> QED BY <2>2, SumsStep
  <2>5. s[n + 1] = r[n + 1] - f[n + 1]
    BY RisesAndFalls
  <2>6. Sums(s)[n] = Sums(r)[n] - Sums(f)[n]
    BY <1>2
  <2> HIDE DEF r, f
  <2>7. Sums(s)[n + 1] = Sums(r)[n + 1] - Sums(f)[n + 1]
    <3>1. Sums(r)[n + 1] - Sums(f)[n + 1]
            = (Sums(r)[n] - Sums(f)[n]) + (r[n + 1] - f[n + 1])
      BY <2>3, <2>4
    <3> QED BY <2>1, <2>5, <2>6, <3>1
  <2> QED BY <2>7 DEF r, f
<1>3. 0..N \subseteq balanced
  <2> HIDE DEF balanced, N
  <2> QED BY <1>0, <1>1, <1>2, Induction
<1>4. Sums(s)[N] = Sums(Rises(s))[N] - Sums(Falls(s))[N]
  BY <1>0, <1>3
<1>5. Len(Rises(s)) = N /\ Len(Falls(s)) = N
  BY RisesAndFalls
<1> QED
  BY <1>4, <1>5 DEF Total

LEMMA TotalOfNaturals ==
  ASSUME NEW s \in Seq(Int), \A i \in 1..Len(s) : s[i] >= 0
  PROVE  /\ Total(s) >= 0
         /\ \A i \in 1..Len(s) : s[i] > 0 => Total(s) > 0
<1> DEFINE N == Len(s)
           grown == {n \in 0..N : Sums(s)[n] >= 0 /\ \A i \in 1..n : Sums(s)[n] >= s[i]}
<1>0. N \in Nat
  OBVIOUS
<1>1. 0 \in grown
  BY SumsRecursion
<1>2. ASSUME NEW n \in 0..(N - 1), n \in grown PROVE n + 1 \in grown
  <2>1. Sums(s)[n + 1] = Sums(s)[n] + s[n + 1] /\ Sums(s)[n] \in Int
    BY SumsStep
  <2>2. \A i \in 1..N : s[i] \in Int /\ s[i] >= 0
    OBVIOUS
  <2>3. Sums(s)[n + 1] >= 0
    BY <1>2, <2>1, <2>2
  <2>4. ASSUME NEW i \in 1..(n + 1) PROVE Sums(s)[n + 1] >= s[i]
    <3>1. CASE i = n + 1
      BY <1>2, <2>1, <2>2, <3>1
    <3>2. CASE i \in 1..n
      <4>1. Sums(s)[n] >= s[i]
        BY <1>2, <3>2
      <4>2. s[i] \in Int /\ s[n + 1] \in Int /\ s[n + 1] >= 0
        BY <2>2
      <4> QED BY <2>1, <4>1, <4>2
    <3> QED BY <3>1, <3>2
  <2> QED BY <2>3, <2>4
<1>3. 0..N \subseteq grown
  <2> HIDE DEF grown, N
  <2> QED BY <1>0, <1>1, <1>2, Induction
<1>4. Sums(s)[N] >= 0 /\ \A i \in 1..N : Sums(s)[N] >= s[i]
  BY <1>0, <1>3
<1>5. Sums(s)[N] \in Int /\ \A i \in 1..N : s[i] \in Int
  BY SumsRecursion
<1> QED
  BY <1>4, <1>5 DEF Total

\* The best and the worst of a sequence.
LEMMA MaxIs ==
  ASSUME NEW S \in SUBSET Int, NEW m \in S, \A x \in S : m >= x
  PROVE  Max(S) = m
<1> DEFINE Is(x) == x \in S /\ \A y \in S : x >= y
<1>1. Max(S) = CHOOSE x : Is(x)
  BY Zenon DEF Max
<1>2. Is(m)
  OBVIOUS
<1>3. Is(Max(S))
  <2> HIDE DEF Is
  <2> QED BY <1>1, <1>2, Zenon
<1>4. Max(S) \in S /\ Max(S) >= m /\ m >= Max(S)
  BY <1>3
<1>5. Max(S) \in Int /\ m \in Int
  BY <1>4
<1> QED
  BY <1>4, <1>5

LEMMA MinIs ==
  ASSUME NEW S \in SUBSET Int, NEW m \in S, \A x \in S : m <= x
  PROVE  Min(S) = m
<1> DEFINE Is(x) == x \in S /\ \A y \in S : x <= y
<1>1. Min(S) = CHOOSE x : Is(x)
  BY Zenon DEF Min
<1>2. Is(m)
  OBVIOUS
<1>3. Is(Min(S))
  <2> HIDE DEF Is
  <2> QED BY <1>1, <1>2, Zenon
<1>4. Min(S) \in S /\ Min(S) <= m /\ m <= Min(S)
  BY <1>3
<1>5. Min(S) \in Int /\ m \in Int
  BY <1>4
<1> QED
  BY <1>4, <1>5

LEMMA MaxOfTwo ==
  ASSUME NEW a \in Int, NEW b \in Int
  PROVE  Max({a, b}) = IF a >= b THEN a ELSE b
BY MaxIs

LEMMA HasExtremes ==
  ASSUME NEW s \in Seq(Int), s # <<>>
  PROVE  /\ \E i \in 1..Len(s) : \A j \in 1..Len(s) : s[i] >= s[j]
         /\ \E i \in 1..Len(s) : \A j \in 1..Len(s) : s[i] <= s[j]
<1> DEFINE N == Len(s)
           Extreme(n) == /\ \E i \in 1..n : \A j \in 1..n : s[i] >= s[j]
                         /\ \E i \in 1..n : \A j \in 1..n : s[i] <= s[j]
           extreme == {n \in 0..N : n > 0 => Extreme(n)}
<1>0. N \in Nat /\ N > 0 /\ \A i \in 1..N : s[i] \in Int
  OBVIOUS
<1>1. 0 \in extreme
  OBVIOUS
<1>2. ASSUME NEW n \in 0..(N - 1), n \in extreme PROVE n + 1 \in extreme
  <2>1. CASE n = 0
    BY <2>1, <1>0
  <2>2. CASE n > 0
    <3>1. PICK i \in 1..n : \A j \in 1..n : s[i] >= s[j]
      BY <1>2, <2>2
    <3>2. PICK k \in 1..n : \A j \in 1..n : s[k] <= s[j]
      BY <1>2, <2>2
    <3>3. i \in 1..N /\ k \in 1..N /\ n + 1 \in 1..N /\ 1..n \subseteq 1..N
      BY <1>0
    <3>4. \E h \in 1..(n + 1) : \A j \in 1..(n + 1) : s[h] >= s[j]
      <4>1. CASE s[i] >= s[n + 1]
        <5>1. \A j \in 1..(n + 1) : s[i] >= s[j]
          BY <3>1, <4>1
        <5> QED BY <5>1
      <4>2. CASE s[n + 1] >= s[i]
        <5>1. \A j \in 1..(n + 1) : s[n + 1] >= s[j]
          <6> SUFFICES ASSUME NEW j \in 1..(n + 1) PROVE s[n + 1] >= s[j]
            OBVIOUS
          <6>1. s[j] \in Int /\ s[i] \in Int /\ s[n + 1] \in Int
            BY <1>0, <3>3
          <6>2. j = n + 1 \/ s[i] >= s[j]
            BY <3>1
          <6> QED BY <4>2, <6>1, <6>2
        <5> QED BY <5>1
      <4>3. s[i] \in Int /\ s[n + 1] \in Int
        BY <1>0, <3>3
      <4>4. s[i] >= s[n + 1] \/ s[n + 1] >= s[i]
        BY <4>3
      <4> QED BY <4>1, <4>2, <4>4
    <3>5. \E h \in 1..(n + 1) : \A j \in 1..(n + 1) : s[h] <= s[j]
      <4>1. CASE s[k] <= s[n + 1]
        <5>1. \A j \in 1..(n + 1) : s[k] <= s[j]
          BY <3>2, <4>1
        <5> QED BY <5>1
      <4>2. CASE s[n + 1] <= s[k]
        <5>1. \A j \in 1..(n + 1) : s[n + 1] <= s[j]
          <6> SUFFICES ASSUME NEW j \in 1..(n + 1) PROVE s[n + 1] <= s[j]
            OBVIOUS
          <6>1. s[j] \in Int /\ s[k] \in Int /\ s[n + 1] \in Int
            BY <1>0, <3>3
          <6>2. j = n + 1 \/ s[k] <= s[j]
            BY <3>2
          <6> QED BY <4>2, <6>1, <6>2
        <5> QED BY <5>1
      <4>3. s[k] \in Int /\ s[n + 1] \in Int
        BY <1>0, <3>3
      <4>4. s[k] <= s[n + 1] \/ s[n + 1] <= s[k]
        BY <4>3
      <4> QED BY <4>1, <4>2, <4>4
    <3>6. Extreme(n + 1)
      BY <3>4, <3>5
    <3> HIDE DEF Extreme
    <3> QED BY <3>6
  <2> QED BY <2>1, <2>2
<1>3. 0..N \subseteq extreme
  <2> HIDE DEF extreme, N
  <2> QED BY <1>0, <1>1, <1>2, Induction
<1>4. Extreme(N)
  <2>1. N \in extreme
    <3>1. N \in 0..N
      BY <1>0
    <3> HIDE DEF extreme, N
    <3> QED BY <1>3, <3>1
  <2> HIDE DEF Extreme
  <2> QED BY <1>0, <2>1
<1> QED
  BY <1>4

LEMMA BestAndWorst ==
  ASSUME NEW s \in Seq(Int), s # <<>>
  PROVE  /\ Max(Range(s)) \in Int /\ Min(Range(s)) \in Int
         /\ \A i \in 1..Len(s) : Min(Range(s)) <= s[i] /\ s[i] <= Max(Range(s))
<1>1. Range(s) = {s[i] : i \in 1..Len(s)} /\ Range(s) \in SUBSET Int
  BY DEF Range
<1>2. PICK h \in 1..Len(s) : \A j \in 1..Len(s) : s[h] >= s[j]
  BY HasExtremes
<1>3. PICK k \in 1..Len(s) : \A j \in 1..Len(s) : s[k] <= s[j]
  BY HasExtremes
<1>4. Max(Range(s)) = s[h]
  <2>1. s[h] \in Range(s) /\ \A x \in Range(s) : s[h] >= x
    BY <1>1, <1>2
  <2> QED BY <1>1, <2>1, MaxIs
<1>5. Min(Range(s)) = s[k]
  <2>1. s[k] \in Range(s) /\ \A x \in Range(s) : s[k] <= x
    BY <1>1, <1>3
  <2> QED BY <1>1, <2>1, MinIs
<1> QED
  BY <1>2, <1>3, <1>4, <1>5

----------------------------------------------------------------------------
(* Windows of the candles                                                  *)

LEMMA LastOfIs ==
  ASSUME NEW T, NEW s \in Seq(T), NEW n \in 0..Len(s)
  PROVE  /\ LastOf(s, n) \in Seq(T)
         /\ Len(LastOf(s, n)) = n
         /\ \A i \in 1..n : LastOf(s, n)[i] = s[Len(s) - n + i]
<1> DEFINE from == Len(s) - n + 1
<1>1. from \in Int /\ Len(s) \in Int /\ \A i \in from..Len(s) : s[i] \in T
  OBVIOUS
<1>2. LastOf(s, n) = SubSeq(s, from, Len(s))
  BY DEF LastOf
<1>3. /\ SubSeq(s, from, Len(s)) \in Seq(T)
      /\ Len(SubSeq(s, from, Len(s))) = IF from <= Len(s) THEN Len(s) - from + 1 ELSE 0
      /\ \A i \in 1..(Len(s) - from + 1) : SubSeq(s, from, Len(s))[i] = s[from + i - 1]
  <2> HIDE DEF from
  <2> QED BY <1>1, SubSeqProperties
<1>4. Len(s) - from + 1 = n /\ (from > Len(s) => n = 0)
  OBVIOUS
<1>5. \A i \in 1..n : from + i - 1 = Len(s) - n + i
  OBVIOUS
<1> QED
  BY <1>2, <1>3, <1>4, <1>5

LEMMA FrontIs ==
  ASSUME NEW T, NEW s \in Seq(T), s # <<>>
  PROVE  /\ Front(s) \in Seq(T)
         /\ Len(Front(s)) = Len(s) - 1
         /\ \A i \in 1..(Len(s) - 1) : Front(s)[i] = s[i]
<1> DEFINE to == Len(s) - 1
<1>1. 1 \in Int /\ to \in Nat /\ \A i \in 1..to : s[i] \in T
  OBVIOUS
<1>2. /\ SubSeq(s, 1, to) \in Seq(T)
      /\ Len(SubSeq(s, 1, to)) = IF 1 <= to THEN to - 1 + 1 ELSE 0
      /\ \A i \in 1..(to - 1 + 1) : SubSeq(s, 1, to)[i] = s[1 + i - 1]
  <2> HIDE DEF to
  <2> QED BY <1>1, SubSeqProperties
<1>3. Front(s) = SubSeq(s, 1, to)
  BY DEF Front
<1> HIDE DEF to
<1>4. to - 1 + 1 = to /\ (~(1 <= to) => to = 0) /\ \A i \in 1..to : 1 + i - 1 = i
  BY <1>1
<1>5. Front(s) \in Seq(T) /\ Len(Front(s)) = to /\ \A i \in 1..to : Front(s)[i] = s[i]
  BY <1>2, <1>3, <1>4
<1> QED
  BY <1>5 DEF to

LEMMA LastOfLastOf ==
  ASSUME NEW T, NEW s \in Seq(T), NEW n \in 0..Len(s), NEW k \in 0..n
  PROVE  LastOf(LastOf(s, n), k) = LastOf(s, k)
<1> DEFINE w == LastOf(s, n)
<1>0. Len(s) \in Nat /\ k \in 0..Len(s)
  OBVIOUS
<1>1. w \in Seq(T) /\ Len(w) = n /\ \A i \in 1..n : w[i] = s[Len(s) - n + i]
  BY LastOfIs
<1> HIDE DEF w
<1>2. /\ LastOf(w, k) \in Seq(T) /\ Len(LastOf(w, k)) = k
      /\ \A i \in 1..k : LastOf(w, k)[i] = w[n - k + i]
  <2>1. w \in Seq(T) /\ k \in 0..Len(w) /\ Len(w) = n
    BY <1>1
  <2> QED BY <2>1, LastOfIs
<1>3. /\ LastOf(s, k) \in Seq(T) /\ Len(LastOf(s, k)) = k
      /\ \A i \in 1..k : LastOf(s, k)[i] = s[Len(s) - k + i]
  BY <1>0, LastOfIs
<1>4. ASSUME NEW i \in 1..k PROVE LastOf(w, k)[i] = LastOf(s, k)[i]
  <2>1. n - k + i \in 1..n /\ Len(s) - n + (n - k + i) = Len(s) - k + i
    BY <1>0
  <2>2. w[n - k + i] = s[Len(s) - k + i]
    BY <1>1, <2>1
  <2> QED BY <1>2, <1>3, <2>2
<1>5. LastOf(w, k) = LastOf(s, k)
  BY <1>2, <1>3, <1>4, SeqEqual
<1> QED
  BY <1>5 DEF w

LEMMA FrontOfLastOf ==
  ASSUME NEW T, NEW s \in Seq(T), NEW n \in 1..Len(s)
  PROVE  Front(LastOf(s, n)) = LastOf(Front(s), n - 1)
<1> DEFINE w == LastOf(s, n)
           f == Front(s)
<1>0. Len(s) \in Nat /\ n \in 0..Len(s) /\ s # <<>>
  OBVIOUS
<1>1. w \in Seq(T) /\ Len(w) = n /\ \A i \in 1..n : w[i] = s[Len(s) - n + i]
  BY <1>0, LastOfIs
<1>2. f \in Seq(T) /\ Len(f) = Len(s) - 1 /\ \A i \in 1..(Len(s) - 1) : f[i] = s[i]
  BY <1>0, FrontIs
<1> HIDE DEF w, f
<1>3. w # <<>>
  BY <1>1
<1>4. Front(w) \in Seq(T) /\ Len(Front(w)) = n - 1 /\ \A i \in 1..(n - 1) : Front(w)[i] = w[i]
  BY <1>1, <1>3, FrontIs
<1>5. n - 1 \in 0..Len(f)
  BY <1>0, <1>2
<1>6. /\ LastOf(f, n - 1) \in Seq(T) /\ Len(LastOf(f, n - 1)) = n - 1
      /\ \A i \in 1..(n - 1) : LastOf(f, n - 1)[i] = f[Len(f) - (n - 1) + i]
  BY <1>2, <1>5, LastOfIs
<1>7. ASSUME NEW i \in 1..(n - 1) PROVE Front(w)[i] = LastOf(f, n - 1)[i]
  <2>1. i \in 1..n /\ Len(f) - (n - 1) + i = Len(s) - n + i /\ Len(s) - n + i \in 1..(Len(s) - 1)
    BY <1>0, <1>2
  <2>2. Front(w)[i] = s[Len(s) - n + i]
    BY <1>1, <1>4, <2>1
  <2>3. LastOf(f, n - 1)[i] = f[Len(s) - n + i]
    BY <1>6, <2>1
  <2>4. f[Len(s) - n + i] = s[Len(s) - n + i]
    BY <1>2, <2>1
  <2> QED BY <2>2, <2>3, <2>4
<1>8. Front(w) = LastOf(f, n - 1)
  BY <1>4, <1>6, <1>7, SeqEqual
<1> QED
  BY <1>8 DEF w, f

LEMMA LastOfLast ==
  ASSUME NEW T, NEW s \in Seq(T), NEW n \in 1..Len(s)
  PROVE  LastOf(s, n) # <<>> /\ Last(LastOf(s, n)) = Last(s)
<1>1. n \in 0..Len(s) /\ Len(s) \in Nat /\ Len(s) - n + n = Len(s)
  OBVIOUS
<1>2. Len(LastOf(s, n)) = n /\ LastOf(s, n)[n] = s[Len(s)]
  BY <1>1, LastOfIs
<1> QED
  BY <1>2 DEF Last

LEMMA LastOfAll ==
  ASSUME NEW T, NEW s \in Seq(T)
  PROVE  LastOf(s, Len(s)) = s
<1>1. Len(s) \in 0..Len(s) /\ \A i \in 1..Len(s) : Len(s) - Len(s) + i = i
  OBVIOUS
<1> QED
  BY <1>1, LastOfIs, SeqEqual

LEMMA AppendIs ==
  ASSUME NEW T, NEW s \in Seq(T), NEW x \in T
  PROVE  /\ Append(s, x) \in Seq(T) /\ Append(s, x) # <<>>
         /\ Len(Append(s, x)) = Len(s) + 1
         /\ \A i \in 1..Len(s) : Append(s, x)[i] = s[i]
         /\ Last(Append(s, x)) = x
         /\ Front(Append(s, x)) = s
<1> DEFINE t == Append(s, x)
<1>1. /\ t \in Seq(T) /\ t # <<>> /\ Len(t) = Len(s) + 1
      /\ \A i \in 1..Len(s) : t[i] = s[i]
      /\ t[Len(s) + 1] = x
  BY AppendProperties
<1> HIDE DEF t
<1>2. Last(t) = x
  BY <1>1 DEF Last
<1>3. Front(t) \in Seq(T) /\ Len(Front(t)) = Len(s) /\ \A i \in 1..Len(s) : Front(t)[i] = s[i]
  BY <1>1, FrontIs
<1>4. Front(t) = s
  BY <1>3, SeqEqual
<1> QED
  BY <1>1, <1>2, <1>4 DEF t

----------------------------------------------------------------------------
(* Parameters                                                              *)

LEMMA RoundedIsInt ==
  ASSUME NEW n \in Int, NEW d \in Nat \ {0}
  PROVE  Rounded(n, d) \in Int
BY DEF Rounded

LEMMA WholePart ==
  ASSUME NEW x \in Int, x > 0, x % Scale = 0
  PROVE  x \div Scale \in Nat \ {0}
<1> DEFINE q == x \div Scale
<1>1. Scale \in Nat /\ Scale > 0
  BY ScaleAssumption
<1>2. x = Scale * (x \div Scale) + (x % Scale) /\ (x \div Scale) \in Int
  BY <1>1
<1>3. q \in Int /\ x = Scale * q
  <2>1. Scale * q \in Int
    BY <1>1, <1>2
  <2> QED BY <1>2, <2>1
<1> HIDE DEF q
<1>4. ASSUME q <= 0 PROVE FALSE
  <2>1. -q \in Nat
    BY <1>3, <1>4
  <2>2. Scale * (-q) \in Nat /\ Scale * (-q) = -(Scale * q)
    BY <1>1, <1>3, <2>1
  <2> QED BY <1>3, <2>2
<1>5. q \in Nat \ {0}
  BY <1>3, <1>4
<1> QED
  BY <1>5 DEF q

\* A number of candles that is not refused is one.
LEMMA WindowIsWhole ==
  ASSUME NEW p, \A key \in DOMAIN p : p[key] \in Int,
         NEW key, ~RefusedWhole(p, key), NEW default \in Nat \ {0}
  PROVE  WholeOr(p, key, default) \in Nat \ {0}
<1>1. CASE key \in DOMAIN p
  BY <1>1, WholePart DEF WholeOr, RefusedWhole, Refused
<1>2. CASE key \notin DOMAIN p
  BY <1>2 DEF WholeOr
<1> QED
  BY <1>1, <1>2

----------------------------------------------------------------------------
(* Decisions                                                               *)

Actions == {"buy", "sell", "hold", "skip"}
IntValued(p) == \A key \in DOMAIN p : p[key] \in Int
IsProfile(profile) ==
  profile.entryBelow \in Nat /\ profile.exitAbove \in Nat /\ profile.orderQuantity \in Nat

LEMMA QuantityIsNat ==
  ASSUME NEW p, IntValued(p), NEW profile, IsProfile(profile), ~Refused(p, "quantity")
  PROVE  QuantityOf(p, profile) \in Nat
BY DEF IntValued, IsProfile, Refused, QuantityOf, ValueOr

LEMMA PriceThresholdDecides ==
  ASSUME NEW config, NEW quantity, NEW price, NEW held \in Int, config.valid => quantity \in Nat
  PROVE  LET d == EvaluatePriceThreshold(config, quantity, price, held)
         IN d.action \in Actions /\ d.quantity \in Nat
<1> DEFINE d == EvaluatePriceThreshold(config, quantity, price, held)
<1>1. CASE ~config.valid
  BY <1>1 DEF EvaluatePriceThreshold, Invalid, Actions
<1>2. CASE config.valid /\ price = 0
  BY <1>2 DEF EvaluatePriceThreshold, Decides, Actions
<1>3. CASE config.valid /\ price # 0 /\ held <= 0
  <2>1. d = Decides(IF config.entryBelow = 0 THEN "skip"
                    ELSE IF price <= config.entryBelow THEN "buy" ELSE "hold", price, quantity)
    BY <1>3 DEF EvaluatePriceThreshold
  <2> QED BY <1>3, <2>1 DEF Decides, Actions
<1>4. CASE config.valid /\ price # 0 /\ held > 0
  <2>1. d = Decides(IF config.exitAbove = 0 THEN "skip"
                    ELSE IF price >= config.exitAbove THEN "sell" ELSE "hold", price, quantity)
    BY <1>4 DEF EvaluatePriceThreshold
  <2> QED BY <1>4, <2>1 DEF Decides, Actions
<1> QED
  BY <1>1, <1>2, <1>3, <1>4

\* A crossing is bought above and sold below.
LEMMA CrossingDecides ==
  ASSUME NEW held \in Int, NEW before, NEW now
  PROVE  /\ CrossingAction(held, before, now) \in {"buy", "sell", "skip"}
         /\ CrossingAction(held, before, now) = "buy" => now.fast > now.slow
         /\ held > 0 /\ before.fast >= before.slow /\ now.fast < now.slow
              => CrossingAction(held, before, now) = "sell"
BY DEF CrossingAction

LEMMA MovingAverageDecides ==
  ASSUME NEW config, NEW quantity, NEW s, NEW held \in Int, config.valid => quantity \in Nat
  PROVE  LET d == EvaluateMovingAverageCross(config, quantity, s, held)
             before == Averages(Front(s), config)
             now == Averages(s, config)
             ready == config.valid /\ ~(Len(s) < config.long + 1)
         IN /\ d.action \in Actions /\ d.quantity \in Nat
            /\ d.action = "buy" => ready /\ now.fast > now.slow
            /\ ready /\ held > 0 /\ before.fast >= before.slow /\ now.fast < now.slow
                 => d.action = "sell"
<1> DEFINE d == EvaluateMovingAverageCross(config, quantity, s, held)
           before == Averages(Front(s), config)
           now == Averages(s, config)
<1>1. CASE ~config.valid
  BY <1>1 DEF EvaluateMovingAverageCross, Invalid, Actions
<1>2. CASE config.valid /\ Len(s) < config.long + 1
  BY <1>2 DEF EvaluateMovingAverageCross, Decides, Actions
<1>3. CASE config.valid /\ ~(Len(s) < config.long + 1)
  <2>1. d = Decides(CrossingAction(held, before, now), Last(s), quantity)
    BY <1>3 DEF EvaluateMovingAverageCross
  <2>2. d.action = CrossingAction(held, before, now) /\ d.quantity = quantity
    BY <2>1 DEF Decides
  <2> HIDE DEF d, before, now
  <2> QED BY <1>3, <2>2, CrossingDecides DEF Actions, d, before, now
<1> QED
  BY <1>1, <1>2, <1>3

LEMMA MacdDecides ==
  ASSUME NEW config, NEW quantity, NEW s, NEW held \in Int, config.valid => quantity \in Nat
  PROVE  LET d == EvaluateMacdCrossover(config, quantity, s, held)
             points == MacdPoints(s, config.fast, config.slow, config.signal)
             before == Last(Front(points))
             now == Last(points)
             ready == config.valid /\ ~(Len(s) < config.slow + config.signal)
         IN /\ d.action \in Actions /\ d.quantity \in Nat
            /\ d.action = "buy" => ready /\ now.fast > now.slow
            /\ ready /\ held > 0 /\ before.fast >= before.slow /\ now.fast < now.slow
                 => d.action = "sell"
<1> DEFINE d == EvaluateMacdCrossover(config, quantity, s, held)
           points == MacdPoints(s, config.fast, config.slow, config.signal)
           before == Last(Front(points))
           now == Last(points)
<1>1. CASE ~config.valid
  BY <1>1 DEF EvaluateMacdCrossover, Invalid, Actions
<1>2. CASE config.valid /\ Len(s) < config.slow + config.signal
  BY <1>2 DEF EvaluateMacdCrossover, Decides, Actions
<1>3. CASE config.valid /\ ~(Len(s) < config.slow + config.signal)
  <2>1. d = Decides(CrossingAction(held, before, now), Last(s), quantity)
    BY <1>3 DEF EvaluateMacdCrossover, CrossingAtEnd
  <2>2. d.action = CrossingAction(held, before, now) /\ d.quantity = quantity
    BY <2>1 DEF Decides
  <2> HIDE DEF d, before, now
  <2> QED BY <1>3, <2>2, CrossingDecides DEF Actions, d, before, now
<1> QED
  BY <1>1, <1>2, <1>3

LEMMA RsiDecides ==
  ASSUME NEW config, NEW quantity, NEW s, NEW held \in Int, config.valid => quantity \in Nat
  PROVE  LET d == EvaluateRsiThreshold(config, quantity, s, held)
         IN d.action \in Actions /\ d.quantity \in Nat
<1>1. CASE ~config.valid
  BY <1>1 DEF EvaluateRsiThreshold, Invalid, Actions
<1>2. CASE config.valid /\ Len(s) < config.period + 1
  BY <1>2 DEF EvaluateRsiThreshold, Decides, Actions
<1>3. CASE config.valid /\ ~(Len(s) < config.period + 1)
  BY <1>3 DEF EvaluateRsiThreshold, Decides, Actions
<1> QED
  BY <1>1, <1>2, <1>3

LEMMA BollingerDecides ==
  ASSUME NEW config, NEW quantity, NEW s, NEW held \in Int, config.valid => quantity \in Nat
  PROVE  LET d == EvaluateBollingerBands(config, quantity, s, held)
         IN d.action \in Actions /\ d.quantity \in Nat
<1>1. CASE ~config.valid
  BY <1>1 DEF EvaluateBollingerBands, Invalid, Actions
<1>2. CASE config.valid /\ Len(s) < config.period
  BY <1>2 DEF EvaluateBollingerBands, Decides, Actions
<1>3. CASE config.valid /\ ~(Len(s) < config.period)
  BY <1>3 DEF EvaluateBollingerBands, Decides, Actions
<1> QED
  BY <1>1, <1>2, <1>3

\* Which strategy decides.
LEMMA DecidesByType ==
  ASSUME NEW p, NEW profile, NEW price, NEW held, NEW s, NEW type
  PROVE  LET d == StrategyDecision(type, p, profile, price, held, s)
             quantity == QuantityOf(p, profile)
         IN /\ type = "price_threshold" =>
                 d = EvaluatePriceThreshold(PriceThresholdConfig(p, profile), quantity, price, held)
            /\ type = "moving_average_cross" =>
                 d = EvaluateMovingAverageCross(MovingAverageConfig(p), quantity, s, held)
            /\ type = "rsi_threshold" => d = EvaluateRsiThreshold(RsiConfig(p), quantity, s, held)
            /\ type = "bollinger_bands" =>
                 d = EvaluateBollingerBands(BollingerConfig(p), quantity, s, held)
            /\ type = "macd_crossover" =>
                 d = EvaluateMacdCrossover(MacdConfig(p), quantity, s, held)
            /\ type \notin StrategyTypes => d = Decides("skip", 0, 0)
BY Zenon DEF StrategyDecision, StrategyTypes

LEMMA ValidConfigs ==
  ASSUME NEW p, NEW profile
  PROVE  /\ PriceThresholdConfig(p, profile).valid => ~Refused(p, "quantity")
         /\ MovingAverageConfig(p).valid => ~Refused(p, "quantity")
         /\ RsiConfig(p).valid => ~Refused(p, "quantity")
         /\ BollingerConfig(p).valid => ~Refused(p, "quantity")
         /\ MacdConfig(p).valid => ~Refused(p, "quantity")
BY DEF PriceThresholdConfig, MovingAverageConfig, RsiConfig, BollingerConfig, MacdConfig

\* A decision names an action, and a quantity that is never negative.
LEMMA DecisionIs ==
  ASSUME NEW p, IntValued(p), NEW profile, IsProfile(profile), NEW price, NEW held \in Int,
         NEW s, NEW type
  PROVE  LET d == StrategyDecision(type, p, profile, price, held, s)
         IN d.action \in Actions /\ d.quantity \in Nat
<1> DEFINE d == StrategyDecision(type, p, profile, price, held, s)
           quantity == QuantityOf(p, profile)
<1>0. ~Refused(p, "quantity") => quantity \in Nat
  BY QuantityIsNat
<1> HIDE DEF quantity, d
<1> USE <1>0, ValidConfigs
<1>1. CASE type = "price_threshold"
  <2>1. d = EvaluatePriceThreshold(PriceThresholdConfig(p, profile), quantity, price, held)
    BY <1>1, DecidesByType DEF d, quantity
  <2> QED BY <2>1, PriceThresholdDecides DEF d
<1>2. CASE type = "moving_average_cross"
  <2>1. d = EvaluateMovingAverageCross(MovingAverageConfig(p), quantity, s, held)
    BY <1>2, DecidesByType DEF d, quantity
  <2> QED BY <2>1, MovingAverageDecides DEF d
<1>3. CASE type = "rsi_threshold"
  <2>1. d = EvaluateRsiThreshold(RsiConfig(p), quantity, s, held)
    BY <1>3, DecidesByType DEF d, quantity
  <2> QED BY <2>1, RsiDecides DEF d
<1>4. CASE type = "bollinger_bands"
  <2>1. d = EvaluateBollingerBands(BollingerConfig(p), quantity, s, held)
    BY <1>4, DecidesByType DEF d, quantity
  <2> QED BY <2>1, BollingerDecides DEF d
<1>5. CASE type = "macd_crossover"
  <2>1. d = EvaluateMacdCrossover(MacdConfig(p), quantity, s, held)
    BY <1>5, DecidesByType DEF d, quantity
  <2> QED BY <2>1, MacdDecides DEF d
<1>6. CASE type \notin StrategyTypes
  <2>1. d = Decides("skip", 0, 0)
    BY <1>6, DecidesByType DEF d
  <2> QED BY <2>1 DEF Decides, Actions, d
<1> QED
  BY <1>1, <1>2, <1>3, <1>4, <1>5, <1>6 DEF StrategyTypes

----------------------------------------------------------------------------
(* Risk limits                                                             *)

Limits == [maxTrade: Nat, maxPosition: Nat, stopLoss: Nat]

\* A purchase is one the strategy decided on and the limits let pass.  A sale of
\* no more than the largest trade is never blocked.
LEMMA RiskDecides ==
  ASSUME NEW limits \in Limits, NEW action \in Actions, NEW quantity \in Nat,
         NEW held \in Nat, NEW entry \in Nat, NEW price \in Nat
  PROVE  LET r == RiskDecision(limits, action, quantity, held, entry, price).action
             stop == StopLossHit(limits, held, entry, price)
         IN /\ r \in Actions
            /\ r = "buy" => /\ action = "buy" /\ ~stop
                            /\ quantity > 0 /\ limits.maxTrade > 0 => quantity <= limits.maxTrade
            /\ (limits.maxTrade > 0 => held <= limits.maxTrade)
                 => /\ stop => r = "sell"
                    /\ action = "sell" /\ quantity = held => r = "sell"
            /\ limits = NoLimits => r = action
<1> DEFINE r == RiskDecision(limits, action, quantity, held, entry, price).action
           stop == StopLossHit(limits, held, entry, price)
<1>0. limits.maxTrade \in Nat /\ limits.maxPosition \in Nat /\ limits.stopLoss \in Nat
  BY DEF Limits
<1>1. CASE stop
  <2>1. r = WithinTradeLimits(limits, "sell", held, held, Allowed("sell", "stop_loss_triggered")).action
    BY <1>1 DEF RiskDecision
  <2>2. r = IF held # 0 /\ limits.maxTrade > 0 /\ held > limits.maxTrade THEN "skip" ELSE "sell"
    BY <2>1 DEF WithinTradeLimits, Allowed, Blocked
  <2>3. limits # NoLimits
    BY <1>1 DEF StopLossHit, NoLimits
  <2> HIDE DEF r
  <2> QED BY <1>0, <1>1, <2>2, <2>3 DEF Actions, r
<1>2. CASE ~stop
  <2>1. r = WithinTradeLimits(limits, action, quantity, held, Allowed(action, "allowed")).action
    BY <1>2 DEF RiskDecision
  <2>2. r = IF action \notin {"buy", "sell"} \/ quantity = 0 THEN action
            ELSE IF limits.maxTrade > 0 /\ quantity > limits.maxTrade THEN "skip"
            ELSE IF action = "buy" /\ limits.maxPosition > 0
                    /\ held + quantity > limits.maxPosition THEN "skip"
            ELSE action
    BY <2>1 DEF WithinTradeLimits, Allowed, Blocked
  <2>3. limits = NoLimits => limits.maxTrade = 0 /\ limits.maxPosition = 0
    BY DEF NoLimits
  <2> HIDE DEF r, stop
  <2> QED BY <1>0, <1>2, <2>2, <2>3 DEF Actions, r, stop
<1> QED
  BY <1>1, <1>2

----------------------------------------------------------------------------
(* The ledger                                                              *)

Ledgers == [cash: Nat, held: Nat, entry: Nat, realized: Int, pnls: Seq(Int), trades: Nat]

\* A ledger counts its trades and sums its gains.
Counted(l) ==
  /\ l \in Ledgers
  /\ l.held > 0 <=> l.entry > 0
  /\ l.trades = 2 * Len(l.pnls) + (IF l.held > 0 THEN 1 ELSE 0)
  /\ l.realized = Total(l.pnls)

\* It has the money the setup began with and what was realized, at cost, and a
\* position the limits let it sell.
Funded(l, s) ==
  /\ l.cash + l.held * l.entry = s.balance + l.realized
  /\ s.limits.maxTrade > 0 => l.held <= s.limits.maxTrade

\* It is above its stop price.
Stopped(l, s, c) ==
  l.held > 0 => /\ c # <<>>
                /\ s.limits.stopLoss > 0 => Last(c) * 100 > l.entry * (100 - s.limits.stopLoss)

\* The candles are enough for the lines of a crossing strategy, and its position is
\* not below the crossing.
Crossed(l, s, c) ==
  l.held > 0 =>
    /\ s.type = "moving_average_cross" =>
         LET config == MovingAverageConfig(s.parameters)
             now == Averages(c, config)
         IN config.valid /\ Len(c) >= config.long + 1 /\ now.fast >= now.slow
    /\ s.type = "macd_crossover" =>
         LET config == MacdConfig(s.parameters)
             now == Last(MacdPoints(c, config.fast, config.slow, config.signal))
         IN config.valid /\ Len(c) >= config.slow + config.signal /\ now.fast >= now.slow

ReplayInv ==
  /\ closes \in Seq(ClosePrices) /\ Len(closes) <= MaxCandles
  /\ Counted(ledger)
  /\ setup = NoSetup => ledger = EmptyLedger(0) /\ result = NoResult /\ closes = <<>>
  /\ setup # NoSetup =>
       /\ setup \in Setups
       /\ Funded(ledger, setup)
       /\ Stopped(ledger, setup, closes)
       /\ Crossed(ledger, setup, closes)
  /\ result \in {NoResult, Result}

LEMMA SetupIs ==
  ASSUME NEW s \in Setups
  PROVE  /\ s.type # "none" /\ s # NoSetup
         /\ s.balance \in Nat /\ s.fee \in Nat
         /\ IntValued(s.parameters) /\ IsProfile(s.profile)
         /\ s.limits \in Limits
<1>1. s.type # "none"
  BY ReplayAssumption
<1>2. s # NoSetup
  BY <1>1 DEF NoSetup
<1>3. s.balance \in Nat /\ s.fee \in Nat /\ s.limits \in Limits
  BY ReplayAssumption DEF Limits
<1>4. IntValued(s.parameters)
  BY ReplayAssumption DEF IntValued
<1>5. IsProfile(s.profile)
  BY ReplayAssumption DEF IsProfile
<1> QED
  BY <1>1, <1>2, <1>3, <1>4, <1>5

LEMMA PricesAreNaturals ==
  ASSUME NEW price \in ClosePrices
  PROVE  price \in Nat /\ price > 0
BY ReplayAssumption

LEMMA EmptyLedgerHolds ==
  ASSUME NEW balance \in Nat
  PROVE  /\ Counted(EmptyLedger(balance))
         /\ EmptyLedger(balance).cash = balance /\ EmptyLedger(balance).held = 0
         /\ EmptyLedger(balance).realized = 0
<1>1. EmptyLedger(balance) \in Ledgers
  BY DEF EmptyLedger, Ledgers
<1>2. Total(<<>>) = 0
  <2>1. <<>> \in Seq(Int)
    OBVIOUS
  <2> QED BY <2>1, TotalOfNone
<1> QED
  BY <1>1, <1>2 DEF EmptyLedger, Counted

\* What one candle does to the ledger.
LEMMA TradedIs ==
  ASSUME ReplayInv, setup # NoSetup, NEW price \in ClosePrices
  PROVE  LET c == Append(closes, price)
             d == DecisionOn(c)
             a == RiskOn(d, price).action
             l == Traded(c)
         IN /\ d.action \in Actions /\ d.quantity \in Nat
            /\ \/ l = ledger
               \/ /\ l = Bought(d.quantity, price)
                  /\ a = "buy" /\ ledger.held = 0 /\ d.quantity > 0
                  /\ d.quantity * price <= ledger.cash
               \/ l = Sold(price) /\ ledger.held > 0
            /\ ledger.held > 0 /\ a = "sell" => l = Sold(price)
            /\ a = "buy" => /\ d.action = "buy"
                            /\ ~StopLossHit(setup.limits, ledger.held, ledger.entry, price)
                            /\ d.quantity > 0 /\ setup.limits.maxTrade > 0
                                 => d.quantity <= setup.limits.maxTrade
            /\ StopLossHit(setup.limits, ledger.held, ledger.entry, price) => a = "sell"
            /\ d.action = "sell" => a = "sell"
            /\ setup.limits = NoLimits => a = d.action
<1> DEFINE c == Append(closes, price)
           d == DecisionOn(c)
           quantity == IF d.action = "sell" THEN ledger.held ELSE d.quantity
           a == RiskOn(d, price).action
           l == Traded(c)
           stop == StopLossHit(setup.limits, ledger.held, ledger.entry, price)
<1>1. setup \in Setups /\ Funded(ledger, setup)
  BY DEF ReplayInv
<1>2. ledger.held \in Nat /\ ledger.entry \in Nat /\ ledger.cash \in Nat
  BY DEF ReplayInv, Counted, Ledgers
<1>3. price \in Nat /\ price > 0
  BY PricesAreNaturals
<1>4. d.action \in Actions /\ d.quantity \in Nat
  BY <1>1, <1>2, SetupIs, DecisionIs DEF DecisionOn
<1>5. c # <<>> /\ Last(c) = price
  <2>1. closes \in Seq(ClosePrices)
    BY DEF ReplayInv
  <2> QED BY <2>1, AppendIs
<1>6. a = RiskDecision(setup.limits, d.action, quantity, ledger.held, ledger.entry, price).action
  BY DEF RiskOn
<1>7. l = Executed(a, d.quantity, price)
  BY <1>5 DEF Traded, Decided
<1> HIDE DEF c, d, a, l
<1>8. quantity \in Nat
  BY <1>2, <1>4
<1>9. setup.limits \in Limits /\ (setup.limits.maxTrade > 0 => ledger.held <= setup.limits.maxTrade)
  BY <1>1, SetupIs DEF Funded
<1>10. /\ a = "buy" => /\ d.action = "buy" /\ ~stop
                       /\ quantity > 0 /\ setup.limits.maxTrade > 0
                            => quantity <= setup.limits.maxTrade
       /\ stop => a = "sell"
       /\ d.action = "sell" /\ quantity = ledger.held => a = "sell"
       /\ setup.limits = NoLimits => a = d.action
  <2> DEFINE limits == setup.limits
             action == d.action
             held == ledger.held
             entry == ledger.entry
             r == RiskDecision(limits, action, quantity, held, entry, price).action
  <2>1. limits \in Limits /\ action \in Actions /\ held \in Nat /\ entry \in Nat
    BY <1>2, <1>4, <1>9
  <2>2. limits.maxTrade > 0 => held <= limits.maxTrade
    BY <1>9
  <2> HIDE DEF quantity, limits, action, held, entry
  <2>3. /\ r = "buy" => /\ action = "buy" /\ ~StopLossHit(limits, held, entry, price)
                        /\ quantity > 0 /\ limits.maxTrade > 0 => quantity <= limits.maxTrade
        /\ StopLossHit(limits, held, entry, price) => r = "sell"
        /\ action = "sell" /\ quantity = held => r = "sell"
        /\ limits = NoLimits => r = action
    BY <1>3, <1>8, <2>1, <2>2, RiskDecides
  <2> HIDE DEF r
  <2>4. a = r
    BY <1>6 DEF r, limits, action, held, entry
  <2> QED BY <2>3, <2>4, Zenon DEF limits, action, held, entry, stop
<1>11. /\ \/ l = ledger
          \/ /\ l = Bought(d.quantity, price)
             /\ a = "buy" /\ ledger.held = 0 /\ d.quantity > 0
             /\ d.quantity * price <= ledger.cash
          \/ l = Sold(price) /\ ledger.held > 0
       /\ ledger.held > 0 /\ a = "sell" => l = Sold(price)
  <2>1. CASE a = "buy" /\ ledger.held = 0 /\ d.quantity # 0 /\ Affordable(d.quantity * price)
    <3>1. l = Bought(d.quantity, price)
      BY <1>7, <2>1 DEF Executed
    <3>2. d.quantity > 0 /\ d.quantity * price <= ledger.cash
      BY <1>4, <2>1 DEF Affordable
    <3> QED BY <2>1, <3>1, <3>2
  <2>2. CASE ~(a = "buy" /\ ledger.held = 0 /\ d.quantity # 0 /\ Affordable(d.quantity * price))
    <3>1. l = IF a = "sell" /\ ledger.held > 0 THEN Sold(price) ELSE ledger
      BY <1>7, <2>2, Zenon DEF Executed
    <3> QED BY <3>1
  <2> QED BY <2>1, <2>2
<1> QED
  BY <1>4, <1>10, <1>11 DEF c, d, a, l

LEMMA BoughtHolds ==
  ASSUME NEW s, Counted(ledger), Funded(ledger, s), ledger.held = 0,
         NEW quantity \in Nat, quantity > 0, NEW price \in Nat, price > 0,
         quantity * price <= ledger.cash,
         s.balance \in Nat, s.limits.maxTrade > 0 => quantity <= s.limits.maxTrade
  PROVE  /\ Counted(Bought(quantity, price)) /\ Funded(Bought(quantity, price), s)
         /\ Bought(quantity, price).held = quantity /\ Bought(quantity, price).entry = price
<1> DEFINE l == Bought(quantity, price)
           cost == quantity * price
<1>1. /\ ledger.cash \in Nat /\ ledger.realized \in Int /\ ledger.trades \in Nat
      /\ ledger.pnls \in Seq(Int) /\ ledger.entry \in Nat
  BY DEF Counted, Ledgers
<1>2. cost \in Nat
  OBVIOUS
<1>3. l = [cash |-> ledger.cash - cost, held |-> quantity, entry |-> price,
           realized |-> ledger.realized, pnls |-> ledger.pnls, trades |-> ledger.trades + 1]
  <2>1. ledger \in Ledgers
    BY DEF Counted
  <2>2. ledger = [cash |-> ledger.cash, held |-> ledger.held, entry |-> ledger.entry,
                  realized |-> ledger.realized, pnls |-> ledger.pnls, trades |-> ledger.trades]
    BY <2>1 DEF Ledgers
  <2>3. l = [ledger EXCEPT !.cash = @ - cost, !.held = quantity, !.entry = price,
                           !.trades = @ + 1]
    BY DEF Bought
  <2> HIDE DEF l, cost
  <2> QED BY <2>2, <2>3
<1>4. ledger.entry = 0
  BY <1>1 DEF Counted
<1>5. ledger.cash = s.balance + ledger.realized
  <2>1. ledger.held * ledger.entry = 0
    BY <1>4
  <2>2. ledger.cash + ledger.held * ledger.entry = s.balance + ledger.realized
    BY DEF Funded
  <2> QED BY <1>1, <2>1, <2>2
<1>6. ledger.trades = 2 * Len(ledger.pnls) /\ Len(ledger.pnls) \in Nat
      /\ ledger.realized = Total(ledger.pnls)
  BY <1>1 DEF Counted
<1>7. ledger.cash - cost \in Nat
  BY <1>1, <1>2
<1> HIDE DEF cost
<1> HIDE DEF l
<1>8. Counted(l)
  <2>1. l \in Ledgers
    BY <1>1, <1>3, <1>7 DEF Ledgers
  <2>2. l.held > 0 /\ l.entry > 0 /\ l.trades = 2 * Len(l.pnls) + 1 /\ l.realized = Total(l.pnls)
    BY <1>3, <1>6
  <2> QED BY <2>1, <2>2, Zenon DEF Counted
<1>9. l.cash + l.held * l.entry = s.balance + l.realized
  <2>1. l.cash + l.held * l.entry = ledger.cash - cost + cost
    BY <1>3 DEF cost
  <2> QED BY <1>1, <1>2, <1>3, <1>5, <2>1
<1>10. Funded(l, s)
  BY <1>3, <1>9 DEF Funded
<1> QED
  BY <1>3, <1>8, <1>10 DEF l

LEMMA SaleKeepsMoney ==
  \A cash, worth, paid, balance, realized \in Int :
    cash + paid = balance + realized =>
      /\ cash + worth = balance + (realized + (worth - paid))
      /\ (cash + worth) - balance = realized + (worth - paid)
OBVIOUS

LEMMA SoldHolds ==
  ASSUME NEW s, Counted(ledger), Funded(ledger, s), ledger.held > 0,
         NEW price \in Nat, price > 0, s.balance \in Nat, s.limits.maxTrade \in Nat
  PROVE  /\ Counted(Sold(price)) /\ Funded(Sold(price), s)
         /\ Sold(price).held = 0
<1> DEFINE l == Sold(price)
           pnl == (price - ledger.entry) * ledger.held
<1>1. /\ ledger.cash \in Nat /\ ledger.realized \in Int /\ ledger.trades \in Nat
      /\ ledger.pnls \in Seq(Int) /\ ledger.entry \in Nat /\ ledger.held \in Nat
  BY DEF Counted, Ledgers
<1>2. pnl \in Int /\ ledger.held * price \in Nat
      /\ pnl = ledger.held * price - ledger.held * ledger.entry /\ ledger.held * ledger.entry \in Int
  BY <1>1
<1>3. l = [cash |-> ledger.cash + ledger.held * price, held |-> 0, entry |-> 0,
           realized |-> ledger.realized + pnl, pnls |-> Append(ledger.pnls, pnl),
           trades |-> ledger.trades + 1]
  BY DEF Sold
<1>4. ledger.cash + ledger.held * ledger.entry = s.balance + ledger.realized
  BY DEF Funded
<1>5. ledger.trades = 2 * Len(ledger.pnls) + 1 /\ Len(ledger.pnls) \in Nat
      /\ ledger.realized = Total(ledger.pnls)
  <2>1. Len(ledger.pnls) \in Nat
    BY <1>1
  <2>2. ledger.trades = 2 * Len(ledger.pnls) + (IF ledger.held > 0 THEN 1 ELSE 0)
        /\ ledger.realized = Total(ledger.pnls)
    BY Zenon DEF Counted
  <2> QED BY <2>1, <2>2
<1> HIDE DEF pnl, l
<1>6. /\ Append(ledger.pnls, pnl) \in Seq(Int)
      /\ Len(Append(ledger.pnls, pnl)) = Len(ledger.pnls) + 1
      /\ Total(Append(ledger.pnls, pnl)) = ledger.realized + pnl
  BY <1>1, <1>2, <1>5, AppendIs, TotalAppend
<1>7. l \in Ledgers
  <2>1. ledger.cash + ledger.held * price \in Nat
    <3> DEFINE worth == ledger.held * price
    <3>1. worth \in Nat
      BY <1>2
    <3> HIDE DEF worth
    <3>2. ledger.cash + worth \in Nat
      BY <1>1, <3>1
    <3> QED BY <3>2 DEF worth
  <2>2. ledger.realized + pnl \in Int
    <3>1. ledger.realized \in Int /\ pnl \in Int
      BY <1>1, <1>2
    <3> QED BY <3>1
  <2>3. ledger.trades + 1 \in Nat
    <3>1. ledger.trades \in Nat
      BY <1>1
    <3> QED BY <3>1
  <2> QED BY <1>3, <1>6, <2>1, <2>2, <2>3 DEF Ledgers
<1>8. l.held = 0 /\ l.entry = 0 /\ l.trades = 2 * Len(l.pnls) /\ l.realized = Total(l.pnls)
  BY <1>3, <1>5, <1>6
<1>9. Counted(l)
  BY <1>7, <1>8 DEF Counted, Ledgers
<1>10. l.cash + l.held * l.entry = s.balance + l.realized
  <2>1. l.cash = ledger.cash + ledger.held * price /\ l.realized = ledger.realized + pnl
    BY <1>3
  <2>2. l.held * l.entry = 0
    BY <1>8
  <2> DEFINE worth == ledger.held * price
             paid == ledger.held * ledger.entry
  <2>3. worth \in Int /\ paid \in Int /\ pnl = worth - paid
        /\ ledger.cash + paid = s.balance + ledger.realized /\ l.cash = ledger.cash + worth
    BY <1>2, <1>4, <2>1
  <2>4. l.cash = s.balance + l.realized
    <3>1. l.realized = ledger.realized + pnl
      BY <2>1
    <3> HIDE DEF worth, paid
    <3>2. ledger.cash + worth = s.balance + (ledger.realized + (worth - paid))
      <4>1. ledger.cash \in Int /\ ledger.realized \in Int /\ s.balance \in Int
        BY <1>1
      <4>2. worth \in Int /\ paid \in Int /\ ledger.cash + paid = s.balance + ledger.realized
        BY <2>3
      <4> QED BY <4>1, <4>2, SaleKeepsMoney
    <3> QED BY <2>3, <3>1, <3>2
  <2>5. l.cash \in Int
    BY <1>7 DEF Ledgers
  <2> QED BY <2>2, <2>4, <2>5
<1>11. Funded(l, s)
  BY <1>8, <1>10 DEF Funded
<1> QED
  BY <1>8, <1>9, <1>11 DEF l

----------------------------------------------------------------------------
(* Windows of the strategies                                               *)

LEMMA MovingAverageWindows ==
  ASSUME NEW p, IntValued(p), MovingAverageConfig(p).valid
  PROVE  LET config == MovingAverageConfig(p)
         IN config.short \in Nat \ {0} /\ config.long \in Nat \ {0} /\ config.short < config.long
<1>1. /\ WholeOr(p, "short_window", 5) \in Nat \ {0}
      /\ WholeOr(p, "long_window", 20) \in Nat \ {0}
  BY WindowIsWhole DEF MovingAverageConfig, IntValued
<1> QED
  BY <1>1 DEF MovingAverageConfig

LEMMA MacdWindows ==
  ASSUME NEW p, IntValued(p), MacdConfig(p).valid
  PROVE  LET config == MacdConfig(p)
         IN /\ config.fast \in Nat \ {0} /\ config.slow \in Nat \ {0} /\ config.fast < config.slow
            /\ config.signal \in Nat \ {0}
<1>1. /\ WholeOr(p, "fast_period", 12) \in Nat \ {0}
      /\ WholeOr(p, "slow_period", 26) \in Nat \ {0}
      /\ WholeOr(p, "signal_period", 9) \in Nat \ {0}
  BY WindowIsWhole DEF MacdConfig, IntValued
<1> QED
  BY <1>1 DEF MacdConfig

LEMMA RsiWindow ==
  ASSUME NEW p, IntValued(p), RsiConfig(p).valid
  PROVE  RsiConfig(p).period \in Nat \ {0}
<1>1. WholeOr(p, "period", 14) \in Nat \ {0}
  BY WindowIsWhole DEF RsiConfig, IntValued
<1> QED
  BY <1>1 DEF RsiConfig

LEMMA BollingerWindow ==
  ASSUME NEW p, IntValued(p), BollingerConfig(p).valid
  PROVE  BollingerConfig(p).period \in Nat \ {0}
<1>1. WholeOr(p, "period", 20) \in Nat \ {0}
  BY WindowIsWhole DEF BollingerConfig, IntValued
<1> QED
  BY <1>1 DEF BollingerConfig

LEMMA AveragesAreInts ==
  ASSUME NEW s \in Seq(Int), NEW config, config.short \in Nat \ {0}, config.long \in Nat \ {0},
         config.short <= Len(s), config.long <= Len(s)
  PROVE  Averages(s, config).fast \in Int /\ Averages(s, config).slow \in Int
<1>1. ASSUME NEW n \in Nat \ {0}, n <= Len(s) PROVE MovingAverage(LastOf(s, n)) \in Int
  <2>1. n \in 0..Len(s)
    BY <1>1
  <2>2. LastOf(s, n) \in Seq(Int) /\ Len(LastOf(s, n)) = n
    BY <2>1, LastOfIs
  <2>3. Total(LastOf(s, n)) \in Int
    BY <2>2, TotalIsInt
  <2> QED BY <1>1, <2>2, <2>3, RoundedIsInt DEF MovingAverage
<1> QED
  BY <1>1 DEF Averages

----------------------------------------------------------------------------
(* Exponential averages                                                    *)

Fractions == [n: Int, d: Nat \ {0}]
FirstEma(s, period) == [n |-> Total(SubSeq(s, 1, period)), d |-> period]

LEMMA FirstEmaIs ==
  ASSUME NEW s \in Seq(Int), NEW period \in Nat \ {0}, period <= Len(s)
  PROVE  FirstEma(s, period) \in Fractions
<1>1. SubSeq(s, 1, period) \in Seq(Int)
  <2>1. \A i \in 1..period : s[i] \in Int
    OBVIOUS
  <2> QED BY <2>1, SubSeqProperties
<1> QED
  BY <1>1, TotalIsInt DEF FirstEma, Fractions

LEMMA EmaAfterIs ==
  ASSUME NEW ema \in Fractions, NEW value \in Int, NEW period \in Nat \ {0}
  PROVE  EmaAfter(ema, value, period) \in Fractions
<1>1. ema.n \in Int /\ ema.d \in Nat /\ ema.d > 0
  BY DEF Fractions
<1>2. 2 * value * ema.d + (period - 1) * ema.n \in Int
  BY <1>1
<1>3. ema.d * (period + 1) \in Nat
  BY <1>1
<1>4. ema.d * (period + 1) # 0
  BY <1>1
<1> QED
  BY <1>2, <1>3, <1>4 DEF EmaAfter, Fractions

LEMMA EmasRecursion ==
  ASSUME NEW s \in Seq(Int), NEW period \in Nat \ {0}, period <= Len(s)
  PROVE  /\ ExactEmas(s, period) \in [0..Len(s) -> Fractions]
         /\ \A i \in 0..Len(s) :
              ExactEmas(s, period)[i] =
                IF i <= period THEN FirstEma(s, period)
                ELSE EmaAfter(ExactEmas(s, period)[i - 1], s[i], period)
<1> DEFINE N == Len(s)
           base == FirstEma(s, period)
           step == [i \in 1..N |-> [e \in Fractions |->
                      IF i <= period THEN base ELSE EmaAfter(e, s[i], period)]]
           After(f, i) == IF i <= period THEN base ELSE EmaAfter(f[i - 1], s[i], period)
           Solves(f) == f = [i \in 0..N |-> After(f, i)]
           emas == ExactEmas(s, period)
<1>0. N \in Nat /\ base \in Fractions
  BY FirstEmaIs
<1>1. step \in [1..N -> [Fractions -> Fractions]]
  <2>1. \A i \in 1..N, e \in Fractions : EmaAfter(e, s[i], period) \in Fractions
    BY EmaAfterIs
  <2> HIDE DEF base
  <2> QED BY <1>0, <2>1
<1>2. PICK f \in [0..N -> Fractions] : IsRecursion(f, N, base, step)
  <2> HIDE DEF step, base, N
  <2> QED BY <1>0, <1>1, RecursionExists
<1>3. \A i \in 0..N : f[i] = After(f, i)
  <2> SUFFICES ASSUME NEW i \in 0..N PROVE f[i] = After(f, i)
    OBVIOUS
  <2>1. f[i] = IF i = 0 THEN base ELSE step[i][f[i - 1]]
    BY <1>2 DEF IsRecursion
  <2>2. CASE i = 0
    BY <2>1, <2>2
  <2>3. CASE i # 0
    <3>1. i \in 1..N /\ i - 1 \in 0..N
      BY <2>3
    <3>2. f[i - 1] \in Fractions
      BY <3>1
    <3>3. step[i] = [e \in Fractions |-> IF i <= period THEN base ELSE EmaAfter(e, s[i], period)]
      BY <3>1
    <3> HIDE DEF step, base
    <3>4. step[i][f[i - 1]] = IF i <= period THEN base ELSE EmaAfter(f[i - 1], s[i], period)
      BY <3>2, <3>3
    <3> QED BY <2>1, <2>3, <3>4
  <2> QED BY <2>2, <2>3
<1>4. Solves(f)
  <2> HIDE DEF After
  <2> QED BY <1>3
<1>5. emas = CHOOSE g : Solves(g)
  BY Zenon DEF ExactEmas, FirstEma
<1>6. Solves(emas)
  <2> HIDE DEF Solves, emas
  <2> QED BY <1>4, <1>5, Zenon
<1> HIDE DEF emas
<1>7. \A i \in 0..N : emas[i] = After(emas, i)
  <2> HIDE DEF After
  <2> QED BY <1>6
<1>8. DOMAIN emas = 0..N /\ emas = [i \in DOMAIN emas |-> emas[i]]
  <2> HIDE DEF After
  <2>1. emas = [i \in 0..N |-> After(emas, i)]
    BY <1>6
  <2> QED BY <2>1
<1> DEFINE typed == {i \in 0..N : emas[i] \in Fractions}
<1>9. 0..N \subseteq typed
  <2>1. 0 \in typed
    BY <1>0, <1>7
  <2>2. ASSUME NEW i \in 0..(N - 1), i \in typed PROVE i + 1 \in typed
    <3>1. emas[i + 1] = IF i + 1 <= period THEN base ELSE EmaAfter(emas[i], s[i + 1], period)
      <4>1. i + 1 \in 0..N /\ i + 1 - 1 = i
        BY <1>0
      <4>2. emas[i + 1] = After(emas, i + 1)
        BY <1>7, <4>1
      <4> QED BY <4>1, <4>2
    <3>2. s[i + 1] \in Int
      OBVIOUS
    <3>3. EmaAfter(emas[i], s[i + 1], period) \in Fractions
      BY <2>2, <3>2, EmaAfterIs
    <3> HIDE DEF base
    <3> QED BY <1>0, <3>1, <3>3
  <2> HIDE DEF typed, N, base, step, After, Solves
  <2> QED BY <1>0, <2>1, <2>2, Induction
<1>10. emas \in [0..N -> Fractions]
  <2>1. \A i \in 0..N : emas[i] \in Fractions
    BY <1>9
  <2> QED BY <1>8, <2>1
<1> QED
  BY <1>7, <1>10 DEF emas

\* One more value leaves the averages before it alone.
Extends(t, s) ==
  /\ s \in Seq(Int) /\ t \in Seq(Int)
  /\ Len(t) = Len(s) + 1
  /\ \A i \in 1..Len(s) : t[i] = s[i]

LEMMA EmasExtend ==
  ASSUME NEW s, NEW t, Extends(t, s), NEW period \in Nat \ {0}, period <= Len(s)
  PROVE  \A i \in 0..Len(s) : ExactEmas(t, period)[i] = ExactEmas(s, period)[i]
<1> DEFINE N == Len(s)
           same == {i \in 0..N : ExactEmas(t, period)[i] = ExactEmas(s, period)[i]}
<1>0. /\ s \in Seq(Int) /\ t \in Seq(Int) /\ N \in Nat /\ Len(t) = N + 1
      /\ period <= Len(t)
      /\ \A i \in 1..N : t[i] = s[i]
  BY DEF Extends
<1>1. FirstEma(t, period) = FirstEma(s, period)
  <2> DEFINE u == SubSeq(s, 1, period)
             v == SubSeq(t, 1, period)
  <2>1. u \in Seq(Int) /\ Len(u) = period /\ \A i \in 1..period : u[i] = s[i]
    <3>1. period - 1 + 1 = period /\ 1 <= period /\ \A i \in 1..period : s[i] \in Int /\ 1 + i - 1 = i
      BY <1>0
    <3> QED BY <3>1, SubSeqProperties
  <2>2. v \in Seq(Int) /\ Len(v) = period /\ \A i \in 1..period : v[i] = t[i]
    <3>1. period - 1 + 1 = period /\ 1 <= period /\ \A i \in 1..period : t[i] \in Int /\ 1 + i - 1 = i
      BY <1>0
    <3> QED BY <3>1, SubSeqProperties
  <2>3. \A i \in 1..period : t[i] = s[i]
    BY <1>0
  <2> HIDE DEF u, v
  <2>4. u = v
    BY <2>1, <2>2, <2>3, SeqEqual
  <2> QED BY <2>4 DEF FirstEma, u, v
<1> DEFINE sEmas == ExactEmas(s, period)
           tEmas == ExactEmas(t, period)
<1>2. \A i \in 0..N : sEmas[i] = IF i <= period THEN FirstEma(s, period)
                                 ELSE EmaAfter(sEmas[i - 1], s[i], period)
  BY <1>0, EmasRecursion
<1>3. \A i \in 0..(N + 1) : tEmas[i] = IF i <= period THEN FirstEma(t, period)
                                       ELSE EmaAfter(tEmas[i - 1], t[i], period)
  BY <1>0, EmasRecursion
<1>4. 0 \in same
  BY <1>0, <1>1, <1>2, <1>3
<1>5. ASSUME NEW i \in 0..(N - 1), i \in same PROVE i + 1 \in same
  <2> HIDE DEF sEmas, tEmas, N
  <2>1. i + 1 \in 0..N /\ i + 1 \in 0..(N + 1) /\ i + 1 - 1 = i /\ i + 1 \in 1..N
    BY <1>0
  <2>2. sEmas[i + 1] = IF i + 1 <= period THEN FirstEma(s, period)
                       ELSE EmaAfter(sEmas[i], s[i + 1], period)
    BY <1>2, <2>1
  <2>3. tEmas[i + 1] = IF i + 1 <= period THEN FirstEma(t, period)
                       ELSE EmaAfter(tEmas[i], t[i + 1], period)
    BY <1>3, <2>1
  <2>4. t[i + 1] = s[i + 1]
    BY <1>0, <2>1
  <2>5. tEmas[i] = sEmas[i]
    BY <1>5 DEF sEmas, tEmas
  <2>6. tEmas[i + 1] = sEmas[i + 1]
    BY <1>1, <2>2, <2>3, <2>4, <2>5
  <2> QED BY <2>1, <2>6 DEF sEmas, tEmas
<1>6. 0..N \subseteq same
  <2> HIDE DEF same, N
  <2> QED BY <1>0, <1>4, <1>5, Induction
<1> QED
  BY <1>6

LEMMA EmaIs ==
  ASSUME NEW s \in Seq(Int), NEW period \in Nat \ {0}, period <= Len(s)
  PROVE  /\ ExponentialMovingAverage(s, period) \in Seq(Int)
         /\ Len(ExponentialMovingAverage(s, period)) = Len(s) - period + 1
         /\ \A i \in 1..(Len(s) - period + 1) :
              ExponentialMovingAverage(s, period)[i] =
                LET ema == ExactEmas(s, period)[i + period - 1] IN Rounded(ema.n, ema.d)
<1> DEFINE emas == ExactEmas(s, period)
           rounded == [i \in DOMAIN s |-> Rounded(emas[i].n, emas[i].d)]
           N == Len(s) - period + 1
<1>0. N \in Nat /\ N \in 0..Len(s) /\ Len(s) \in Nat /\ DOMAIN s = 1..Len(s)
  OBVIOUS
<1>1. \A i \in 1..Len(s) : Rounded(emas[i].n, emas[i].d) \in Int
  <2> SUFFICES ASSUME NEW i \in 1..Len(s) PROVE Rounded(emas[i].n, emas[i].d) \in Int
    OBVIOUS
  <2>1. emas[i] \in Fractions
    BY EmasRecursion
  <2>2. emas[i].n \in Int /\ emas[i].d \in Nat \ {0}
    BY <2>1 DEF Fractions
  <2> QED BY <2>2, RoundedIsInt
<1>2. rounded \in Seq(Int) /\ Len(rounded) = Len(s)
      /\ \A i \in 1..Len(s) : rounded[i] = Rounded(emas[i].n, emas[i].d)
  <2> HIDE DEF emas
  <2> QED BY <1>0, <1>1
<1>3. ExponentialMovingAverage(s, period) = LastOf(rounded, N)
  BY DEF ExponentialMovingAverage
<1> HIDE DEF rounded, N
<1>4. /\ LastOf(rounded, N) \in Seq(Int) /\ Len(LastOf(rounded, N)) = N
      /\ \A i \in 1..N : LastOf(rounded, N)[i] = rounded[Len(s) - N + i]
  <2>1. N \in 0..Len(rounded)
    BY <1>0, <1>2
  <2>2. /\ LastOf(rounded, N) \in Seq(Int) /\ Len(LastOf(rounded, N)) = N
        /\ \A i \in 1..N : LastOf(rounded, N)[i] = rounded[Len(rounded) - N + i]
    BY <1>2, <2>1, LastOfIs
  <2> QED BY <1>2, <2>2
<1>5. ASSUME NEW i \in 1..N
      PROVE  LastOf(rounded, N)[i] = Rounded(emas[i + period - 1].n, emas[i + period - 1].d)
  <2>1. Len(s) - N + i = i + period - 1 /\ i + period - 1 \in 1..Len(s)
    BY <1>0 DEF N
  <2> QED BY <1>2, <1>4, <2>1
<1> QED
  BY <1>3, <1>4, <1>5 DEF N

LEMMA EmaExtends ==
  ASSUME NEW s, NEW t, Extends(t, s), NEW period \in Nat \ {0}, period <= Len(s)
  PROVE  /\ Extends(ExponentialMovingAverage(t, period), ExponentialMovingAverage(s, period))
         /\ Len(ExponentialMovingAverage(s, period)) = Len(s) - period + 1
<1> DEFINE u == ExponentialMovingAverage(s, period)
           v == ExponentialMovingAverage(t, period)
           N == Len(s) - period + 1
<1>0. /\ s \in Seq(Int) /\ t \in Seq(Int) /\ Len(s) \in Nat /\ Len(t) = Len(s) + 1
      /\ period <= Len(t) /\ N \in Nat /\ Len(t) - period + 1 = N + 1
  BY DEF Extends
<1>1. /\ u \in Seq(Int) /\ Len(u) = N
      /\ \A i \in 1..N : u[i] = Rounded(ExactEmas(s, period)[i + period - 1].n,
                                        ExactEmas(s, period)[i + period - 1].d)
  BY <1>0, EmaIs
<1>2. /\ v \in Seq(Int) /\ Len(v) = N + 1
      /\ \A i \in 1..(N + 1) : v[i] = Rounded(ExactEmas(t, period)[i + period - 1].n,
                                              ExactEmas(t, period)[i + period - 1].d)
  BY <1>0, EmaIs
<1>3. ASSUME NEW i \in 1..N PROVE v[i] = u[i]
  <2>1. i + period - 1 \in 0..Len(s) /\ i \in 1..(N + 1)
    BY <1>0
  <2>2. ExactEmas(t, period)[i + period - 1] = ExactEmas(s, period)[i + period - 1]
    BY <2>1, EmasExtend
  <2> QED BY <1>1, <1>2, <2>1, <2>2
<1> HIDE DEF u, v
<1>4. Extends(v, u)
  BY <1>1, <1>2, <1>3 DEF Extends
<1> QED
  BY <1>1, <1>4 DEF u, v

Points == [fast: Int, slow: Int]

LEMMA PairedIs ==
  ASSUME NEW long \in Seq(Int), NEW short \in Seq(Int), Len(short) <= Len(long)
  PROVE  /\ Paired(long, short) \in Seq(Points)
         /\ Len(Paired(long, short)) = Len(short)
         /\ \A i \in 1..Len(short) :
              Paired(long, short)[i] = [fast |-> long[i + (Len(long) - Len(short))], slow |-> short[i]]
<1>1. \A i \in 1..Len(short) :
        [fast |-> long[i + (Len(long) - Len(short))], slow |-> short[i]] \in Points
  BY DEF Points
<1>2. Paired(long, short) =
        [i \in 1..Len(short) |-> [fast |-> long[i + (Len(long) - Len(short))], slow |-> short[i]]]
  BY DEF Paired
<1> QED
  BY <1>1, <1>2

LEMMA GapsAre ==
  ASSUME NEW pairs \in Seq(Points)
  PROVE  /\ Gaps(pairs) \in Seq(Int)
         /\ Len(Gaps(pairs)) = Len(pairs)
         /\ \A i \in 1..Len(pairs) : Gaps(pairs)[i] = pairs[i].fast - pairs[i].slow
<1>1. ASSUME NEW i \in 1..Len(pairs) PROVE pairs[i].fast - pairs[i].slow \in Int
  <2>1. pairs[i] \in Points
    BY ElementOfSeq
  <2> QED BY <2>1 DEF Points
<1>2. Gaps(pairs) = [i \in 1..Len(pairs) |-> pairs[i].fast - pairs[i].slow]
  BY DEF Gaps
<1> QED
  BY <1>1, <1>2

\* Lines that go on by a point each are paired as before, up to that point.
LEMMA PairedExtends ==
  ASSUME NEW long, NEW longer, Extends(longer, long),
         NEW short, NEW shorter, Extends(shorter, short), Len(short) <= Len(long)
  PROVE  /\ Paired(longer, shorter) \in Seq(Points)
         /\ Paired(long, short) \in Seq(Points)
         /\ Len(Paired(longer, shorter)) = Len(short) + 1
         /\ Len(Paired(long, short)) = Len(short)
         /\ \A i \in 1..Len(short) : Paired(longer, shorter)[i] = Paired(long, short)[i]
<1>0. /\ long \in Seq(Int) /\ longer \in Seq(Int) /\ Len(longer) = Len(long) + 1
      /\ short \in Seq(Int) /\ shorter \in Seq(Int) /\ Len(shorter) = Len(short) + 1
      /\ \A i \in 1..Len(long) : longer[i] = long[i]
      /\ \A i \in 1..Len(short) : shorter[i] = short[i]
  BY DEF Extends
<1> DEFINE N == Len(short)
           M == Len(long)
<1>1. N \in Nat /\ M \in Nat /\ N <= M /\ (M + 1) - (N + 1) = M - N
  BY <1>0
<1>2. /\ Paired(long, short) \in Seq(Points)
      /\ Len(Paired(long, short)) = N
      /\ \A i \in 1..N : Paired(long, short)[i] = [fast |-> long[i + (M - N)], slow |-> short[i]]
  BY <1>0, PairedIs
<1>3. /\ Paired(longer, shorter) \in Seq(Points)
      /\ Len(Paired(longer, shorter)) = N + 1
      /\ \A i \in 1..(N + 1) :
           Paired(longer, shorter)[i] = [fast |-> longer[i + (M - N)], slow |-> shorter[i]]
  <2>1. Len(shorter) <= Len(longer) /\ Len(longer) - Len(shorter) = M - N /\ Len(shorter) = N + 1
    BY <1>0, <1>1
  <2>2. /\ Paired(longer, shorter) \in Seq(Points)
        /\ Len(Paired(longer, shorter)) = Len(shorter)
        /\ \A i \in 1..Len(shorter) :
             Paired(longer, shorter)[i] =
               [fast |-> longer[i + (Len(longer) - Len(shorter))], slow |-> shorter[i]]
    BY <1>0, <2>1, PairedIs
  <2> QED BY <2>1, <2>2
<1>4. ASSUME NEW i \in 1..N PROVE Paired(longer, shorter)[i] = Paired(long, short)[i]
  <2>1. i \in 1..(N + 1) /\ i + (M - N) \in 1..M
    BY <1>1
  <2>2. longer[i + (M - N)] = long[i + (M - N)] /\ shorter[i] = short[i]
    BY <1>0, <2>1
  <2> QED BY <1>2, <1>3, <2>1, <2>2
<1> QED
  BY <1>2, <1>3, <1>4

LEMMA GapsExtend ==
  ASSUME NEW p \in Seq(Points), NEW q \in Seq(Points), Len(q) = Len(p) + 1,
         \A i \in 1..Len(p) : q[i] = p[i]
  PROVE  Extends(Gaps(q), Gaps(p)) /\ Len(Gaps(p)) = Len(p)
<1>1. Gaps(p) \in Seq(Int) /\ Len(Gaps(p)) = Len(p)
      /\ \A i \in 1..Len(p) : Gaps(p)[i] = p[i].fast - p[i].slow
  BY GapsAre
<1>2. Gaps(q) \in Seq(Int) /\ Len(Gaps(q)) = Len(q)
      /\ \A i \in 1..Len(q) : Gaps(q)[i] = q[i].fast - q[i].slow
  BY GapsAre
<1>3. Len(p) \in Nat
  OBVIOUS
<1>4. ASSUME NEW i \in 1..Len(p) PROVE Gaps(q)[i] = Gaps(p)[i]
  <2>1. i \in 1..Len(q)
    BY <1>3
  <2> QED BY <1>1, <1>2, <2>1
<1> QED
  BY <1>1, <1>2, <1>4 DEF Extends

\* The last point of the MACD is the last but one after the next candle.
LEMMA MacdGoesOn ==
  ASSUME NEW s, NEW t, Extends(t, s), NEW fast \in Nat \ {0}, NEW slow \in Nat \ {0},
         fast < slow, NEW signal \in Nat \ {0}, slow + signal <= Len(s) + 1
  PROVE  LET before == MacdPoints(s, fast, slow, signal)
             after == MacdPoints(t, fast, slow, signal)
         IN /\ Last(before) \in Points /\ Last(after) \in Points
            /\ Last(Front(after)) = Last(before)
<1> DEFINE f1 == ExponentialMovingAverage(s, fast)
           f2 == ExponentialMovingAverage(t, fast)
           s1 == ExponentialMovingAverage(s, slow)
           s2 == ExponentialMovingAverage(t, slow)
           m1 == Gaps(Paired(f1, s1))
           m2 == Gaps(Paired(f2, s2))
           e1 == ExponentialMovingAverage(m1, signal)
           e2 == ExponentialMovingAverage(m2, signal)
           before == Paired(m1, e1)
           after == Paired(m2, e2)
<1>0. Len(s) \in Nat /\ fast <= Len(s) /\ slow <= Len(s)
  <2>1. Len(s) \in Nat
    BY DEF Extends
  <2> QED BY <2>1
<1>1. Extends(f2, f1) /\ Len(f1) = Len(s) - fast + 1
  BY <1>0, EmaExtends
<1>2. Extends(s2, s1) /\ Len(s1) = Len(s) - slow + 1
  BY <1>0, EmaExtends
<1> HIDE DEF f1, f2, s1, s2
<1>3. Len(s1) <= Len(f1)
  BY <1>0, <1>1, <1>2
<1>4. Extends(m2, m1) /\ Len(m1) = Len(s1)
  <2>1. /\ Paired(f2, s2) \in Seq(Points) /\ Paired(f1, s1) \in Seq(Points)
        /\ Len(Paired(f2, s2)) = Len(s1) + 1 /\ Len(Paired(f1, s1)) = Len(s1)
        /\ \A i \in 1..Len(s1) : Paired(f2, s2)[i] = Paired(f1, s1)[i]
    <3>1. Extends(f2, f1) /\ Extends(s2, s1)
      BY <1>1, <1>2
    <3> QED BY <1>3, <3>1, PairedExtends
  <2> QED BY <2>1, GapsExtend
<1> HIDE DEF m1, m2
<1>5. signal <= Len(m1) /\ Len(m1) \in Nat
  BY <1>0, <1>2, <1>4
<1>6. Extends(e2, e1) /\ Len(e1) = Len(m1) - signal + 1
  BY <1>4, <1>5, EmaExtends
<1> HIDE DEF e1, e2
<1>7. Len(e1) <= Len(m1) /\ Len(e1) \in Nat /\ Len(e1) > 0
  BY <1>5, <1>6
<1>8. /\ after \in Seq(Points) /\ before \in Seq(Points)
      /\ Len(after) = Len(e1) + 1 /\ Len(before) = Len(e1)
      /\ \A i \in 1..Len(e1) : after[i] = before[i]
  <2>1. Extends(m2, m1) /\ Extends(e2, e1) /\ Len(e1) <= Len(m1)
    BY <1>4, <1>6, <1>7
  <2> QED BY <2>1, PairedExtends
<1>9. before = MacdPoints(s, fast, slow, signal) /\ after = MacdPoints(t, fast, slow, signal)
  BY DEF MacdPoints, WithSignal, e1, e2, m1, m2, f1, f2, s1, s2
<1> HIDE DEF before, after
<1>10. Last(before) = before[Len(e1)] /\ Last(before) \in Points /\ Last(after) \in Points
  <2>1. Len(e1) \in 1..Len(before) /\ Len(e1) + 1 \in 1..Len(after)
    BY <1>7, <1>8
  <2>2. before[Len(e1)] \in Points /\ after[Len(e1) + 1] \in Points
    BY <1>8, <2>1, ElementOfSeq
  <2> QED BY <1>8, <2>2 DEF Last
<1>11. Last(Front(after)) = after[Len(e1)]
  <2>1. after # <<>> /\ Len(after) - 1 = Len(e1)
    BY <1>7, <1>8
  <2>2. Len(Front(after)) = Len(e1) /\ \A i \in 1..Len(e1) : Front(after)[i] = after[i]
    BY <1>8, <2>1, FrontIs
  <2>3. Len(e1) \in 1..Len(e1)
    BY <1>7
  <2> QED BY <2>2, <2>3 DEF Last
<1>12. Len(e1) \in 1..Len(e1)
  BY <1>7
<1> QED
  BY <1>8, <1>9, <1>10, <1>11, <1>12

----------------------------------------------------------------------------
(* The invariant of a backtest                                             *)

LEMMA ClosesAre ==
  ASSUME ReplayInv, NEW price \in ClosePrices
  PROVE  LET c == Append(closes, price)
         IN /\ closes \in Seq(Int) /\ Len(closes) \in Nat
            /\ c \in Seq(ClosePrices) /\ c \in Seq(Int) /\ c # <<>>
            /\ Len(c) = Len(closes) + 1 /\ Last(c) = price /\ Front(c) = closes
            /\ Extends(c, closes)
<1> DEFINE c == Append(closes, price)
<1>1. ClosePrices \subseteq Int
  BY ReplayAssumption
<1>2. closes \in Seq(ClosePrices)
  BY DEF ReplayInv
<1>3. /\ c \in Seq(ClosePrices) /\ c # <<>> /\ Len(c) = Len(closes) + 1
      /\ \A i \in 1..Len(closes) : c[i] = closes[i]
      /\ Last(c) = price /\ Front(c) = closes
  BY <1>2, AppendIs
<1> HIDE DEF c
<1>4. closes \in Seq(Int) /\ c \in Seq(Int)
  BY <1>1, <1>2, <1>3, SeqMonotonic
<1>5. Len(closes) \in Nat
  BY <1>2
<1> QED
  BY <1>3, <1>4, <1>5 DEF c, Extends

LEMMA MovingAverageStaysAbove ==
  ASSUME ReplayInv, setup # NoSetup, NEW price \in ClosePrices,
         setup.type = "moving_average_cross"
  PROVE  LET c == Append(closes, price)
             config == MovingAverageConfig(setup.parameters)
             now == Averages(c, config)
         IN Traded(c).held > 0 =>
              config.valid /\ Len(c) >= config.long + 1 /\ now.fast >= now.slow
<1> DEFINE c == Append(closes, price)
           config == MovingAverageConfig(setup.parameters)
           now == Averages(c, config)
           before == Averages(closes, config)
           d == DecisionOn(c)
           l == Traded(c)
<1>1. setup \in Setups /\ Crossed(ledger, setup, closes)
  BY DEF ReplayInv
<1>2. IntValued(setup.parameters) /\ IsProfile(setup.profile)
  BY <1>1, SetupIs
<1>3. ledger.held \in Nat /\ ledger.held \in Int
  BY DEF ReplayInv, Counted, Ledgers
<1>4. closes \in Seq(Int) /\ c \in Seq(Int) /\ Len(closes) \in Nat /\ Len(c) = Len(closes) + 1
      /\ Front(c) = closes
  BY ClosesAre
<1>5. config.valid => config.short \in Nat \ {0} /\ config.long \in Nat \ {0}
                      /\ config.short < config.long
  BY <1>2, MovingAverageWindows
<1>6. config.valid /\ ~(Len(c) < config.long + 1) => now.fast \in Int /\ now.slow \in Int
  <2>1. ASSUME config.valid, ~(Len(c) < config.long + 1)
        PROVE  config.short <= Len(c) /\ config.long <= Len(c)
    <3>1. Len(c) \in Nat
      BY <1>4
    <3> HIDE DEF c, config
    <3> QED BY <1>5, <2>1, <3>1
  <2> HIDE DEF c, config
  <2> QED BY <1>4, <1>5, <2>1, AveragesAreInts
<1>7. /\ d.action = "buy" => config.valid /\ ~(Len(c) < config.long + 1) /\ now.fast > now.slow
      /\ config.valid /\ ~(Len(c) < config.long + 1) /\ ledger.held > 0
           /\ before.fast >= before.slow /\ now.fast < now.slow
           => d.action = "sell"
  <2>1. d = EvaluateMovingAverageCross(config, QuantityOf(setup.parameters, setup.profile),
                                       c, ledger.held)
    BY DecidesByType DEF DecisionOn
  <2>2. config.valid => QuantityOf(setup.parameters, setup.profile) \in Nat
    BY <1>2, ValidConfigs, QuantityIsNat
  <2> HIDE DEF d, c, config
  <2> QED BY <1>3, <1>4, <2>1, <2>2, MovingAverageDecides
<1> DEFINE a == RiskOn(d, price).action
<1>8. /\ \/ l = ledger
         \/ a = "buy" /\ l = Bought(d.quantity, price)
         \/ l = Sold(price)
      /\ a = "buy" => d.action = "buy"
      /\ ledger.held > 0 /\ d.action = "sell" => l = Sold(price)
  BY TradedIs
<1>9. Sold(price).held = 0
  BY DEF Sold
<1> HIDE DEF c, config, d, l, now, before, a
<1>10. ASSUME l.held > 0
       PROVE  config.valid /\ ~(Len(c) < config.long + 1) /\ ~(now.fast < now.slow)
  <2>1. CASE a = "buy"
    BY <1>5, <1>6, <1>7, <1>8, <2>1
  <2>2. CASE l = ledger
    <3>1. config.valid /\ Len(closes) >= config.long + 1 /\ before.fast >= before.slow
      BY <1>1, <1>10, <2>2 DEF Crossed, config, before
    <3>2. ~(Len(c) < config.long + 1)
      BY <1>4, <1>5, <3>1
    <3>3. ~(now.fast < now.slow)
      BY <1>7, <1>8, <1>9, <1>10, <2>2, <3>1, <3>2
    <3> QED BY <3>1, <3>2, <3>3
  <2> QED BY <1>8, <1>9, <1>10, <2>1, <2>2
<1>11. ASSUME l.held > 0
       PROVE  config.valid /\ Len(c) >= config.long + 1 /\ now.fast >= now.slow
  <2>1. Len(c) \in Nat
    BY <1>4
  <2> QED BY <1>5, <1>6, <1>10, <1>11, <2>1
<1> QED
  BY <1>11 DEF c, config, l, now

LEMMA MacdStaysAbove ==
  ASSUME ReplayInv, setup # NoSetup, NEW price \in ClosePrices, setup.type = "macd_crossover"
  PROVE  LET c == Append(closes, price)
             config == MacdConfig(setup.parameters)
             now == Last(MacdPoints(c, config.fast, config.slow, config.signal))
         IN Traded(c).held > 0 =>
              config.valid /\ Len(c) >= config.slow + config.signal /\ now.fast >= now.slow
<1> DEFINE c == Append(closes, price)
           config == MacdConfig(setup.parameters)
           required == config.slow + config.signal
           earlier == MacdPoints(closes, config.fast, config.slow, config.signal)
           points == MacdPoints(c, config.fast, config.slow, config.signal)
           now == Last(points)
           before == Last(earlier)
           d == DecisionOn(c)
           l == Traded(c)
<1>1. setup \in Setups /\ Crossed(ledger, setup, closes)
  BY DEF ReplayInv
<1>2. IntValued(setup.parameters) /\ IsProfile(setup.profile)
  BY <1>1, SetupIs
<1>3. ledger.held \in Nat /\ ledger.held \in Int
  BY DEF ReplayInv, Counted, Ledgers
<1>4. closes \in Seq(Int) /\ c \in Seq(Int) /\ Len(closes) \in Nat /\ Len(c) = Len(closes) + 1
      /\ Extends(c, closes)
  BY ClosesAre
<1>5. config.valid => /\ config.fast \in Nat \ {0} /\ config.slow \in Nat \ {0}
                      /\ config.fast < config.slow /\ config.signal \in Nat \ {0}
                      /\ required \in Nat
  BY <1>2, MacdWindows
<1>6. ASSUME config.valid, Len(c) >= required
      PROVE  Last(Front(points)) = before /\ now.fast \in Int /\ now.slow \in Int
  <2> DEFINE fast == config.fast
             slow == config.slow
             signal == config.signal
  <2>1. fast \in Nat \ {0} /\ slow \in Nat \ {0} /\ fast < slow /\ signal \in Nat \ {0}
    BY <1>5, <1>6
  <2>2. slow + signal <= Len(closes) + 1
    <3> HIDE DEF c, config
    <3> QED BY <1>4, <1>6
  <2>3. Extends(c, closes)
    BY <1>4
  <2> HIDE DEF c, fast, slow, signal
  <2>4. LET m == MacdPoints(closes, fast, slow, signal)
            n == MacdPoints(c, fast, slow, signal)
        IN Last(n) \in Points /\ Last(Front(n)) = Last(m)
    BY <2>1, <2>2, <2>3, MacdGoesOn
  <2>5. now \in Points /\ Last(Front(points)) = before
    BY <2>4 DEF fast, slow, signal
  <2> HIDE DEF now
  <2> QED BY <2>5 DEF Points
<1>7. /\ d.action = "buy" => config.valid /\ ~(Len(c) < required) /\ now.fast > now.slow
      /\ config.valid /\ ~(Len(c) < required) /\ ledger.held > 0
           /\ Last(Front(points)).fast >= Last(Front(points)).slow /\ now.fast < now.slow
           => d.action = "sell"
  <2>1. d = EvaluateMacdCrossover(config, QuantityOf(setup.parameters, setup.profile),
                                  c, ledger.held)
    BY DecidesByType DEF DecisionOn
  <2>2. config.valid => QuantityOf(setup.parameters, setup.profile) \in Nat
    BY <1>2, ValidConfigs, QuantityIsNat
  <2> HIDE DEF d, c, config
  <2> QED BY <1>3, <2>1, <2>2, MacdDecides
<1> DEFINE a == RiskOn(d, price).action
<1>8. /\ \/ l = ledger
         \/ a = "buy" /\ l = Bought(d.quantity, price)
         \/ l = Sold(price)
      /\ a = "buy" => d.action = "buy"
      /\ ledger.held > 0 /\ d.action = "sell" => l = Sold(price)
  BY TradedIs
<1>9. Sold(price).held = 0
  BY DEF Sold
<1> HIDE DEF c, config, d, l, now, points, before, a, required
<1>10. ASSUME l.held > 0
       PROVE  config.valid /\ ~(Len(c) < required) /\ ~(now.fast < now.slow)
  <2>1. CASE a = "buy"
    <3>1. config.valid /\ ~(Len(c) < required) /\ now.fast > now.slow
      BY <1>7, <1>8, <2>1
    <3>2. now.fast \in Int /\ now.slow \in Int
      BY <1>4, <1>5, <1>6, <3>1
    <3> QED BY <3>1, <3>2
  <2>2. CASE l = ledger
    <3>1. config.valid /\ Len(closes) >= required /\ before.fast >= before.slow
      BY <1>1, <1>10, <2>2 DEF Crossed, config, before, required
    <3>2. ~(Len(c) < required) /\ Len(c) >= required
      BY <1>4, <1>5, <3>1
    <3>3. Last(Front(points)) = before
      BY <1>6, <3>1, <3>2
    <3>4. ~(now.fast < now.slow)
      BY <1>7, <1>8, <1>9, <1>10, <2>2, <3>1, <3>2, <3>3
    <3> QED BY <3>1, <3>2, <3>4
  <2> QED BY <1>8, <1>9, <1>10, <2>1, <2>2
<1>11. ASSUME l.held > 0
       PROVE  config.valid /\ Len(c) >= required /\ now.fast >= now.slow
  <2>1. Len(c) >= required
    BY <1>4, <1>5, <1>10, <1>11
  <2> QED BY <1>6, <1>10, <1>11, <2>1
<1> QED
  BY <1>11 DEF c, config, l, now, points, required

LEMMA StopIsKept ==
  ASSUME ReplayInv, setup # NoSetup, NEW price \in ClosePrices
  PROVE  Stopped(Traded(Append(closes, price)), setup, Append(closes, price))
<1> DEFINE c == Append(closes, price)
           d == DecisionOn(c)
           a == RiskOn(d, price).action
           l == Traded(c)
           stop == StopLossHit(setup.limits, ledger.held, ledger.entry, price)
<1>1. c # <<>> /\ Last(c) = price /\ price \in Nat /\ price > 0
  BY ClosesAre, PricesAreNaturals
<1>2. /\ \/ l = ledger
         \/ l = Bought(d.quantity, price)
         \/ l = Sold(price)
      /\ ledger.held > 0 /\ a = "sell" => l = Sold(price)
      /\ stop => a = "sell"
  BY TradedIs
<1>3. Sold(price).held = 0
  BY DEF Sold
<1>4. setup.limits.stopLoss \in Nat
  <2>1. setup \in Setups
    BY DEF ReplayInv
  <2> QED BY <2>1, SetupIs DEF Limits
<1>5. ledger \in Ledgers /\ (ledger.held > 0 <=> ledger.entry > 0)
  BY DEF ReplayInv, Counted
<1>6. Bought(d.quantity, price).entry = price
  BY <1>5 DEF Bought, Ledgers
<1> HIDE DEF c, d, a, l
<1> SUFFICES ASSUME l.held > 0, setup.limits.stopLoss > 0
             PROVE  price * 100 > l.entry * (100 - setup.limits.stopLoss)
  BY <1>1 DEF Stopped, c, l
<1>7. CASE l = Bought(d.quantity, price)
  <2> DEFINE cut == setup.limits.stopLoss
  <2>1. cut \in Nat /\ cut > 0
    BY <1>4
  <2> HIDE DEF cut
  <2>2. price * cut > 0 /\ price * (100 - cut) = price * 100 - price * cut /\ price * cut \in Int
    BY <1>1, <2>1
  <2>3. price * 100 > price * (100 - cut)
    BY <1>1, <2>2
  <2> QED BY <1>6, <1>7, <2>3 DEF cut
<1>8. CASE l = ledger
  <2>1. ledger.held > 0 /\ ledger.entry > 0 /\ ledger.entry \in Nat
    BY <1>5, <1>8 DEF Ledgers
  <2>2. ~stop
    BY <1>2, <1>3, <1>8, <2>1
  <2>3. ~(price * 100 <= ledger.entry * (100 - setup.limits.stopLoss))
    BY <1>1, <2>1, <2>2 DEF StopLossHit
  <2> DEFINE floor == ledger.entry * (100 - setup.limits.stopLoss)
  <2>4. floor \in Int
    BY <1>4, <2>1
  <2> HIDE DEF floor
  <2>5. price * 100 > floor
    <3>1. ~(price * 100 <= floor)
      BY <2>3 DEF floor
    <3> QED BY <1>1, <2>4, <3>1
  <2> QED BY <1>8, <2>5 DEF floor
<1> QED
  BY <1>2, <1>3, <1>7, <1>8

LEMMA LedgerIsKept ==
  ASSUME ReplayInv, setup # NoSetup, NEW price \in ClosePrices
  PROVE  LET l == Traded(Append(closes, price))
         IN Counted(l) /\ Funded(l, setup)
<1> DEFINE c == Append(closes, price)
           d == DecisionOn(c)
           a == RiskOn(d, price).action
           l == Traded(c)
<1>1. setup \in Setups /\ Counted(ledger) /\ Funded(ledger, setup)
  BY DEF ReplayInv
<1>2. setup.balance \in Nat /\ setup.limits.maxTrade \in Nat
  BY <1>1, SetupIs DEF Limits
<1>3. price \in Nat /\ price > 0
  BY PricesAreNaturals
<1>4. /\ d.quantity \in Nat
      /\ \/ l = ledger
         \/ /\ l = Bought(d.quantity, price) /\ a = "buy" /\ ledger.held = 0
            /\ d.quantity > 0 /\ d.quantity * price <= ledger.cash
         \/ l = Sold(price) /\ ledger.held > 0
      /\ a = "buy" /\ d.quantity > 0 /\ setup.limits.maxTrade > 0
           => d.quantity <= setup.limits.maxTrade
  BY TradedIs
<1> HIDE DEF c, d, a, l
<1>5. CASE /\ l = Bought(d.quantity, price) /\ a = "buy" /\ ledger.held = 0
           /\ d.quantity > 0 /\ d.quantity * price <= ledger.cash
  <2>1. setup.limits.maxTrade > 0 => d.quantity <= setup.limits.maxTrade
    BY <1>4, <1>5
  <2> QED BY <1>1, <1>2, <1>3, <1>4, <1>5, <2>1, BoughtHolds DEF l, c
<1>6. CASE l = Sold(price) /\ ledger.held > 0
  BY <1>1, <1>2, <1>3, <1>6, SoldHolds DEF l, c
<1> QED
  BY <1>1, <1>4, <1>5, <1>6 DEF l, c

LEMMA ReplayInitInv == ReplayInit => ReplayInv
<1> SUFFICES ASSUME ReplayInit PROVE ReplayInv
  OBVIOUS
<1>1. Counted(ledger)
  BY EmptyLedgerHolds DEF ReplayInit
<1>2. closes \in Seq(ClosePrices) /\ Len(closes) <= MaxCandles
  BY ReplayAssumption DEF ReplayInit
<1> QED
  BY <1>1, <1>2 DEF ReplayInit, ReplayInv

LEMMA SameResult ==
  ASSUME UNCHANGED <<setup, closes, ledger>>
  PROVE  Result' = Result
BY Zenon DEF Result, ProfitFactor

LEMMA ReplayNextInv ==
  ASSUME ReplayInv, [ReplayNext]_replayVars
  PROVE  ReplayInv'
<1>1. CASE BeginReplay
  <2>1. PICK s \in Setups : setup' = s /\ ledger' = EmptyLedger(s.balance)
    BY <1>1 DEF BeginReplay
  <2>2. closes' = closes /\ result' = result /\ result = NoResult
    BY <1>1 DEF BeginReplay, ReplayInv
  <2>3. s.balance \in Nat
    BY SetupIs
  <2>4. Counted(ledger)' /\ ledger'.cash = s.balance /\ ledger'.held = 0 /\ ledger'.realized = 0
    BY <2>1, <2>3, EmptyLedgerHolds DEF Counted
  <2>5. Funded(ledger', s)
    <3>1. ledger'.entry \in Nat
      BY <2>1 DEF EmptyLedger
    <3>2. ledger'.held * ledger'.entry = 0
      BY <2>4, <3>1
    <3>3. s.limits.maxTrade \in Nat
      BY SetupIs DEF Limits
    <3> QED BY <2>3, <2>4, <3>2, <3>3 DEF Funded
  <2>6. Stopped(ledger', s, closes') /\ Crossed(ledger', s, closes')
    BY <2>4 DEF Stopped, Crossed
  <2>7. setup' # NoSetup
    BY <2>1, SetupIs
  <2>8. closes' \in Seq(ClosePrices) /\ Len(closes') <= MaxCandles
    BY <2>2 DEF ReplayInv
  <2>9. (Funded(ledger, setup) /\ Stopped(ledger, setup, closes) /\ Crossed(ledger, setup, closes))'
    BY <2>1, <2>5, <2>6
  <2> QED BY <2>1, <2>2, <2>4, <2>7, <2>8, <2>9 DEF ReplayInv
<1>2. CASE ReplayCandle
  <2>1. PICK price \in ClosePrices :
          closes' = Append(closes, price) /\ ledger' = Traded(Append(closes, price))
    BY <1>2 DEF ReplayCandle
  <2>2. setup # NoSetup /\ setup' = setup /\ result' = result /\ Len(closes) < MaxCandles
        /\ ~result.done
    BY <1>2 DEF ReplayCandle
  <2>3. result = NoResult
    <3>1. Result.done
      BY DEF Result
    <3> QED BY <2>2, <3>1 DEF ReplayInv
  <2>4. Counted(ledger') /\ Funded(ledger', setup)
    BY <2>1, <2>2, LedgerIsKept
  <2>5. Stopped(ledger', setup, closes')
    BY <2>1, <2>2, StopIsKept
  <2>6. Crossed(ledger', setup, closes')
    BY <2>1, <2>2, MovingAverageStaysAbove, MacdStaysAbove DEF Crossed
  <2>7. closes' \in Seq(ClosePrices) /\ Len(closes') <= MaxCandles
    <3>1. closes' \in Seq(ClosePrices) /\ Len(closes') = Len(closes) + 1 /\ Len(closes) \in Nat
      BY <2>1, ClosesAre
    <3> QED BY <2>2, <3>1, ReplayAssumption
  <2>8. (Counted(ledger) /\ Funded(ledger, setup) /\ Stopped(ledger, setup, closes)
         /\ Crossed(ledger, setup, closes))'
    BY <2>2, <2>4, <2>5, <2>6
  <2>9. setup \in Setups
    BY <2>2 DEF ReplayInv
  <2> QED BY <2>2, <2>3, <2>7, <2>8, <2>9 DEF ReplayInv
<1>3. CASE EndReplay
  <2>1. UNCHANGED <<setup, closes, ledger>> /\ result' = Result /\ setup # NoSetup
    BY <1>3 DEF EndReplay
  <2>2. result' = Result'
    BY <2>1, SameResult
  <2> QED BY <2>1, <2>2 DEF ReplayInv, Counted, Funded, Stopped, Crossed
<1>4. CASE UNCHANGED replayVars
  <2>1. UNCHANGED <<setup, closes, ledger>> /\ result' = result
    BY <1>4 DEF replayVars
  <2>2. Result' = Result
    BY <2>1, SameResult
  <2> QED BY <2>1, <2>2 DEF ReplayInv, Counted, Funded, Stopped, Crossed
<1> QED
  BY <1>1, <1>2, <1>3, <1>4 DEF ReplayNext

----------------------------------------------------------------------------
(* What the invariant says of a backtest                                   *)

LEMMA LedgerIsTyped == ReplayInv => ReplayTypeOK
<1> SUFFICES ASSUME ReplayInv PROVE ReplayTypeOK
  OBVIOUS
<1>1. /\ ledger \in Ledgers /\ Len(closes) <= MaxCandles
      /\ ledger.held > 0 <=> ledger.entry > 0
      /\ ledger.trades = 2 * Len(ledger.pnls) + (IF ledger.held > 0 THEN 1 ELSE 0)
  BY DEF ReplayInv, Counted
<1>2. Len(ledger.pnls) \in Nat /\ ledger.cash \in Nat /\ ledger.held \in Nat
  BY <1>1 DEF Ledgers
<1>3. ledger.trades \in {2 * Len(ledger.pnls), 2 * Len(ledger.pnls) + 1}
  <2>1. CASE ledger.held > 0
    BY <1>1, <2>1
  <2>2. CASE ~(ledger.held > 0)
    <3>1. ledger.trades = 2 * Len(ledger.pnls) + 0
      BY <1>1, <2>2
    <3> QED BY <1>2, <3>1
  <2> QED BY <2>1, <2>2
<1> QED
  BY <1>1, <1>2, <1>3 DEF ReplayTypeOK

LEMMA StopsAndCrossings == ReplayInv => PositionFollowsCrossing /\ StopLossCaps
<1> SUFFICES ASSUME ReplayInv PROVE PositionFollowsCrossing /\ StopLossCaps
  OBVIOUS
<1>1. CASE setup = NoSetup
  <2>1. ledger.held = 0
    BY <1>1 DEF ReplayInv, EmptyLedger
  <2> QED BY <2>1 DEF PositionFollowsCrossing, StopLossCaps
<1>2. CASE setup # NoSetup
  <2>1. Stopped(ledger, setup, closes) /\ Crossed(ledger, setup, closes)
    BY <1>2 DEF ReplayInv
  <2>2. StopLossCaps
    BY <2>1 DEF StopLossCaps, Stopped
  <2>3. PositionFollowsCrossing
    BY <2>1, Zenon DEF PositionFollowsCrossing, Crossed
  <2> QED BY <2>2, <2>3
<1> QED
  BY <1>1, <1>2

\* The sums of the report.
LEMMA FactorTellsWinner ==
  ASSUME Counted(ledger), Losing(ledger.pnls) # {}, ProfitFactor.by > 0
  PROVE  ProfitFactor.of > ProfitFactor.by <=> ledger.realized > 0
<1> DEFINE p == ledger.pnls
           won == Total(Rises(p))
           lost == Total(Falls(p))
<1>1. p \in Seq(Int) /\ ledger.realized = Total(p)
  BY DEF Counted, Ledgers
<1> HIDE DEF p
<1>2. /\ Rises(p) \in Seq(Int) /\ Falls(p) \in Seq(Int)
      /\ Len(Rises(p)) = Len(p) /\ Len(Falls(p)) = Len(p)
      /\ \A i \in 1..Len(p) : Rises(p)[i] >= 0 /\ Falls(p)[i] >= 0 /\ Falls(p)[i] = Rise(-p[i])
  BY <1>1, RisesAndFalls
<1>3. won \in Int /\ lost \in Int /\ won >= 0
  <2>1. won >= 0
    BY <1>2, TotalOfNaturals
  <2> QED BY <1>2, <2>1, TotalIsInt
<1>4. lost > 0
  <2>1. PICK i \in DOMAIN p : p[i] < 0
    BY DEF Losing, p
  <2>2. i \in 1..Len(p) /\ p[i] \in Int
    BY <1>1
  <2>3. Falls(p)[i] > 0
    BY <1>2, <2>1, <2>2 DEF Rise
  <2> QED BY <1>2, <2>2, <2>3, TotalOfNaturals
<1>5. ledger.realized = won - lost
  BY <1>1, TotalOfRisesAndFalls
<1>6. p # <<>>
  BY DEF Losing, p
<1>7. ProfitFactor = IF won > 0 THEN [of |-> won, by |-> lost] ELSE [of |-> 0, by |-> 1]
  <2>1. ProfitFactor = IF p = <<>> \/ (lost = 0 /\ won > 0) THEN [of |-> 0, by |-> 0]
                       ELSE IF lost > 0 /\ won > 0 THEN [of |-> won, by |-> lost]
                       ELSE [of |-> 0, by |-> 1]
    BY Zenon DEF ProfitFactor, p
  <2> HIDE DEF won, lost
  <2> QED BY <1>3, <1>4, <1>6, <2>1
<1> HIDE DEF won, lost
<1>8. CASE won > 0
  BY <1>3, <1>4, <1>5, <1>7, <1>8
<1>9. CASE ~(won > 0)
  BY <1>3, <1>4, <1>5, <1>7, <1>9
<1> QED
  BY <1>8, <1>9

LEMMA ReportAddsUp == ReplayInv => ResultsAddUp
<1> SUFFICES ASSUME ReplayInv, result.done PROVE ResultsAddUp
  BY DEF ResultsAddUp
<1>1. result = Result
  BY DEF ReplayInv, NoResult
<1>2. setup # NoSetup
  <2>1. ~NoResult.done
    BY DEF NoResult
  <2> QED BY <2>1 DEF ReplayInv
<1>3. /\ Counted(ledger) /\ ledger \in Ledgers
      /\ ledger.trades = 2 * Len(ledger.pnls) + (IF ledger.held > 0 THEN 1 ELSE 0)
      /\ ledger.realized = Total(ledger.pnls)
      /\ ledger.held > 0 <=> ledger.entry > 0
      /\ setup \in Setups /\ Funded(ledger, setup) /\ Stopped(ledger, setup, closes)
      /\ closes \in Seq(ClosePrices)
  BY <1>2 DEF ReplayInv, Counted
<1>4. /\ ledger.cash \in Nat /\ ledger.held \in Nat /\ ledger.entry \in Nat /\ ledger.realized \in Int
      /\ ledger.pnls \in Seq(Int)
  BY <1>3 DEF Ledgers
<1>5. setup.balance \in Nat
  BY <1>3, SetupIs
<1> DEFINE p == ledger.pnls
           last == LastPrice(closes)
<1>6. /\ result.totalReturn = (ledger.cash + ledger.held * last) - setup.balance
      /\ result.realized = ledger.realized
      /\ result.unrealized = IF ledger.held > 0 THEN (last - ledger.entry) * ledger.held ELSE 0
      /\ result.trades = ledger.trades /\ result.closed = Len(p)
      /\ result.open = (ledger.held > 0)
      /\ result.losing = Cardinality(Losing(p))
      /\ result.best = IF p = <<>> THEN 0 ELSE Max(Range(p))
      /\ result.worst = IF p = <<>> THEN 0 ELSE Min(Range(p))
      /\ result.profitFactor = ProfitFactor
  <2>1. Result =
          [done |-> TRUE, final |-> ledger.cash + ledger.held * last,
           totalReturn |-> (ledger.cash + ledger.held * last) - setup.balance,
           realized |-> ledger.realized,
           unrealized |-> IF ledger.held > 0 THEN (last - ledger.entry) * ledger.held ELSE 0,
           trades |-> ledger.trades, closed |-> Len(p), open |-> ledger.held > 0,
           winning |-> Cardinality(Winning(p)), losing |-> Cardinality(Losing(p)),
           best |-> IF p = <<>> THEN 0 ELSE Max(Range(p)),
           worst |-> IF p = <<>> THEN 0 ELSE Min(Range(p)),
           profitFactor |-> ProfitFactor]
    BY Zenon DEF Result
  <2> HIDE DEF last, p
  <2> QED BY <1>1, <2>1
<1>7. result.totalReturn = result.realized + result.unrealized
  <2>1. last \in Nat
    <3>1. CASE closes = <<>>
      BY <3>1 DEF LastPrice
    <3>2. CASE closes # <<>>
      <4>1. Len(closes) \in 1..Len(closes)
        BY <1>3, <3>2
      <4>2. closes[Len(closes)] \in ClosePrices
        BY <1>3, <4>1, ElementOfSeq
      <4> QED BY <3>2, <4>2, PricesAreNaturals DEF LastPrice, Last
    <3> QED BY <3>1, <3>2
  <2> DEFINE worth == ledger.held * last
             paid == ledger.held * ledger.entry
             gain == (last - ledger.entry) * ledger.held
  <2>2. worth \in Int /\ paid \in Int /\ gain = worth - paid
    <3> HIDE DEF last
    <3> QED BY <1>4, <2>1
  <2>3. ledger.held = 0 => worth = 0 /\ paid = 0
    <3> HIDE DEF last
    <3> QED BY <1>4, <2>1
  <2>4. ledger.cash + paid = setup.balance + ledger.realized
    BY <1>3 DEF Funded
  <2>5. result.totalReturn = (ledger.cash + worth) - setup.balance
        /\ result.unrealized = (IF ledger.held > 0 THEN gain ELSE 0)
        /\ result.realized = ledger.realized
    BY <1>6, Zenon
  <2>6. ledger.cash \in Int /\ ledger.realized \in Int /\ setup.balance \in Int
        /\ ledger.held \in Nat
    BY <1>4, <1>5
  <2> HIDE DEF worth, paid, gain, last
  <2>7. (ledger.cash + worth) - setup.balance = ledger.realized + gain
    BY <2>2, <2>4, <2>6, SaleKeepsMoney
  <2>8. CASE ledger.held > 0
    BY <2>5, <2>7, <2>8
  <2>9. CASE ledger.held = 0
    <3>1. gain = 0 /\ result.unrealized = 0
      BY <2>2, <2>3, <2>5, <2>9
    <3> QED BY <2>5, <2>6, <2>7, <3>1
  <2> QED BY <2>6, <2>8, <2>9
<1>8. /\ result.realized = Total(ledger.pnls)
      /\ result.trades = 2 * result.closed + (IF result.open THEN 1 ELSE 0)
  BY <1>3, <1>6
<1>9. result.worst * result.closed <= result.realized /\ result.realized <= result.best * result.closed
  <2>1. CASE p = <<>>
    <3>1. Total(p) = 0 /\ Len(p) = 0
      BY <1>4, <2>1, TotalOfNone
    <3>2. result.worst = 0 /\ result.best = 0 /\ result.closed = 0 /\ result.realized = 0
      BY <1>3, <1>6, <2>1, <3>1
    <3> QED BY <3>2
  <2>2. CASE p # <<>>
    <3> DEFINE best == Max(Range(p))
               worst == Min(Range(p))
    <3>1. best \in Int /\ worst \in Int /\ \A i \in 1..Len(p) : worst <= p[i] /\ p[i] <= best
      BY <1>4, <2>2, BestAndWorst
    <3>2. result.worst = worst /\ result.best = best /\ result.closed = Len(p)
          /\ result.realized = Total(p)
      BY <1>3, <1>6, <2>2
    <3> HIDE DEF best, worst
    <3>3. worst * Len(p) <= Total(p) /\ Total(p) <= best * Len(p)
      BY <1>4, <3>1, TotalBounds
    <3> QED BY <3>2, <3>3
  <2> QED BY <2>1, <2>2
<1>10. result.profitFactor.by > 0 /\ result.losing > 0 =>
         (result.profitFactor.of > result.profitFactor.by <=> result.realized > 0)
  <2> SUFFICES ASSUME ProfitFactor.by > 0, Cardinality(Losing(p)) > 0
               PROVE  ProfitFactor.of > ProfitFactor.by <=> ledger.realized > 0
    BY <1>6
  <2>1. Losing(p) # {}
    BY FS_EmptySet
  <2> QED BY <1>3, <2>1, FactorTellsWinner
<1> QED
  BY <1>7, <1>8, <1>9, <1>10 DEF ResultsAddUp

\* A strategy decides on as many candles as it asks for as on all there are.
LEMMA SameAverages ==
  ASSUME NEW s \in Seq(Int), NEW n \in 0..Len(s), NEW config,
         config.short \in 0..n, config.long \in 0..n
  PROVE  Averages(LastOf(s, n), config) = Averages(s, config)
<1>1. LastOf(LastOf(s, n), config.short) = LastOf(s, config.short)
  BY LastOfLastOf
<1>2. LastOf(LastOf(s, n), config.long) = LastOf(s, config.long)
  BY LastOfLastOf
<1> QED
  BY <1>1, <1>2 DEF Averages

LEMMA MovingAverageSeesEnough ==
  ASSUME NEW s \in Seq(Int), NEW config, config.valid, config.short \in Nat \ {0},
         config.long \in Nat \ {0}, config.short < config.long, config.long + 1 < Len(s),
         NEW quantity, NEW held
  PROVE  EvaluateMovingAverageCross(config, quantity, LastOf(s, config.long + 1), held)
           = EvaluateMovingAverageCross(config, quantity, s, held)
<1> DEFINE n == config.long + 1
           w == LastOf(s, n)
<1>0. Len(s) \in Nat /\ n \in 0..Len(s) /\ n \in 1..Len(s)
      /\ config.short \in 0..n /\ config.long \in 0..n
      /\ config.short \in 0..(n - 1) /\ config.long \in 0..(n - 1)
  <2>1. Len(s) \in Nat
    OBVIOUS
  <2> QED BY <2>1
<1> HIDE DEF n
<1>1. w \in Seq(Int) /\ Len(w) = n
  BY <1>0, LastOfIs
<1>2. Averages(w, config) = Averages(s, config)
  BY <1>0, SameAverages
<1>3. Averages(Front(w), config) = Averages(Front(s), config)
  <2>1. Front(w) = LastOf(Front(s), n - 1)
    BY <1>0, FrontOfLastOf
  <2>2. Front(s) \in Seq(Int) /\ Len(Front(s)) = Len(s) - 1
    <3>1. s # <<>>
      BY <1>0
    <3> QED BY <3>1, FrontIs
  <2>3. n - 1 \in 0..Len(Front(s))
    BY <1>0, <2>2
  <2>4. Averages(LastOf(Front(s), n - 1), config) = Averages(Front(s), config)
    BY <1>0, <2>2, <2>3, SameAverages
  <2> QED BY <2>1, <2>4
<1>4. Last(w) = Last(s)
  BY <1>0, LastOfLast
<1>5. ~(Len(w) < config.long + 1) /\ ~(Len(s) < config.long + 1)
  BY <1>0, <1>1 DEF n
<1> HIDE DEF w
<1>6. EvaluateMovingAverageCross(config, quantity, w, held)
        = EvaluateMovingAverageCross(config, quantity, s, held)
  BY <1>2, <1>3, <1>4, <1>5, Zenon DEF EvaluateMovingAverageCross
<1> QED
  BY <1>6 DEF w, n

LEMMA RsiSeesEnough ==
  ASSUME NEW s \in Seq(Int), NEW config, config.valid, config.period \in Nat \ {0},
         config.period + 1 < Len(s), NEW quantity, NEW held
  PROVE  EvaluateRsiThreshold(config, quantity, LastOf(s, config.period + 1), held)
           = EvaluateRsiThreshold(config, quantity, s, held)
<1> DEFINE n == config.period + 1
           w == LastOf(s, n)
<1>0. Len(s) \in Nat /\ n \in 0..Len(s) /\ n \in 1..Len(s) /\ n \in 0..n
  OBVIOUS
<1> HIDE DEF n
<1>1. w \in Seq(Int) /\ Len(w) = n
  BY <1>0, LastOfIs
<1>2. LastOf(w, n) = LastOf(s, n)
  BY <1>0, LastOfLastOf
<1>3. Last(w) = Last(s)
  BY <1>0, LastOfLast
<1>4. ~(Len(w) < config.period + 1) /\ ~(Len(s) < config.period + 1)
  BY <1>0, <1>1 DEF n
<1>5. LastOf(w, config.period + 1) = LastOf(s, config.period + 1)
  BY <1>2 DEF n
<1> HIDE DEF w
<1>6. EvaluateRsiThreshold(config, quantity, w, held)
        = EvaluateRsiThreshold(config, quantity, s, held)
  BY <1>3, <1>4, <1>5, Zenon DEF EvaluateRsiThreshold
<1> QED
  BY <1>6 DEF w, n

LEMMA BollingerSeesEnough ==
  ASSUME NEW s \in Seq(Int), NEW config, config.valid, config.period \in Nat \ {0},
         config.period < Len(s), NEW quantity, NEW held
  PROVE  EvaluateBollingerBands(config, quantity, LastOf(s, config.period), held)
           = EvaluateBollingerBands(config, quantity, s, held)
<1> DEFINE n == config.period
           w == LastOf(s, n)
<1>0. Len(s) \in Nat /\ n \in 0..Len(s) /\ n \in 1..Len(s) /\ n \in 0..n
  OBVIOUS
<1>1. w \in Seq(Int) /\ Len(w) = n
  BY <1>0, LastOfIs
<1>2. LastOf(w, n) = LastOf(s, n)
  BY <1>0, LastOfLastOf
<1>3. Last(w) = Last(s)
  BY <1>0, LastOfLast
<1>4. ~(Len(w) < n) /\ ~(Len(s) < n)
  BY <1>0, <1>1
<1> HIDE DEF w
<1>5. EvaluateBollingerBands(config, quantity, w, held)
        = EvaluateBollingerBands(config, quantity, s, held)
  BY <1>2, <1>3, <1>4, Zenon DEF EvaluateBollingerBands
<1> QED
  BY <1>5 DEF w

LEMMA RequiredIs ==
  ASSUME NEW p
  PROVE  /\ RequiredCandles("moving_average_cross", p) =
              IF MovingAverageConfig(p).valid THEN MovingAverageConfig(p).long + 1 ELSE 0
         /\ RequiredCandles("rsi_threshold", p) =
              IF RsiConfig(p).valid THEN RsiConfig(p).period + 1 ELSE 0
         /\ RequiredCandles("bollinger_bands", p) =
              IF BollingerConfig(p).valid THEN BollingerConfig(p).period ELSE 0
BY DEF RequiredCandles

LEMMA BotsSeeEnough == ReplayInv => BotsDecideAsBacktests
<1> DEFINE p == setup.parameters
           quantity == QuantityOf(p, setup.profile)
           required == RequiredCandles(setup.type, p)
           seen == IF Len(closes) <= required THEN closes ELSE LastOf(closes, required)
           d == StrategyDecision(setup.type, p, setup.profile, Last(closes), ledger.held, seen)
           e == DecisionOn(closes)
<1> SUFFICES ASSUME ReplayInv, setup # NoSetup, setup.type # "macd_crossover", closes # <<>>
             PROVE  d = e
  BY Zenon DEF BotsDecideAsBacktests
<1>1. closes \in Seq(Int) /\ Len(closes) \in Nat
  <2>1. closes \in Seq(ClosePrices) /\ ClosePrices \subseteq Int
    BY ReplayAssumption DEF ReplayInv
  <2>2. closes \in Seq(Int)
    BY <2>1, SeqMonotonic
  <2> QED BY <2>2
<1>2. IntValued(p)
  BY SetupIs DEF ReplayInv
<1>3. e = StrategyDecision(setup.type, p, setup.profile, Last(closes), ledger.held, closes)
  BY DEF DecisionOn
<1>4. Len(closes) <= required => seen = closes
  OBVIOUS
<1>5. ~(Len(closes) <= required) => seen = LastOf(closes, required)
  OBVIOUS
<1> HIDE DEF p, quantity, required, seen
<1>6. CASE Len(closes) <= required
  BY <1>3, <1>4, <1>6
<1>7. CASE ~(Len(closes) <= required)
  <2>1. CASE setup.type = "price_threshold"
    BY <1>3, <2>1, DecidesByType
  <2>2. CASE setup.type = "moving_average_cross"
    <3> DEFINE config == MovingAverageConfig(p)
    <3>1. /\ d = EvaluateMovingAverageCross(config, quantity, seen, ledger.held)
          /\ e = EvaluateMovingAverageCross(config, quantity, closes, ledger.held)
      BY <1>3, <2>2, DecidesByType DEF quantity
    <3>2. required = IF config.valid THEN config.long + 1 ELSE 0
      BY <2>2, RequiredIs DEF required
    <3>3. config.valid => config.short \in Nat \ {0} /\ config.long \in Nat \ {0}
                          /\ config.short < config.long
      BY <1>2, MovingAverageWindows
    <3> HIDE DEF config, d, e
    <3>4. CASE config.valid
      <4>1. config.long + 1 < Len(closes) /\ required = config.long + 1
        BY <1>1, <1>7, <3>2, <3>3, <3>4
      <4> QED BY <1>1, <1>5, <1>7, <3>1, <3>3, <3>4, <4>1, MovingAverageSeesEnough
    <3>5. CASE ~config.valid
      BY <3>1, <3>5 DEF EvaluateMovingAverageCross
    <3> QED BY <3>4, <3>5 DEF d, e
  <2>3. CASE setup.type = "rsi_threshold"
    <3> DEFINE config == RsiConfig(p)
    <3>1. /\ d = EvaluateRsiThreshold(config, quantity, seen, ledger.held)
          /\ e = EvaluateRsiThreshold(config, quantity, closes, ledger.held)
      BY <1>3, <2>3, DecidesByType DEF quantity
    <3>2. required = IF config.valid THEN config.period + 1 ELSE 0
      BY <2>3, RequiredIs DEF required
    <3>3. config.valid => config.period \in Nat \ {0}
      BY <1>2, RsiWindow
    <3> HIDE DEF config, d, e
    <3>4. CASE config.valid
      <4>1. config.period + 1 < Len(closes) /\ required = config.period + 1
        BY <1>1, <1>7, <3>2, <3>3, <3>4
      <4> QED BY <1>1, <1>5, <1>7, <3>1, <3>3, <3>4, <4>1, RsiSeesEnough
    <3>5. CASE ~config.valid
      BY <3>1, <3>5 DEF EvaluateRsiThreshold
    <3> QED BY <3>4, <3>5 DEF d, e
  <2>4. CASE setup.type = "bollinger_bands"
    <3> DEFINE config == BollingerConfig(p)
    <3>1. /\ d = EvaluateBollingerBands(config, quantity, seen, ledger.held)
          /\ e = EvaluateBollingerBands(config, quantity, closes, ledger.held)
      BY <1>3, <2>4, DecidesByType DEF quantity
    <3>2. required = IF config.valid THEN config.period ELSE 0
      BY <2>4, RequiredIs DEF required
    <3>3. config.valid => config.period \in Nat \ {0}
      BY <1>2, BollingerWindow
    <3> HIDE DEF config, d, e
    <3>4. CASE config.valid
      <4>1. config.period < Len(closes) /\ required = config.period
        BY <1>1, <1>7, <3>2, <3>3, <3>4
      <4> QED BY <1>1, <1>5, <1>7, <3>1, <3>3, <3>4, <4>1, BollingerSeesEnough
    <3>5. CASE ~config.valid
      BY <3>1, <3>5 DEF EvaluateBollingerBands
    <3> QED BY <3>4, <3>5 DEF d, e
  <2>5. CASE setup.type \notin StrategyTypes
    BY <1>3, <2>5, DecidesByType
  <2> QED BY <2>1, <2>2, <2>3, <2>4, <2>5 DEF StrategyTypes
<1> QED
  BY <1>6, <1>7

LEMMA ReplayInvHolds == ReplayInv => ReplayHolds
BY LedgerIsTyped, ReportAddsUp, BotsSeeEnough, StopsAndCrossings DEF ReplayHolds

\* What a backtest says of a strategy can be relied on, for every strategy, its
\* parameters and limits, and any prices: its ledger and its report add up, a bot
\* that sees fewer candles decides alike, a position is left at the crossing and
\* at the stop price (ReplayHolds, backtesting.py:178).
THEOREM BacktestHolds == ReplaySpec => []ReplayHolds
<1>1. ReplayInit => ReplayInv
  BY ReplayInitInv
<1>2. ReplayInv /\ [ReplayNext]_replayVars => ReplayInv'
  BY ReplayNextInv
<1> QED
  BY <1>1, <1>2, ReplayInvHolds, PTL DEF ReplaySpec

----------------------------------------------------------------------------
(* The drawdown of a curve                                                 *)

Rows == [side: {"buy", "sell"}, pnl: Int]
CurvePoints == [equity: Int, held: Nat]
Depths == [peak: Int, deepest: Int]

LEMMA FallAfterIs ==
  ASSUME NEW fall \in Depths, NEW equity \in Int
  PROVE  /\ FallAfter(fall, equity) \in Depths
         /\ FallAfter(fall, equity).peak = (IF fall.peak >= equity THEN fall.peak ELSE equity)
         /\ FallAfter(fall, equity).deepest =
              LET drop == FallAfter(fall, equity).peak - equity
              IN IF fall.deepest >= drop THEN fall.deepest ELSE drop
<1> DEFINE peak == Max({fall.peak, equity})
           drop == peak - equity
           deepest == Max({fall.deepest, drop})
<1>1. fall.peak \in Int /\ fall.deepest \in Int
  BY DEF Depths
<1>2. peak = IF fall.peak >= equity THEN fall.peak ELSE equity
  BY <1>1, MaxOfTwo
<1>3. peak \in Int /\ drop \in Int
  <2> HIDE DEF peak
  <2> QED BY <1>1, <1>2
<1> HIDE DEF drop
<1>4. deepest = IF fall.deepest >= drop THEN fall.deepest ELSE drop
  BY <1>1, <1>3, MaxOfTwo
<1>5. deepest \in Int
  <2> HIDE DEF deepest
  <2> QED BY <1>1, <1>3, <1>4
<1>6. FallAfter(fall, equity) = [peak |-> peak, deepest |-> deepest]
  BY DEF FallAfter, drop
<1> HIDE DEF peak, deepest
<1> QED
  BY <1>2, <1>3, <1>4, <1>5, <1>6 DEF Depths, drop

LEMMA FallenRecursion ==
  ASSUME NEW curve \in Seq(CurvePoints), curve # <<>>
  PROVE  /\ \A n \in 0..Len(curve) : Fallen(curve)[n] \in Depths
         /\ Fallen(curve)[0] = [peak |-> curve[1].equity, deepest |-> 0]
         /\ \A n \in 1..Len(curve) :
              Fallen(curve)[n] = FallAfter(Fallen(curve)[n - 1], curve[n].equity)
<1> DEFINE N == Len(curve)
           base == [peak |-> curve[1].equity, deepest |-> 0]
           step == [n \in 1..N |-> [fall \in Depths |-> FallAfter(fall, curve[n].equity)]]
           After(f, n) == IF n = 0 THEN base ELSE FallAfter(f[n - 1], curve[n].equity)
           Solves(f) == f = [n \in 0..N |-> After(f, n)]
           fallen == Fallen(curve)
<1>0. N \in Nat /\ base \in Depths /\ \A n \in 1..N : curve[n].equity \in Int
  <2>1. \A n \in 1..N : curve[n] \in CurvePoints
    BY ElementOfSeq
  <2>2. \A n \in 1..N : curve[n].equity \in Int
    BY <2>1 DEF CurvePoints
  <2>3. 1 \in 1..N
    OBVIOUS
  <2> QED BY <2>2, <2>3 DEF Depths
<1>1. step \in [1..N -> [Depths -> Depths]]
  <2>1. \A n \in 1..N, fall \in Depths : FallAfter(fall, curve[n].equity) \in Depths
    BY <1>0, FallAfterIs
  <2> QED BY <2>1
<1>2. PICK f \in [0..N -> Depths] : IsRecursion(f, N, base, step)
  <2> HIDE DEF step, base, N
  <2> QED BY <1>0, <1>1, RecursionExists
<1>3. \A n \in 0..N : f[n] = After(f, n)
  <2> SUFFICES ASSUME NEW n \in 0..N PROVE f[n] = After(f, n)
    OBVIOUS
  <2>1. f[n] = IF n = 0 THEN base ELSE step[n][f[n - 1]]
    BY <1>2 DEF IsRecursion
  <2>2. CASE n = 0
    BY <2>1, <2>2
  <2>3. CASE n # 0
    <3>1. n \in 1..N /\ n - 1 \in 0..N
      BY <1>0, <2>3
    <3>2. f[n - 1] \in Depths
      BY <3>1
    <3>3. step[n] = [fall \in Depths |-> FallAfter(fall, curve[n].equity)]
      BY <3>1
    <3> HIDE DEF step, base
    <3>4. step[n][f[n - 1]] = FallAfter(f[n - 1], curve[n].equity)
      BY <3>2, <3>3
    <3> QED BY <2>1, <2>3, <3>4
  <2> QED BY <2>2, <2>3
<1>4. Solves(f)
  <2> HIDE DEF After
  <2> QED BY <1>3
<1>5. fallen = CHOOSE g : Solves(g)
  BY Zenon DEF Fallen
<1>6. Solves(fallen)
  <2> HIDE DEF Solves, fallen
  <2> QED BY <1>4, <1>5, Zenon
<1> HIDE DEF fallen
<1>7. \A n \in 0..N : fallen[n] = After(fallen, n)
  <2> HIDE DEF After
  <2> QED BY <1>6
<1> DEFINE typed == {n \in 0..N : fallen[n] \in Depths}
<1>8. 0..N \subseteq typed
  <2>1. 0 \in typed
    BY <1>0, <1>7
  <2>2. ASSUME NEW n \in 0..(N - 1), n \in typed PROVE n + 1 \in typed
    <3>1. n + 1 \in 0..N /\ n + 1 - 1 = n /\ n + 1 # 0 /\ n + 1 \in 1..N
      BY <1>0
    <3>2. fallen[n + 1] = FallAfter(fallen[n], curve[n + 1].equity)
      <4>1. fallen[n + 1] = After(fallen, n + 1)
        BY <1>7, <3>1
      <4> QED BY <3>1, <4>1
    <3>3. fallen[n] \in Depths /\ curve[n + 1].equity \in Int
      BY <1>0, <2>2, <3>1
    <3>4. fallen[n + 1] \in Depths
      BY <3>2, <3>3, FallAfterIs
    <3> QED BY <3>1, <3>4
  <2> HIDE DEF typed, N, base, step, After, Solves
  <2> QED BY <1>0, <2>1, <2>2, Induction
<1>9. \A n \in 0..N : fallen[n] \in Depths
  BY <1>8
<1>10. fallen[0] = base
  BY <1>0, <1>7
<1>11. \A n \in 1..N : fallen[n] = FallAfter(fallen[n - 1], curve[n].equity)
  <2> SUFFICES ASSUME NEW n \in 1..N
               PROVE  fallen[n] = FallAfter(fallen[n - 1], curve[n].equity)
    OBVIOUS
  <2>1. n \in 0..N /\ n # 0
    BY <1>0
  <2>2. fallen[n] = After(fallen, n)
    BY <1>7, <2>1
  <2> QED BY <2>1, <2>2
<1> QED
  BY <1>9, <1>10, <1>11 DEF fallen

\* One more point leaves the drawdown before it alone.
LEMMA FallenAppend ==
  ASSUME NEW curve \in Seq(CurvePoints), curve # <<>>, NEW point \in CurvePoints
  PROVE  LET longer == Append(curve, point)
         IN /\ Fallen(longer)[Len(curve)] = Fallen(curve)[Len(curve)]
            /\ Fallen(longer)[Len(longer)] =
                 FallAfter(Fallen(curve)[Len(curve)], point.equity)
<1> DEFINE N == Len(curve)
           longer == Append(curve, point)
           f == Fallen(curve)
           g == Fallen(longer)
           same == {n \in 0..N : g[n] = f[n]}
<1>0. /\ N \in Nat /\ N > 0 /\ longer \in Seq(CurvePoints) /\ longer # <<>> /\ Len(longer) = N + 1
      /\ \A n \in 1..N : longer[n] = curve[n]
      /\ longer[N + 1] = point
  BY AppendProperties
<1> HIDE DEF longer
<1>1. /\ f[0] = [peak |-> curve[1].equity, deepest |-> 0]
      /\ \A n \in 1..N : f[n] = FallAfter(f[n - 1], curve[n].equity)
  BY FallenRecursion
<1>2. /\ g[0] = [peak |-> longer[1].equity, deepest |-> 0]
      /\ \A n \in 1..(N + 1) : g[n] = FallAfter(g[n - 1], longer[n].equity)
  BY <1>0, FallenRecursion
<1> HIDE DEF f, g, N
<1>3. 0 \in same
  <2>1. 1 \in 1..N
    BY <1>0
  <2> QED BY <1>0, <1>1, <1>2, <2>1
<1>4. ASSUME NEW n \in 0..(N - 1), n \in same PROVE n + 1 \in same
  <2>1. n + 1 \in 1..N /\ n + 1 \in 1..(N + 1) /\ n + 1 - 1 = n
    BY <1>0
  <2>2. f[n + 1] = FallAfter(f[n], curve[n + 1].equity)
    BY <1>1, <2>1
  <2>3. g[n + 1] = FallAfter(g[n], longer[n + 1].equity)
    BY <1>2, <2>1
  <2>4. longer[n + 1] = curve[n + 1] /\ g[n] = f[n]
    BY <1>0, <1>4, <2>1
  <2>5. n + 1 \in 0..N
    BY <2>1
  <2> QED BY <2>2, <2>3, <2>4, <2>5
<1>5. 0..N \subseteq same
  <2> HIDE DEF same
  <2> QED BY <1>0, <1>3, <1>4, Induction
<1>6. g[N] = f[N]
  BY <1>0, <1>5
<1>7. g[N + 1] = FallAfter(f[N], point.equity)
  <2>1. N + 1 \in 1..(N + 1) /\ (N + 1) - 1 = N
    BY <1>0
  <2>2. g[N + 1] = FallAfter(g[(N + 1) - 1], longer[N + 1].equity)
    <3>1. \A n \in 1..(N + 1) : g[n] = FallAfter(g[n - 1], longer[n].equity)
      BY <1>2
    <3> QED BY <2>1, <3>1, Zenon
  <2>3. (N + 1) - 1 = N /\ longer[N + 1] = point
    BY <1>0
  <2> QED BY <1>6, <2>2, <2>3, Zenon
<1> QED
  BY <1>0, <1>6, <1>7 DEF N, longer, f, g

----------------------------------------------------------------------------
(* The rows of the trades file                                             *)

LEMMA CountsOneMore ==
  ASSUME NEW N \in Nat, NEW S, S \subseteq 1..N, NEW more \in BOOLEAN,
         NEW T, T = S \cup (IF more THEN {N + 1} ELSE {})
  PROVE  /\ Cardinality(S) \in Nat
         /\ Cardinality(T) = Cardinality(S) + (IF more THEN 1 ELSE 0)
<1>1. IsFiniteSet(S)
  <2>1. 1 \in Int /\ N \in Int
    OBVIOUS
  <2>2. IsFiniteSet(1..N)
    BY <2>1, FS_Interval
  <2> QED BY <2>2, FS_Subset
<1>2. Cardinality(S) \in Nat
  BY <1>1, FS_CardinalityType
<1>3. CASE more
  <2>1. N + 1 \notin S
    OBVIOUS
  <2>2. T = S \cup {N + 1}
    BY <1>3
  <2>3. Cardinality(S \cup {N + 1}) = Cardinality(S) + 1
    BY <1>1, <2>1, FS_AddElement
  <2> QED BY <1>2, <1>3, <2>2, <2>3
<1>4. CASE ~more
  <2>1. T = S
    BY <1>4
  <2> QED BY <1>2, <1>4, <2>1
<1> QED
  BY <1>2, <1>3, <1>4

LEMMA RowsAppend ==
  ASSUME NEW rows \in Seq(Rows), NEW row \in Rows
  PROVE  LET t == Append(rows, row)
             sale == row.side = "sell"
         IN /\ Cardinality(Sales(t)) = Cardinality(Sales(rows)) + (IF sale THEN 1 ELSE 0)
            /\ Cardinality(Wins(t)) =
                 Cardinality(Wins(rows)) + (IF sale /\ row.pnl > 0 THEN 1 ELSE 0)
            /\ Cardinality(Losses(t)) =
                 Cardinality(Losses(rows)) + (IF sale /\ row.pnl < 0 THEN 1 ELSE 0)
            /\ Pnls(rows) \in Seq(Int)
            /\ Total(Pnls(t)) = Total(Pnls(rows)) + (IF sale THEN row.pnl ELSE 0)
<1> DEFINE t == Append(rows, row)
           N == Len(rows)
           sale == row.side = "sell"
           wins == sale /\ row.pnl > 0
           loses == sale /\ row.pnl < 0
<1>0. /\ N \in Nat /\ t \in Seq(Rows) /\ Len(t) = N + 1
      /\ \A i \in 1..N : t[i] = rows[i]
      /\ t[N + 1] = row
      /\ DOMAIN t = 1..(N + 1) /\ DOMAIN rows = 1..N
  <2>1. /\ t \in Seq(Rows) /\ Len(t) = Len(rows) + 1
        /\ \A i \in 1..Len(rows) : t[i] = rows[i]
        /\ t[Len(rows) + 1] = row
    BY AppendProperties
  <2>2. N \in Nat /\ DOMAIN rows = 1..N
    OBVIOUS
  <2> HIDE DEF t
  <2>3. DOMAIN t = 1..Len(t)
    BY <2>1, LenProperties
  <2>4. Len(t) = N + 1 /\ t[N + 1] = row /\ \A i \in 1..N : t[i] = rows[i]
    BY <2>1
  <2> HIDE DEF N
  <2> QED BY <2>1, <2>2, <2>3, <2>4
<1> HIDE DEF t, N
<1>1. Sales(rows) \subseteq 1..N /\ Wins(rows) \subseteq 1..N /\ Losses(rows) \subseteq 1..N
  BY <1>0 DEF Sales, Wins, Losses
<1>2. Sales(t) = Sales(rows) \cup (IF sale THEN {N + 1} ELSE {})
  BY <1>0 DEF Sales
<1>3. Wins(t) = Wins(rows) \cup (IF wins THEN {N + 1} ELSE {})
  <2>1. \A i \in 1..(N + 1) : i \in 1..N \/ i = N + 1
    BY <1>0
  <2>2. N + 1 \notin Sales(rows)
    BY <1>0, <1>1
  <2>3. \A i \in 1..N : i \in Wins(t) <=> i \in Wins(rows)
    BY <1>0, <1>2 DEF Wins
  <2>4. N + 1 \in Wins(t) <=> wins
    BY <1>0, <1>2, <2>2 DEF Wins
  <2>5. Wins(t) \subseteq 1..(N + 1)
    BY <1>0 DEF Wins, Sales
  <2> HIDE DEF wins
  <2> QED BY <1>0, <1>1, <2>1, <2>3, <2>4, <2>5
<1>4. Losses(t) = Losses(rows) \cup (IF loses THEN {N + 1} ELSE {})
  <2>1. \A i \in 1..(N + 1) : i \in 1..N \/ i = N + 1
    BY <1>0
  <2>2. N + 1 \notin Sales(rows)
    BY <1>0, <1>1
  <2>3. \A i \in 1..N : i \in Losses(t) <=> i \in Losses(rows)
    BY <1>0, <1>2 DEF Losses
  <2>4. N + 1 \in Losses(t) <=> loses
    BY <1>0, <1>2, <2>2 DEF Losses
  <2>5. Losses(t) \subseteq 1..(N + 1)
    BY <1>0 DEF Losses, Sales
  <2> HIDE DEF loses
  <2> QED BY <1>0, <1>1, <2>1, <2>3, <2>4, <2>5
<1>5. Pnls(rows) \in Seq(Int) /\ Len(Pnls(rows)) = N
  <2>1. ASSUME NEW i \in 1..N PROVE (IF i \in Sales(rows) THEN rows[i].pnl ELSE 0) \in Int
    <3>1. rows[i] \in Rows
      BY <1>0, ElementOfSeq DEF N
    <3> QED BY <3>1 DEF Rows
  <2>2. Pnls(rows) = [i \in 1..N |-> IF i \in Sales(rows) THEN rows[i].pnl ELSE 0]
    BY <1>0 DEF Pnls
  <2> QED BY <1>0, <2>1, <2>2
<1>6. Pnls(t) = Append(Pnls(rows), IF sale THEN row.pnl ELSE 0)
  <2> DEFINE x == IF sale THEN row.pnl ELSE 0
             u == Append(Pnls(rows), x)
  <2>1. x \in Int
    BY DEF Rows
  <2> HIDE DEF x
  <2>2. /\ u \in Seq(Int) /\ Len(u) = N + 1
        /\ \A i \in 1..N : u[i] = Pnls(rows)[i]
        /\ u[N + 1] = x
    BY <1>5, <2>1, AppendProperties
  <2> HIDE DEF u
  <2>3. Pnls(t) = [i \in 1..(N + 1) |-> IF i \in Sales(t) THEN t[i].pnl ELSE 0]
    BY <1>0 DEF Pnls
  <2>4. ASSUME NEW i \in 1..N PROVE Pnls(t)[i] = u[i]
    <3>1. i \in 1..(N + 1) /\ i # N + 1
      BY <1>0
    <3>2. i \in Sales(t) <=> i \in Sales(rows)
      BY <1>2, <3>1
    <3>3. Pnls(rows)[i] = IF i \in Sales(rows) THEN rows[i].pnl ELSE 0
      BY <1>0 DEF Pnls
    <3> QED BY <1>0, <2>2, <2>3, <3>1, <3>2, <3>3
  <2>5. Pnls(t)[N + 1] = u[N + 1]
    <3>1. N + 1 \in 1..(N + 1)
      BY <1>0
    <3>2. N + 1 \in Sales(t) <=> sale
      <4>1. N + 1 \notin Sales(rows)
        BY <1>0, <1>1
      <4> QED BY <1>2, <4>1
    <3> QED BY <1>0, <2>2, <2>3, <3>1, <3>2 DEF x
  <2>6. u = [i \in 1..(N + 1) |-> u[i]]
    BY <2>2
  <2>7. Pnls(t) = [i \in 1..(N + 1) |-> Pnls(t)[i]]
    BY <2>3
  <2>8. \A i \in 1..(N + 1) : Pnls(t)[i] = u[i]
    BY <1>0, <2>4, <2>5
  <2>9. Pnls(t) = u
    BY <2>6, <2>7, <2>8
  <2> QED BY <2>9 DEF u, x
<1>7. Total(Pnls(t)) = Total(Pnls(rows)) + (IF sale THEN row.pnl ELSE 0)
  <2>1. (IF sale THEN row.pnl ELSE 0) \in Int
    BY DEF Rows
  <2> QED BY <1>5, <1>6, <2>1, TotalAppend
<1>8. sale \in BOOLEAN /\ wins \in BOOLEAN /\ loses \in BOOLEAN
  OBVIOUS
<1> HIDE DEF sale, wins, loses
<1>9. Cardinality(Sales(t)) = Cardinality(Sales(rows)) + (IF sale THEN 1 ELSE 0)
  BY <1>0, <1>1, <1>2, <1>8, CountsOneMore
<1>10. Cardinality(Wins(t)) = Cardinality(Wins(rows)) + (IF wins THEN 1 ELSE 0)
  BY <1>0, <1>1, <1>3, <1>8, CountsOneMore
<1>11. Cardinality(Losses(t)) = Cardinality(Losses(rows)) + (IF loses THEN 1 ELSE 0)
  BY <1>0, <1>1, <1>4, <1>8, CountsOneMore
<1> QED
  BY <1>5, <1>7, <1>9, <1>10, <1>11 DEF t, sale, wins, loses

----------------------------------------------------------------------------
(* The books of the second backtester                                      *)

CsvBooks ==
  [cash: Int, held: Nat, cost: Int, realized: Int, fees: Int,
   wins: Nat, losses: Nat, breakevens: Nat, rows: Seq(Rows), curve: Seq(CurvePoints),
   peak: Int, drawdown: Int]

\* The money is where it began, at cost and with what was realized, and the rows
\* of the trades count and sum to what the run counts and sums itself.
Booked(c, s) ==
  /\ c \in CsvBooks
  /\ c.held = 0 => c.cost = 0
  /\ c.cash + c.cost = 100 * s.balance + c.realized
  /\ c.wins = Cardinality(Wins(c.rows)) /\ c.losses = Cardinality(Losses(c.rows))
  /\ c.wins + c.losses + c.breakevens = Cardinality(Sales(c.rows))
  /\ c.realized = Total(Pnls(c.rows))

\* The curve ends at the value of the account, and its drawdown misses no more
\* than what the first candle cost.
Charted(c, s, candles) ==
  /\ Len(c.curve) = Len(candles)
  /\ candles = <<>> => c = CsvStart(s.balance)
  /\ candles # <<>> =>
       LET fee == 100 * s.balance - c.curve[1].equity
           fall == Fallen(c.curve)[Len(c.curve)]
       IN /\ Last(c.curve).equity = c.cash + 100 * c.held * Last(candles)
          /\ fee >= 0
          /\ fall.peak <= c.peak /\ c.peak <= fall.peak + fee
          /\ fall.deepest <= c.drawdown /\ c.drawdown <= fall.deepest + fee

\* The books say what the ledger says, in hundredths.
Agrees(c, l, s) ==
  s.fee = 0 /\ s.limits = NoLimits /\ AllInParameters =>
    /\ c.cash = 100 * l.cash /\ c.held = l.held
    /\ c.cost = 100 * (l.held * l.entry) /\ c.realized = 100 * l.realized
    /\ Len(c.rows) = l.trades

CsvStrategies == {"price_threshold", "moving_average_cross"}

CsvInv ==
  /\ ReplayInv
  /\ setup # NoSetup /\ setup.type \in CsvStrategies =>
       Booked(csv, setup) /\ Charted(csv, setup, closes) /\ Agrees(csv, ledger, setup)

LEMMA CsvBooksAre ==
  ASSUME NEW c \in CsvBooks
  PROVE  /\ c.cash \in Int /\ c.held \in Nat /\ c.cost \in Int /\ c.realized \in Int
         /\ c.fees \in Int /\ c.wins \in Nat /\ c.losses \in Nat /\ c.breakevens \in Nat
         /\ c.rows \in Seq(Rows) /\ c.curve \in Seq(CurvePoints)
         /\ c.peak \in Int /\ c.drawdown \in Int
BY DEF CsvBooks

LEMMA CsvBooksAreFields ==
  ASSUME NEW c \in CsvBooks
  PROVE  c = [cash |-> c.cash, held |-> c.held, cost |-> c.cost, realized |-> c.realized,
                 fees |-> c.fees, wins |-> c.wins, losses |-> c.losses,
                 breakevens |-> c.breakevens, rows |-> c.rows, curve |-> c.curve,
                 peak |-> c.peak, drawdown |-> c.drawdown]
BY DEF CsvBooks

\* What a purchase, a sale and the end of a candle leave of the books before.
BoughtInto(c, quantity, total) ==
  /\ c \in CsvBooks
  /\ c.cash = csv.cash - total /\ c.held = quantity /\ c.cost = total
  /\ c.realized = csv.realized
  /\ c.wins = csv.wins /\ c.losses = csv.losses /\ c.breakevens = csv.breakevens
  /\ c.rows = Append(csv.rows, [side |-> "buy", pnl |-> 0])
  /\ c.curve = csv.curve /\ c.peak = csv.peak /\ c.drawdown = csv.drawdown

SoldInto(c, proceeds, pnl) ==
  /\ c \in CsvBooks
  /\ c.cash = csv.cash + proceeds /\ c.held = 0 /\ c.cost = 0
  /\ c.realized = csv.realized + pnl
  /\ c.wins = (IF pnl > 0 THEN csv.wins + 1 ELSE csv.wins)
  /\ c.losses = (IF pnl < 0 THEN csv.losses + 1 ELSE csv.losses)
  /\ c.breakevens = (IF pnl = 0 THEN csv.breakevens + 1 ELSE csv.breakevens)
  /\ c.rows = Append(csv.rows, [side |-> "sell", pnl |-> pnl])
  /\ c.curve = csv.curve /\ c.peak = csv.peak /\ c.drawdown = csv.drawdown

ValuedInto(v, c, equity) ==
  /\ v \in CsvBooks
  /\ v.cash = c.cash /\ v.held = c.held /\ v.cost = c.cost
  /\ v.realized = c.realized
  /\ v.wins = c.wins /\ v.losses = c.losses /\ v.breakevens = c.breakevens
  /\ v.rows = c.rows
  /\ v.curve = Append(c.curve, [equity |-> equity, held |-> c.held])
  /\ v.peak = (IF c.peak >= equity THEN c.peak ELSE equity)
  /\ v.drawdown = LET drop == v.peak - equity
                  IN IF c.drawdown >= drop THEN c.drawdown ELSE drop

LEMMA FeeIs ==
  ASSUME NEW quantity \in Nat, NEW price \in Nat, NEW fee \in Nat
  PROVE  /\ quantity * price * (100 + fee) \in Nat
         /\ quantity * price * fee \in Nat
         /\ quantity * price * (100 - fee) \in Int
         /\ 100 * quantity * price \in Nat
         /\ 100 * quantity * price <= quantity * price * (100 + fee)
         /\ fee = 0 => /\ quantity * price * (100 + fee) = 100 * (quantity * price)
                       /\ quantity * price * (100 - fee) = 100 * (quantity * price)
<1> DEFINE worth == quantity * price
<1>1. worth \in Nat
  OBVIOUS
<1>2. 100 * quantity * price = 100 * worth
  OBVIOUS
<1> HIDE DEF worth
<1>3. worth * fee \in Nat
  BY <1>1
<1>4. worth * (100 + fee) = 100 * worth + worth * fee
  BY <1>1
<1>5. worth * (100 - fee) = 100 * worth - worth * fee
  BY <1>1
<1>6. fee = 0 => worth * fee = 0
  BY <1>1
<1> DEFINE paid == worth * fee
           with == worth * (100 + fee)
           less == worth * (100 - fee)
           plain == 100 * quantity * price
<1> HIDE DEF paid, with, less, plain
<1>7. paid \in Nat /\ with = 100 * worth + paid /\ less = 100 * worth - paid
      /\ plain = 100 * worth /\ (fee = 0 => paid = 0)
  BY <1>2, <1>3, <1>4, <1>5, <1>6, Zenon DEF paid, with, less, plain
<1>8. /\ with \in Nat /\ paid \in Nat /\ less \in Int /\ plain \in Nat /\ plain <= with
      /\ fee = 0 => with = 100 * worth /\ less = 100 * worth
  BY <1>1, <1>7
<1> QED
  BY <1>8, Zenon DEF paid, with, less, plain, worth

LEMMA CsvBoughtIs ==
  ASSUME csv \in CsvBooks, NEW quantity \in Nat, NEW price \in Nat, setup.fee \in Nat
  PROVE  BoughtInto(CsvBought(quantity, price), quantity, quantity * price * (100 + setup.fee))
<1> DEFINE c == CsvBought(quantity, price)
           total == quantity * price * (100 + setup.fee)
           charged == quantity * price * setup.fee
           row == [side |-> "buy", pnl |-> 0]
           rows == Append(csv.rows, row)
<1>1. total \in Nat /\ charged \in Nat
  BY FeeIs
<1>2. c = [csv EXCEPT !.cash = @ - total, !.held = quantity, !.cost = total,
                      !.fees = @ + charged, !.rows = Append(@, row)]
  BY DEF CsvBought
<1>3. rows \in Seq(Rows)
  <2>1. row \in Rows /\ csv.rows \in Seq(Rows)
    BY CsvBooksAre DEF Rows
  <2> HIDE DEF row
  <2> QED BY <2>1, AppendProperties
<1> HIDE DEF c, total, charged, row
<1>4. c = [cash |-> csv.cash - total, held |-> quantity, cost |-> total,
           realized |-> csv.realized, fees |-> csv.fees + charged,
           wins |-> csv.wins, losses |-> csv.losses, breakevens |-> csv.breakevens,
           rows |-> rows, curve |-> csv.curve, peak |-> csv.peak, drawdown |-> csv.drawdown]
  <2>1. csv = [cash |-> csv.cash, held |-> csv.held, cost |-> csv.cost,
               realized |-> csv.realized, fees |-> csv.fees, wins |-> csv.wins,
               losses |-> csv.losses, breakevens |-> csv.breakevens, rows |-> csv.rows,
               curve |-> csv.curve, peak |-> csv.peak, drawdown |-> csv.drawdown]
    BY CsvBooksAreFields, Zenon
  <2> QED BY <1>2, <2>1
<1> HIDE DEF rows
<1>5. csv.cash - total \in Int /\ csv.fees + charged \in Int /\ quantity \in Nat /\ total \in Int
  BY <1>1, CsvBooksAre
<1>6. c \in CsvBooks
  <2>1. csv.realized \in Int /\ csv.wins \in Nat /\ csv.losses \in Nat /\ csv.breakevens \in Nat
    BY CsvBooksAre
  <2>2. csv.curve \in Seq(CurvePoints) /\ csv.peak \in Int /\ csv.drawdown \in Int
    BY CsvBooksAre
  <2> QED BY <1>3, <1>4, <1>5, <2>1, <2>2, Zenon DEF CsvBooks
<1>7. BoughtInto(c, quantity, total)
  BY <1>4, <1>6 DEF BoughtInto, rows, row
<1> QED
  BY <1>7 DEF c, total

LEMMA CsvSoldIs ==
  ASSUME csv \in CsvBooks, NEW price \in Nat, setup.fee \in Nat
  PROVE  LET proceeds == csv.held * price * (100 - setup.fee)
             pnl == proceeds - csv.cost
         IN proceeds \in Int /\ pnl \in Int /\ SoldInto(CsvSold(price), proceeds, pnl)
<1> DEFINE c == CsvSold(price)
           proceeds == csv.held * price * (100 - setup.fee)
           pnl == proceeds - csv.cost
           charged == csv.held * price * setup.fee
           row == [side |-> "sell", pnl |-> pnl]
           rows == Append(csv.rows, row)
           wins == IF pnl > 0 THEN csv.wins + 1 ELSE csv.wins
           losses == IF pnl < 0 THEN csv.losses + 1 ELSE csv.losses
           breakevens == IF pnl = 0 THEN csv.breakevens + 1 ELSE csv.breakevens
<1>0. csv.held \in Nat /\ csv.cost \in Int
  BY CsvBooksAre
<1>1. proceeds \in Int /\ charged \in Nat
  BY <1>0, FeeIs
<1>2. c = [csv EXCEPT !.cash = @ + proceeds, !.held = 0, !.cost = 0, !.realized = @ + pnl,
                      !.fees = @ + charged,
                      !.wins = IF pnl > 0 THEN @ + 1 ELSE @,
                      !.losses = IF pnl < 0 THEN @ + 1 ELSE @,
                      !.breakevens = IF pnl = 0 THEN @ + 1 ELSE @,
                      !.rows = Append(@, row)]
  BY DEF CsvSold
<1> HIDE DEF c, proceeds, charged
<1>3. pnl \in Int
  BY <1>0, <1>1
<1> HIDE DEF pnl
<1>4. rows \in Seq(Rows)
  <2>1. row \in Rows /\ csv.rows \in Seq(Rows)
    BY <1>3, CsvBooksAre DEF Rows
  <2> HIDE DEF row
  <2> QED BY <2>1, AppendProperties
<1> HIDE DEF row
<1>5. c = [cash |-> csv.cash + proceeds, held |-> 0, cost |-> 0,
           realized |-> csv.realized + pnl, fees |-> csv.fees + charged,
           wins |-> wins, losses |-> losses, breakevens |-> breakevens,
           rows |-> rows, curve |-> csv.curve, peak |-> csv.peak, drawdown |-> csv.drawdown]
  <2>1. csv = [cash |-> csv.cash, held |-> csv.held, cost |-> csv.cost,
               realized |-> csv.realized, fees |-> csv.fees, wins |-> csv.wins,
               losses |-> csv.losses, breakevens |-> csv.breakevens, rows |-> csv.rows,
               curve |-> csv.curve, peak |-> csv.peak, drawdown |-> csv.drawdown]
    BY CsvBooksAreFields, Zenon
  <2> QED BY <1>2, <2>1
<1>6. wins \in Nat /\ losses \in Nat /\ breakevens \in Nat
  <2>1. csv.wins \in Nat /\ csv.losses \in Nat /\ csv.breakevens \in Nat
    BY CsvBooksAre
  <2> QED BY <2>1
<1>7. csv.cash + proceeds \in Int /\ csv.realized + pnl \in Int /\ csv.fees + charged \in Int
  <2>1. csv.cash \in Int /\ csv.realized \in Int /\ csv.fees \in Int
    BY CsvBooksAre
  <2> QED BY <1>1, <1>3, <2>1
<1> HIDE DEF rows, wins, losses, breakevens
<1>8. c \in CsvBooks
  <2>1. csv.curve \in Seq(CurvePoints) /\ csv.peak \in Int /\ csv.drawdown \in Int
    BY CsvBooksAre
  <2>2. 0 \in Nat /\ 0 \in Int
    OBVIOUS
  <2> QED BY <1>4, <1>5, <1>6, <1>7, <2>1, <2>2, Zenon DEF CsvBooks
<1>9. SoldInto(c, proceeds, pnl)
  BY <1>5, <1>8 DEF SoldInto, rows, row, wins, losses, breakevens
<1> QED
  BY <1>1, <1>3, <1>9 DEF c, proceeds, pnl

\* A candle buys, sells or leaves the account alone.
LEMMA CsvTradedIs ==
  ASSUME ReplayInv, setup # NoSetup, csv \in CsvBooks, NEW price \in ClosePrices
  PROVE  LET c == Append(closes, price)
             d == CsvDecision(c)
             t == CsvTraded(c)
             buys == /\ d.action = "buy" /\ csv.held = 0 /\ d.quantity > 0
                     /\ d.quantity * price * (100 + setup.fee) <= csv.cash
             sells == d.action = "sell" /\ csv.held > 0
         IN /\ d.quantity \in Nat
            /\ \/ buys /\ t = CsvBought(d.quantity, price)
               \/ sells /\ t = CsvSold(price)
               \/ ~buys /\ ~sells /\ t = csv
<1> DEFINE c == Append(closes, price)
           d == CsvDecision(c)
           t == CsvTraded(c)
           buys == /\ d.action = "buy" /\ csv.held = 0 /\ d.quantity > 0
                   /\ d.quantity * price * (100 + setup.fee) <= csv.cash
           sells == d.action = "sell" /\ csv.held > 0
<1>1. IntValued(setup.parameters) /\ csv.held \in Int
  BY SetupIs, CsvBooksAre DEF ReplayInv
<1>2. IsProfile(NoProfile)
  BY DEF IsProfile, NoProfile
<1>3. d.quantity \in Nat
  BY <1>1, <1>2, DecisionIs DEF CsvDecision
<1>4. Last(c) = price
  <2>1. closes \in Seq(ClosePrices)
    BY DEF ReplayInv
  <2> QED BY <2>1, AppendIs
<1>5. t = CsvExecuted(d, price)
  BY <1>4 DEF CsvTraded
<1> HIDE DEF c, d, t
<1>6. t = IF buys THEN CsvBought(d.quantity, price) ELSE IF sells THEN CsvSold(price) ELSE csv
  BY <1>5, Zenon DEF CsvExecuted, CsvAffords
<1>7. buys => ~sells
  BY <1>1
<1> HIDE DEF buys, sells
<1>8. \/ buys /\ t = CsvBought(d.quantity, price)
      \/ sells /\ t = CsvSold(price)
      \/ ~buys /\ ~sells /\ t = csv
  BY <1>6, <1>7
<1> QED
  BY <1>3, <1>8, Zenon DEF c, d, t, buys, sells

LEMMA CsvBoughtBooks ==
  ASSUME NEW s, Booked(csv, s), csv.held = 0, s.balance \in Nat, setup.fee \in Nat,
         NEW quantity \in Nat, quantity > 0, NEW price \in Nat
  PROVE  LET c == CsvBought(quantity, price)
         IN /\ Booked(c, s)
            /\ c.cash + 100 * c.held * price <= csv.cash
<1> DEFINE c == CsvBought(quantity, price)
           total == quantity * price * (100 + setup.fee)
           row == [side |-> "buy", pnl |-> 0]
           worth == 100 * quantity * price
<1>1. csv \in CsvBooks
  BY DEF Booked
<1>2. total \in Nat /\ worth \in Nat /\ worth <= total
  BY FeeIs
<1>3. /\ c \in CsvBooks
      /\ c.cash = csv.cash - total /\ c.held = quantity /\ c.cost = total
      /\ c.realized = csv.realized
      /\ c.wins = csv.wins /\ c.losses = csv.losses /\ c.breakevens = csv.breakevens
      /\ c.rows = Append(csv.rows, row)
  <2>1. BoughtInto(c, quantity, total)
    BY <1>1, CsvBoughtIs
  <2> HIDE DEF c, total
  <2> QED BY <2>1, Zenon DEF BoughtInto
<1>4. /\ csv.cash \in Int /\ csv.realized \in Int
      /\ csv.wins \in Nat /\ csv.losses \in Nat /\ csv.breakevens \in Nat
  BY <1>1, CsvBooksAre
<1>5. csv.rows \in Seq(Rows) /\ row \in Rows /\ row.side # "sell"
  BY <1>1, CsvBooksAre DEF Rows
<1> HIDE DEF c, total, row, worth
<1>6. /\ Cardinality(Sales(c.rows)) = Cardinality(Sales(csv.rows)) + 0
      /\ Cardinality(Wins(c.rows)) = Cardinality(Wins(csv.rows)) + 0
      /\ Cardinality(Losses(c.rows)) = Cardinality(Losses(csv.rows)) + 0
      /\ Total(Pnls(c.rows)) = Total(Pnls(csv.rows)) + 0
  BY <1>3, <1>5, RowsAppend
<1>7. /\ csv.cash + csv.cost = 100 * s.balance + csv.realized
      /\ csv.cost = 0
      /\ csv.wins = Cardinality(Wins(csv.rows)) /\ csv.losses = Cardinality(Losses(csv.rows))
      /\ csv.wins + csv.losses + csv.breakevens = Cardinality(Sales(csv.rows))
      /\ csv.realized = Total(Pnls(csv.rows))
  BY DEF Booked
<1>8. c.cash + c.cost = 100 * s.balance + c.realized
  BY <1>2, <1>3, <1>4, <1>7
<1>9. /\ c.wins = Cardinality(Wins(c.rows)) /\ c.losses = Cardinality(Losses(c.rows))
      /\ c.wins + c.losses + c.breakevens = Cardinality(Sales(c.rows))
      /\ c.realized = Total(Pnls(c.rows))
  BY <1>3, <1>4, <1>6, <1>7
<1>10. c.held # 0
  BY <1>3
<1>11. Booked(c, s)
  BY <1>3, <1>8, <1>9, <1>10, Zenon DEF Booked
<1>12. c.cash + 100 * c.held * price <= csv.cash
  <2>1. 100 * c.held * price = worth
    BY <1>3 DEF worth
  <2> QED BY <1>2, <1>3, <1>4, <2>1
<1> QED
  BY <1>11, <1>12 DEF c

LEMMA CsvSoldBooks ==
  ASSUME NEW s, Booked(csv, s), s.balance \in Nat, setup.fee \in Nat, NEW price \in Nat
  PROVE  Booked(CsvSold(price), s)
<1> DEFINE c == CsvSold(price)
           proceeds == csv.held * price * (100 - setup.fee)
           pnl == proceeds - csv.cost
           row == [side |-> "sell", pnl |-> pnl]
<1>1. csv \in CsvBooks
  BY DEF Booked
<1>2. /\ csv.cash \in Int /\ csv.realized \in Int /\ csv.cost \in Int
      /\ csv.wins \in Nat /\ csv.losses \in Nat /\ csv.breakevens \in Nat
  BY <1>1, CsvBooksAre
<1>3. proceeds \in Int /\ pnl \in Int /\ SoldInto(c, proceeds, pnl)
  BY <1>1, CsvSoldIs
<1> HIDE DEF c, proceeds
<1>4. /\ pnl = proceeds - csv.cost
      /\ c \in CsvBooks
      /\ c.cash = csv.cash + proceeds /\ c.held = 0 /\ c.cost = 0
      /\ c.realized = csv.realized + pnl
      /\ c.wins = (IF pnl > 0 THEN csv.wins + 1 ELSE csv.wins)
      /\ c.losses = (IF pnl < 0 THEN csv.losses + 1 ELSE csv.losses)
      /\ c.breakevens = (IF pnl = 0 THEN csv.breakevens + 1 ELSE csv.breakevens)
      /\ c.rows = Append(csv.rows, row)
  <2>1. pnl = proceeds - csv.cost
    OBVIOUS
  <2> HIDE DEF pnl
  <2> QED BY <1>3, <2>1, Zenon DEF SoldInto
<1> HIDE DEF pnl
<1>5. csv.rows \in Seq(Rows) /\ row \in Rows /\ row.side = "sell" /\ row.pnl = pnl
  BY <1>1, <1>3, CsvBooksAre DEF Rows
<1> HIDE DEF row
<1>6. /\ Cardinality(Sales(c.rows)) = Cardinality(Sales(csv.rows)) + 1
      /\ Cardinality(Wins(c.rows)) = Cardinality(Wins(csv.rows)) + (IF pnl > 0 THEN 1 ELSE 0)
      /\ Cardinality(Losses(c.rows)) = Cardinality(Losses(csv.rows)) + (IF pnl < 0 THEN 1 ELSE 0)
      /\ Total(Pnls(c.rows)) = Total(Pnls(csv.rows)) + pnl
  BY <1>4, <1>5, RowsAppend
<1>7. /\ csv.cash + csv.cost = 100 * s.balance + csv.realized
      /\ csv.wins = Cardinality(Wins(csv.rows)) /\ csv.losses = Cardinality(Losses(csv.rows))
      /\ csv.wins + csv.losses + csv.breakevens = Cardinality(Sales(csv.rows))
      /\ csv.realized = Total(Pnls(csv.rows))
  BY DEF Booked
<1>8. c.cash + c.cost = 100 * s.balance + c.realized
  <2> DEFINE began == 100 * s.balance
  <2>1. began \in Int
    OBVIOUS
  <2> HIDE DEF began
  <2>2. csv.cash + csv.cost = began + csv.realized
    BY <1>7 DEF began
  <2>3. csv.cash + proceeds = began + (csv.realized + (proceeds - csv.cost))
    <3>1. csv.cash \in Int /\ csv.cost \in Int /\ csv.realized \in Int /\ proceeds \in Int
      BY <1>2, <1>3
    <3> QED BY <2>1, <2>2, <3>1, SaleKeepsMoney
  <2>4. csv.cash + proceeds \in Int
    BY <1>2, <1>3
  <2> QED BY <1>4, <2>3, <2>4 DEF began
<1>9. c.wins = Cardinality(Wins(c.rows)) /\ c.losses = Cardinality(Losses(c.rows))
  BY <1>2, <1>4, <1>6, <1>7
<1>10. c.wins + c.losses + c.breakevens = Cardinality(Sales(c.rows))
  <2>1. c.wins + c.losses + c.breakevens = csv.wins + csv.losses + csv.breakevens + 1
    <3>1. pnl > 0 \/ pnl < 0 \/ pnl = 0
      BY <1>3
    <3>2. CASE pnl > 0
      <4>1. c.wins = csv.wins + 1 /\ c.losses = csv.losses /\ c.breakevens = csv.breakevens
        BY <1>4, <3>2
      <4> QED BY <1>2, <4>1
    <3>3. CASE pnl < 0
      <4>1. c.wins = csv.wins /\ c.losses = csv.losses + 1 /\ c.breakevens = csv.breakevens
        BY <1>4, <3>3
      <4> QED BY <1>2, <4>1
    <3>4. CASE pnl = 0
      <4>1. c.wins = csv.wins /\ c.losses = csv.losses /\ c.breakevens = csv.breakevens + 1
        BY <1>4, <3>4
      <4> QED BY <1>2, <4>1
    <3> QED BY <3>1, <3>2, <3>3, <3>4
  <2> QED BY <1>6, <1>7, <2>1
<1>11. c.realized = Total(Pnls(c.rows))
  BY <1>4, <1>6, <1>7
<1>12. Booked(c, s)
  BY <1>4, <1>8, <1>9, <1>10, <1>11, Zenon DEF Booked
<1> QED
  BY <1>12 DEF c

LEMMA ValuedIs ==
  ASSUME NEW c \in CsvBooks, NEW price \in Nat
  PROVE  LET equity == c.cash + 100 * c.held * price
         IN equity \in Int /\ ValuedInto(Valued(c, price), c, equity)
<1> DEFINE v == Valued(c, price)
           equity == c.cash + 100 * c.held * price
           peak == Max({c.peak, equity})
           drawdown == Max({c.drawdown, peak - equity})
           point == [equity |-> equity, held |-> c.held]
           curve == Append(c.curve, point)
<1>1. c.peak \in Int /\ c.drawdown \in Int /\ c.held \in Nat /\ c.curve \in Seq(CurvePoints)
  BY CsvBooksAre
<1>2. equity \in Int
  <2>1. 100 * c.held * price \in Int
    BY <1>1
  <2> QED BY <2>1, CsvBooksAre
<1>3. v = [c EXCEPT !.peak = peak, !.drawdown = Max({@, peak - equity}),
                    !.curve = Append(@, point)]
  BY DEF Valued
<1> HIDE DEF v, equity
<1>4. peak = (IF c.peak >= equity THEN c.peak ELSE equity)
  BY <1>1, <1>2, MaxOfTwo
<1> HIDE DEF peak
<1>5. peak \in Int /\ peak - equity \in Int
  BY <1>1, <1>2, <1>4
<1>6. drawdown = (IF c.drawdown >= peak - equity THEN c.drawdown ELSE peak - equity)
  BY <1>1, <1>5, MaxOfTwo
<1>7. curve \in Seq(CurvePoints)
  <2>1. point \in CurvePoints
    BY <1>1, <1>2 DEF CurvePoints
  <2> HIDE DEF point
  <2> QED BY <1>1, <2>1, AppendProperties
<1> HIDE DEF point
<1>8. v = [cash |-> c.cash, held |-> c.held, cost |-> c.cost,
           realized |-> c.realized, fees |-> c.fees, wins |-> c.wins,
           losses |-> c.losses, breakevens |-> c.breakevens, rows |-> c.rows,
           curve |-> curve, peak |-> peak, drawdown |-> drawdown]
  <2>1. c = [cash |-> c.cash, held |-> c.held, cost |-> c.cost,
             realized |-> c.realized, fees |-> c.fees, wins |-> c.wins,
             losses |-> c.losses, breakevens |-> c.breakevens, rows |-> c.rows,
             curve |-> c.curve, peak |-> c.peak, drawdown |-> c.drawdown]
    BY CsvBooksAreFields, Zenon
  <2> QED BY <1>3, <2>1
<1> HIDE DEF drawdown, curve
<1>9. drawdown \in Int
  BY <1>1, <1>5, <1>6
<1>10. v \in CsvBooks
  <2>1. /\ c.cash \in Int /\ c.held \in Nat /\ c.cost \in Int /\ c.realized \in Int
        /\ c.fees \in Int /\ c.wins \in Nat /\ c.losses \in Nat /\ c.breakevens \in Nat
        /\ c.rows \in Seq(Rows)
    BY CsvBooksAre
  <2> QED BY <1>5, <1>7, <1>8, <1>9, <2>1, Zenon DEF CsvBooks
<1>11. ValuedInto(v, c, equity)
  <2>1. /\ v.cash = c.cash /\ v.held = c.held /\ v.cost = c.cost
        /\ v.realized = c.realized
        /\ v.wins = c.wins /\ v.losses = c.losses /\ v.breakevens = c.breakevens
        /\ v.rows = c.rows /\ v.curve = curve /\ v.peak = peak /\ v.drawdown = drawdown
    BY <1>8
  <2> QED BY <1>4, <1>6, <1>10, <2>1 DEF ValuedInto, curve, point
<1> QED
  BY <1>2, <1>11 DEF v, equity

LEMMA CsvTradedBooks ==
  ASSUME CsvInv, setup # NoSetup, setup.type \in CsvStrategies, NEW price \in ClosePrices
  PROVE  LET t == CsvTraded(Append(closes, price))
         IN /\ Booked(t, setup)
            /\ t.curve = csv.curve /\ t.peak = csv.peak /\ t.drawdown = csv.drawdown
            /\ csv.held = 0 => t.cash + 100 * t.held * price <= csv.cash
<1> DEFINE c == Append(closes, price)
           d == CsvDecision(c)
           t == CsvTraded(c)
<1>1. ReplayInv /\ Booked(csv, setup)
  BY DEF CsvInv
<1>2. setup.balance \in Nat /\ setup.fee \in Nat
  BY <1>1, SetupIs DEF ReplayInv
<1>3. price \in Nat
  BY PricesAreNaturals
<1>4. csv \in CsvBooks /\ csv.cash \in Int
  BY <1>1, CsvBooksAre DEF Booked
<1>5. /\ d.quantity \in Nat
      /\ \/ csv.held = 0 /\ d.quantity > 0 /\ t = CsvBought(d.quantity, price)
         \/ csv.held > 0 /\ t = CsvSold(price)
         \/ t = csv
  BY <1>1, <1>4, CsvTradedIs
<1> HIDE DEF c, d, t
<1>6. CASE csv.held = 0 /\ d.quantity > 0 /\ t = CsvBought(d.quantity, price)
  <2>1. Booked(t, setup) /\ t.cash + 100 * t.held * price <= csv.cash
    BY <1>1, <1>2, <1>3, <1>5, <1>6, CsvBoughtBooks
  <2>2. t.curve = csv.curve /\ t.peak = csv.peak /\ t.drawdown = csv.drawdown
    <3> DEFINE total == d.quantity * price * (100 + setup.fee)
    <3>1. BoughtInto(CsvBought(d.quantity, price), d.quantity, total)
      BY <1>2, <1>3, <1>4, <1>5, CsvBoughtIs
    <3> HIDE DEF total
    <3> QED BY <1>6, <3>1 DEF BoughtInto
  <2> QED BY <2>1, <2>2 DEF t, c
<1>7. CASE csv.held > 0 /\ t = CsvSold(price)
  <2>1. Booked(t, setup)
    BY <1>1, <1>2, <1>3, <1>7, CsvSoldBooks
  <2>2. t.curve = csv.curve /\ t.peak = csv.peak /\ t.drawdown = csv.drawdown
    <3> DEFINE proceeds == csv.held * price * (100 - setup.fee)
               pnl == proceeds - csv.cost
    <3>1. SoldInto(CsvSold(price), proceeds, pnl)
      BY <1>2, <1>3, <1>4, CsvSoldIs
    <3> HIDE DEF proceeds, pnl
    <3> QED BY <1>7, <3>1 DEF SoldInto
  <2>3. csv.held # 0
    BY <1>7
  <2> QED BY <2>1, <2>2, <2>3 DEF t, c
<1>8. CASE t = csv
  <2>1. csv.held = 0 => t.cash + 100 * t.held * price <= csv.cash
    BY <1>3, <1>4, <1>8
  <2> QED BY <1>1, <1>8, <2>1 DEF t, c
<1> QED
  BY <1>5, <1>6, <1>7, <1>8

LEMMA BookedIsKept ==
  ASSUME CsvInv, setup # NoSetup, setup.type \in CsvStrategies, NEW price \in ClosePrices
  PROVE  Booked(Valued(CsvTraded(Append(closes, price)), price), setup)
<1> DEFINE t == CsvTraded(Append(closes, price))
           v == Valued(t, price)
           equity == t.cash + 100 * t.held * price
<1>1. Booked(t, setup)
  BY CsvTradedBooks
<1>2. price \in Nat
  BY PricesAreNaturals
<1> HIDE DEF t
<1>3. t \in CsvBooks
  BY <1>1 DEF Booked
<1>4. /\ v \in CsvBooks
      /\ v.cash = t.cash /\ v.held = t.held /\ v.cost = t.cost
      /\ v.realized = t.realized
      /\ v.wins = t.wins /\ v.losses = t.losses /\ v.breakevens = t.breakevens
      /\ v.rows = t.rows
  <2>1. ValuedInto(v, t, equity)
    BY <1>2, <1>3, ValuedIs
  <2> HIDE DEF v, equity
  <2> QED BY <2>1, Zenon DEF ValuedInto
<1> HIDE DEF v
<1>5. Booked(v, setup)
  BY <1>1, <1>4, Zenon DEF Booked
<1> QED
  BY <1>5 DEF v, t

LEMMA FirstPointIsCharted ==
  ASSUME CsvInv, setup # NoSetup, setup.type \in CsvStrategies, NEW price \in ClosePrices,
         closes = <<>>
  PROVE  LET v == Valued(CsvTraded(<<price>>), price)
             fee == 100 * setup.balance - v.curve[1].equity
             fall == Fallen(v.curve)[Len(v.curve)]
         IN /\ fee \in Nat
            /\ fall.peak <= v.peak /\ v.peak <= fall.peak + fee
            /\ fall.deepest <= v.drawdown /\ v.drawdown <= fall.deepest + fee
<1> DEFINE t == CsvTraded(Append(closes, price))
           v == Valued(t, price)
           equity == t.cash + 100 * t.held * price
           point == [equity |-> equity, held |-> t.held]
           began == 100 * setup.balance
           fee == began - v.curve[1].equity
           fall == Fallen(v.curve)[Len(v.curve)]
<1>1. csv = CsvStart(setup.balance)
  BY DEF CsvInv, Charted
<1>2. price \in Nat
  BY PricesAreNaturals
<1>3. setup.balance \in Nat
  BY SetupIs DEF CsvInv, ReplayInv
<1>4. Append(closes, price) = <<price>>
  OBVIOUS
<1>5. /\ t \in CsvBooks
      /\ t.curve = <<>> /\ t.peak = began /\ t.drawdown = 0
      /\ equity <= began
  BY <1>1, CsvTradedBooks DEF CsvStart, Booked
<1> HIDE DEF t
<1>6. equity \in Int /\ v.curve = Append(<<>>, point)
      /\ v.peak = (IF began >= equity THEN began ELSE equity)
      /\ v.drawdown = LET drop == v.peak - equity IN IF 0 >= drop THEN 0 ELSE drop
  <2>1. equity \in Int /\ ValuedInto(v, t, equity)
    BY <1>2, <1>5, ValuedIs
  <2> HIDE DEF v, equity, began
  <2> QED BY <1>5, <2>1 DEF ValuedInto
<1>7. point \in CurvePoints
  BY <1>5, <1>6, CsvBooksAre DEF CurvePoints
<1>8. began \in Nat
  BY <1>3
<1> HIDE DEF v, equity, began
<1>9. /\ Len(v.curve) = 1 /\ v.curve[1].equity = equity
      /\ v.curve \in Seq(CurvePoints) /\ v.curve # <<>>
  BY <1>6, <1>7
<1>10. v.peak = began /\ v.drawdown = began - equity /\ fee = began - equity /\ fee \in Nat
  BY <1>5, <1>6, <1>8, <1>9
<1>11. fall = FallAfter([peak |-> equity, deepest |-> 0], equity)
  <2> DEFINE f == Fallen(v.curve)
  <2>1. /\ f[0] = [peak |-> v.curve[1].equity, deepest |-> 0]
        /\ \A n \in 1..Len(v.curve) : f[n] = FallAfter(f[n - 1], v.curve[n].equity)
    BY <1>9, FallenRecursion
  <2> HIDE DEF f
  <2>2. f[1] = FallAfter(f[0], v.curve[1].equity)
    BY <1>9, <2>1
  <2>3. fall = f[1]
    BY <1>9 DEF f
  <2> HIDE DEF fall
  <2> QED BY <1>9, <2>1, <2>2, <2>3
<1>12. fall.peak = equity /\ fall.deepest = 0
  <2>1. [peak |-> equity, deepest |-> 0] \in Depths
    BY <1>6 DEF Depths
  <2> HIDE DEF fall
  <2>2. /\ fall.peak = (IF equity >= equity THEN equity ELSE equity)
        /\ fall.deepest = LET drop == fall.peak - equity IN IF 0 >= drop THEN 0 ELSE drop
    BY <1>6, <1>11, <2>1, FallAfterIs
  <2> QED BY <1>6, <2>2
<1> HIDE DEF fall, fee
<1>13. /\ fee \in Nat
       /\ fall.peak <= v.peak /\ v.peak <= fall.peak + fee
       /\ fall.deepest <= v.drawdown /\ v.drawdown <= fall.deepest + fee
  BY <1>6, <1>8, <1>10, <1>12
<1> QED
  BY <1>4, <1>13 DEF v, t, fall, fee, began

LEMMA NextPointIsCharted ==
  ASSUME CsvInv, setup # NoSetup, setup.type \in CsvStrategies, NEW price \in ClosePrices,
         closes # <<>>
  PROVE  LET v == Valued(CsvTraded(Append(closes, price)), price)
             fee == 100 * setup.balance - v.curve[1].equity
             fall == Fallen(v.curve)[Len(v.curve)]
         IN /\ fee \in Nat
            /\ fall.peak <= v.peak /\ v.peak <= fall.peak + fee
            /\ fall.deepest <= v.drawdown /\ v.drawdown <= fall.deepest + fee
<1> DEFINE t == CsvTraded(Append(closes, price))
           v == Valued(t, price)
           equity == t.cash + 100 * t.held * price
           point == [equity |-> equity, held |-> t.held]
           began == 100 * setup.balance
           N == Len(csv.curve)
           before == Fallen(csv.curve)[N]
           fall == Fallen(v.curve)[Len(v.curve)]
           fee == began - csv.curve[1].equity
<1>1. ReplayInv /\ Booked(csv, setup) /\ Charted(csv, setup, closes)
  BY DEF CsvInv
<1>2. price \in Nat
  BY PricesAreNaturals
<1>3. began \in Nat
  BY <1>1, SetupIs DEF ReplayInv
<1>4. csv.curve \in Seq(CurvePoints) /\ csv.peak \in Int /\ csv.drawdown \in Int
  BY <1>1, CsvBooksAre DEF Booked
<1>5. N = Len(closes) /\ N \in Nat /\ N > 0 /\ csv.curve # <<>>
  <2>1. closes \in Seq(ClosePrices)
    BY <1>1 DEF ReplayInv
  <2>2. Len(closes) \in Nat /\ Len(closes) # 0
    BY <2>1
  <2>3. N = Len(closes)
    BY <1>1 DEF Charted
  <2> QED BY <1>4, <2>2, <2>3
<1>6. /\ fee >= 0
      /\ before.peak <= csv.peak /\ csv.peak <= before.peak + fee
      /\ before.deepest <= csv.drawdown /\ csv.drawdown <= before.deepest + fee
  BY <1>1, Zenon DEF Charted
<1>7. /\ t \in CsvBooks
      /\ t.curve = csv.curve /\ t.peak = csv.peak /\ t.drawdown = csv.drawdown
  BY CsvTradedBooks DEF Booked
<1> HIDE DEF t
<1>8. equity \in Int /\ v.curve = Append(csv.curve, point)
      /\ v.peak = (IF csv.peak >= equity THEN csv.peak ELSE equity)
      /\ v.drawdown = LET drop == v.peak - equity
                      IN IF csv.drawdown >= drop THEN csv.drawdown ELSE drop
  <2>1. equity \in Int /\ v.curve = Append(t.curve, point)
        /\ v.peak = (IF t.peak >= equity THEN t.peak ELSE equity)
        /\ v.drawdown = LET drop == v.peak - equity
                        IN IF t.drawdown >= drop THEN t.drawdown ELSE drop
    <3>1. equity \in Int /\ ValuedInto(v, t, equity)
      BY <1>2, <1>7, ValuedIs
    <3> HIDE DEF v, equity
    <3> QED BY <3>1, Zenon DEF ValuedInto
  <2> HIDE DEF v, equity, point
  <2> QED BY <1>7, <2>1
<1>9. point \in CurvePoints /\ point.equity = equity
  BY <1>7, <1>8, CsvBooksAre DEF CurvePoints
<1>10. before \in Depths
  <2>1. N \in 0..Len(csv.curve)
    BY <1>5
  <2> QED BY <1>4, <1>5, <2>1, FallenRecursion
<1>11. csv.curve[1] \in CurvePoints
  BY <1>4, <1>5, ElementOfSeq
<1>12. csv.curve[1].equity \in Int /\ before.peak \in Int /\ before.deepest \in Int
  BY <1>10, <1>11 DEF CurvePoints, Depths
<1> HIDE DEF v, equity, began, N, before, point
<1>13. fee \in Nat /\ v.curve[1] = csv.curve[1]
  <2>1. v.curve[1] = csv.curve[1]
    <3>1. 1 \in 1..Len(csv.curve)
      BY <1>5 DEF N
    <3> QED BY <1>4, <1>8, <1>9, <3>1, AppendIs
  <2> QED BY <1>3, <1>6, <1>12, <2>1
<1> HIDE DEF fee
<1>14. fall = FallAfter(before, equity)
  BY <1>4, <1>5, <1>8, <1>9, FallenAppend DEF before, N
<1> HIDE DEF fall
<1>15. /\ fall.peak = (IF before.peak >= equity THEN before.peak ELSE equity)
       /\ fall.deepest = LET drop == fall.peak - equity
                         IN IF before.deepest >= drop THEN before.deepest ELSE drop
  BY <1>8, <1>10, <1>14, FallAfterIs
<1>16. /\ fall.peak <= v.peak /\ v.peak <= fall.peak + fee
       /\ fall.deepest <= v.drawdown /\ v.drawdown <= fall.deepest + fee
  <2> DEFINE higher == IF csv.peak >= equity THEN csv.peak ELSE equity
             higher0 == IF before.peak >= equity THEN before.peak ELSE equity
             deeper == IF csv.drawdown >= higher - equity THEN csv.drawdown ELSE higher - equity
             deeper0 == IF before.deepest >= higher0 - equity THEN before.deepest
                        ELSE higher0 - equity
  <2>1. fee \in Int /\ equity \in Int
    BY <1>8, <1>13
  <2>2. /\ higher0 <= higher /\ higher <= higher0 + fee
        /\ deeper0 <= deeper /\ deeper <= deeper0 + fee
    <3>1. /\ csv.peak \in Int /\ csv.drawdown \in Int
          /\ before.peak \in Int /\ before.deepest \in Int
      BY <1>4, <1>12
    <3>2. higher \in Int /\ higher0 \in Int /\ higher0 <= higher /\ higher <= higher0 + fee
      BY <1>6, <2>1, <3>1
    <3> HIDE DEF higher, higher0
    <3>3. deeper0 <= deeper /\ deeper <= deeper0 + fee
      BY <1>6, <2>1, <3>1, <3>2
    <3> QED BY <3>2, <3>3
  <2>3. v.peak = higher /\ fall.peak = higher0
    BY <1>8, <1>15
  <2> HIDE DEF higher, higher0
  <2>4. v.drawdown = deeper /\ fall.deepest = deeper0
    BY <1>8, <1>15, <2>3
  <2> QED BY <2>2, <2>3, <2>4
<1> QED
  BY <1>13, <1>16 DEF v, t, fall, fee, began

LEMMA ChartedIsKept ==
  ASSUME CsvInv, setup # NoSetup, setup.type \in CsvStrategies, NEW price \in ClosePrices
  PROVE  Charted(Valued(CsvTraded(Append(closes, price)), price), setup, Append(closes, price))
<1> DEFINE c == Append(closes, price)
           t == CsvTraded(c)
           v == Valued(t, price)
<1>1. ReplayInv /\ Charted(csv, setup, closes)
  BY DEF CsvInv
<1>2. closes \in Seq(ClosePrices) /\ price \in Nat
  BY <1>1, PricesAreNaturals DEF ReplayInv
<1>3. c # <<>> /\ Last(c) = price /\ Len(c) = Len(closes) + 1
  BY <1>2, AppendIs
<1>4. t \in CsvBooks /\ t.curve = csv.curve
  BY CsvTradedBooks DEF Booked
<1>5. /\ v.cash = t.cash /\ v.held = t.held
      /\ v.curve = Append(t.curve, [equity |-> t.cash + 100 * t.held * price, held |-> t.held])
      /\ v \in CsvBooks
      /\ t.cash + 100 * t.held * price \in Int
  <2> DEFINE equity == t.cash + 100 * t.held * price
  <2>1. equity \in Int /\ ValuedInto(v, t, equity)
    BY <1>2, <1>4, ValuedIs
  <2> HIDE DEF v, equity
  <2>2. /\ v.cash = t.cash /\ v.held = t.held /\ v \in CsvBooks /\ equity \in Int
        /\ v.curve = Append(t.curve, [equity |-> equity, held |-> t.held])
    BY <2>1, Zenon DEF ValuedInto
  <2> QED BY <2>2, Zenon DEF equity
<1>6. /\ 100 * setup.balance - v.curve[1].equity \in Nat
      /\ Fallen(v.curve)[Len(v.curve)].peak <= v.peak
      /\ v.peak <= Fallen(v.curve)[Len(v.curve)].peak + (100 * setup.balance - v.curve[1].equity)
      /\ Fallen(v.curve)[Len(v.curve)].deepest <= v.drawdown
      /\ v.drawdown <= Fallen(v.curve)[Len(v.curve)].deepest
                         + (100 * setup.balance - v.curve[1].equity)
  <2>1. CASE closes = <<>>
    <3>1. c = <<price>>
      BY <2>1
    <3> QED BY <2>1, <3>1, FirstPointIsCharted
  <2>2. CASE closes # <<>>
    BY <2>2, NextPointIsCharted
  <2> QED BY <2>1, <2>2
<1> HIDE DEF t, c
<1>7. Len(v.curve) = Len(c) /\ Last(v.curve).equity = v.cash + 100 * v.held * price
  <2> DEFINE point == [equity |-> t.cash + 100 * t.held * price, held |-> t.held]
  <2>1. point \in CurvePoints /\ t.curve \in Seq(CurvePoints)
    BY <1>4, <1>5, CsvBooksAre DEF CurvePoints
  <2>2. point.equity = v.cash + 100 * v.held * price
    BY <1>5
  <2> HIDE DEF point, v
  <2>3. v.curve = Append(t.curve, point)
    BY <1>5 DEF point
  <2>4. Len(v.curve) = Len(t.curve) + 1 /\ Last(v.curve) = point
    BY <2>1, <2>3, AppendIs
  <2>5. Len(t.curve) = Len(closes)
    BY <1>1, <1>4 DEF Charted
  <2> QED BY <1>3, <2>2, <2>4, <2>5
<1> HIDE DEF v
<1>8. 100 * setup.balance - v.curve[1].equity >= 0
  BY <1>6
<1>9. Charted(v, setup, c)
  BY <1>3, <1>6, <1>7, <1>8, Zenon DEF Charted
<1> QED
  BY <1>9 DEF v, t, c

----------------------------------------------------------------------------
(* The two backtesters agree                                               *)

LEMMA SameDecision ==
  ASSUME setup \in Setups, setup.type \in CsvStrategies, AllInParameters,
         csv.held = ledger.held, NEW candles
  PROVE  CsvDecision(candles) = DecisionOn(candles)
<1> DEFINE p == setup.parameters
           profile == setup.profile
<1>1. profile.entryBelow \in Nat /\ profile.exitAbove \in Nat
  BY SetupIs DEF IsProfile
<1>2. QuantityOf(p, NoProfile) = QuantityOf(p, profile)
  BY DEF QuantityOf, ValueOr, AllInParameters
<1>3. CASE setup.type = "price_threshold"
  <2>1. PriceThresholdConfig(p, NoProfile) = PriceThresholdConfig(p, profile)
    BY DEF PriceThresholdConfig, ValueOr, AllInParameters, NoProfile
  <2> QED BY <1>2, <1>3, <2>1, DecidesByType DEF CsvDecision, DecisionOn
<1>4. CASE setup.type = "moving_average_cross"
  BY <1>2, <1>4, DecidesByType DEF CsvDecision, DecisionOn
<1> QED
  BY <1>3, <1>4 DEF CsvStrategies

LEMMA AgreesIsKept ==
  ASSUME CsvInv, setup # NoSetup, setup.type \in CsvStrategies, NEW price \in ClosePrices
  PROVE  LET candles == Append(closes, price)
         IN Agrees(Valued(CsvTraded(candles), price), Traded(candles), setup)
<1> DEFINE c == Append(closes, price)
           t == CsvTraded(c)
           v == Valued(t, price)
           l == Traded(c)
           d == DecisionOn(c)
           a == RiskOn(d, price).action
           total == d.quantity * price * (100 + setup.fee)
           cost == d.quantity * price
<1> SUFFICES ASSUME setup.fee = 0, setup.limits = NoLimits, AllInParameters
             PROVE  /\ v.cash = 100 * l.cash /\ v.held = l.held
                    /\ v.cost = 100 * (l.held * l.entry) /\ v.realized = 100 * l.realized
                    /\ Len(v.rows) = l.trades
  BY Zenon DEF Agrees
<1>1. ReplayInv /\ Booked(csv, setup) /\ setup \in Setups
  BY DEF CsvInv, ReplayInv
<1>2. /\ csv.cash = 100 * ledger.cash /\ csv.held = ledger.held
      /\ csv.cost = 100 * (ledger.held * ledger.entry) /\ csv.realized = 100 * ledger.realized
      /\ Len(csv.rows) = ledger.trades
  BY Zenon DEF CsvInv, Agrees
<1>3. price \in Nat /\ price > 0
  BY PricesAreNaturals
<1>4. /\ csv \in CsvBooks /\ csv.rows \in Seq(Rows)
      /\ csv.cash \in Int /\ csv.held \in Nat /\ csv.cost \in Int /\ csv.realized \in Int
  BY <1>1, CsvBooksAre DEF Booked
<1>5. /\ ledger \in Ledgers
      /\ ledger.cash \in Nat /\ ledger.held \in Nat /\ ledger.entry \in Nat
      /\ ledger.realized \in Int /\ ledger.trades \in Nat
  BY <1>1 DEF ReplayInv, Counted, Ledgers
<1>6. CsvDecision(c) = d
  BY <1>1, <1>2, SameDecision
<1>7. /\ d.quantity \in Nat
      /\ \/ d.action = "buy" /\ csv.held = 0 /\ d.quantity > 0 /\ total <= csv.cash
            /\ t = CsvBought(d.quantity, price)
         \/ d.action = "sell" /\ csv.held > 0 /\ t = CsvSold(price)
         \/ /\ ~(d.action = "buy" /\ csv.held = 0 /\ d.quantity > 0 /\ total <= csv.cash)
            /\ ~(d.action = "sell" /\ csv.held > 0)
            /\ t = csv
  BY <1>1, <1>4, <1>6, CsvTradedIs, Zenon
<1>8. l = Executed(d.action, d.quantity, price)
  <2>1. a = d.action
    BY <1>1, TradedIs
  <2>2. Last(c) = price
    <3>1. closes \in Seq(ClosePrices)
      BY <1>1 DEF ReplayInv
    <3> QED BY <3>1, AppendIs
  <2> QED BY <2>1, <2>2 DEF Traded, Decided
<1> HIDE DEF c, d, t, l
<1>9. total = 100 * cost /\ cost \in Nat
  BY <1>3, <1>7, FeeIs
<1>10. t \in CsvBooks /\ v.cash = t.cash /\ v.held = t.held /\ v.cost = t.cost
       /\ v.realized = t.realized /\ v.rows = t.rows
  <2>1. t \in CsvBooks
    BY CsvTradedBooks DEF t, c, Booked
  <2> DEFINE equity == t.cash + 100 * t.held * price
  <2>2. ValuedInto(v, t, equity)
    BY <1>3, <2>1, ValuedIs
  <2> HIDE DEF v, equity
  <2> QED BY <2>1, <2>2, Zenon DEF ValuedInto
<1> HIDE DEF v, total, cost
<1>11. CASE /\ d.action = "buy" /\ csv.held = 0 /\ d.quantity > 0 /\ total <= csv.cash
            /\ t = CsvBought(d.quantity, price)
  <2>1. cost <= ledger.cash
    BY <1>2, <1>5, <1>9, <1>11
  <2>2. l = Bought(d.quantity, price)
    BY <1>2, <1>8, <1>11, <2>1 DEF Executed, Affordable, cost
  <2>3. /\ l.cash = ledger.cash - cost /\ l.held = d.quantity /\ l.entry = price
        /\ l.realized = ledger.realized /\ l.trades = ledger.trades + 1
    <3>1. ledger = [cash |-> ledger.cash, held |-> ledger.held, entry |-> ledger.entry,
                    realized |-> ledger.realized, pnls |-> ledger.pnls,
                    trades |-> ledger.trades]
      BY <1>5 DEF Ledgers
    <3>2. l = [ledger EXCEPT !.cash = @ - cost, !.held = d.quantity, !.entry = price,
                             !.trades = @ + 1]
      BY <2>2 DEF Bought, cost
    <3> QED BY <3>1, <3>2
  <2>4. /\ t.cash = csv.cash - total /\ t.held = d.quantity /\ t.cost = total
        /\ t.realized = csv.realized
        /\ t.rows = Append(csv.rows, [side |-> "buy", pnl |-> 0])
    <3>1. setup.fee \in Nat
      BY <1>1, SetupIs
    <3>2. BoughtInto(CsvBought(d.quantity, price), d.quantity, total)
      BY <1>3, <1>4, <1>7, <3>1, CsvBoughtIs DEF total
    <3> QED BY <1>11, <3>2 DEF BoughtInto
  <2>5. Len(t.rows) = Len(csv.rows) + 1
    BY <1>4, <2>4, AppendIs DEF Rows
  <2>6. t.cash = 100 * l.cash
    BY <1>2, <1>5, <1>9, <2>3, <2>4
  <2>7. t.cost = 100 * (l.held * l.entry)
    BY <1>9, <2>3, <2>4 DEF cost
  <2> QED BY <1>2, <1>10, <2>3, <2>4, <2>5, <2>6, <2>7
<1>12. CASE d.action = "sell" /\ csv.held > 0 /\ t = CsvSold(price)
  <2> DEFINE worth == ledger.held * price
             paid == ledger.held * ledger.entry
             proceeds == csv.held * price * (100 - setup.fee)
  <2>1. l = Sold(price)
    BY <1>2, <1>8, <1>12 DEF Executed
  <2>2. /\ l.cash = ledger.cash + worth /\ l.held = 0 /\ l.entry = 0
        /\ l.realized = ledger.realized + (price - ledger.entry) * ledger.held
        /\ l.trades = ledger.trades + 1
    BY <2>1 DEF Sold
  <2>3. proceeds = 100 * worth
    BY <1>2, <1>3, <1>4, FeeIs
  <2>4. (price - ledger.entry) * ledger.held = worth - paid /\ worth \in Int /\ paid \in Int
    BY <1>3, <1>5
  <2>5. /\ t.cash = csv.cash + proceeds /\ t.held = 0 /\ t.cost = 0
        /\ t.realized = csv.realized + (proceeds - csv.cost)
        /\ t.rows = Append(csv.rows, [side |-> "sell", pnl |-> proceeds - csv.cost])
        /\ proceeds - csv.cost \in Int
    <3>1. setup.fee \in Nat
      BY <1>1, SetupIs
    <3>2. proceeds - csv.cost \in Int
          /\ SoldInto(CsvSold(price), proceeds, proceeds - csv.cost)
      BY <1>3, <1>4, <3>1, CsvSoldIs
    <3> HIDE DEF proceeds
    <3> QED BY <1>12, <3>2 DEF SoldInto
  <2>6. Len(t.rows) = Len(csv.rows) + 1
    <3>1. [side |-> "sell", pnl |-> proceeds - csv.cost] \in Rows
      BY <2>5 DEF Rows
    <3> QED BY <1>4, <2>5, <3>1, AppendIs
  <2>7. csv.cost = 100 * paid
    BY <1>2
  <2> HIDE DEF worth, paid, proceeds
  <2>8. t.cash = 100 * l.cash
    BY <1>2, <1>5, <2>2, <2>3, <2>4, <2>5
  <2>9. t.realized = 100 * l.realized
    BY <1>2, <1>5, <2>2, <2>3, <2>4, <2>5, <2>7
  <2>10. t.cost = 100 * (l.held * l.entry)
    BY <2>2, <2>5
  <2> QED BY <1>2, <1>10, <2>2, <2>5, <2>6, <2>8, <2>9, <2>10
<1>13. CASE /\ ~(d.action = "buy" /\ csv.held = 0 /\ d.quantity > 0 /\ total <= csv.cash)
            /\ ~(d.action = "sell" /\ csv.held > 0)
            /\ t = csv
  <2>1. total <= csv.cash <=> cost <= ledger.cash
    BY <1>2, <1>5, <1>9
  <2>2. ~(d.action = "buy" /\ ledger.held = 0 /\ d.quantity # 0 /\ cost <= ledger.cash)
    BY <1>2, <1>7, <1>13, <2>1
  <2>3. ~(d.action = "sell" /\ ledger.held > 0)
    BY <1>2, <1>13
  <2>4. l = ledger
    BY <1>8, <2>2, <2>3, Zenon DEF Executed, Affordable, cost
  <2> QED BY <1>2, <1>10, <1>13, <2>4
<1> QED
  BY <1>7, <1>11, <1>12, <1>13 DEF v, t, l, c

LEMMA EmptyRows == /\ Sales(<<>>) = {} /\ Wins(<<>>) = {} /\ Losses(<<>>) = {}
                   /\ Total(Pnls(<<>>)) = 0
<1>1. Sales(<<>>) = {} /\ Wins(<<>>) = {} /\ Losses(<<>>) = {}
  BY DEF Sales, Wins, Losses
<1>2. Pnls(<<>>) = <<>>
  BY DEF Pnls
<1>3. <<>> \in Seq(Int)
  OBVIOUS
<1> QED
  BY <1>1, <1>2, <1>3, TotalOfNone

LEMMA CsvStartHolds ==
  ASSUME NEW s \in Setups
  PROVE  LET c == CsvStart(s.balance)
         IN Booked(c, s) /\ Charted(c, s, <<>>) /\ Agrees(c, EmptyLedger(s.balance), s)
<1> DEFINE c == CsvStart(s.balance)
<1>1. s.balance \in Nat
  BY SetupIs
<1>2. c = [cash |-> 100 * s.balance, held |-> 0, cost |-> 0, realized |-> 0, fees |-> 0,
           wins |-> 0, losses |-> 0, breakevens |-> 0, rows |-> <<>>, curve |-> <<>>,
           peak |-> 100 * s.balance, drawdown |-> 0]
  BY DEF CsvStart
<1> HIDE DEF c
<1>3. c \in CsvBooks
  <2>1. <<>> \in Seq(Rows) /\ <<>> \in Seq(CurvePoints)
    OBVIOUS
  <2> QED BY <1>1, <1>2, <2>1 DEF CsvBooks
<1>4. Cardinality({}) = 0
  BY FS_EmptySet
<1>5. /\ c.rows = <<>> /\ c.curve = <<>> /\ c.held = 0 /\ c.cost = 0 /\ c.cash = 100 * s.balance
      /\ c.realized = 0 /\ c.wins = 0 /\ c.losses = 0 /\ c.breakevens = 0
  BY <1>2
<1>6. Booked(c, s)
  <2>1. /\ Cardinality(Sales(c.rows)) = 0 /\ Cardinality(Wins(c.rows)) = 0
        /\ Cardinality(Losses(c.rows)) = 0 /\ Total(Pnls(c.rows)) = 0
    BY <1>4, <1>5, EmptyRows
  <2> QED BY <1>1, <1>3, <1>5, <2>1 DEF Booked
<1>7. Charted(c, s, <<>>)
  BY <1>5 DEF Charted, c
<1>8. Agrees(c, EmptyLedger(s.balance), s)
  BY <1>1, <1>5 DEF Agrees, EmptyLedger
<1> QED
  BY <1>6, <1>7, <1>8 DEF c

LEMMA CsvInitInv == CsvInit => CsvInv
<1> SUFFICES ASSUME CsvInit PROVE CsvInv
  OBVIOUS
<1>1. setup = NoSetup
  BY DEF CsvInit, ReplayInit
<1> QED
  BY <1>1, ReplayInitInv DEF CsvInit, CsvInv

LEMMA CsvNextInv ==
  ASSUME CsvInv, [CsvNext]_csvReplayVars
  PROVE  CsvInv'
<1>1. ReplayInv
  BY DEF CsvInv
<1>2. [ReplayNext]_replayVars
  BY DEF CsvNext, BeginBoth, CandleInBoth, EndBoth, ReplayNext, csvReplayVars
<1>3. ReplayInv'
  BY <1>1, <1>2, ReplayNextInv
<1>4. CASE BeginBoth
  <2>1. PICK s \in Setups : setup' = s /\ ledger' = EmptyLedger(s.balance)
    BY <1>4 DEF BeginBoth, BeginReplay
  <2>2. closes' = <<>>
    BY <1>1, <1>4 DEF BeginBoth, BeginReplay, ReplayInv
  <2>3. csv' = CsvStart(s.balance)
    BY <1>4, <2>1 DEF BeginBoth
  <2>4. Booked(csv', s) /\ Charted(csv', s, <<>>)
    BY <2>3, CsvStartHolds
  <2>5. Agrees(csv, ledger, setup)'
    <3>1. csv'.cash = 100 * ledger'.cash /\ csv'.held = ledger'.held
          /\ csv'.cost = 100 * (ledger'.held * ledger'.entry)
          /\ csv'.realized = 100 * ledger'.realized
          /\ Len(csv'.rows) = ledger'.trades
      BY <2>1, <2>3, SetupIs DEF CsvStart, EmptyLedger
    <3> QED BY <3>1 DEF Agrees
  <2> QED BY <1>3, <2>1, <2>2, <2>4, <2>5 DEF CsvInv, Booked, Charted
<1>5. CASE CandleInBoth
  <2>1. PICK price \in ClosePrices :
          closes' = Append(closes, price) /\ ledger' = Traded(Append(closes, price))
    BY <1>5 DEF CandleInBoth, ReplayCandle
  <2>2. setup # NoSetup /\ setup' = setup
    BY <1>5 DEF CandleInBoth, ReplayCandle
  <2>3. Last(closes') = price
    <3>1. closes \in Seq(ClosePrices)
      BY <1>1 DEF ReplayInv
    <3> QED BY <2>1, <3>1, AppendIs
  <2>4. SUFFICES ASSUME setup.type \in CsvStrategies
                 PROVE  (Booked(csv, setup) /\ Charted(csv, setup, closes)
                         /\ Agrees(csv, ledger, setup))'
    BY <1>3, <2>2 DEF CsvInv
  <2>5. csv' = Valued(CsvTraded(Append(closes, price)), price)
    BY <1>5, <2>1, <2>3, <2>4 DEF CandleInBoth, CsvStrategies
  <2>6. Booked(csv', setup)
    BY <2>2, <2>4, <2>5, BookedIsKept
  <2>7. Charted(csv', setup, closes')
    BY <2>1, <2>2, <2>4, <2>5, ChartedIsKept
  <2>8. Agrees(csv', ledger', setup)
    BY <2>1, <2>2, <2>4, <2>5, AgreesIsKept
  <2>9. AllInParameters' <=> AllInParameters
    BY <2>2 DEF AllInParameters
  <2>10. Agrees(csv, ledger, setup)'
    BY <2>2, <2>8, <2>9 DEF Agrees
  <2> QED BY <2>2, <2>6, <2>7, <2>10 DEF Booked, Charted
<1>6. CASE EndBoth
  <2>1. UNCHANGED <<setup, closes, ledger, csv>>
    BY <1>6 DEF EndBoth, EndReplay
  <2> QED BY <1>3, <2>1 DEF CsvInv, Booked, Charted, Agrees, AllInParameters
<1>7. CASE UNCHANGED csvReplayVars
  <2>1. UNCHANGED <<setup, closes, ledger, csv>>
    BY <1>7 DEF csvReplayVars, replayVars
  <2> QED BY <1>3, <2>1 DEF CsvInv, Booked, Charted, Agrees, AllInParameters
<1> QED
  BY <1>4, <1>5, <1>6, <1>7 DEF CsvNext

LEMMA CsvInvHolds == CsvInv => CsvReplayHolds
<1> SUFFICES ASSUME CsvInv, setup # NoSetup, CsvRuns
             PROVE  /\ CsvAgreesWithBacktest
                    /\ FeesAddUp
                    /\ EnrichmentRecovers
  BY Zenon DEF CsvReplayHolds, CsvAgreesWithBacktest, FeesAddUp, EnrichmentRecovers
<1>1. /\ ReplayInv /\ Booked(csv, setup) /\ Charted(csv, setup, closes)
      /\ Agrees(csv, ledger, setup)
  BY DEF CsvInv, CsvRuns, CsvStrategies
<1>2. CsvAgreesWithBacktest
  BY <1>1 DEF Agrees, CsvAgreesWithBacktest
<1>3. /\ csv.cash \in Int /\ csv.held \in Nat /\ csv.cost \in Int /\ csv.realized \in Int
      /\ csv.wins \in Nat /\ csv.losses \in Nat /\ csv.breakevens \in Nat
  BY <1>1, CsvBooksAre DEF Booked
<1>4. closes \in Seq(ClosePrices) /\ LastPrice(closes) \in Nat
      /\ (closes # <<>> => LastPrice(closes) = Last(closes))
  <2>1. closes \in Seq(ClosePrices)
    BY <1>1 DEF ReplayInv
  <2>2. CASE closes = <<>>
    BY <2>1, <2>2 DEF LastPrice
  <2>3. CASE closes # <<>>
    <3>1. Len(closes) \in 1..Len(closes)
      BY <2>1, <2>3
    <3>2. closes[Len(closes)] \in ClosePrices
      BY <2>1, <3>1, ElementOfSeq
    <3> QED BY <2>1, <2>3, <3>2, PricesAreNaturals DEF LastPrice, Last
  <2> QED BY <2>2, <2>3
<1>5. FeesAddUp
  <2> DEFINE began == 100 * setup.balance
             worth == 100 * csv.held * LastPrice(closes)
  <2>1. began \in Int
    BY <1>1, SetupIs DEF ReplayInv
  <2>2. worth \in Int /\ (csv.held = 0 => worth = 0)
    BY <1>3, <1>4
  <2>3. csv.cash + csv.cost = began + csv.realized /\ (csv.held = 0 => csv.cost = 0)
    BY <1>1 DEF Booked
  <2>4. CsvEquity = csv.cash + worth
    BY DEF CsvEquity
  <2>5. CsvUnrealized = worth - csv.cost
    <3>1. CsvUnrealized = IF csv.held > 0 THEN worth - csv.cost ELSE 0
      BY DEF CsvUnrealized
    <3> HIDE DEF worth
    <3> QED BY <1>3, <2>2, <2>3, <3>1
  <2> HIDE DEF began, worth
  <2>6. (csv.cash + worth) - began = csv.realized + (worth - csv.cost)
    BY <1>3, <2>1, <2>2, <2>3, SaleKeepsMoney
  <2> QED BY <2>4, <2>5, <2>6 DEF FeesAddUp, began
<1>6. EnrichmentRecovers
  <2> SUFFICES ASSUME closes # <<>> PROVE EnrichmentRecovers
    BY DEF EnrichmentRecovers
  <2> DEFINE fee == 100 * setup.balance - csv.curve[1].equity
  <2>1. /\ Enriched.wins = Cardinality(Wins(csv.rows))
        /\ Enriched.losses = Cardinality(Losses(csv.rows))
        /\ Enriched.roundTrips = Cardinality(Sales(csv.rows))
        /\ Enriched.breakevens = Cardinality(Sales(csv.rows)) - Cardinality(Wins(csv.rows))
                                   - Cardinality(Losses(csv.rows))
        /\ Enriched.realized = Total(Pnls(csv.rows))
        /\ Enriched.ending = Last(csv.curve).equity
        /\ Enriched.drawdown = Fallen(csv.curve)[Len(csv.curve)].deepest
    BY DEF Enriched, DeepestFall
  <2>2. /\ csv.wins = Cardinality(Wins(csv.rows)) /\ csv.losses = Cardinality(Losses(csv.rows))
        /\ csv.wins + csv.losses + csv.breakevens = Cardinality(Sales(csv.rows))
        /\ csv.realized = Total(Pnls(csv.rows))
    BY <1>1 DEF Booked
  <2>3. /\ Last(csv.curve).equity = csv.cash + 100 * csv.held * Last(closes)
        /\ Fallen(csv.curve)[Len(csv.curve)].deepest <= csv.drawdown
        /\ csv.drawdown <= Fallen(csv.curve)[Len(csv.curve)].deepest + fee
    BY <1>1, Zenon DEF Charted
  <2>4. CsvEquity = csv.cash + 100 * csv.held * Last(closes)
    BY <1>4 DEF CsvEquity
  <2>5. Enriched.breakevens = csv.breakevens
    <3>1. Enriched.breakevens =
            ((csv.wins + csv.losses + csv.breakevens) - csv.wins) - csv.losses
      BY <2>1, <2>2
    <3> QED BY <1>3, <3>1
  <2> HIDE DEF fee
  <2>6. /\ Enriched.wins = csv.wins /\ Enriched.losses = csv.losses
        /\ Enriched.roundTrips = csv.wins + csv.losses + csv.breakevens
        /\ Enriched.realized = csv.realized
        /\ Enriched.ending = CsvEquity
        /\ Enriched.drawdown <= csv.drawdown
        /\ csv.drawdown <= Enriched.drawdown + fee
    BY <2>1, <2>2, <2>3, <2>4
  <2> QED BY <2>5, <2>6 DEF EnrichmentRecovers, fee
<1> QED
  BY <1>2, <1>5, <1>6

\* The second backtester is as good as the first, for every strategy both know
\* and any prices and fee: without fees and limits its cash, position, gains and
\* trades are those of the first, its fees are charged once, and a comparison
\* recovers from its files what it reported (CsvReplayHolds,
\* csv_backtest.py:189, backtest_run_comparison.py:1124).
THEOREM CsvBacktestHolds == CsvSpec => []CsvReplayHolds
<1>1. CsvInit => CsvInv
  BY CsvInitInv
<1>2. CsvInv /\ [CsvNext]_csvReplayVars => CsvInv'
  BY CsvNextInv
<1> QED
  BY <1>1, <1>2, CsvInvHolds, PTL DEF CsvSpec

=============================================================================
