------------------------- MODULE NtvIndCache_proofs -------------------------
(***************************************************************************)
(* The books of the indexer, for any sizes, texts and number of runs: no   *)
(* "Internal error" is reached, the free list and the two caches are       *)
(* right, and an index that was saved opens.                               *)
(***************************************************************************)
EXTENDS NtvIndCache, NcsLists_proofs


-----------------------------------------------------------------------------
(* Counting up, and sums. *)

\* What holds at 0 and goes on from each number to the next holds up to n.
LEMMA UpTo ==
    ASSUME NEW n \in Nat, NEW P, 0 \in P, \A i \in 0 .. n - 1 : i \in P => i + 1 \in P
    PROVE  \A i \in 0 .. n : i \in P
  <1> DEFINE bad == {i \in 0 .. n : i \notin P}
  <1>1. bad = {}
    <2> SUFFICES ASSUME bad # {} PROVE FALSE
      OBVIOUS
    <2>1. bad \subseteq Nat
      OBVIOUS
    <2> HIDE DEF bad
    <2>2. PICK m \in bad : \A k \in bad : m <= k
      BY <2>1, LeastExists
    <2>3. m \in 0 .. n /\ m \notin P
      BY DEF bad
    <2>4. m # 0
      BY <2>3
    <2>5. m - 1 \in 0 .. n - 1 /\ m - 1 \in 0 .. n /\ ~ (m <= m - 1) /\ (m - 1) + 1 = m
      BY <2>3, <2>4
    <2>6. m - 1 \in P
      BY <2>2, <2>5 DEF bad
    <2> QED
      BY <2>3, <2>5, <2>6
  <1> QED
    BY <1>1

\* Lists with the same elements at the same places are the same.
LEMMA SameList ==
    ASSUME NEW S, NEW s \in Seq(S), NEW t \in Seq(S), Len(s) = Len(t),
           \A i \in 1 .. Len(s) : s[i] = t[i]
    PROVE  s = t
  OBVIOUS

\* The list of one.
LEMMA OneList ==
    ASSUME NEW S, NEW b \in S
    PROVE  /\ <<b>> \in Seq(S) /\ Len(<<b>>) = 1 /\ <<b>>[1] = b /\ DOMAIN <<b>> = {1}
           /\ IsInjective(<<b>>) /\ ToSet(<<b>>) = {b}
  <1>1. <<b>> \in Seq(S) /\ Len(<<b>>) = 1 /\ <<b>>[1] = b
    OBVIOUS
  <1>2. DOMAIN <<b>> = {1}
    OBVIOUS
  <1> QED
    BY <1>1, <1>2 DEF IsInjective, ToSet

\* The sum of the first numbers of a list.
Sum(sizes, n) ==
    CHOOSE sum : sum = [i \in 0 .. n |-> IF i = 0 THEN 0 ELSE sum[i - 1] + sizes[i]]

\* It is defined.
LEMMA SumExists ==
    ASSUME NEW sizes, NEW n \in Nat
    PROVE  Sum(sizes, n) =
             [i \in 0 .. n |-> IF i = 0 THEN 0 ELSE Sum(sizes, n)[i - 1] + sizes[i]]
  <1> DEFINE Is(g, m) == g = [i \in 0 .. m |-> IF i = 0 THEN 0 ELSE g[i - 1] + sizes[i]]
             P == {m \in 0 .. n : \E g : Is(g, m)}
  <1>1. 0 \in P
    <2>1. \A i \in 0 .. 0 : i = 0
      OBVIOUS
    <2> DEFINE g == [i \in 0 .. 0 |-> 0]
    <2>2. Is(g, 0)
      BY <2>1
    <2>3. 0 \in 0 .. n
      OBVIOUS
    <2> HIDE DEF g, Is
    <2> QED
      BY <2>2, <2>3
  <1>2. ASSUME NEW m \in 0 .. n - 1, m \in P PROVE m + 1 \in P
    <2>1. PICK f : Is(f, m)
      BY <1>2
    <2> DEFINE g == [i \in 0 .. m + 1 |-> IF i = m + 1 THEN f[m] + sizes[m + 1] ELSE f[i]]
    <2>2. \A i \in 0 .. m : g[i] = f[i]
      OBVIOUS
    <2>3. g[m + 1] = f[m] + sizes[m + 1]
      OBVIOUS
    <2>4. ASSUME NEW i \in 0 .. m + 1
          PROVE  g[i] = IF i = 0 THEN 0 ELSE g[i - 1] + sizes[i]
      <3> HIDE DEF g
      <3>1. CASE i = m + 1
        BY <2>2, <2>3, <3>1
      <3>2. CASE i # m + 1
        <4>1. i \in 0 .. m /\ (i # 0 => i - 1 \in 0 .. m)
          BY <3>2
        <4>2. f[i] = IF i = 0 THEN 0 ELSE f[i - 1] + sizes[i]
          BY <2>1, <4>1
        <4> QED
          BY <2>2, <4>1, <4>2
      <3> QED
        BY <3>1, <3>2
    <2>5. g = [i \in 0 .. m + 1 |-> g[i]]
      OBVIOUS
    <2> HIDE DEF g
    <2>6. Is(g, m + 1)
      BY <2>4, <2>5
    <2> QED
      BY <2>6
  <1>3. n \in 0 .. n /\ \A m \in 0 .. n : m \in P
    <2> HIDE DEF P
    <2> QED
      BY <1>1, <1>2, UpTo
  <1>4. \E g : Is(g, n)
    BY <1>3
  <1>5. Sum(sizes, n) = CHOOSE g : Is(g, n)
    BY DEF Sum
  <1>6. Is(Sum(sizes, n), n)
    <2> HIDE DEF Is
    <2> QED
      BY <1>4, <1>5
  <1> QED
    BY <1>6

\* What it is made of.
LEMMA SumSteps ==
    ASSUME NEW sizes, Len(sizes) \in Nat
    PROVE  LET sum == Sum(sizes, Len(sizes))
           IN  /\ Total(sizes) = sum[Len(sizes)]
               /\ sum[0] = 0
               /\ \A i \in 1 .. Len(sizes) : sum[i] = sum[i - 1] + sizes[i]
  <1>1. Total(sizes) = Sum(sizes, Len(sizes))[Len(sizes)]
    BY DEF Total, Sum
  <1> DEFINE sum == Sum(sizes, Len(sizes))
  <1>2. sum = [i \in 0 .. Len(sizes) |-> IF i = 0 THEN 0 ELSE sum[i - 1] + sizes[i]]
    BY SumExists
  <1> HIDE DEF sum
  <1>3. sum[0] = 0 /\ \A i \in 1 .. Len(sizes) : sum[i] = sum[i - 1] + sizes[i]
    BY <1>2
  <1> QED
    BY <1>1, <1>3 DEF sum

\* Sums of natural numbers are natural numbers.
LEMMA SumType ==
    ASSUME NEW s \in Seq(Nat)
    PROVE  \A i \in 0 .. Len(s) : Sum(s, Len(s))[i] \in Nat
  <1> DEFINE sum == Sum(s, Len(s))
             P == {i \in 0 .. Len(s) : sum[i] \in Nat}
  <1>1. Len(s) \in Nat
    OBVIOUS
  <1>2. sum[0] = 0 /\ \A i \in 1 .. Len(s) : sum[i] = sum[i - 1] + s[i]
    BY <1>1, SumSteps
  <1> HIDE DEF sum
  <1>3. 0 \in P
    BY <1>1, <1>2
  <1>4. ASSUME NEW i \in 0 .. Len(s) - 1, i \in P PROVE i + 1 \in P
    <2>1. i + 1 \in 1 .. Len(s) /\ i + 1 \in 0 .. Len(s) /\ (i + 1) - 1 = i /\ s[i + 1] \in Nat
      BY <1>1
    <2>2. sum[i] \in Nat
      BY <1>4
    <2>3. sum[i + 1] \in Nat
      BY <1>2, <2>1, <2>2
    <2> QED
      BY <2>1, <2>3
  <1>5. \A i \in 0 .. Len(s) : i \in P
    <2> HIDE DEF P
    <2> QED
      BY <1>1, <1>3, <1>4, UpTo
  <1> QED
    BY <1>5 DEF sum

\* Lists that agree up to n have the same sums up to there.
LEMMA SumAgree ==
    ASSUME NEW s \in Seq(Nat), NEW t \in Seq(Nat), NEW n \in Nat, n <= Len(s), n <= Len(t),
           \A i \in 1 .. n : s[i] = t[i]
    PROVE  \A i \in 0 .. n : Sum(s, Len(s))[i] = Sum(t, Len(t))[i]
  <1> DEFINE u == Sum(s, Len(s))
             v == Sum(t, Len(t))
             P == {i \in 0 .. n : u[i] = v[i]}
  <1>1. Len(s) \in Nat /\ Len(t) \in Nat
    OBVIOUS
  <1>2. u[0] = 0 /\ \A i \in 1 .. Len(s) : u[i] = u[i - 1] + s[i]
    BY <1>1, SumSteps
  <1>3. v[0] = 0 /\ \A i \in 1 .. Len(t) : v[i] = v[i - 1] + t[i]
    BY <1>1, SumSteps
  <1> HIDE DEF u, v
  <1>4. 0 \in P
    BY <1>2, <1>3
  <1>5. ASSUME NEW i \in 0 .. n - 1, i \in P PROVE i + 1 \in P
    <2>1. i + 1 \in 1 .. n /\ i + 1 \in 1 .. Len(s) /\ i + 1 \in 1 .. Len(t) /\ (i + 1) - 1 = i
      BY <1>1
    <2> QED
      BY <1>2, <1>3, <1>5, <2>1
  <1>6. \A i \in 0 .. n : i \in P
    <2> HIDE DEF P
    <2> QED
      BY <1>4, <1>5, UpTo
  <1> QED
    BY <1>6 DEF u, v

\* Total is a number.
LEMMA TotalType ==
    ASSUME NEW s \in Seq(Nat)
    PROVE  Total(s) \in Nat
  BY SumType, SumSteps

\* The total of nothing.
LEMMA TotalNone == Total(<<>>) = 0
  BY SumSteps

\* One number more.
LEMMA TotalAppend ==
    ASSUME NEW s \in Seq(Nat), NEW n \in Nat
    PROVE  Total(Append(s, n)) = Total(s) + n
  <1> DEFINE t == Append(s, n)
  <1>1. /\ t \in Seq(Nat) /\ Len(t) = Len(s) + 1 /\ Len(s) \in Nat /\ t[Len(s) + 1] = n
        /\ \A i \in 1 .. Len(s) : t[i] = s[i]
    OBVIOUS
  <1> HIDE DEF t
  <1>2. Sum(t, Len(t))[Len(s)] = Sum(s, Len(s))[Len(s)]
    <2>1. /\ Len(s) \in Nat /\ Len(s) <= Len(s) /\ Len(s) <= Len(t)
          /\ Len(s) \in 0 .. Len(s)
      BY <1>1
    <2>2. \A i \in 0 .. Len(s) : Sum(t, Len(t))[i] = Sum(s, Len(s))[i]
      BY <1>1, <2>1, SumAgree
    <2> QED
      BY <2>1, <2>2
  <1>3. Sum(t, Len(t))[Len(t)] = Sum(t, Len(t))[Len(t) - 1] + t[Len(t)]
    BY <1>1, SumSteps
  <1>4. Total(t) = Sum(t, Len(t))[Len(t)] /\ Total(s) = Sum(s, Len(s))[Len(s)]
    BY <1>1, SumSteps
  <1> QED
    BY <1>1, <1>2, <1>3, <1>4 DEF t

\* One number is another.
LEMMA TotalSet ==
    ASSUME NEW s \in Seq(Nat), NEW k \in 1 .. Len(s), NEW t \in Seq(Nat), Len(t) = Len(s),
           \A i \in 1 .. Len(s) : i # k => t[i] = s[i]
    PROVE  Total(t) + s[k] = Total(s) + t[k]
  <1> DEFINE u == Sum(s, Len(s))
             v == Sum(t, Len(t))
             P == {i \in 0 .. Len(s) : i >= k => v[i] + s[k] = u[i] + t[k]}
  <1>1. Len(s) \in Nat /\ k \in Nat /\ k <= Len(s) /\ s[k] \in Nat /\ t[k] \in Nat
    OBVIOUS
  <1>2. u[0] = 0 /\ (\A i \in 1 .. Len(s) : u[i] = u[i - 1] + s[i]) /\ Total(s) = u[Len(s)]
    BY <1>1, SumSteps
  <1>3. v[0] = 0 /\ (\A i \in 1 .. Len(s) : v[i] = v[i - 1] + t[i]) /\ Total(t) = v[Len(s)]
    BY <1>1, SumSteps
  <1>4. \A i \in 0 .. Len(s) : u[i] \in Nat /\ v[i] \in Nat
    BY SumType
  <1>5. u[k - 1] = v[k - 1]
    <2>1. k - 1 \in Nat /\ k - 1 <= Len(s) /\ k - 1 <= Len(t) /\ k - 1 \in 0 .. k - 1
      BY <1>1
    <2>2. \A i \in 1 .. k - 1 : s[i] = t[i]
      BY <1>1
    <2> QED
      BY <2>1, <2>2, SumAgree
  <1> HIDE DEF u, v
  <1>6. 0 \in P
    BY <1>1
  <1>7. ASSUME NEW i \in 0 .. Len(s) - 1, i \in P PROVE i + 1 \in P
    <2>1. i + 1 \in 1 .. Len(s) /\ (i + 1) - 1 = i /\ i \in 0 .. Len(s) /\ i + 1 \in 0 .. Len(s)
      BY <1>1
    <2>2. u[i + 1] = u[i] + s[i + 1] /\ v[i + 1] = v[i] + t[i + 1]
      BY <1>2, <1>3, <2>1
    <2>3. u[i] \in Nat /\ v[i] \in Nat /\ s[i + 1] \in Nat /\ t[i + 1] \in Nat
      BY <1>4, <2>1
    <2>4. CASE i + 1 < k
      BY <1>1, <2>1, <2>4
    <2>5. CASE i + 1 = k
      <3>1. u[i] = v[i]
        BY <1>5, <2>5
      <3>2. v[i + 1] + s[k] = u[i + 1] + t[k]
        BY <2>2, <2>3, <2>5, <3>1, SMTT(30)
      <3> QED
        BY <2>1, <3>2
    <2>6. CASE i + 1 > k
      <3>1. v[i] + s[k] = u[i] + t[k] /\ t[i + 1] = s[i + 1]
        BY <1>1, <1>7, <2>1, <2>6
      <3>2. (v[i] + t[i + 1]) + s[k] = (u[i] + t[i + 1]) + t[k]
        <4>1. PICK a \in Nat, b \in Nat, c \in Nat, x \in Nat, y \in Nat :
                a = u[i] /\ b = v[i] /\ c = t[i + 1] /\ x = s[k] /\ y = t[k]
          BY <1>1, <2>3
        <4>2. b + x = a + y
          BY <3>1, <4>1
        <4>3. (b + c) + x = (a + c) + y
          <5>1. a \in Nat /\ b \in Nat /\ c \in Nat /\ x \in Nat /\ y \in Nat
            BY <4>1
          <5> QED
            BY <4>2, <5>1
        <4> QED
          BY <4>1, <4>3
      <3>3. v[i + 1] + s[k] = u[i + 1] + t[k]
        BY <2>2, <3>1, <3>2
      <3> QED
        BY <2>1, <3>3
    <2> QED
      BY <1>1, <2>1, <2>4, <2>5, <2>6
  <1>8. \A i \in 0 .. Len(s) : i \in P
    <2> HIDE DEF P
    <2> QED
      BY <1>1, <1>6, <1>7, UpTo
  <1>9. v[Len(s)] + s[k] = u[Len(s)] + t[k]
    BY <1>1, <1>8
  <1> QED
    BY <1>2, <1>3, <1>9

\* One number less.
LEMMA TotalRemove ==
    ASSUME NEW s \in Seq(Nat), NEW k \in 1 .. Len(s)
    PROVE  Total(RemoveAt(s, k)) + s[k] = Total(s)
  <1> DEFINE t == RemoveAt(s, k)
             u == Sum(s, Len(s))
             v == Sum(t, Len(t))
             P == {i \in 0 .. Len(s) - 1 : i >= k - 1 => v[i] + s[k] = u[i + 1]}
  <1>1. Len(s) \in Nat /\ k \in Nat /\ k <= Len(s) /\ 1 <= k /\ s[k] \in Nat
    OBVIOUS
  <1>2. /\ t \in Seq(Nat) /\ Len(t) = Len(s) - 1
        /\ \A i \in 1 .. Len(s) - 1 : t[i] = IF i < k THEN s[i] ELSE s[i + 1]
    BY CutOut
  <1> HIDE DEF t
  <1>3. u[0] = 0 /\ (\A i \in 1 .. Len(s) : u[i] = u[i - 1] + s[i]) /\ Total(s) = u[Len(s)]
    BY <1>1, SumSteps
  <1>4. /\ v[0] = 0 /\ (\A i \in 1 .. Len(s) - 1 : v[i] = v[i - 1] + t[i])
        /\ Total(t) = v[Len(s) - 1]
    <2>1. Len(t) \in Nat
      BY <1>2
    <2>2. v[0] = 0 /\ (\A i \in 1 .. Len(t) : v[i] = v[i - 1] + t[i]) /\ Total(t) = v[Len(t)]
      BY <2>1, SumSteps
    <2> HIDE DEF v
    <2> QED
      BY <1>2, <2>2
  <1>5. /\ \A i \in 0 .. Len(s) : u[i] \in Nat
        /\ \A i \in 0 .. Len(s) - 1 : v[i] \in Nat
    BY <1>1, <1>2, SumType
  <1>6. u[k - 1] = v[k - 1]
    <2>1. k - 1 \in Nat /\ k - 1 <= Len(s) /\ k - 1 <= Len(t) /\ k - 1 \in 0 .. k - 1
      BY <1>1, <1>2
    <2>2. \A i \in 1 .. k - 1 : s[i] = t[i]
      BY <1>1, <1>2, SMTT(30)
    <2> QED
      BY <1>2, <2>1, <2>2, SumAgree
  <1>7. u[k] = u[k - 1] + s[k]
    BY <1>1, <1>3
  <1> HIDE DEF u, v
  <1>8. 0 \in P
    BY <1>1, <1>6, <1>7, <1>5
  <1>9. ASSUME NEW i \in 0 .. Len(s) - 1 - 1, i \in P PROVE i + 1 \in P
    <2>1. /\ i + 1 \in 1 .. Len(s) - 1 /\ i + 2 \in 1 .. Len(s) /\ i + 1 \in 0 .. Len(s)
          /\ (i + 1) - 1 = i /\ (i + 2) - 1 = i + 1 /\ i \in 0 .. Len(s) - 1 /\ (i + 1) + 1 = i + 2
      BY <1>1
    <2>2. u[i + 2] = u[i + 1] + s[i + 2] /\ v[i + 1] = v[i] + t[i + 1]
      BY <1>3, <1>4, <2>1
    <2>3. u[i + 1] \in Nat /\ v[i] \in Nat /\ s[i + 2] \in Nat /\ t[i + 1] \in Nat
      <3> HIDE DEF P
      <3>1. u[i + 1] \in Nat /\ v[i] \in Nat
        BY <1>5, <2>1
      <3>2. s[i + 2] \in Nat
        BY <2>1
      <3>3. i + 1 \in 1 .. Len(t)
        BY <1>2, <2>1
      <3>4. t[i + 1] \in Nat
        BY <1>2, <3>3, SMTT(30)
      <3> QED
        BY <3>1, <3>2, <3>4
    <2>4. CASE i + 1 < k - 1
      BY <1>1, <2>1, <2>4
    <2>5. CASE i + 1 = k - 1
      BY <1>1, <1>6, <1>7, <1>5, <2>1, <2>5
    <2>6. CASE i + 1 > k - 1
      <3>1. v[i] + s[k] = u[i + 1] /\ t[i + 1] = s[i + 2]
        BY <1>1, <1>2, <1>9, <2>1, <2>6
      <3>2. v[i + 1] + s[k] = u[i + 2]
        BY <1>1, <2>2, <2>3, <3>1, SMTT(30)
      <3> QED
        BY <2>1, <3>2
    <2> QED
      BY <1>1, <2>1, <2>4, <2>5, <2>6
  <1>10. \A i \in 0 .. Len(s) - 1 : i \in P
    <2>1. Len(s) - 1 \in Nat
      BY <1>1
    <2> HIDE DEF P
    <2> QED
      BY <1>8, <1>9, <2>1, UpTo
  <1>11. v[Len(s) - 1] + s[k] = u[(Len(s) - 1) + 1]
    BY <1>1, <1>10
  <1> QED
    BY <1>1, <1>3, <1>4, <1>11 DEF t

\* No number is more than the sum.
LEMMA TotalAtLeast ==
    ASSUME NEW s \in Seq(Nat), NEW k \in 1 .. Len(s)
    PROVE  s[k] <= Total(s)
  <1>1. RemoveAt(s, k) \in Seq(Nat)
    BY CutOut
  <1>2. Total(RemoveAt(s, k)) \in Nat
    BY <1>1, TotalType
  <1> QED
    BY <1>2, TotalRemove

\* As many positive numbers, at least.
LEMMA TotalOfPositive ==
    ASSUME NEW s \in Seq(Nat \ {0})
    PROVE  Len(s) <= Total(s)
  <1> DEFINE u == Sum(s, Len(s))
             P == {i \in 0 .. Len(s) : i <= u[i]}
  <1>1. Len(s) \in Nat /\ s \in Seq(Nat)
    OBVIOUS
  <1>2. u[0] = 0 /\ (\A i \in 1 .. Len(s) : u[i] = u[i - 1] + s[i]) /\ Total(s) = u[Len(s)]
    BY <1>1, SumSteps
  <1>3. \A i \in 0 .. Len(s) : u[i] \in Nat
    BY <1>1, SumType
  <1> HIDE DEF u
  <1>4. 0 \in P
    BY <1>1, <1>2
  <1>5. ASSUME NEW i \in 0 .. Len(s) - 1, i \in P PROVE i + 1 \in P
    <2>1. i + 1 \in 1 .. Len(s) /\ (i + 1) - 1 = i /\ s[i + 1] \in Nat \ {0} /\ u[i] \in Nat
      BY <1>1, <1>3
    <2> QED
      BY <1>2, <1>5, <2>1
  <1>6. \A i \in 0 .. Len(s) : i \in P
    <2> HIDE DEF P
    <2> QED
      BY <1>1, <1>4, <1>5, UpTo
  <1> QED
    BY <1>1, <1>2, <1>6

-----------------------------------------------------------------------------
(* What a store looks like. *)

RecData == [freq : Nat, nfrags : Nat \ {0}, bitsize : Nat, lastdoc : Nat, blk : Nat]
Fragment == [rec : Rec, frag : Nat, base : Nat, ndocs : Nat, logb : Nat, gaps : Seq(Nat \ {0}),
             size : Nat \ {0}]
Block == [fidx : 0 .. Areas - 1, recs : Seq(Fragment)]
FreeEntry == [blk : Nat, fidx : 0 .. Areas - 1, bytes : Nat]

IsRc(rc) == DOMAIN rc \subseteq Rec /\ rc \in [DOMAIN rc -> RecData]
IsBlocks(blocks) == DOMAIN blocks \subseteq Nat \ {0} /\ blocks \in [DOMAIN blocks -> Block]
IsLists(lists) == lists \in [0 .. Areas - 1 -> Seq(Nat)]
IsFiles(ref, rfb) == ref \in [DOMAIN ref -> Seq(Fragment)] /\ rfb \in [DOMAIN rfb -> Nat]

Fields == {"rc", "blocks", "lists", "free", "cachecnt", "blockcount", "blockout", "maxlen", "ref",
           "rfb", "fault"}
HasFields(st) == st = [f \in Fields |-> st[f]]

IsStore(st) ==
    /\ HasFields(st)
    /\ IsRc(st.rc) /\ IsBlocks(st.blocks) /\ IsLists(st.lists) /\ st.free \in Seq(FreeEntry)
    /\ st.cachecnt \in Int /\ st.blockcount \in Nat \ {0} /\ st.blockout \in Nat \ {0}
    /\ st.maxlen \in Nat /\ IsFiles(st.ref, st.rfb) /\ st.fault = FALSE

\* The lists of the areas have every cached block once.
InArea(blocks, a) == {b \in DOMAIN blocks : blocks[b].fidx = a}
ListsOK(lists, blocks) ==
    \A a \in 0 .. Areas - 1 : ListsOnce(lists[a], InArea(blocks, a))

\* The blocks hold, within their size, the last fragments of the records that point to
\* them, and nothing else.
OneEach(recs) == \A i, j \in DOMAIN recs : recs[i].rec = recs[j].rec => i = j
FragsOK(rc, blocks) ==
    /\ \A b \in DOMAIN blocks :
          /\ Room(blocks[b].recs) >= 0
          /\ OneEach(blocks[b].recs)
          /\ \A i \in DOMAIN blocks[b].recs :
                LET e == blocks[b].recs[i]
                IN  e.rec \in DOMAIN rc /\ rc[e.rec].blk = b /\ e.frag = rc[e.rec].nfrags - 1
    /\ \A r \in DOMAIN rc : rc[r].blk # 0 =>
          /\ rc[r].blk \in DOMAIN blocks
          /\ \E i \in DOMAIN blocks[rc[r].blk].recs : blocks[rc[r].blk].recs[i].rec = r

NumbersOK(blocks, blockcount) == \A b \in DOMAIN blocks : b < blockcount

\* Every fragment but the last is in the block of the reference file the rfbmap says.
FilesOK(rc, ref, rfb, blockout) ==
    /\ DOMAIN ref = 1 .. blockout - 1
    /\ \A n \in DOMAIN ref : OneEach(ref[n])
    /\ DOMAIN rfb = {k \in (DOMAIN rc) \X Nat : k[2] + 1 < rc[k[1]].nfrags}
    /\ \A k \in DOMAIN rfb :
          /\ rfb[k] \in DOMAIN ref
          /\ \E i \in DOMAIN ref[rfb[k]] : ref[rfb[k]][i].rec = k[1] /\ ref[rfb[k]][i].frag = k[2]

MaxBlocks == IF MaxCache > Areas THEN MaxCache ELSE Areas + 1
CountOK(blocks, cachecnt) ==
    IsFiniteSet(DOMAIN blocks) /\ cachecnt = Cardinality(DOMAIN blocks) /\ cachecnt <= MaxBlocks

\* The free list has the blocks with enough room, rooms[b] in block b.
FreeFits(free, rooms) ==
    /\ \A i, j \in DOMAIN free : free[i].blk = free[j].blk => i = j
    /\ \A i \in DOMAIN free : /\ free[i].blk \in DOMAIN rooms
                              /\ free[i].bytes = rooms[free[i].blk]
                              /\ free[i].bytes >= FreeTolerance
    /\ \A b \in DOMAIN rooms : rooms[b] >= FreeTolerance => \E i \in DOMAIN free : free[i].blk = b

Rooms(blocks) == [b \in DOMAIN blocks |-> Room(blocks[b].recs)]

Body(st) ==
    /\ IsStore(st)
    /\ ListsOK(st.lists, st.blocks)
    /\ FragsOK(st.rc, st.blocks)
    /\ NumbersOK(st.blocks, st.blockcount)
    /\ FilesOK(st.rc, st.ref, st.rfb, st.blockout)

Sound(st) == Body(st) /\ CountOK(st.blocks, st.cachecnt) /\ FreeFits(st.free, Rooms(st.blocks))

\* A fragment is cached, or in the files.
Cached(st, e) == \E b \in DOMAIN st.blocks : \E i \in DOMAIN st.blocks[b].recs : st.blocks[b].recs[i] = e
Filed(st, e) ==
    /\ <<e.rec, e.frag>> \in DOMAIN st.rfb
    /\ st.rfb[<<e.rec, e.frag>>] \in DOMAIN st.ref
    /\ \E i \in DOMAIN st.ref[st.rfb[<<e.rec, e.frag>>]] : st.ref[st.rfb[<<e.rec, e.frag>>]][i] = e

\* What a call does to the records that are not in X: they may be advanced, and keep all
\* their fragments.
Kept(st, new, X) ==
    /\ DOMAIN new.rc = DOMAIN st.rc
    /\ \A q \in DOMAIN st.rc \ X :
          \/ new.rc[q] = st.rc[q]
          \/ st.rc[q].blk # 0 /\ new.rc[q] = Advanced(st.rc[q])
    /\ \A e : e.rec \notin X /\ Cached(new, e) => Cached(st, e)
    /\ \A e : e.rec \notin X /\ Cached(st, e) => Cached(new, e) \/ Filed(new, e)
    /\ \A e : Filed(st, e) => Filed(new, e)

-----------------------------------------------------------------------------
(* Rooms of blocks. *)

\* The sizes of the fragments of a block.
LEMMA SizesFacts ==
    ASSUME BlockSize \in Nat, RecEnt \in Nat, NEW recs \in Seq(Fragment)
    PROVE  LET sizes == [i \in DOMAIN recs |-> recs[i].size]
           IN  /\ sizes \in Seq(Nat) /\ Len(sizes) = Len(recs)
               /\ \A i \in 1 .. Len(recs) : sizes[i] = recs[i].size /\ recs[i].size \in Nat \ {0}
               /\ Room(recs) = BlockSize - Len(recs) * RecEnt - Total(sizes)
               /\ Total(sizes) \in Nat
               /\ Room(recs) \in Int
  <1> DEFINE sizes == [i \in DOMAIN recs |-> recs[i].size]
  <1>1. Len(recs) \in Nat /\ DOMAIN recs = 1 .. Len(recs)
    OBVIOUS
  <1>2. \A i \in 1 .. Len(recs) : recs[i] \in Fragment
    OBVIOUS
  <1>3. \A i \in 1 .. Len(recs) : recs[i].size \in Nat \ {0}
    BY <1>2 DEF Fragment
  <1>4. sizes = [i \in 1 .. Len(recs) |-> recs[i].size]
    BY <1>1
  <1>5. sizes \in Seq(Nat) /\ Len(sizes) = Len(recs)
    BY <1>1, <1>3, <1>4
  <1>6. Room(recs) = BlockSize - Len(recs) * RecEnt - Total(sizes)
    BY DEF Room
  <1> HIDE DEF sizes
  <1>7. Total(sizes) \in Nat
    BY <1>5, TotalType
  <1>8. Room(recs) \in Int
    BY <1>1, <1>6, <1>7
  <1> QED
    BY <1>3, <1>4, <1>5, <1>6, <1>7, <1>8 DEF sizes

\* An empty block has all the room.
LEMMA RoomOfNone ==
    ASSUME BlockSize \in Nat, RecEnt \in Nat
    PROVE  Room(<<>>) = BlockSize
  <1> DEFINE sizes == [i \in DOMAIN <<>> |-> <<>>[i].size]
  <1>1. <<>> \in Seq(Fragment) /\ Len(<<>>) = 0
    OBVIOUS
  <1>2. sizes \in Seq(Nat) /\ Len(sizes) = 0 /\ Room(<<>>) = BlockSize - 0 * RecEnt - Total(sizes)
    BY <1>1, SizesFacts
  <1> HIDE DEF sizes
  <1>3. sizes = <<>>
    BY <1>2
  <1> QED
    BY <1>2, <1>3, TotalNone

\* A fragment more.
LEMMA RoomAppend ==
    ASSUME BlockSize \in Nat, RecEnt \in Nat, NEW recs \in Seq(Fragment), NEW e \in Fragment
    PROVE  Room(Append(recs, e)) = Room(recs) - e.size - RecEnt
  <1> DEFINE new == Append(recs, e)
             s == [i \in DOMAIN recs |-> recs[i].size]
             t == [i \in DOMAIN new |-> new[i].size]
  <1>1. /\ new \in Seq(Fragment) /\ Len(new) = Len(recs) + 1 /\ Len(recs) \in Nat
        /\ new[Len(recs) + 1] = e /\ \A i \in 1 .. Len(recs) : new[i] = recs[i]
    OBVIOUS
  <1> HIDE DEF new
  <1>2. /\ s \in Seq(Nat) /\ Len(s) = Len(recs) /\ \A i \in 1 .. Len(recs) : s[i] = recs[i].size
        /\ Room(recs) = BlockSize - Len(recs) * RecEnt - Total(s) /\ Total(s) \in Nat
    BY SizesFacts
  <1>3. /\ t \in Seq(Nat) /\ Len(t) = Len(new) /\ \A i \in 1 .. Len(new) : t[i] = new[i].size
        /\ Room(new) = BlockSize - Len(new) * RecEnt - Total(t)
    BY <1>1, SizesFacts
  <1> HIDE DEF s, t
  <1>4. e.size \in Nat
    BY DEF Fragment
  <1>5. t = Append(s, e.size)
    <2> DEFINE u == Append(s, e.size)
    <2>1. /\ u \in Seq(Nat) /\ Len(u) = Len(s) + 1 /\ u[Len(s) + 1] = e.size
          /\ \A i \in 1 .. Len(s) : u[i] = s[i]
      BY <1>2, <1>4
    <2> HIDE DEF u
    <2>2. ASSUME NEW i \in 1 .. Len(t) PROVE t[i] = u[i]
      <3>1. i \in 1 .. Len(new) /\ t[i] = new[i].size
        BY <1>3
      <3>2. CASE i = Len(recs) + 1
        BY <1>1, <1>2, <2>1, <3>1, <3>2
      <3>3. CASE i # Len(recs) + 1
        <4>1. i \in 1 .. Len(recs)
          BY <1>1, <3>1, <3>3
        <4> QED
          BY <1>1, <1>2, <2>1, <3>1, <4>1
      <3> QED
        BY <3>2, <3>3
    <2> QED
      BY <1>1, <1>2, <1>3, <2>1, <2>2, SameList DEF u
  <1>6. Total(t) = Total(s) + e.size
    BY <1>2, <1>4, <1>5, TotalAppend
  <1>7. (Len(recs) + 1) * RecEnt = Len(recs) * RecEnt + RecEnt /\ Len(recs) * RecEnt \in Nat
    BY <1>1
  <1> QED
    BY <1>1, <1>2, <1>3, <1>4, <1>6, <1>7 DEF new

\* A fragment less.
LEMMA RoomRemove ==
    ASSUME BlockSize \in Nat, RecEnt \in Nat, NEW recs \in Seq(Fragment), NEW k \in 1 .. Len(recs)
    PROVE  /\ Room(RemoveAt(recs, k)) = Room(recs) + recs[k].size + RecEnt
           /\ RemoveAt(recs, k) \in Seq(Fragment)
  <1> DEFINE new == RemoveAt(recs, k)
             s == [i \in DOMAIN recs |-> recs[i].size]
             t == [i \in DOMAIN new |-> new[i].size]
  <1>1. /\ new \in Seq(Fragment) /\ Len(new) = Len(recs) - 1 /\ Len(recs) \in Nat
        /\ \A i \in 1 .. Len(recs) - 1 : new[i] = IF i < k THEN recs[i] ELSE recs[i + 1]
    <2>1. Len(recs) \in Nat
      OBVIOUS
    <2> QED
      BY <2>1, CutOut
  <1> HIDE DEF new
  <1>2. /\ s \in Seq(Nat) /\ Len(s) = Len(recs) /\ \A i \in 1 .. Len(recs) : s[i] = recs[i].size
        /\ Room(recs) = BlockSize - Len(recs) * RecEnt - Total(s) /\ Total(s) \in Nat
    BY SizesFacts
  <1>3. /\ t \in Seq(Nat) /\ Len(t) = Len(new) /\ \A i \in 1 .. Len(new) : t[i] = new[i].size
        /\ Room(new) = BlockSize - Len(new) * RecEnt - Total(t) /\ Total(t) \in Nat
    BY <1>1, SizesFacts
  <1> HIDE DEF s, t
  <1>4. /\ RemoveAt(s, k) \in Seq(Nat) /\ Len(RemoveAt(s, k)) = Len(s) - 1
        /\ \A i \in 1 .. Len(s) - 1 : RemoveAt(s, k)[i] = IF i < k THEN s[i] ELSE s[i + 1]
    BY <1>2, CutOut
  <1>5. ASSUME NEW i \in 1 .. Len(recs) - 1 PROVE t[i] = RemoveAt(s, k)[i]
    <2>1. i \in 1 .. Len(new) /\ i \in 1 .. Len(recs) /\ i + 1 \in 1 .. Len(recs)
      BY <1>1
    <2> QED
      BY <1>1, <1>2, <1>3, <1>4, <2>1
  <1>6. t = RemoveAt(s, k)
    BY <1>1, <1>2, <1>3, <1>4, <1>5, SameList, ZenonT(30)
  <1>7. Total(t) + s[k] = Total(s)
    BY <1>2, <1>6, TotalRemove
  <1>8. PICK m \in Nat : m = Len(recs) * RecEnt /\ (Len(recs) - 1) * RecEnt = m - RecEnt
    BY <1>1
  <1>9. s[k] = recs[k].size /\ s[k] \in Nat
    BY <1>2
  <1>10. Room(recs) = BlockSize - m - Total(s) /\ Room(new) = BlockSize - (m - RecEnt) - Total(t)
    BY <1>1, <1>2, <1>3, <1>8
  <1>11. Room(new) = Room(recs) + recs[k].size + RecEnt
    <2>1. m \in Nat /\ Total(s) \in Nat /\ Total(t) \in Nat /\ recs[k].size \in Nat
      BY <1>2, <1>3, <1>8, <1>9
    <2>2. Total(s) = Total(t) + recs[k].size
      BY <1>7, <1>9
    <2> QED
      BY <1>10, <2>1, <2>2
  <1> QED
    BY <1>1, <1>11 DEF new

\* A fragment of another size.
LEMMA RoomSet ==
    ASSUME BlockSize \in Nat, RecEnt \in Nat, NEW recs \in Seq(Fragment), NEW k \in 1 .. Len(recs),
           NEW e \in Fragment
    PROVE  /\ Room([recs EXCEPT ![k] = e]) = Room(recs) + recs[k].size - e.size
           /\ [recs EXCEPT ![k] = e] \in Seq(Fragment) /\ Len([recs EXCEPT ![k] = e]) = Len(recs)
  <1> DEFINE new == [recs EXCEPT ![k] = e]
             s == [i \in DOMAIN recs |-> recs[i].size]
             t == [i \in DOMAIN new |-> new[i].size]
  <1>1. /\ new \in Seq(Fragment) /\ Len(new) = Len(recs) /\ Len(recs) \in Nat
        /\ \A i \in 1 .. Len(recs) : new[i] = IF i = k THEN e ELSE recs[i]
    OBVIOUS
  <1> HIDE DEF new
  <1>2. /\ s \in Seq(Nat) /\ Len(s) = Len(recs) /\ \A i \in 1 .. Len(recs) : s[i] = recs[i].size
        /\ Room(recs) = BlockSize - Len(recs) * RecEnt - Total(s) /\ Total(s) \in Nat
    BY SizesFacts
  <1>3. /\ t \in Seq(Nat) /\ Len(t) = Len(new) /\ \A i \in 1 .. Len(new) : t[i] = new[i].size
        /\ Room(new) = BlockSize - Len(new) * RecEnt - Total(t) /\ Total(t) \in Nat
    BY <1>1, SizesFacts
  <1> HIDE DEF s, t
  <1>4. k \in 1 .. Len(s) /\ Len(t) = Len(s) /\ \A i \in 1 .. Len(s) : i # k => t[i] = s[i]
    BY <1>1, <1>2, <1>3
  <1>5. Total(t) + s[k] = Total(s) + t[k]
    BY <1>2, <1>3, <1>4, TotalSet
  <1>6. s[k] = recs[k].size /\ t[k] = e.size /\ s[k] \in Nat /\ t[k] \in Nat
    BY <1>1, <1>2, <1>3, SMTT(30)
  <1>7. PICK m \in Nat : m = Len(recs) * RecEnt
    BY <1>1
  <1>8. Room(recs) = BlockSize - m - Total(s) /\ Room(new) = BlockSize - m - Total(t)
    BY <1>1, <1>2, <1>3, <1>7
  <1>9. Room(new) = Room(recs) + recs[k].size - e.size
    <2>1. /\ m \in Nat /\ Total(s) \in Nat /\ Total(t) \in Nat
          /\ recs[k].size \in Nat /\ e.size \in Nat
      BY <1>2, <1>3, <1>6, <1>7
    <2>2. Total(t) + recs[k].size = Total(s) + e.size
      BY <1>5, <1>6
    <2> QED
      BY <1>8, <2>1, <2>2
  <1> QED
    BY <1>1, <1>9 DEF new

\* A fragment takes its size and its entry.
LEMMA RoomLess ==
    ASSUME BlockSize \in Nat, RecEnt \in Nat, NEW recs \in Seq(Fragment)
    PROVE  /\ Room(recs) \in Int /\ Room(recs) <= BlockSize
           /\ \A k \in 1 .. Len(recs) : Room(recs) + recs[k].size + RecEnt <= BlockSize
  <1>1. ASSUME NEW q \in Seq(Fragment) PROVE Room(q) \in Int /\ Room(q) <= BlockSize
    <2> DEFINE sizes == [i \in DOMAIN q |-> q[i].size]
    <2>1. /\ Total(sizes) \in Nat /\ Room(q) = BlockSize - Len(q) * RecEnt - Total(sizes)
          /\ Room(q) \in Int
      BY SizesFacts
    <2>2. Len(q) * RecEnt \in Nat
      OBVIOUS
    <2> QED
      BY <2>1, <2>2
  <1>2. ASSUME NEW k \in 1 .. Len(recs) PROVE Room(recs) + recs[k].size + RecEnt <= BlockSize
    BY <1>1, RoomRemove
  <1> QED
    BY <1>1, <1>2

\* The constants of the blocks.
LEMMA BlockNumbers ==
    /\ BlockSize \in Nat \ {0} /\ RecEnt \in Nat \ {0} /\ Areas \in Nat \ {0} /\ MaxCache \in Nat \ {0}
    /\ BlockSize > RecEnt + 1
    /\ FragMax = BlockSize - RecEnt /\ FragMax \in Nat \ {0, 1} /\ FreeTolerance = RecEnt + 1
  BY BlocksAssumption DEF FragMax, FreeTolerance

-----------------------------------------------------------------------------
(* The free list. *)

\* Without one of its entries it fits the other blocks.
LEMMA FreeCut ==
    ASSUME NEW free \in Seq(FreeEntry), NEW rooms, FreeFits(free, rooms), NEW k \in DOMAIN free
    PROVE  /\ RemoveAt(free, k) \in Seq(FreeEntry)
           /\ FreeFits(RemoveAt(free, k), WithoutKey(rooms, free[k].blk))
  <1> DEFINE new == RemoveAt(free, k)
             less == WithoutKey(rooms, free[k].blk)
             From(i) == IF i < k THEN i ELSE i + 1
  <1>1. Len(free) \in Nat /\ DOMAIN free = 1 .. Len(free) /\ k \in 1 .. Len(free) /\ k \in Nat
    OBVIOUS
  <1>2. /\ new \in Seq(FreeEntry) /\ Len(new) = Len(free) - 1
        /\ \A i \in 1 .. Len(free) - 1 : new[i] = free[From(i)]
    <2>1. /\ new \in Seq(FreeEntry) /\ Len(new) = Len(free) - 1
          /\ \A i \in 1 .. Len(free) - 1 : new[i] = IF i < k THEN free[i] ELSE free[i + 1]
      BY Zenon, <1>1, CutOut
    <2> HIDE DEF new
    <2> QED
      BY <2>1
  <1>3. DOMAIN less = DOMAIN rooms \ {free[k].blk} /\ \A b \in DOMAIN less : less[b] = rooms[b]
    BY DEF WithoutKey
  <1> HIDE DEF new, less
  <1>4. DOMAIN new = 1 .. Len(free) - 1
    BY <1>1, <1>2
  <1>5. ASSUME NEW i \in DOMAIN new PROVE From(i) \in DOMAIN free /\ From(i) # k
    <2>1. i \in Nat /\ 1 <= i /\ i <= Len(free) - 1
      BY <1>1, <1>4
    <2>2. CASE i < k
      BY <1>1, <2>1, <2>2
    <2>3. CASE ~ (i < k)
      <3>1. i + 1 # k /\ i + 1 \in 1 .. Len(free)
        BY <1>1, <2>1, <2>3
      <3> QED
        BY <1>1, <2>3, <3>1
    <2> QED
      BY <2>2, <2>3
  <1>6. ASSUME NEW i \in DOMAIN new, NEW j \in DOMAIN new, new[i].blk = new[j].blk PROVE i = j
    <2>1. From(i) = From(j)
      <3>1. From(i) \in DOMAIN free /\ From(j) \in DOMAIN free
        BY <1>5
      <3>2. new[i] = free[From(i)] /\ new[j] = free[From(j)]
        BY <1>2, <1>4
      <3> HIDE DEF From
      <3> QED
        BY <1>6, <3>1, <3>2 DEF FreeFits
    <2> QED
      BY <1>1, <1>4, <2>1
  <1>7. ASSUME NEW i \in DOMAIN new
        PROVE  /\ new[i].blk \in DOMAIN less /\ new[i].bytes = less[new[i].blk]
               /\ new[i].bytes >= FreeTolerance
    <2>1. new[i] = free[From(i)] /\ From(i) \in DOMAIN free /\ From(i) # k
      BY <1>2, <1>4, <1>5
    <2>2. free[From(i)].blk # free[k].blk
      BY <2>1 DEF FreeFits
    <2> HIDE DEF From
    <2> QED
      BY <1>3, <2>1, <2>2 DEF FreeFits
  <1>8. ASSUME NEW b \in DOMAIN less, less[b] >= FreeTolerance
        PROVE  \E i \in DOMAIN new : new[i].blk = b
    <2>1. PICK i \in DOMAIN free : free[i].blk = b
      BY <1>3, <1>8 DEF FreeFits
    <2>2. i # k
      BY <1>3, <2>1
    <2> DEFINE j == IF i < k THEN i ELSE i - 1
    <2>3. j \in DOMAIN new /\ From(j) = i
      BY <1>1, <1>4, <2>2
    <2>4. new[j].blk = b
      BY <1>2, <1>4, <2>1, <2>3
    <2> QED
      BY <2>3, <2>4
  <1> QED
    BY <1>2, <1>6, <1>7, <1>8 DEF FreeFits, new, less

\* A block without an entry may go.
LEMMA FreeNone ==
    ASSUME NEW free, NEW rooms, FreeFits(free, rooms), NEW b,
           \A i \in DOMAIN free : free[i].blk # b
    PROVE  FreeFits(free, WithoutKey(rooms, b))
  <1> DEFINE less == WithoutKey(rooms, b)
  <1>1. DOMAIN less = DOMAIN rooms \ {b} /\ \A c \in DOMAIN less : less[c] = rooms[c]
    BY DEF WithoutKey
  <1> HIDE DEF less
  <1>2. FreeFits(free, less)
    BY <1>1 DEF FreeFits
  <1> QED
    BY <1>2 DEF less

\* A new block with enough room comes first.
LEMMA FreePut ==
    ASSUME NEW free \in Seq(FreeEntry), NEW rooms, FreeFits(free, rooms), NEW e \in FreeEntry,
           e.blk \notin DOMAIN rooms, e.bytes >= FreeTolerance
    PROVE  /\ <<e>> \o free \in Seq(FreeEntry)
           /\ FreeFits(<<e>> \o free, With(rooms, e.blk, e.bytes))
  <1> DEFINE new == <<e>> \o free
             more == With(rooms, e.blk, e.bytes)
  <1>1. Len(free) \in Nat /\ DOMAIN free = 1 .. Len(free)
    OBVIOUS
  <1>2. /\ new \in Seq(FreeEntry) /\ Len(new) = Len(free) + 1 /\ new[1] = e
        /\ \A i \in 2 .. Len(free) + 1 : new[i] = free[i - 1]
    <2>1. <<e>> \in Seq(FreeEntry) /\ Len(<<e>>) = 1 /\ <<e>>[1] = e
      OBVIOUS
    <2> QED
      BY <1>1, <2>1
  <1>3. /\ DOMAIN more = DOMAIN rooms \cup {e.blk} /\ more[e.blk] = e.bytes
        /\ \A b \in DOMAIN rooms : more[b] = rooms[b]
    BY DEF With
  <1> HIDE DEF new, more
  <1>4. DOMAIN new = 1 .. Len(free) + 1
    BY <1>1, <1>2
  <1>5. \A i \in DOMAIN new : i # 1 => i - 1 \in DOMAIN free /\ new[i] = free[i - 1]
    BY <1>1, <1>2, <1>4
  <1>6. \A i \in DOMAIN free : free[i].blk # e.blk
    BY DEF FreeFits
  <1>7. ASSUME NEW i \in DOMAIN new, NEW j \in DOMAIN new, new[i].blk = new[j].blk PROVE i = j
    <2>1. CASE i = 1 \/ j = 1
      BY <1>2, <1>5, <1>6, <1>7, <2>1
    <2>2. CASE i # 1 /\ j # 1
      <3>1. i - 1 = j - 1
        BY <1>5, <1>7, <2>2 DEF FreeFits
      <3> QED
        BY <1>1, <1>4, <3>1
    <2> QED
      BY <2>1, <2>2
  <1>8. ASSUME NEW i \in DOMAIN new
        PROVE  /\ new[i].blk \in DOMAIN more /\ new[i].bytes = more[new[i].blk]
               /\ new[i].bytes >= FreeTolerance
    <2>1. CASE i = 1
      BY <1>2, <1>3, <2>1
    <2>2. CASE i # 1
      BY <1>3, <1>5, <2>2 DEF FreeFits
    <2> QED
      BY <2>1, <2>2
  <1>9. ASSUME NEW b \in DOMAIN more, more[b] >= FreeTolerance
        PROVE  \E i \in DOMAIN new : new[i].blk = b
    <2>1. CASE b = e.blk
      BY <1>1, <1>2, <1>4, <2>1
    <2>2. CASE b # e.blk
      <3>1. PICK i \in DOMAIN free : free[i].blk = b
        BY <1>3, <1>9, <2>2 DEF FreeFits
      <3>2. i + 1 \in 2 .. Len(free) + 1 /\ i + 1 \in DOMAIN new /\ (i + 1) - 1 = i
        BY <1>1, <1>4
      <3> QED
        BY <1>2, <3>1, <3>2
    <2> QED
      BY <2>1, <2>2
  <1> QED
    BY <1>2, <1>7, <1>8, <1>9 DEF FreeFits, new, more

\* One with too little room has no entry.
LEMMA FreeSmall ==
    ASSUME NEW free \in Seq(FreeEntry), NEW rooms, FreeFits(free, rooms), NEW b, NEW v \in Int,
           b \notin DOMAIN rooms, v < FreeTolerance
    PROVE  FreeFits(free, With(rooms, b, v))
  <1> DEFINE more == With(rooms, b, v)
  <1>1. /\ DOMAIN more = DOMAIN rooms \cup {b} /\ more[b] = v
        /\ \A c \in DOMAIN rooms : more[c] = rooms[c]
    BY DEF With
  <1> HIDE DEF more
  <1>2. ~ (v >= FreeTolerance)
    BY BlockNumbers
  <1>3. \A i \in DOMAIN free : free[i].blk \in DOMAIN rooms
    BY DEF FreeFits
  <1>4. \A c \in DOMAIN more : more[c] >= FreeTolerance => c \in DOMAIN rooms
    BY <1>1, <1>2
  <1>5. FreeFits(free, more)
    BY <1>1, <1>3, <1>4 DEF FreeFits
  <1> QED
    BY <1>5 DEF more

\* A key that is taken away and put back.
LEMMA KeyAgain ==
    ASSUME NEW f, NEW k \in DOMAIN f, NEW v
    PROVE  With(WithoutKey(f, k), k, v) = [x \in DOMAIN f |-> IF x = k THEN v ELSE f[x]]
  BY DEF With, WithoutKey

\* freelist_del
LEMMA FreelistDelFacts ==
    ASSUME NEW st, IsStore(st), NEW rooms, FreeFits(st.free, rooms), NEW b
    PROVE  LET new == FreelistDel(st, b)
           IN  /\ new = [st EXCEPT !.free = new.free] /\ new.free \in Seq(FreeEntry)
               /\ FreeFits(new.free, WithoutKey(rooms, b))
  <1> DEFINE new == FreelistDel(st, b)
             at == {i \in 1 .. Len(st.free) : st.free[i].blk = b}
  <1>1. st.free \in Seq(FreeEntry) /\ DOMAIN st.free = 1 .. Len(st.free) /\ "free" \in DOMAIN st
    BY DEF IsStore, HasFields, Fields, HasFields, Fields
  <1>2. new = [st EXCEPT !.free = IF at # {} THEN RemoveAt(st.free, Min(at)) ELSE st.free]
    <2>1. RemoveFirstMatch(st.free, LAMBDA e : e.blk = b) =
            IF at # {} THEN RemoveAt(st.free, Min(at)) ELSE st.free
      BY DEF RemoveFirstMatch, SelectInSeq
    <2> QED
      BY <2>1 DEF FreelistDel
  <1> HIDE DEF new, at
  <1>3. CASE at = {}
    <2>1. new.free = st.free /\ new = [st EXCEPT !.free = new.free]
      BY <1>1, <1>2, <1>3
    <2>2. \A i \in DOMAIN st.free : st.free[i].blk # b
      BY <1>1, <1>3 DEF at
    <2>3. FreeFits(st.free, WithoutKey(rooms, b))
      BY <2>2, FreeNone
    <2> QED
      BY <1>1, <2>1, <2>3 DEF new
  <1>4. CASE at # {}
    <2>1. new.free = RemoveAt(st.free, Min(at)) /\ new = [st EXCEPT !.free = new.free]
      BY <1>1, <1>2, <1>4
    <2>2. at \subseteq Nat
      BY DEF at
    <2>3. Min(at) \in at
      BY <1>4, <2>2, MinIsLeast
    <2>4. Min(at) \in DOMAIN st.free /\ st.free[Min(at)].blk = b
      BY <1>1, <2>3 DEF at
    <2>5. /\ RemoveAt(st.free, Min(at)) \in Seq(FreeEntry)
          /\ FreeFits(RemoveAt(st.free, Min(at)), WithoutKey(rooms, b))
      BY <1>1, <2>4, FreeCut
    <2> QED
      BY <2>1, <2>5 DEF new
  <1> QED
    BY <1>3, <1>4

\* freelist_add of a block that is not cached yet
LEMMA AddToFreeNew ==
    ASSUME NEW st, IsStore(st), NEW rooms, FreeFits(st.free, rooms), NEW b \in Nat,
           b \notin DOMAIN rooms, NEW fidx \in 0 .. Areas - 1, NEW bytes \in Nat, bytes < BlockSize + 2
    PROVE  LET new == AddToFree(st, b, fidx, bytes, FALSE)
           IN  /\ new = [st EXCEPT !.free = new.free] /\ new.free \in Seq(FreeEntry)
               /\ FreeFits(new.free, With(rooms, b, bytes))
  <1> DEFINE new == AddToFree(st, b, fidx, bytes, FALSE)
             entry == [blk |-> b, fidx |-> fidx, bytes |-> bytes]
  <1>1. st.free \in Seq(FreeEntry) /\ "free" \in DOMAIN st
    BY DEF IsStore, HasFields, Fields
  <1>2. ~ (bytes >= FragMax + RecEnt + 2)
    BY BlockNumbers
  <1>3. new = IF bytes < FreeTolerance THEN st ELSE [st EXCEPT !.free = <<entry>> \o @]
    BY <1>2 DEF AddToFree
  <1> HIDE DEF new
  <1>4. CASE bytes < FreeTolerance
    <2>1. new = st /\ st = [st EXCEPT !.free = st.free]
      BY <1>1, <1>3, <1>4 DEF IsStore, HasFields
    <2>2. FreeFits(st.free, With(rooms, b, bytes))
      BY <1>1, <1>4, FreeSmall
    <2> QED
      BY <1>1, <2>1, <2>2 DEF new
  <1>5. CASE ~ (bytes < FreeTolerance)
    <2>1. entry \in FreeEntry /\ entry.blk = b /\ entry.bytes = bytes /\ bytes >= FreeTolerance
      BY <1>5, BlockNumbers DEF FreeEntry
    <2>2. /\ <<entry>> \o st.free \in Seq(FreeEntry)
          /\ FreeFits(<<entry>> \o st.free, With(rooms, b, bytes))
      BY <1>1, <2>1, FreePut
    <2> HIDE DEF entry
    <2>3. new.free = <<entry>> \o st.free /\ new = [st EXCEPT !.free = new.free]
      BY <1>1, <1>3, <1>5
    <2> QED
      BY <2>2, <2>3 DEF new
  <1> QED
    BY <1>4, <1>5

\* The free list, and nothing else, is changed so that it fits some rooms.
FreeListAfter(st, new, rooms) ==
    new = [st EXCEPT !.free = new.free] /\ new.free \in Seq(FreeEntry) /\ FreeFits(new.free, rooms)

RoomAt(rooms, b, v) == [x \in DOMAIN rooms |-> IF x = b THEN v ELSE rooms[x]]

\* freelist_add of a block whose room has changed
LEMMA AddToFreeAgain ==
    ASSUME NEW st, IsStore(st), NEW rooms, FreeFits(st.free, rooms), NEW b \in DOMAIN rooms, b \in Nat,
           NEW fidx \in 0 .. Areas - 1, NEW bytes \in Nat, bytes < BlockSize + 2
    PROVE  FreeListAfter(st, AddToFree(st, b, fidx, bytes, TRUE), RoomAt(rooms, b, bytes))
  <1> DEFINE new == AddToFree(st, b, fidx, bytes, TRUE)
             old == {i \in DOMAIN st.free : st.free[i].blk = b}
             entry == [blk |-> b, fidx |-> fidx, bytes |-> bytes]
             less == WithoutKey(rooms, b)
             all == RoomAt(rooms, b, bytes)
  <1>1. st.free \in Seq(FreeEntry) /\ "free" \in DOMAIN st
    BY DEF IsStore, HasFields, Fields
  <1>2. ~ (bytes >= FragMax + RecEnt + 2)
    BY BlockNumbers
  <1>3. /\ bytes < FreeTolerance => new = FreelistDel(st, b)
        /\ ~ (bytes < FreeTolerance) /\ old = {} => new = [st EXCEPT !.free = <<entry>> \o @]
        /\ ~ (bytes < FreeTolerance) /\ old # {} =>
              \E i \in old : new = [st EXCEPT !.free = <<[@[i] EXCEPT !.bytes = bytes]>> \o RemoveAt(@, i)]
    <2>1. {i \in DOMAIN st.free : TRUE /\ st.free[i].blk = b} = old
      OBVIOUS
    <2> HIDE DEF old
    <2> QED
      BY <1>2, <2>1 DEF AddToFree
  <1> HIDE DEF new, old
  <1>4. b \notin DOMAIN less /\ With(less, b, bytes) = all
    <2>1. With(less, b, bytes) = all
      BY KeyAgain DEF RoomAt
    <2> QED
      BY <2>1 DEF WithoutKey
  <1> HIDE DEF less, all
  <1>5. CASE bytes < FreeTolerance
    <2>1. /\ new = FreelistDel(st, b) /\ new = [st EXCEPT !.free = new.free]
          /\ new.free \in Seq(FreeEntry) /\ FreeFits(new.free, less)
      BY <1>3, <1>5, FreelistDelFacts DEF less
    <2>2. FreeFits(new.free, all)
      BY <1>4, <1>5, <2>1, FreeSmall
    <2> QED
      BY <2>1, <2>2 DEF new, all, FreeListAfter
  <1>6. CASE ~ (bytes < FreeTolerance) /\ old = {}
    <2>1. entry \in FreeEntry /\ entry.blk = b /\ entry.bytes = bytes /\ bytes >= FreeTolerance
      BY <1>6, BlockNumbers DEF FreeEntry
    <2>2. FreeFits(st.free, less)
      BY <1>6, FreeNone DEF old, less
    <2>3. <<entry>> \o st.free \in Seq(FreeEntry) /\ FreeFits(<<entry>> \o st.free, all)
      BY <1>1, <1>4, <2>1, <2>2, FreePut
    <2> HIDE DEF entry
    <2>4. new.free = <<entry>> \o st.free /\ new = [st EXCEPT !.free = new.free]
      BY <1>1, <1>3, <1>6
    <2> QED
      BY <2>3, <2>4 DEF new, all, FreeListAfter
  <1>7. CASE ~ (bytes < FreeTolerance) /\ old # {}
    <2>1. PICK i \in old : new = [st EXCEPT !.free = <<[@[i] EXCEPT !.bytes = bytes]>> \o RemoveAt(@, i)]
      BY <1>3, <1>7
    <2>2. i \in DOMAIN st.free /\ st.free[i].blk = b /\ st.free[i] \in FreeEntry
      BY <1>1, <2>1 DEF old
    <2>3. /\ RemoveAt(st.free, i) \in Seq(FreeEntry)
          /\ FreeFits(RemoveAt(st.free, i), less)
      BY <1>1, <2>2, FreeCut DEF less
    <2> DEFINE e == [st.free[i] EXCEPT !.bytes = bytes]
    <2>4. e \in FreeEntry /\ e.blk = b /\ e.bytes = bytes /\ bytes >= FreeTolerance
      BY <1>7, <2>2, BlockNumbers DEF FreeEntry
    <2> HIDE DEF e
    <2>5. /\ <<e>> \o RemoveAt(st.free, i) \in Seq(FreeEntry)
          /\ FreeFits(<<e>> \o RemoveAt(st.free, i), all)
      BY <1>4, <2>3, <2>4, FreePut
    <2>6. new.free = <<e>> \o RemoveAt(st.free, i) /\ new = [st EXCEPT !.free = new.free]
      BY <1>1, <2>1 DEF e
    <2> QED
      BY <2>5, <2>6 DEF new, all, FreeListAfter
  <1> QED
    BY <1>5, <1>6, <1>7

\* freeblock_get: a block with the room asked for.
LEMMA FreeBlockForFacts ==
    ASSUME NEW st, IsStore(st), NEW rooms, FreeFits(st.free, rooms), NEW fidx, NEW size \in Nat
    PROVE  LET b == FreeBlockFor(st, fidx, size)
           IN  b # 0 => \E i \in DOMAIN st.free : /\ st.free[i].blk = b /\ b \in DOMAIN rooms
                                                  /\ rooms[b] >= size + RecEnt
  <1> DEFINE fits == {i \in DOMAIN st.free :
                        st.free[i].fidx = fidx /\ st.free[i].bytes >= size + RecEnt}
             best == {i \in fits : \A j \in fits :
                        \/ st.free[i].bytes < st.free[j].bytes
                        \/ st.free[i].bytes = st.free[j].bytes /\ i =< j}
             sizes == {st.free[i].bytes : i \in fits}
  <1>1. FreeBlockFor(st, fidx, size) = IF fits = {} THEN 0 ELSE st.free[CHOOSE i \in best : TRUE].blk
    BY DEF FreeBlockFor
  <1>2. st.free \in Seq(FreeEntry)
    BY DEF IsStore
  <1>3. \A i \in DOMAIN st.free : i \in Nat /\ st.free[i].bytes \in Nat
    <2>1. DOMAIN st.free = 1 .. Len(st.free) /\ Len(st.free) \in Nat
      BY <1>2
    <2>2. \A i \in DOMAIN st.free : st.free[i] \in FreeEntry
      BY <1>2
    <2> QED
      BY <2>1, <2>2 DEF FreeEntry
  <1>4. ASSUME fits # {} PROVE best # {}
    <2>1. sizes \subseteq Nat /\ sizes # {}
      BY <1>3, <1>4
    <2>2. PICK v \in sizes : \A w \in sizes : v <= w
      BY <2>1, LeastExists
    <2> DEFINE least == {i \in fits : st.free[i].bytes = v}
    <2>3. least \subseteq Nat /\ least # {}
      BY <1>3, <2>2
    <2>4. PICK i \in least : \A j \in least : i <= j
      BY <2>3, LeastExists
    <2>5. i \in fits /\ st.free[i].bytes = v
      BY <2>4
    <2>6. ASSUME NEW j \in fits
          PROVE  \/ st.free[i].bytes < st.free[j].bytes
                 \/ st.free[i].bytes = st.free[j].bytes /\ i <= j
      <3>1. v <= st.free[j].bytes /\ v \in Nat /\ st.free[j].bytes \in Nat
        BY <1>3, <2>1, <2>2
      <3>2. st.free[j].bytes = v => i <= j
        BY <2>4
      <3>4. st.free[i].bytes \in Nat /\ st.free[j].bytes \in Nat
        BY <2>5, <3>1
      <3>5. st.free[i].bytes <= st.free[j].bytes
        BY <2>5, <3>1
      <3>6. st.free[i].bytes < st.free[j].bytes \/ st.free[i].bytes = st.free[j].bytes
        BY <3>4, <3>5
      <3>7. st.free[i].bytes = st.free[j].bytes => i <= j
        BY <2>5, <3>2
      <3> QED
        BY <3>6, <3>7
    <2> QED
      BY <2>5, <2>6
  <1> HIDE DEF sizes
  <1>5. ASSUME FreeBlockFor(st, fidx, size) # 0
        PROVE  \E i \in fits : st.free[i].blk = FreeBlockFor(st, fidx, size)
    <2>1. fits # {} /\ FreeBlockFor(st, fidx, size) = st.free[CHOOSE i \in best : TRUE].blk
      BY <1>1, <1>5
    <2>2. best # {} /\ best \subseteq fits
      BY <1>4, <2>1
    <2> HIDE DEF best
    <2>3. (CHOOSE i \in best : TRUE) \in best
      BY <2>2
    <2> QED
      BY <2>1, <2>2, <2>3
  <1> QED
    BY <1>5 DEF FreeFits

\* The block is taken.
LEMMA TakeRoomFacts ==
    ASSUME NEW st, IsStore(st), NEW rooms, FreeFits(st.free, rooms), NEW size \in Nat, NEW b,
           \E i \in DOMAIN st.free : st.free[i].blk = b, rooms[b] >= size + RecEnt
    PROVE  FreeListAfter(st, TakeRoom(st, b, size), RoomAt(rooms, b, rooms[b] - size - RecEnt))
  <1> DEFINE new == TakeRoom(st, b, size)
             i == CHOOSE j \in DOMAIN st.free : st.free[j].blk = b
             left == st.free[i].bytes - size - RecEnt
             rest == RemoveAt(st.free, i)
             e == [st.free[i] EXCEPT !.bytes = left]
             less == WithoutKey(rooms, b)
             all == RoomAt(rooms, b, rooms[b] - size - RecEnt)
  <1>1. st.free \in Seq(FreeEntry) /\ "free" \in DOMAIN st
    BY DEF IsStore, HasFields, Fields
  <1>2. new = [st EXCEPT !.free = IF left < FreeTolerance THEN rest ELSE <<e>> \o rest]
    BY DEF TakeRoom
  <1>3. i \in DOMAIN st.free /\ st.free[i].blk = b
    OBVIOUS
  <1> HIDE DEF new, i
  <1>4. b \in DOMAIN rooms /\ st.free[i].bytes = rooms[b] /\ st.free[i] \in FreeEntry
    BY <1>1, <1>3 DEF FreeFits
  <1>5. left = rooms[b] - size - RecEnt /\ left \in Nat
    BY <1>4, BlockNumbers DEF FreeEntry
  <1>6. b \notin DOMAIN less /\ With(less, b, left) = all
    <2>1. With(less, b, left) = [x \in DOMAIN rooms |-> IF x = b THEN left ELSE rooms[x]]
      BY <1>4, KeyAgain
    <2> QED
      BY <1>5, <2>1 DEF WithoutKey, RoomAt
  <1>7. rest \in Seq(FreeEntry) /\ FreeFits(rest, less)
    BY <1>1, <1>3, FreeCut
  <1>8. e \in FreeEntry /\ e.blk = b /\ e.bytes = left
    BY <1>3, <1>4, <1>5 DEF FreeEntry
  <1> HIDE DEF left, rest, e, less, all
  <1>9. CASE left < FreeTolerance
    <2>1. FreeFits(rest, all)
      BY <1>5, <1>6, <1>7, <1>9, FreeSmall
    <2>2. new.free = rest /\ new = [st EXCEPT !.free = new.free]
      BY <1>1, <1>2, <1>9
    <2> QED
      BY <1>7, <2>1, <2>2 DEF new, all, FreeListAfter
  <1>10. CASE ~ (left < FreeTolerance)
    <2>1. left >= FreeTolerance
      BY <1>5, <1>10, BlockNumbers
    <2>2. <<e>> \o rest \in Seq(FreeEntry) /\ FreeFits(<<e>> \o rest, all)
      BY <1>6, <1>7, <1>8, <2>1, FreePut
    <2>3. new.free = <<e>> \o rest /\ new = [st EXCEPT !.free = new.free]
      BY <1>1, <1>2, <1>10
    <2> QED
      BY <2>2, <2>3 DEF new, all, FreeListAfter
  <1> QED
    BY <1>9, <1>10

-----------------------------------------------------------------------------
(* Blocks that are written out. *)

\* The fragments in the blocks, and the rfbmap entries for the i-th of them.
Going(st, order) == UNION {ToSet(st.blocks[order[i]].recs) : i \in DOMAIN order}
EntriesOf(st, order, i) == {<<e.rec, e.frag>> : e \in ToSet(st.blocks[order[i]].recs)}

\* Each is the last one of its record, now and after the others have gone.
AllLast(st, order) ==
    \A i, j \in DOMAIN order :
        \A m \in DOMAIN st.blocks[order[i]].recs, n \in DOMAIN st.blocks[order[j]].recs :
            LET e == st.blocks[order[i]].recs[m]
            IN  /\ e.frag = st.rc[e.rec].nfrags - 1
                /\ e.rec = st.blocks[order[j]].recs[n].rec => i = j /\ m = n

\* The record table and the files, when they have.
RcOut(st, order) ==
    [r \in DOMAIN st.rc |-> IF st.rc[r].blk \in ToSet(order) THEN Advanced(st.rc[r]) ELSE st.rc[r]]
RfbOut(st, order) ==
    [k \in DOMAIN st.rfb \cup {<<e.rec, e.frag>> : e \in Going(st, order)} |->
        IF \E i \in DOMAIN order : k \in EntriesOf(st, order, i)
        THEN st.blockout - 1 + CHOOSE i \in DOMAIN order : k \in EntriesOf(st, order, i)
        ELSE st.rfb[k]]
RefOut(st, order) ==
    [n \in DOMAIN st.ref \cup st.blockout .. st.blockout + Len(order) - 1 |->
        IF n < st.blockout THEN st.ref[n] ELSE st.blocks[order[n - st.blockout + 1]].recs]

\* Cached blocks, each once.
Goes(st, order) == order \in Seq(DOMAIN st.blocks) /\ IsInjective(order)

\* A cached fragment is that of a record which points to its block.
LEMMA CachedFacts ==
    ASSUME NEW st, Body(st), NEW b \in DOMAIN st.blocks, NEW i \in DOMAIN st.blocks[b].recs
    PROVE  /\ st.blocks[b].recs \in Seq(Fragment) /\ st.blocks[b].recs[i] \in Fragment
           /\ b \in Nat \ {0} /\ b < st.blockcount
           /\ st.blocks[b].recs[i].rec \in DOMAIN st.rc
           /\ st.rc[st.blocks[b].recs[i].rec].blk = b
           /\ st.blocks[b].recs[i].frag = st.rc[st.blocks[b].recs[i].rec].nfrags - 1
  <1>1. IsBlocks(st.blocks) /\ FragsOK(st.rc, st.blocks) /\ NumbersOK(st.blocks, st.blockcount)
    BY DEF Body, IsStore
  <1>2. st.blocks[b] \in Block /\ b \in Nat \ {0}
    BY <1>1 DEF IsBlocks
  <1>3. st.blocks[b].recs \in Seq(Fragment)
    BY <1>2 DEF Block
  <1> QED
    BY <1>1, <1>2, <1>3, SMTT(30) DEF FragsOK, NumbersOK

\* What the fragments that go out with their blocks are.
LEMMA GoingFacts ==
    ASSUME NEW st, Body(st), NEW order, Goes(st, order)
    PROVE  /\ Len(order) \in Nat /\ DOMAIN order = 1 .. Len(order)
           /\ AllLast(st, order)
           /\ \A i \in DOMAIN order : /\ order[i] \in DOMAIN st.blocks
                                      /\ \A j \in DOMAIN order : order[i] = order[j] => i = j
           /\ \A e : e \in Going(st, order) <=>
                        \E i \in DOMAIN order : \E m \in DOMAIN st.blocks[order[i]].recs :
                            e = st.blocks[order[i]].recs[m]
           /\ \A i \in DOMAIN order : \A k : k \in EntriesOf(st, order, i) <=>
                        \E m \in DOMAIN st.blocks[order[i]].recs :
                            k = <<st.blocks[order[i]].recs[m].rec, st.blocks[order[i]].recs[m].frag>>
           /\ \A r \in DOMAIN st.rc :
                 (\E e \in Going(st, order) : e.rec = r) <=> st.rc[r].blk \in ToSet(order)
           /\ \A i \in DOMAIN order : \A k \in EntriesOf(st, order, i) :
                 /\ k[1] \in DOMAIN st.rc /\ k = <<k[1], st.rc[k[1]].nfrags - 1>>
                 /\ st.rc[k[1]].blk = order[i]
  <1>1. /\ Len(order) \in Nat /\ DOMAIN order = 1 .. Len(order)
        /\ \A i \in DOMAIN order : order[i] \in DOMAIN st.blocks
        /\ \A i, j \in DOMAIN order : order[i] = order[j] => i = j
    BY DEF Goes, IsInjective
  <1>2. \A e : e \in Going(st, order) <=>
                  \E i \in DOMAIN order : \E m \in DOMAIN st.blocks[order[i]].recs :
                      e = st.blocks[order[i]].recs[m]
    BY DEF Going, ToSet
  <1>3. \A i \in DOMAIN order : \A k : k \in EntriesOf(st, order, i) <=>
                  \E m \in DOMAIN st.blocks[order[i]].recs :
                      k = <<st.blocks[order[i]].recs[m].rec, st.blocks[order[i]].recs[m].frag>>
    BY DEF EntriesOf, ToSet
  <1>4. \A i \in DOMAIN order : \A m \in DOMAIN st.blocks[order[i]].recs :
            LET e == st.blocks[order[i]].recs[m]
            IN  /\ e.rec \in DOMAIN st.rc /\ st.rc[e.rec].blk = order[i]
                /\ e.frag = st.rc[e.rec].nfrags - 1
    BY <1>1, CachedFacts, SMTT(30)
  <1>5. AllLast(st, order)
    <2> SUFFICES ASSUME NEW i \in DOMAIN order, NEW j \in DOMAIN order,
                        NEW m \in DOMAIN st.blocks[order[i]].recs,
                        NEW n \in DOMAIN st.blocks[order[j]].recs
                 PROVE  LET e == st.blocks[order[i]].recs[m]
                        IN  /\ e.frag = st.rc[e.rec].nfrags - 1
                            /\ e.rec = st.blocks[order[j]].recs[n].rec => i = j /\ m = n
      BY DEF AllLast
    <2>1. st.blocks[order[i]].recs[m].frag = st.rc[st.blocks[order[i]].recs[m].rec].nfrags - 1
      BY <1>4
    <2>2. ASSUME st.blocks[order[i]].recs[m].rec = st.blocks[order[j]].recs[n].rec
          PROVE  i = j /\ m = n
      <3>1. i = j
        <4>1. /\ order[i] = st.rc[st.blocks[order[i]].recs[m].rec].blk
              /\ order[j] = st.rc[st.blocks[order[j]].recs[n].rec].blk
          BY <1>4
        <4>2. order[i] = order[j]
          BY <2>2, <4>1
        <4> QED
          BY <1>1, <4>2
      <3>2. OneEach(st.blocks[order[i]].recs)
        BY <1>1 DEF Body, FragsOK
      <3> QED
        BY <2>2, <3>1, <3>2 DEF OneEach
    <2> QED
      BY <2>1, <2>2
  <1>6. ASSUME NEW r \in DOMAIN st.rc
        PROVE  (\E e \in Going(st, order) : e.rec = r) <=> st.rc[r].blk \in ToSet(order)
    <2>1. ASSUME NEW e \in Going(st, order), e.rec = r PROVE st.rc[r].blk \in ToSet(order)
      <3>1. PICK i \in DOMAIN order : \E m \in DOMAIN st.blocks[order[i]].recs :
                      e = st.blocks[order[i]].recs[m]
        BY <1>2
      <3>2. st.rc[r].blk = order[i]
        BY <1>4, <2>1, <3>1
      <3> QED
        BY <3>2 DEF ToSet
    <2>2. ASSUME st.rc[r].blk \in ToSet(order) PROVE \E e \in Going(st, order) : e.rec = r
      <3>1. PICK i \in DOMAIN order : order[i] = st.rc[r].blk
        BY <2>2 DEF ToSet
      <3>2. order[i] \in DOMAIN st.blocks /\ order[i] # 0
        BY <1>1 DEF Body, IsStore, IsBlocks
      <3>3. \E m \in DOMAIN st.blocks[order[i]].recs : st.blocks[order[i]].recs[m].rec = r
        BY <3>1, <3>2 DEF Body, FragsOK
      <3> QED
        BY <1>2, <3>3
    <2> QED
      BY <2>1, <2>2
  <1>7. ASSUME NEW i \in DOMAIN order, NEW k \in EntriesOf(st, order, i)
        PROVE  /\ k[1] \in DOMAIN st.rc /\ k = <<k[1], st.rc[k[1]].nfrags - 1>>
               /\ st.rc[k[1]].blk = order[i]
    <2>1. PICK m \in DOMAIN st.blocks[order[i]].recs :
                k = <<st.blocks[order[i]].recs[m].rec, st.blocks[order[i]].recs[m].frag>>
      BY <1>3
    <2>2. k[1] = st.blocks[order[i]].recs[m].rec /\ k[2] = st.blocks[order[i]].recs[m].frag
      BY <2>1
    <2> QED
      BY <1>4, <2>1, <2>2
  <1> QED
    BY <1>1, <1>2, <1>3, <1>5, <1>6, <1>7

\* cache_block_out, field by field.
LEMMA BlocksOutFields ==
    ASSUME NEW st, Body(st), NEW order, Goes(st, order)
    PROVE  LET new == BlocksOut(st, order)
           IN  /\ new = [st EXCEPT !.rc = new.rc, !.rfb = new.rfb, !.ref = new.ref,
                                   !.blockout = new.blockout]
               /\ new.rc = RcOut(st, order) /\ new.rfb = RfbOut(st, order)
               /\ new.ref = RefOut(st, order) /\ new.blockout = st.blockout + Len(order)
  <1> DEFINE new == BlocksOut(st, order)
             rc == [r \in DOMAIN st.rc |-> IF \E e \in Going(st, order) : e.rec = r
                                           THEN Advanced(st.rc[r]) ELSE st.rc[r]]
             rfb == RfbOut(st, order)
             ref == RefOut(st, order)
  <1>1. new = [st EXCEPT !.rc = rc, !.rfb = rfb, !.ref = ref,
                         !.blockout = st.blockout + Len(order), !.fault = st.fault \/ ~ AllLast(st, order)]
    BY DEF BlocksOut, Going, EntriesOf, AllLast, RfbOut, RefOut
  <1>2. rc = RcOut(st, order)
    BY GoingFacts DEF RcOut
  <1>3. AllLast(st, order) /\ st.fault = FALSE
    BY GoingFacts DEF Body, IsStore
  <1> HIDE DEF new, rc, rfb, ref
  <1>4. new = [st EXCEPT !.rc = rc, !.rfb = rfb, !.ref = ref, !.blockout = st.blockout + Len(order)]
    <2>1. (st.fault \/ ~ AllLast(st, order)) = FALSE
      BY <1>3
    <2>2. HasFields(st)
      BY DEF Body, IsStore
    <2> QED
      BY <1>1, <1>3, <2>1, <2>2 DEF HasFields, Fields
  <1>5. /\ new.rc = rc /\ new.rfb = rfb /\ new.ref = ref /\ new.blockout = st.blockout + Len(order)
        /\ new = [st EXCEPT !.rc = new.rc, !.rfb = new.rfb, !.ref = new.ref,
                                   !.blockout = new.blockout]
    <2>1. HasFields(st)
      BY DEF Body, IsStore
    <2> QED
      BY <1>4, <2>1 DEF HasFields, Fields
  <1> QED
    BY <1>2, <1>5 DEF new, rfb, ref

\* A record that is advanced.
LEMMA AdvancedFacts ==
    ASSUME NEW rec \in RecData
    PROVE  /\ Advanced(rec) \in RecData
           /\ Advanced(rec).nfrags = rec.nfrags + 1 /\ Advanced(rec).bitsize = 0
           /\ Advanced(rec).blk = 0 /\ Advanced(rec).freq = rec.freq
           /\ Advanced(rec).lastdoc = rec.lastdoc
           /\ rec.nfrags \in Nat \ {0}
  <1> DEFINE a == [rec EXCEPT !.nfrags = rec.nfrags + 1]
             b == [a EXCEPT !.bitsize = 0]
             c == [b EXCEPT !.blk = 0]
  <1>1. rec.nfrags \in Nat \ {0} /\ rec.nfrags + 1 \in Nat \ {0}
    BY DEF RecData
  <1>2. /\ a \in RecData /\ a.nfrags = rec.nfrags + 1
        /\ a.freq = rec.freq /\ a.lastdoc = rec.lastdoc
    BY <1>1 DEF RecData
  <1> HIDE DEF a
  <1>3. /\ b \in RecData /\ b.nfrags = rec.nfrags + 1 /\ b.bitsize = 0
        /\ b.freq = rec.freq /\ b.lastdoc = rec.lastdoc
    BY <1>2 DEF RecData
  <1> HIDE DEF b
  <1>4. /\ c \in RecData /\ c.nfrags = rec.nfrags + 1 /\ c.bitsize = 0 /\ c.blk = 0
        /\ c.freq = rec.freq /\ c.lastdoc = rec.lastdoc
    BY <1>3 DEF RecData
  <1>5. Advanced(rec) = c
    BY DEF Advanced, a, b
  <1> HIDE DEF c
  <1> QED
    BY <1>1, <1>4, <1>5

\* The files go on with the blocks, and have their fragments too.
LEMMA BlocksOutFiles ==
    ASSUME NEW st, Body(st), NEW order, Goes(st, order)
    PROVE  LET new == BlocksOut(st, order)
           IN  /\ IsRc(new.rc) /\ DOMAIN new.rc = DOMAIN st.rc
               /\ IsFiles(new.ref, new.rfb) /\ new.blockout \in Nat \ {0}
               /\ FilesOK(new.rc, new.ref, new.rfb, new.blockout)
               /\ \A e : Filed(st, e) => Filed(new, e)
               /\ \A b \in ToSet(order) : \A i \in DOMAIN st.blocks[b].recs :
                     Filed(new, st.blocks[b].recs[i])
  <1> DEFINE new == BlocksOut(st, order)
             keys == {<<e.rec, e.frag>> : e \in Going(st, order)}
  <1>1. /\ new.rc = [r \in DOMAIN st.rc |->
                        IF st.rc[r].blk \in ToSet(order) THEN Advanced(st.rc[r]) ELSE st.rc[r]]
        /\ new.rfb = [k \in DOMAIN st.rfb \cup keys |->
                        IF \E i \in DOMAIN order : k \in EntriesOf(st, order, i)
                        THEN st.blockout - 1
                             + CHOOSE i \in DOMAIN order : k \in EntriesOf(st, order, i)
                        ELSE st.rfb[k]]
        /\ new.ref = [n \in DOMAIN st.ref \cup st.blockout .. st.blockout + Len(order) - 1 |->
                        IF n < st.blockout THEN st.ref[n]
                        ELSE st.blocks[order[n - st.blockout + 1]].recs]
        /\ new.blockout = st.blockout + Len(order)
    <2>1. /\ new.rc = RcOut(st, order) /\ new.rfb = RfbOut(st, order)
          /\ new.ref = RefOut(st, order) /\ new.blockout = st.blockout + Len(order)
      BY Zenon, BlocksOutFields
    <2> HIDE DEF new
    <2> QED
      BY <2>1 DEF RcOut, RfbOut, RefOut
  <1>2. /\ IsRc(st.rc) /\ IsBlocks(st.blocks) /\ IsFiles(st.ref, st.rfb)
        /\ st.blockout \in Nat \ {0} /\ FragsOK(st.rc, st.blocks)
        /\ FilesOK(st.rc, st.ref, st.rfb, st.blockout)
    BY DEF Body, IsStore
  <1>3. /\ Len(order) \in Nat /\ DOMAIN order = 1 .. Len(order)
        /\ \A i \in DOMAIN order : /\ order[i] \in DOMAIN st.blocks
                                   /\ \A j \in DOMAIN order : order[i] = order[j] => i = j
        /\ \A e : e \in Going(st, order) <=>
                     \E i \in DOMAIN order : \E m \in DOMAIN st.blocks[order[i]].recs :
                         e = st.blocks[order[i]].recs[m]
        /\ \A i \in DOMAIN order : \A k : k \in EntriesOf(st, order, i) <=>
                     \E m \in DOMAIN st.blocks[order[i]].recs :
                         k = <<st.blocks[order[i]].recs[m].rec, st.blocks[order[i]].recs[m].frag>>
        /\ \A i \in DOMAIN order : \A k \in EntriesOf(st, order, i) :
              /\ k[1] \in DOMAIN st.rc /\ k = <<k[1], st.rc[k[1]].nfrags - 1>>
              /\ st.rc[k[1]].blk = order[i]
    BY GoingFacts
  <1> HIDE DEF new
  <1>4. \A r \in DOMAIN st.rc : st.rc[r] \in RecData
    BY <1>2 DEF IsRc
  <1>5. DOMAIN new.rc = DOMAIN st.rc /\ IsRc(new.rc)
    <2>1. \A r \in DOMAIN st.rc : new.rc[r] \in RecData
      BY <1>1, <1>4, AdvancedFacts
    <2> QED
      BY <1>1, <1>2, <2>1 DEF IsRc
  <1>6. new.blockout \in Nat \ {0}
    BY <1>1, <1>2, <1>3
  \* The blocks written.
  <1>7. /\ DOMAIN new.ref = 1 .. new.blockout - 1
        /\ \A n \in DOMAIN st.ref : n \in DOMAIN new.ref /\ new.ref[n] = st.ref[n]
        /\ \A i \in DOMAIN order : /\ st.blockout - 1 + i \in DOMAIN new.ref
                                   /\ new.ref[st.blockout - 1 + i] = st.blocks[order[i]].recs
    <2>1. DOMAIN st.ref = 1 .. st.blockout - 1
      BY <1>2 DEF FilesOK
    <2>2. DOMAIN new.ref = 1 .. new.blockout - 1
      BY <1>1, <1>2, <1>3, <2>1
    <2>3. ASSUME NEW n \in DOMAIN st.ref PROVE n \in DOMAIN new.ref /\ new.ref[n] = st.ref[n]
      BY <1>1, <1>2, <2>1
    <2>4. ASSUME NEW i \in DOMAIN order
          PROVE  /\ st.blockout - 1 + i \in DOMAIN new.ref
                 /\ new.ref[st.blockout - 1 + i] = st.blocks[order[i]].recs
      <3>1. /\ st.blockout - 1 + i \in st.blockout .. st.blockout + Len(order) - 1
            /\ ~ (st.blockout - 1 + i < st.blockout)
            /\ (st.blockout - 1 + i) - st.blockout + 1 = i
        BY <1>2, <1>3
      <3> QED
        BY <1>1, <3>1
    <2> QED
      BY <2>2, <2>3, <2>4
  <1>8. \A n \in DOMAIN new.ref : \/ n \in DOMAIN st.ref
                                  \/ \E i \in DOMAIN order : n = st.blockout - 1 + i
    <2> SUFFICES ASSUME NEW n \in DOMAIN new.ref, n \notin DOMAIN st.ref
                 PROVE  \E i \in DOMAIN order : n = st.blockout - 1 + i
      OBVIOUS
    <2> DEFINE i == n - st.blockout + 1
    <2>1. DOMAIN st.ref = 1 .. st.blockout - 1
      BY <1>2 DEF FilesOK
    <2>2. DOMAIN new.ref = 1 .. st.blockout + Len(order) - 1 /\ DOMAIN order = 1 .. Len(order)
      <3>1. new.blockout = st.blockout + Len(order) /\ st.blockout \in Nat /\ Len(order) \in Nat
        BY <1>1, <1>2, <1>3
      <3>2. DOMAIN new.ref = 1 .. new.blockout - 1
        BY <1>7
      <3>3. DOMAIN order = 1 .. Len(order)
        BY <1>3
      <3> QED
        BY <3>1, <3>2, <3>3
    <2>3. n \in 1 .. st.blockout + Len(order) - 1 /\ n \notin 1 .. st.blockout - 1
      BY <2>1, <2>2
    <2>4. i \in 1 .. Len(order) /\ n = st.blockout - 1 + i
      <3> DEFINE o == st.blockout
                 k == Len(order)
      <3>1. o \in Nat \ {0} /\ k \in Nat /\ n \in 1 .. o + k - 1 /\ n \notin 1 .. o - 1
        BY <1>2, <1>3, <2>3
      <3> HIDE DEF o, k
      <3>2. n - o + 1 \in 1 .. k /\ n = o - 1 + (n - o + 1)
        BY <3>1
      <3> QED
        BY <3>2 DEF o, k
    <2> HIDE DEF i
    <2> QED
      BY <2>2, <2>4
  <1>9. \A n \in DOMAIN new.ref : OneEach(new.ref[n]) /\ new.ref[n] \in Seq(Fragment)
    <2> SUFFICES ASSUME NEW n \in DOMAIN new.ref
                 PROVE  OneEach(new.ref[n]) /\ new.ref[n] \in Seq(Fragment)
      OBVIOUS
    <2>1. CASE n \in DOMAIN st.ref
      BY <1>2, <1>7, <2>1 DEF FilesOK, IsFiles
    <2>2. CASE \E i \in DOMAIN order : n = st.blockout - 1 + i
      <3>1. PICK i \in DOMAIN order : n = st.blockout - 1 + i
        BY <2>2
      <3>2. new.ref[n] = st.blocks[order[i]].recs /\ order[i] \in DOMAIN st.blocks
        BY <1>3, <1>7, <3>1
      <3>3. st.blocks[order[i]] \in Block /\ OneEach(st.blocks[order[i]].recs)
        BY <1>2, <3>2 DEF IsBlocks, FragsOK
      <3> QED
        BY <3>2, <3>3 DEF Block
    <2> QED
      BY <1>8, <2>1, <2>2
  \* The entries for their fragments.
  <1>10. ASSUME NEW i \in DOMAIN order, NEW k \in EntriesOf(st, order, i)
         PROVE  k \in DOMAIN new.rfb /\ new.rfb[k] = st.blockout - 1 + i
    <2>1. ASSUME NEW j \in DOMAIN order, k \in EntriesOf(st, order, j) PROVE j = i
      BY <1>3, <2>1
    <2>2. (CHOOSE j \in DOMAIN order : k \in EntriesOf(st, order, j)) = i
      BY <2>1
    <2>3. k \in keys
      BY <1>3
    <2> QED
      BY <1>1, <2>2, <2>3
  <1>11. ASSUME NEW k \in keys PROVE \E i \in DOMAIN order : k \in EntriesOf(st, order, i)
    BY <1>3
  <1>12. DOMAIN st.rfb = {k \in (DOMAIN st.rc) \X Nat : k[2] + 1 < st.rc[k[1]].nfrags}
    BY <1>2 DEF FilesOK
  <1>13. ASSUME NEW k \in DOMAIN st.rfb
         PROVE  k \in DOMAIN new.rfb /\ new.rfb[k] = st.rfb[k]
    <2>1. k[1] \in DOMAIN st.rc /\ k[2] \in Nat /\ k[2] + 1 < st.rc[k[1]].nfrags /\ k = <<k[1], k[2]>>
      BY <1>12
    <2>2. st.rc[k[1]].nfrags \in Nat
      BY <1>4, <2>1 DEF RecData
    <2>3. ASSUME NEW i \in DOMAIN order, k \in EntriesOf(st, order, i) PROVE FALSE
      <3>1. k[2] = st.rc[k[1]].nfrags - 1
        BY <1>3, <2>1, <2>3
      <3> QED
        BY <2>1, <2>2, <3>1
    <2> QED
      BY <1>1, <2>3
  <1>14. DOMAIN new.rfb = DOMAIN st.rfb \cup keys
    BY <1>1
  <1> HIDE DEF keys
  <1>15. IsFiles(new.ref, new.rfb)
    <2>1. \A k \in DOMAIN new.rfb : new.rfb[k] \in Nat
      <3> SUFFICES ASSUME NEW k \in DOMAIN new.rfb PROVE new.rfb[k] \in Nat
        OBVIOUS
      <3>1. CASE k \in DOMAIN st.rfb
        BY <1>2, <1>13, <3>1 DEF IsFiles
      <3>2. CASE k \in keys
        <4>1. PICK i \in DOMAIN order : k \in EntriesOf(st, order, i)
          BY <1>11, <3>2
        <4>2. new.rfb[k] = st.blockout - 1 + i
          BY <1>10, <4>1
        <4> QED
          BY <1>2, <1>3, <4>2
      <3> QED
        BY <1>14, <3>1, <3>2
    <2>2. new.rfb = [k \in DOMAIN new.rfb |-> new.rfb[k]] /\ new.ref = [n \in DOMAIN new.ref |-> new.ref[n]]
      BY <1>1
    <2> QED
      BY <1>9, <2>1, <2>2 DEF IsFiles
  <1>16. FilesOK(new.rc, new.ref, new.rfb, new.blockout)
    <2>1. ASSUME NEW k \in DOMAIN new.rfb
          PROVE  k \in {j \in (DOMAIN new.rc) \X Nat : j[2] + 1 < new.rc[j[1]].nfrags}
      <3>1. CASE k \in DOMAIN st.rfb
        <4>1. k \in (DOMAIN st.rc) \X Nat /\ k[1] \in DOMAIN st.rc /\ k[2] + 1 < st.rc[k[1]].nfrags
          BY <1>12, <3>1
        <4>2. new.rc[k[1]].nfrags \in {st.rc[k[1]].nfrags, st.rc[k[1]].nfrags + 1}
          BY <1>1, <1>4, <4>1, AdvancedFacts
        <4>3. st.rc[k[1]].nfrags \in Nat /\ k[2] \in Nat
          BY <1>4, <4>1 DEF RecData
        <4>4. k[2] + 1 < new.rc[k[1]].nfrags
          BY <4>1, <4>2, <4>3
        <4> QED
          BY <1>5, <4>1, <4>4
      <3>2. CASE k \in keys
        <4>1. PICK i \in DOMAIN order : k \in EntriesOf(st, order, i)
          BY <1>11, <3>2
        <4>2. /\ k[1] \in DOMAIN st.rc /\ k = <<k[1], st.rc[k[1]].nfrags - 1>>
              /\ st.rc[k[1]].blk \in ToSet(order)
          BY <1>3, <4>1 DEF ToSet
        <4>3. new.rc[k[1]].nfrags = st.rc[k[1]].nfrags + 1 /\ st.rc[k[1]].nfrags \in Nat \ {0}
          BY <1>1, <1>4, <4>2, AdvancedFacts
        <4>4. k[2] = st.rc[k[1]].nfrags - 1 /\ k[2] \in Nat /\ k[2] + 1 < new.rc[k[1]].nfrags
          BY <4>2, <4>3
        <4>5. k \in (DOMAIN new.rc) \X Nat
          BY <1>5, <4>2, <4>4
        <4> QED
          BY <4>4, <4>5
      <3> QED
        BY <1>14, <3>1, <3>2
    <2>2. ASSUME NEW k \in (DOMAIN new.rc) \X Nat, k[2] + 1 < new.rc[k[1]].nfrags
          PROVE  k \in DOMAIN new.rfb
      <3>1. k[1] \in DOMAIN st.rc /\ k[2] \in Nat /\ k = <<k[1], k[2]>> /\ k \in (DOMAIN st.rc) \X Nat
        BY <1>5
      <3>2. st.rc[k[1]].nfrags \in Nat \ {0}
        BY <1>4, <3>1 DEF RecData
      <3>3. CASE k[2] + 1 < st.rc[k[1]].nfrags
        BY <1>12, <1>14, <3>1, <3>3
      <3>4. CASE ~ (k[2] + 1 < st.rc[k[1]].nfrags)
        <4>1. new.rc[k[1]] # st.rc[k[1]]
          BY <2>2, <3>4
        <4>2. st.rc[k[1]].blk \in ToSet(order) /\ new.rc[k[1]].nfrags = st.rc[k[1]].nfrags + 1
          BY <1>1, <1>4, <3>1, <4>1, AdvancedFacts
        <4>3. k[2] = st.rc[k[1]].nfrags - 1
          BY <2>2, <3>1, <3>2, <3>4, <4>2
        <4>4. PICK i \in DOMAIN order : order[i] = st.rc[k[1]].blk
          BY <4>2 DEF ToSet
        <4>5. order[i] \in DOMAIN st.blocks /\ order[i] # 0
          BY <1>2, <1>3 DEF IsBlocks
        <4>6. PICK m \in DOMAIN st.blocks[order[i]].recs : st.blocks[order[i]].recs[m].rec = k[1]
          <5>1. \A r \in DOMAIN st.rc : st.rc[r].blk # 0 =>
                  \E m \in DOMAIN st.blocks[st.rc[r].blk].recs : st.blocks[st.rc[r].blk].recs[m].rec = r
            BY <1>2 DEF FragsOK
          <5> QED
            BY <3>1, <4>4, <4>5, <5>1
        <4>7. st.blocks[order[i]].recs[m].frag = st.rc[k[1]].nfrags - 1
          BY <4>5, <4>6, CachedFacts
        <4>8. k = <<st.blocks[order[i]].recs[m].rec, st.blocks[order[i]].recs[m].frag>>
          BY <3>1, <4>3, <4>6, <4>7
        <4>9. k \in EntriesOf(st, order, i)
          BY <1>3, <4>8
        <4> QED
          BY <1>10, <4>9
      <3> QED
        BY <3>3, <3>4
    <2>3. DOMAIN new.rfb = {k \in (DOMAIN new.rc) \X Nat : k[2] + 1 < new.rc[k[1]].nfrags}
      BY <2>1, <2>2
    <2>4. ASSUME NEW k \in DOMAIN new.rfb
          PROVE  /\ new.rfb[k] \in DOMAIN new.ref
                 /\ \E i \in DOMAIN new.ref[new.rfb[k]] :
                       new.ref[new.rfb[k]][i].rec = k[1] /\ new.ref[new.rfb[k]][i].frag = k[2]
      <3>1. CASE k \in DOMAIN st.rfb
        <4>1. /\ st.rfb[k] \in DOMAIN st.ref
              /\ \E i \in DOMAIN st.ref[st.rfb[k]] :
                    st.ref[st.rfb[k]][i].rec = k[1] /\ st.ref[st.rfb[k]][i].frag = k[2]
          BY <1>2, <3>1 DEF FilesOK
        <4>2. new.rfb[k] = st.rfb[k]
          BY <1>13, <3>1
        <4> QED
          BY <1>7, <4>1, <4>2
      <3>2. CASE k \in keys
        <4>1. PICK i \in DOMAIN order : k \in EntriesOf(st, order, i)
          BY <1>11, <3>2
        <4>2. new.rfb[k] = st.blockout - 1 + i
          BY <1>10, <4>1
        <4>3. new.rfb[k] \in DOMAIN new.ref /\ new.ref[new.rfb[k]] = st.blocks[order[i]].recs
          BY <1>7, <4>2
        <4>4. \E m \in DOMAIN st.blocks[order[i]].recs :
                 k = <<st.blocks[order[i]].recs[m].rec, st.blocks[order[i]].recs[m].frag>>
          BY <1>3, <4>1
        <4>5. \E m \in DOMAIN st.blocks[order[i]].recs :
                 st.blocks[order[i]].recs[m].rec = k[1] /\ st.blocks[order[i]].recs[m].frag = k[2]
          BY <4>4
        <4> QED
          BY <4>3, <4>5
      <3> QED
        BY <1>14, <3>1, <3>2
    <2> QED
      BY <1>7, <1>9, <2>3, <2>4 DEF FilesOK
  <1>17. ASSUME NEW e, Filed(st, e) PROVE Filed(new, e)
    BY <1>7, <1>13, <1>17 DEF Filed
  <1>18. ASSUME NEW b \in ToSet(order), NEW m \in DOMAIN st.blocks[b].recs
         PROVE  Filed(new, st.blocks[b].recs[m])
    <2>1. PICK i \in DOMAIN order : order[i] = b
      BY DEF ToSet
    <2> DEFINE e == st.blocks[b].recs[m]
               k == <<e.rec, e.frag>>
    <2>2. k \in EntriesOf(st, order, i)
      BY <1>3, <2>1
    <2> HIDE DEF k
    <2>3. k \in DOMAIN new.rfb /\ new.rfb[k] = st.blockout - 1 + i
      BY <1>10, <2>2
    <2>4. new.rfb[k] \in DOMAIN new.ref /\ new.ref[new.rfb[k]] = st.blocks[b].recs
      BY <1>7, <2>1, <2>3
    <2> QED
      BY <2>3, <2>4 DEF Filed, k
  <1> QED
    BY <1>5, <1>6, <1>15, <1>16, <1>17, <1>18 DEF new

\* Nothing changed, for the records.
LEMMA KeptSame ==
    ASSUME NEW st, NEW new, NEW X, new.rc = st.rc, new.blocks = st.blocks, new.ref = st.ref,
           new.rfb = st.rfb
    PROVE  Kept(st, new, X)
  BY DEF Kept, Cached, Filed

\* What two calls keep, both together keep.
LEMMA KeptTwice ==
    ASSUME NEW st, IsStore(st), NEW mid, NEW new, NEW X, Kept(st, mid, X), Kept(mid, new, X)
    PROVE  Kept(st, new, X)
  <1>1. DOMAIN new.rc = DOMAIN st.rc
    BY DEF Kept
  <1>2. ASSUME NEW q \in DOMAIN st.rc \ X
        PROVE  \/ new.rc[q] = st.rc[q]
               \/ st.rc[q].blk # 0 /\ new.rc[q] = Advanced(st.rc[q])
    <2>1. st.rc[q] \in RecData
      BY DEF IsStore, IsRc
    <2>2. mid.rc[q] = st.rc[q] \/ (st.rc[q].blk # 0 /\ mid.rc[q] = Advanced(st.rc[q]))
      BY DEF Kept
    <2>3. new.rc[q] = mid.rc[q] \/ (mid.rc[q].blk # 0 /\ new.rc[q] = Advanced(mid.rc[q]))
      BY DEF Kept
    <2> QED
      BY <2>1, <2>2, <2>3, AdvancedFacts
  <1>3. ASSUME NEW e, e.rec \notin X, Cached(new, e) PROVE Cached(st, e)
    BY <1>3 DEF Kept
  <1>4. ASSUME NEW e, e.rec \notin X, Cached(st, e) PROVE Cached(new, e) \/ Filed(new, e)
    BY <1>4 DEF Kept
  <1>5. ASSUME NEW e, Filed(st, e) PROVE Filed(new, e)
    BY <1>5 DEF Kept
  <1> QED
    BY <1>1, <1>2, <1>3, <1>4, <1>5 DEF Kept

\* Keeping is easier for fewer records.
LEMMA KeptMore ==
    ASSUME NEW st, NEW new, NEW X, NEW Y, X \subseteq Y, Kept(st, new, X)
    PROVE  Kept(st, new, Y)
  BY DEF Kept

\* A block leaves the cache.
Out(st, b, cnt) == Uncache([BlockOut(st, b) EXCEPT !.cachecnt = cnt], b)

\* The fields of the store without the block (cache_block_out, cache_flush_block).
LEMMA OutFields ==
    ASSUME NEW st, Body(st), NEW b \in DOMAIN st.blocks, NEW cnt \in Int
    PROVE  LET new == Out(st, b, cnt)
           IN  /\ HasFields(new)
               /\ new.rc = RcOut(st, <<b>>) /\ new.blocks = WithoutKey(st.blocks, b)
               /\ new.lists = [st.lists EXCEPT ![st.blocks[b].fidx] = RemoveFirst(@, b)]
               /\ new.free = st.free /\ new.cachecnt = cnt /\ new.blockcount = st.blockcount
               /\ new.blockout = st.blockout + 1 /\ new.maxlen = st.maxlen
               /\ new.ref = RefOut(st, <<b>>) /\ new.rfb = RfbOut(st, <<b>>) /\ new.fault = FALSE
               /\ Goes(st, <<b>>)
  <1> DEFINE mid == BlocksOut(st, <<b>>)
             cut == [mid EXCEPT !.cachecnt = cnt]
             new == Out(st, b, cnt)
  <1>1. Goes(st, <<b>>) /\ Len(<<b>>) = 1
    BY OneList DEF Goes
  <1>2. HasFields(st) /\ st.fault = FALSE
    BY DEF Body, IsStore
  <1>3. mid = [st EXCEPT !.rc = mid.rc, !.rfb = mid.rfb, !.ref = mid.ref, !.blockout = mid.blockout]
    BY Zenon, <1>1, BlocksOutFields
  <1>4. /\ mid.rc = RcOut(st, <<b>>) /\ mid.rfb = RfbOut(st, <<b>>) /\ mid.ref = RefOut(st, <<b>>)
        /\ mid.blockout = st.blockout + 1
    <2>1. /\ mid.rc = RcOut(st, <<b>>) /\ mid.rfb = RfbOut(st, <<b>>) /\ mid.ref = RefOut(st, <<b>>)
          /\ mid.blockout = st.blockout + Len(<<b>>)
      BY Zenon, <1>1, BlocksOutFields
    <2> QED
      BY <1>1, <2>1
  <1>5. new = Uncache(cut, b)
    BY DEF Out, BlockOut
  <1> HIDE DEF mid, new
  <1>6. /\ HasFields(mid) /\ mid.blocks = st.blocks /\ mid.lists = st.lists /\ mid.free = st.free
        /\ mid.blockcount = st.blockcount /\ mid.maxlen = st.maxlen /\ mid.fault = FALSE
    <2> DEFINE half == [st EXCEPT !.rc = mid.rc, !.rfb = mid.rfb]
    <2>1. /\ HasFields(half) /\ half.blocks = st.blocks /\ half.lists = st.lists
          /\ half.free = st.free /\ half.blockcount = st.blockcount /\ half.maxlen = st.maxlen
          /\ half.fault = FALSE
      BY <1>2 DEF HasFields, Fields
    <2>2. mid = [half EXCEPT !.ref = mid.ref, !.blockout = mid.blockout]
      BY <1>3
    <2> HIDE DEF half
    <2> QED
      BY <2>1, <2>2 DEF HasFields, Fields
  <1>7. /\ HasFields(cut) /\ cut.blocks = st.blocks /\ cut.lists = st.lists /\ cut.free = st.free
        /\ cut.blockcount = st.blockcount /\ cut.maxlen = st.maxlen /\ cut.fault = FALSE
        /\ cut.cachecnt = cnt /\ cut.rc = mid.rc /\ cut.rfb = mid.rfb /\ cut.ref = mid.ref
        /\ cut.blockout = mid.blockout
    BY <1>6 DEF HasFields, Fields
  <1> HIDE DEF cut
  <1>8. /\ HasFields(new) /\ new.blocks = WithoutKey(st.blocks, b) /\ new.free = cut.free
        /\ new.lists = [st.lists EXCEPT ![st.blocks[b].fidx] = RemoveFirst(@, b)]
        /\ new.blockcount = cut.blockcount /\ new.maxlen = cut.maxlen /\ new.fault = FALSE
        /\ new.cachecnt = cnt /\ new.rc = cut.rc /\ new.rfb = cut.rfb /\ new.ref = cut.ref
        /\ new.blockout = cut.blockout
    BY <1>5, <1>7 DEF HasFields, Fields, Uncache
  <1> QED
    BY <1>1, <1>4, <1>7, <1>8 DEF new

\* A block leaves the cache, and its fragments are in the files.
LEMMA OutFacts ==
    ASSUME NEW st, Body(st), NEW b \in DOMAIN st.blocks, NEW cnt \in Int
    PROVE  LET new == Out(st, b, cnt)
           IN  /\ Body(new) /\ Kept(st, new, {})
               /\ new.blocks = WithoutKey(st.blocks, b) /\ new.free = st.free
               /\ new.cachecnt = cnt /\ new.blockcount = st.blockcount /\ new.maxlen = st.maxlen
               /\ new.rc = RcOut(st, <<b>>)
  <1> DEFINE new == Out(st, b, cnt)
             mid == BlocksOut(st, <<b>>)
  <1>1. /\ HasFields(new)
        /\ new.rc = RcOut(st, <<b>>) /\ new.blocks = WithoutKey(st.blocks, b)
        /\ new.lists = [st.lists EXCEPT ![st.blocks[b].fidx] = RemoveFirst(@, b)]
        /\ new.free = st.free /\ new.cachecnt = cnt /\ new.blockcount = st.blockcount
        /\ new.blockout = st.blockout + 1 /\ new.maxlen = st.maxlen
        /\ new.ref = RefOut(st, <<b>>) /\ new.rfb = RfbOut(st, <<b>>) /\ new.fault = FALSE
        /\ Goes(st, <<b>>)
    BY OutFields
  <1>2. /\ mid.rc = RcOut(st, <<b>>) /\ mid.rfb = RfbOut(st, <<b>>) /\ mid.ref = RefOut(st, <<b>>)
        /\ mid.blockout = st.blockout + 1
    <2>1. Len(<<b>>) = 1
      OBVIOUS
    <2>2. /\ mid.rc = RcOut(st, <<b>>) /\ mid.rfb = RfbOut(st, <<b>>) /\ mid.ref = RefOut(st, <<b>>)
          /\ mid.blockout = st.blockout + Len(<<b>>)
      <3>1. Goes(st, <<b>>)
        BY <1>1
      <3> QED
        BY Zenon, <3>1, BlocksOutFields
    <2> QED
      BY <2>1, <2>2
  <1>3. /\ IsRc(mid.rc) /\ DOMAIN mid.rc = DOMAIN st.rc
        /\ IsFiles(mid.ref, mid.rfb) /\ mid.blockout \in Nat \ {0}
        /\ FilesOK(mid.rc, mid.ref, mid.rfb, mid.blockout)
        /\ \A e : Filed(st, e) => Filed(mid, e)
        /\ \A i \in DOMAIN st.blocks[b].recs : Filed(mid, st.blocks[b].recs[i])
    <2>1. b \in ToSet(<<b>>)
      BY DEF ToSet
    <2> QED
      BY <1>1, <2>1, BlocksOutFiles
  <1>4. \A r \in DOMAIN st.rc : mid.rc[r] = IF st.rc[r].blk = b THEN Advanced(st.rc[r]) ELSE st.rc[r]
    BY <1>2 DEF RcOut, ToSet
  <1>5. /\ IsStore(st) /\ IsRc(st.rc) /\ IsBlocks(st.blocks) /\ IsLists(st.lists)
        /\ st.free \in Seq(FreeEntry) /\ st.blockcount \in Nat \ {0} /\ st.maxlen \in Nat
        /\ ListsOK(st.lists, st.blocks) /\ FragsOK(st.rc, st.blocks)
        /\ NumbersOK(st.blocks, st.blockcount)
    BY DEF Body, IsStore
  <1> DEFINE fidx == st.blocks[b].fidx
             blocks == WithoutKey(st.blocks, b)
             lists == [st.lists EXCEPT ![fidx] = RemoveFirst(@, b)]
  <1>6. /\ new.rc = mid.rc /\ new.blocks = blocks /\ new.lists = lists /\ new.free = st.free
        /\ new.cachecnt = cnt /\ new.blockcount = st.blockcount /\ new.blockout = mid.blockout
        /\ new.maxlen = st.maxlen /\ new.ref = mid.ref /\ new.rfb = mid.rfb /\ new.fault = FALSE
        /\ HasFields(new)
    BY <1>1, <1>2
  <1> HIDE DEF new, mid
  <1>7. DOMAIN blocks = DOMAIN st.blocks \ {b} /\ \A c \in DOMAIN blocks : blocks[c] = st.blocks[c]
    BY DEF WithoutKey
  <1>8. blocks = [c \in DOMAIN blocks |-> blocks[c]]
    BY DEF WithoutKey
  <1> HIDE DEF blocks
  <1>9. IsBlocks(blocks)
    BY <1>5, <1>7, <1>8 DEF IsBlocks
  <1>10. fidx \in 0 .. Areas - 1 /\ b \in InArea(st.blocks, fidx)
    <2>1. st.blocks[b] \in Block
      BY <1>5 DEF IsBlocks
    <2> QED
      BY <2>1 DEF Block, InArea
  <1>11. /\ ListsOnce(RemoveFirst(st.lists[fidx], b), InArea(st.blocks, fidx) \ {b})
    BY <1>5, <1>10, Unlinked DEF ListsOK
  <1>12. \A a : InArea(blocks, a) = InArea(st.blocks, a) \ {b}
    BY <1>7 DEF InArea
  <1>13. /\ lists[fidx] = RemoveFirst(st.lists[fidx], b) /\ DOMAIN lists = 0 .. Areas - 1
         /\ \A a \in 0 .. Areas - 1 : a # fidx => lists[a] = st.lists[a]
    BY <1>5, <1>10 DEF IsLists
  <1>14. lists = [a \in 0 .. Areas - 1 |-> lists[a]]
    BY <1>5 DEF IsLists
  <1> HIDE DEF lists
  <1>15. ListsOK(lists, blocks)
    <2> SUFFICES ASSUME NEW a \in 0 .. Areas - 1 PROVE ListsOnce(lists[a], InArea(blocks, a))
      BY DEF ListsOK
    <2>1. CASE a = fidx
      BY <1>11, <1>12, <1>13, <2>1
    <2>2. CASE a # fidx
      <3>1. b \notin InArea(st.blocks, a)
        BY <2>2 DEF InArea
      <3>2. InArea(blocks, a) = InArea(st.blocks, a)
        BY <1>12, <3>1
      <3> QED
        BY <1>5, <1>13, <2>2, <3>2 DEF ListsOK
    <2> QED
      BY <2>1, <2>2
  <1>16. IsLists(lists)
    <2>1. \A a \in 0 .. Areas - 1 : lists[a] \in Seq(Nat)
      <3> SUFFICES ASSUME NEW a \in 0 .. Areas - 1 PROVE lists[a] \in Seq(Nat)
        OBVIOUS
      <3>1. lists[a] \in Seq(InArea(blocks, a))
        BY <1>15 DEF ListsOK, ListsOnce
      <3>2. InArea(blocks, a) \subseteq Nat
        BY <1>9 DEF InArea, IsBlocks
      <3> QED
        BY <3>1, <3>2
    <2> QED
      BY <1>14, <2>1 DEF IsLists
  <1>17. FragsOK(mid.rc, blocks)
    <2>1. ASSUME NEW c \in DOMAIN blocks
          PROVE  /\ Room(blocks[c].recs) >= 0 /\ OneEach(blocks[c].recs)
                 /\ \A i \in DOMAIN blocks[c].recs :
                       LET e == blocks[c].recs[i]
                       IN  e.rec \in DOMAIN mid.rc /\ mid.rc[e.rec].blk = c
                           /\ e.frag = mid.rc[e.rec].nfrags - 1
      <3>1. c \in DOMAIN st.blocks /\ c # b /\ blocks[c] = st.blocks[c]
        BY <1>7
      <3>2. /\ Room(st.blocks[c].recs) >= 0 /\ OneEach(st.blocks[c].recs)
            /\ \A i \in DOMAIN st.blocks[c].recs :
                       LET e == st.blocks[c].recs[i]
                       IN  e.rec \in DOMAIN st.rc /\ st.rc[e.rec].blk = c
                           /\ e.frag = st.rc[e.rec].nfrags - 1
        BY <1>5, <3>1 DEF FragsOK
      <3> QED
        BY <1>3, <1>4, <3>1, <3>2
    <2>2. ASSUME NEW r \in DOMAIN mid.rc, mid.rc[r].blk # 0
          PROVE  /\ mid.rc[r].blk \in DOMAIN blocks
                 /\ \E i \in DOMAIN blocks[mid.rc[r].blk].recs : blocks[mid.rc[r].blk].recs[i].rec = r
      <3>1. st.rc[r] \in RecData /\ r \in DOMAIN st.rc
        BY <1>3, <1>5 DEF IsRc
      <3>2. st.rc[r].blk # b /\ mid.rc[r] = st.rc[r]
        BY <1>4, <2>2, <3>1, AdvancedFacts
      <3>3. /\ st.rc[r].blk \in DOMAIN st.blocks
            /\ \E i \in DOMAIN st.blocks[st.rc[r].blk].recs : st.blocks[st.rc[r].blk].recs[i].rec = r
        BY <1>5, <2>2, <3>1, <3>2 DEF FragsOK
      <3> QED
        BY <1>7, <3>2, <3>3
    <2> QED
      BY <2>1, <2>2 DEF FragsOK
  <1>18. NumbersOK(blocks, st.blockcount)
    BY <1>5, <1>7 DEF NumbersOK
  <1>19. IsStore(new)
    BY <1>3, <1>5, <1>6, <1>9, <1>16 DEF IsStore
  <1>20. Body(new)
    BY <1>3, <1>6, <1>15, <1>17, <1>18, <1>19 DEF Body
  <1>21. \A e : Filed(new, e) <=> Filed(mid, e)
    BY <1>6 DEF Filed
  <1>22. Kept(st, new, {})
    <2>1. \A q \in DOMAIN st.rc :
              new.rc[q] = st.rc[q] \/ (st.rc[q].blk # 0 /\ new.rc[q] = Advanced(st.rc[q]))
      <3>1. b # 0
        BY <1>5 DEF IsBlocks
      <3> QED
        BY <1>4, <1>6, <3>1
    <2>2. ASSUME NEW e, Cached(new, e) PROVE Cached(st, e)
      BY <1>6, <1>7, <2>2 DEF Cached
    <2>3. ASSUME NEW e, Cached(st, e) PROVE Cached(new, e) \/ Filed(new, e)
      <3>1. PICK c \in DOMAIN st.blocks : \E i \in DOMAIN st.blocks[c].recs : st.blocks[c].recs[i] = e
        BY <2>3 DEF Cached
      <3>2. CASE c = b
        BY <1>3, <1>21, <3>1, <3>2
      <3>3. CASE c # b
        BY <1>6, <1>7, <3>1, <3>3 DEF Cached
      <3> QED
        BY <3>2, <3>3
    <2> QED
      BY <1>3, <1>6, <1>21, <2>1, <2>2, <2>3 DEF Kept
  <1> QED
    BY <1>2, <1>6, <1>20, <1>22 DEF new, blocks

\* The free list and the count say nothing of the blocks.
LEMMA BodySame ==
    ASSUME NEW st, Body(st), NEW new, HasFields(new), new.rc = st.rc, new.blocks = st.blocks,
           new.lists = st.lists, new.blockcount = st.blockcount, new.blockout = st.blockout,
           new.maxlen = st.maxlen, new.ref = st.ref, new.rfb = st.rfb, new.fault = st.fault,
           new.free \in Seq(FreeEntry), new.cachecnt \in Int
    PROVE  Body(new) /\ \A X : Kept(st, new, X)
  <1>1. IsStore(new)
    BY DEF Body, IsStore
  <1>2. Body(new)
    BY <1>1 DEF Body
  <1> QED
    BY <1>2, KeptSame

\* Only the free list changed.
LEMMA FreeChanged ==
    ASSUME NEW st, Body(st), NEW free \in Seq(FreeEntry), NEW new, new = [st EXCEPT !.free = free]
    PROVE  /\ Body(new) /\ \A X : Kept(st, new, X)
           /\ HasFields(new) /\ new.rc = st.rc /\ new.blocks = st.blocks
           /\ new.lists = st.lists /\ new.blockcount = st.blockcount /\ new.blockout = st.blockout
           /\ new.maxlen = st.maxlen /\ new.ref = st.ref /\ new.rfb = st.rfb
           /\ new.cachecnt = st.cachecnt /\ new.free = free
  <1>1. HasFields(st) /\ st.cachecnt \in Int
    BY DEF Body, IsStore
  <1>2. /\ HasFields(new) /\ new.rc = st.rc /\ new.blocks = st.blocks
        /\ new.lists = st.lists /\ new.blockcount = st.blockcount /\ new.blockout = st.blockout
        /\ new.maxlen = st.maxlen /\ new.ref = st.ref /\ new.rfb = st.rfb
        /\ new.fault = st.fault /\ new.cachecnt = st.cachecnt /\ new.free = free
    BY <1>1 DEF HasFields, Fields
  <1> QED
    BY <1>1, <1>2, BodySame

\* A block that makes room is cached; without one no area has two.
LEMMA LeastImportantFacts ==
    ASSUME NEW st, Body(st)
    PROVE  /\ LeastImportant(st) # 0 => LeastImportant(st) \in DOMAIN st.blocks
           /\ LeastImportant(st) = 0 => \A a \in 0 .. Areas - 1 : Len(st.lists[a]) <= 1
  <1> DEFINE areas == {a \in DOMAIN st.lists : Len(st.lists[a]) > 1}
             a == CHOOSE x \in areas : \A o \in areas : x =< o
  <1>1. /\ DOMAIN st.lists = 0 .. Areas - 1 /\ ListsOK(st.lists, st.blocks)
        /\ \A x \in 0 .. Areas - 1 : st.lists[x] \in Seq(Nat)
    BY DEF Body, IsStore, IsLists
  <1>2. LeastImportant(st) = IF areas = {} THEN 0 ELSE Last(st.lists[a])
    BY DEF LeastImportant
  <1>3. ASSUME areas # {}
        PROVE  Last(st.lists[a]) \in DOMAIN st.blocks /\ Last(st.lists[a]) # 0
    <2>1. areas \subseteq Nat
      BY <1>1, BlockNumbers
    <2>2. \E x \in areas : \A o \in areas : x <= o
      <3> HIDE DEF areas
      <3> QED
        BY <1>3, <2>1, LeastExists
    <2>3. a \in areas
      <3> HIDE DEF areas
      <3> QED
        BY <2>2
    <2>4. a \in 0 .. Areas - 1 /\ Len(st.lists[a]) > 1 /\ st.lists[a] \in Seq(Nat)
      BY <1>1, <2>3
    <2> HIDE DEF a
    <2>5. Last(st.lists[a]) \in ToSet(st.lists[a])
      BY <2>4 DEF Last, ToSet
    <2>6. ToSet(st.lists[a]) \subseteq DOMAIN st.blocks
      BY <1>1, <2>4 DEF ListsOK, ListsOnce, InArea
    <2> QED
      BY <2>5, <2>6 DEF Body, IsStore, IsBlocks
  <1>4. ASSUME areas = {}, NEW x \in 0 .. Areas - 1 PROVE Len(st.lists[x]) <= 1
    <2>1. ~ (Len(st.lists[x]) > 1) /\ Len(st.lists[x]) \in Nat
      BY <1>1, <1>4
    <2> QED
      BY <2>1
  <1> QED
    BY <1>2, <1>3, <1>4

\* Then there are at most as many blocks as areas.
LEMMA FewBlocks ==
    ASSUME NEW st, Body(st), IsFiniteSet(DOMAIN st.blocks),
           \A a \in 0 .. Areas - 1 : Len(st.lists[a]) <= 1
    PROVE  Cardinality(DOMAIN st.blocks) <= Areas
  <1> DEFINE D == DOMAIN st.blocks
             f == [b \in D |-> st.blocks[b].fidx]
             S == 0 .. Areas - 1
  <1>1. Areas \in Nat \ {0}
    BY BlockNumbers
  <1>2. IsFiniteSet(S) /\ Cardinality(S) = Areas
    BY <1>1, FS_Interval
  <1>3. \A b \in D : st.blocks[b].fidx \in S
    BY DEF Body, IsStore, IsBlocks, Block
  <1>4. f \in [D -> S]
    BY <1>3
  <1>5. ASSUME NEW b \in D, NEW c \in D, f[b] = f[c] PROVE b = c
    <2> DEFINE a == st.blocks[b].fidx
    <2>1. a \in S /\ b \in InArea(st.blocks, a) /\ c \in InArea(st.blocks, a)
      BY <1>3, <1>5 DEF InArea
    <2> HIDE DEF a
    <2>2. ListsOnce(st.lists[a], InArea(st.blocks, a)) /\ Len(st.lists[a]) <= 1
      BY <2>1 DEF Body, ListsOK
    <2>3. b \in ToSet(st.lists[a]) /\ c \in ToSet(st.lists[a]) /\ st.lists[a] \in Seq(InArea(st.blocks, a))
      BY <2>1, <2>2 DEF ListsOnce
    <2>4. PICK i \in DOMAIN st.lists[a], j \in DOMAIN st.lists[a] : st.lists[a][i] = b /\ st.lists[a][j] = c
      BY <2>3 DEF ToSet
    <2>5. i = 1 /\ j = 1
      BY <2>2, <2>3, <2>4
    <2> QED
      BY <2>4, <2>5
  <1>6. f \in Injection(D, S)
    BY <1>4, <1>5 DEF Injection, IsInjective
  <1> HIDE DEF D, f, S
  <1>7. Cardinality(D) <= Cardinality(S)
    BY <1>2, <1>6, FS_Injection
  <1> QED
    BY <1>2, <1>7 DEF D

\* What is left of the rooms when blocks went out.
Left(rooms, st, new) ==
    [x \in DOMAIN rooms \ (DOMAIN st.blocks \ DOMAIN new.blocks) |-> rooms[x]]

\* There is room in the cache for a block (cache_fetch).
LEMMA MakeRoomFacts ==
    ASSUME NEW st, Body(st), CountOK(st.blocks, st.cachecnt), NEW rooms, FreeFits(st.free, rooms)
    PROVE  LET new == MakeRoom(st)
           IN  /\ Body(new) /\ Kept(st, new, {})
               /\ new.blockcount = st.blockcount /\ new.maxlen = st.maxlen
               /\ IsFiniteSet(DOMAIN new.blocks)
               /\ new.cachecnt = Cardinality(DOMAIN new.blocks) + 1 /\ new.cachecnt <= MaxBlocks
               /\ DOMAIN new.blocks \subseteq DOMAIN st.blocks
               /\ \A c \in DOMAIN new.blocks : new.blocks[c] = st.blocks[c]
               /\ FreeFits(new.free, Left(rooms, st, new))
  <1> DEFINE new == MakeRoom(st)
             b == LeastImportant(st)
  <1>1. /\ HasFields(st) /\ IsStore(st) /\ st.free \in Seq(FreeEntry) /\ st.cachecnt \in Int
        /\ IsFiniteSet(DOMAIN st.blocks) /\ st.cachecnt = Cardinality(DOMAIN st.blocks)
        /\ st.cachecnt <= MaxBlocks
    BY DEF Body, IsStore, CountOK
  <1>2. Cardinality(DOMAIN st.blocks) \in Nat
    BY <1>1, FS_CardinalityType
  <1>3. CASE st.cachecnt < MaxCache \/ b = 0
    <2>1. new = [st EXCEPT !.cachecnt = st.cachecnt + 1]
      BY <1>3 DEF MakeRoom
    <2> HIDE DEF new
    <2>2. /\ HasFields(new) /\ new.rc = st.rc /\ new.blocks = st.blocks
          /\ new.lists = st.lists /\ new.blockcount = st.blockcount /\ new.blockout = st.blockout
          /\ new.maxlen = st.maxlen /\ new.ref = st.ref /\ new.rfb = st.rfb /\ new.free = st.free
          /\ new.fault = st.fault /\ new.cachecnt = st.cachecnt + 1
      BY <1>1, <2>1 DEF HasFields, Fields
    <2>3. Body(new) /\ Kept(st, new, {})
      BY <1>1, <2>2, BodySame
    <2>4. new.cachecnt <= MaxBlocks
      <3>1. CASE st.cachecnt < MaxCache
        BY <1>1, <2>2, <3>1, BlockNumbers DEF MaxBlocks
      <3>2. CASE ~ (st.cachecnt < MaxCache)
        <4>1. Cardinality(DOMAIN st.blocks) <= Areas
          BY <1>1, <1>3, <3>2, LeastImportantFacts, FewBlocks
        <4> QED
          BY <1>1, <1>2, <2>2, <3>2, <4>1, BlockNumbers DEF MaxBlocks
      <3> QED
        BY <3>1, <3>2
    <2>5. FreeFits(new.free, Left(rooms, st, new))
      <3> DEFINE left == Left(rooms, st, new)
      <3>1. DOMAIN left = DOMAIN rooms /\ \A x \in DOMAIN left : left[x] = rooms[x]
        BY <2>2 DEF Left
      <3> HIDE DEF left
      <3>2. FreeFits(st.free, left)
        BY <3>1 DEF FreeFits
      <3> QED
        BY <2>2, <3>2 DEF left
    <2> QED
      BY <1>1, <2>2, <2>3, <2>4, <2>5 DEF new
  <1>4. CASE ~ (st.cachecnt < MaxCache) /\ b # 0
    <2> DEFINE mid == FreelistDel(st, b)
    <2>1. new = Uncache(BlockOut(mid, b), b)
      BY <1>4 DEF MakeRoom
    <2>2. b \in DOMAIN st.blocks
      BY <1>4, LeastImportantFacts
    <2> HIDE DEF b, new
    <2>3. /\ mid = [st EXCEPT !.free = mid.free] /\ mid.free \in Seq(FreeEntry)
          /\ FreeFits(mid.free, WithoutKey(rooms, b))
      BY <1>1, FreelistDelFacts
    <2> HIDE DEF mid
    <2>4. /\ Body(mid) /\ Kept(st, mid, {})
          /\ HasFields(mid) /\ mid.blocks = st.blocks /\ mid.blockcount = st.blockcount
          /\ mid.maxlen = st.maxlen /\ mid.cachecnt = st.cachecnt
      BY <2>3, FreeChanged
    <2>5. BlockOut(mid, b) = [BlockOut(mid, b) EXCEPT !.cachecnt = mid.cachecnt]
      <3> DEFINE out == BlocksOut(mid, <<b>>)
      <3>1. Goes(mid, <<b>>)
        BY <2>2, <2>4, OneList DEF Goes
      <3>2. out = [mid EXCEPT !.rc = out.rc, !.rfb = out.rfb, !.ref = out.ref, !.blockout = out.blockout]
        BY Zenon, <2>4, <3>1, BlocksOutFields
      <3> HIDE DEF out
      <3>3. out = [out EXCEPT !.cachecnt = mid.cachecnt]
        BY <2>4, <3>2 DEF HasFields, Fields
      <3> QED
        BY <3>3 DEF BlockOut, out
    <2>6. new = Out(mid, b, mid.cachecnt)
      BY <2>1, <2>5 DEF Out
    <2>7. /\ Body(new) /\ Kept(mid, new, {})
          /\ new.blocks = WithoutKey(mid.blocks, b) /\ new.free = mid.free
          /\ new.cachecnt = mid.cachecnt /\ new.blockcount = mid.blockcount /\ new.maxlen = mid.maxlen
      <3>1. Body(mid) /\ b \in DOMAIN mid.blocks /\ mid.cachecnt \in Int
        BY <1>1, <2>2, <2>4
      <3> QED
        BY <2>6, <3>1, OutFacts
    <2>8. Kept(st, new, {})
      BY <1>1, <2>4, <2>7, KeptTwice
    <2>9. DOMAIN new.blocks = DOMAIN st.blocks \ {b} /\ \A c \in DOMAIN new.blocks : new.blocks[c] = st.blocks[c]
      BY <2>4, <2>7 DEF WithoutKey
    <2>10. IsFiniteSet(DOMAIN new.blocks) /\ Cardinality(DOMAIN new.blocks) = Cardinality(DOMAIN st.blocks) - 1
      BY <1>1, <2>2, <2>9, FS_RemoveElement
    <2>11. new.cachecnt = Cardinality(DOMAIN new.blocks) + 1 /\ new.cachecnt <= MaxBlocks
      BY <1>1, <1>2, <2>4, <2>7, <2>10
    <2>12. FreeFits(new.free, Left(rooms, st, new))
      <3>1. Left(rooms, st, new) = WithoutKey(rooms, b)
        BY <2>2, <2>9 DEF Left, WithoutKey
      <3> QED
        BY <2>3, <2>7, <3>1
    <2> QED
      BY <2>4, <2>7, <2>8, <2>9, <2>10, <2>11, <2>12 DEF new
  <1> QED
    BY <1>3, <1>4

\* The frequency area of a record is one of the areas.
LEMMA GreatestExists ==
    ASSUME NEW n \in Nat, NEW T, T \subseteq 0 .. n, T # {}
    PROVE  \E x \in T : \A y \in T : x >= y
  <1> DEFINE U == {n - x : x \in T}
  <1>1. U \subseteq Nat /\ U # {}
    <2>1. \A x \in T : x \in 0 .. n /\ n - x \in Nat
      OBVIOUS
    <2> QED
      BY <2>1
  <1>2. PICK u \in U : \A v \in U : u <= v
    BY <1>1, LeastExists
  <1>3. PICK x \in T : u = n - x
    OBVIOUS
  <1>4. ASSUME NEW y \in T PROVE x >= y
    <2>1. n - y \in U /\ x \in 0 .. n /\ y \in 0 .. n
      OBVIOUS
    <2>2. u <= n - y
      BY <1>2, <2>1
    <2> HIDE DEF U
    <2> QED
      BY <1>3, <2>1, <2>2
  <1> QED
    BY <1>4

\* Max finds it.
LEMMA MaxFacts ==
    ASSUME NEW n \in Nat, NEW T, T \subseteq 0 .. n, T # {}
    PROVE  Max(T) \in T /\ \A y \in T : Max(T) >= y
  BY GreatestExists DEF Max

\* The area is one of them.
LEMMA FIdxType ==
    ASSUME NEW st, NEW r
    PROVE  FIdx(st, r) \in 0 .. Areas - 1
  <1> DEFINE T == {0} \cup {k \in 0 .. Areas - 1 : (st.maxlen + 1) ^ k =< st.rc[r].freq ^ Areas}
  <1>1. Areas - 1 \in Nat
    BY BlockNumbers
  <1>2. T \subseteq 0 .. Areas - 1 /\ T # {}
    BY <1>1
  <1>3. FIdx(st, r) = Max(T)
    BY DEF FIdx
  <1> HIDE DEF T
  <1> QED
    BY <1>1, <1>2, <1>3, MaxFacts

-----------------------------------------------------------------------------
(* Blocks are fetched. *)

SameBut(st, new) ==
    /\ Body(new) /\ \A X : Kept(st, new, X)
    /\ new.rc = st.rc /\ new.blocks = st.blocks /\ new.free = st.free
    /\ new.cachecnt = st.cachecnt /\ new.blockcount = st.blockcount
    /\ new.maxlen = st.maxlen

\* A cached block is used (cache_fetch).
LEMMA FetchCached ==
    ASSUME NEW st, Body(st), NEW b \in DOMAIN st.blocks, NEW r
    PROVE  SameBut(st, Fetch(st, b, r))
  <1> DEFINE new == Fetch(st, b, r)
             fidx == st.blocks[b].fidx
             front == <<b>> \o RemoveFirst(st.lists[fidx], b)
             lists == [st.lists EXCEPT ![fidx] = front]
  <1>1. new = [st EXCEPT !.lists = lists]
    BY DEF Fetch
  <1>2. HasFields(st) /\ IsStore(st) /\ IsLists(st.lists) /\ IsBlocks(st.blocks)
    BY DEF Body, IsStore
  <1>3. fidx \in 0 .. Areas - 1 /\ b \in InArea(st.blocks, fidx) /\ b \in Nat
    <2>1. st.blocks[b] \in Block
      BY <1>2 DEF IsBlocks
    <2> QED
      BY <1>2, <2>1 DEF Block, InArea, IsBlocks
  <1> HIDE DEF new, fidx
  <1>4. ListsOnce(front, InArea(st.blocks, fidx))
    <2> DEFINE S == InArea(st.blocks, fidx)
    <2>1. ListsOnce(st.lists[fidx], S)
      BY <1>3 DEF Body, ListsOK
    <2> HIDE DEF S
    <2>2. b \in S
      BY <1>3 DEF S
    <2>3. ListsOnce(RemoveFirst(st.lists[fidx], b), S \ {b})
      BY <2>1, <2>2, Unlinked
    <2>4. ListsOnce(front, (S \ {b}) \cup {b})
      BY <2>3, PutInFront
    <2>5. (S \ {b}) \cup {b} = S
      BY <2>2
    <2> QED
      BY <2>4, <2>5 DEF S
  <1> HIDE DEF front
  <1>5. /\ lists[fidx] = front /\ DOMAIN lists = 0 .. Areas - 1
        /\ \A a \in 0 .. Areas - 1 : a # fidx => lists[a] = st.lists[a]
        /\ lists = [a \in 0 .. Areas - 1 |-> lists[a]]
    BY <1>2, <1>3 DEF IsLists
  <1> HIDE DEF lists
  <1>6. ListsOK(lists, st.blocks)
    BY <1>4, <1>5 DEF ListsOK, Body
  <1>7. IsLists(lists)
    <2>1. \A a \in 0 .. Areas - 1 : lists[a] \in Seq(Nat)
      <3> SUFFICES ASSUME NEW a \in 0 .. Areas - 1 PROVE lists[a] \in Seq(Nat)
        OBVIOUS
      <3>1. lists[a] \in Seq(InArea(st.blocks, a))
        BY <1>6 DEF ListsOK, ListsOnce
      <3>2. InArea(st.blocks, a) \subseteq Nat
        BY <1>2 DEF InArea, IsBlocks
      <3> QED
        BY <3>1, <3>2
    <2> QED
      BY <1>5, <2>1 DEF IsLists
  <1>8. /\ HasFields(new) /\ new.rc = st.rc /\ new.blocks = st.blocks /\ new.free = st.free
        /\ new.lists = lists /\ new.cachecnt = st.cachecnt /\ new.blockcount = st.blockcount
        /\ new.maxlen = st.maxlen /\ new.blockout = st.blockout /\ new.ref = st.ref
        /\ new.rfb = st.rfb /\ new.fault = st.fault
    BY <1>1, <1>2 DEF HasFields, Fields
  <1>9. IsStore(new)
    BY <1>2, <1>7, <1>8 DEF IsStore
  <1>10. Body(new)
    BY <1>6, <1>8, <1>9 DEF Body
  <1> QED
    BY <1>8, <1>10, KeptSame DEF new, SameBut

\* A block more, without fragments.
LEMMA LoadNew ==
    ASSUME NEW st, Body(st), IsFiniteSet(DOMAIN st.blocks), NEW fidx \in 0 .. Areas - 1
    PROVE  LET b == st.blockcount
               new == Load(st, b, fidx)
           IN  /\ Body(new) /\ Kept(st, new, {})
               /\ new.rc = st.rc /\ new.free = st.free
               /\ new.cachecnt = st.cachecnt /\ new.blockcount = b + 1
               /\ new.maxlen = st.maxlen
               /\ b \notin DOMAIN st.blocks /\ DOMAIN new.blocks = DOMAIN st.blocks \cup {b}
               /\ new.blocks[b] = [fidx |-> fidx, recs |-> <<>>]
               /\ \A c \in DOMAIN st.blocks : new.blocks[c] = st.blocks[c]
  <1> DEFINE b == st.blockcount
             new == Load(st, b, fidx)
             front == <<b>> \o st.lists[fidx]
             lists == [st.lists EXCEPT ![fidx] = front]
             blk == [fidx |-> fidx, recs |-> <<>>]
             blocks == With(st.blocks, b, blk)
  <1>1. /\ HasFields(st) /\ IsStore(st) /\ IsLists(st.lists) /\ IsBlocks(st.blocks)
        /\ b \in Nat \ {0}
    BY DEF Body, IsStore
  <1>2. new = [st EXCEPT !.lists = lists, !.blocks = blocks, !.blockcount = b + 1]
    BY DEF Load
  <1>3. b \notin DOMAIN st.blocks
    BY <1>1 DEF Body, NumbersOK
  <1>4. /\ DOMAIN blocks = DOMAIN st.blocks \cup {b} /\ blocks[b] = blk
        /\ \A c \in DOMAIN st.blocks : blocks[c] = st.blocks[c]
        /\ blocks = [c \in DOMAIN blocks |-> blocks[c]]
    BY <1>3 DEF With
  <1> HIDE DEF b, new, blocks
  <1>5. blk \in Block /\ blk.fidx = fidx /\ blk.recs = <<>> /\ DOMAIN blk.recs = {} /\ Room(blk.recs) = BlockSize
    <2>1. <<>> \in Seq(Fragment) /\ DOMAIN <<>> = {}
      OBVIOUS
    <2>2. Room(<<>>) = BlockSize
      BY BlockNumbers, RoomOfNone
    <2> QED
      BY <2>1, <2>2 DEF Block
  <1> HIDE DEF blk
  <1>6. IsBlocks(blocks)
    <2>1. \A c \in DOMAIN blocks : blocks[c] \in Block
      BY <1>1, <1>4, <1>5 DEF IsBlocks
    <2>2. DOMAIN blocks \subseteq Nat \ {0}
      BY <1>1, <1>4 DEF IsBlocks
    <2> QED
      BY <1>4, <2>1, <2>2 DEF IsBlocks
  <1>7. ListsOnce(front, InArea(blocks, fidx))
    <2>1. InArea(blocks, fidx) = InArea(st.blocks, fidx) \cup {b}
      BY <1>4, <1>5 DEF InArea
    <2>2. b \notin InArea(st.blocks, fidx)
      BY <1>3 DEF InArea
    <2>3. ListsOnce(st.lists[fidx], InArea(st.blocks, fidx))
      BY DEF Body, ListsOK
    <2> QED
      BY <2>1, <2>2, <2>3, PutInFront
  <1> HIDE DEF front
  <1>8. /\ lists[fidx] = front /\ DOMAIN lists = 0 .. Areas - 1
        /\ \A a \in 0 .. Areas - 1 : a # fidx => lists[a] = st.lists[a]
        /\ lists = [a \in 0 .. Areas - 1 |-> lists[a]]
    BY <1>1 DEF IsLists
  <1> HIDE DEF lists
  <1>9. ListsOK(lists, blocks)
    <2> SUFFICES ASSUME NEW a \in 0 .. Areas - 1 PROVE ListsOnce(lists[a], InArea(blocks, a))
      BY DEF ListsOK
    <2>1. CASE a = fidx
      BY <1>7, <1>8, <2>1
    <2>2. CASE a # fidx
      <3>1. InArea(blocks, a) = InArea(st.blocks, a)
        BY <1>4, <1>5, <2>2 DEF InArea
      <3> QED
        BY <1>8, <2>2, <3>1 DEF ListsOK, Body
    <2> QED
      BY <2>1, <2>2
  <1>10. IsLists(lists)
    <2>1. \A a \in 0 .. Areas - 1 : lists[a] \in Seq(Nat)
      <3> SUFFICES ASSUME NEW a \in 0 .. Areas - 1 PROVE lists[a] \in Seq(Nat)
        OBVIOUS
      <3>1. lists[a] \in Seq(InArea(blocks, a))
        BY <1>9 DEF ListsOK, ListsOnce
      <3>2. InArea(blocks, a) \subseteq Nat
        BY <1>6 DEF InArea, IsBlocks
      <3> QED
        BY <3>1, <3>2
    <2> QED
      BY <1>8, <2>1 DEF IsLists
  <1>11. /\ HasFields(new) /\ new.rc = st.rc /\ new.blocks = blocks /\ new.free = st.free
         /\ new.lists = lists /\ new.cachecnt = st.cachecnt /\ new.blockcount = b + 1
         /\ new.maxlen = st.maxlen /\ new.blockout = st.blockout /\ new.ref = st.ref
         /\ new.rfb = st.rfb /\ new.fault = st.fault
    <2> DEFINE half == [st EXCEPT !.lists = lists, !.blocks = blocks]
    <2>1. /\ HasFields(half) /\ half.rc = st.rc /\ half.blocks = blocks /\ half.free = st.free
          /\ half.lists = lists /\ half.cachecnt = st.cachecnt
          /\ half.maxlen = st.maxlen /\ half.blockout = st.blockout /\ half.ref = st.ref
          /\ half.rfb = st.rfb /\ half.fault = st.fault
      BY <1>1 DEF HasFields, Fields
    <2>2. new = [half EXCEPT !.blockcount = b + 1]
      BY <1>2
    <2> HIDE DEF half
    <2> QED
      BY <2>1, <2>2 DEF HasFields, Fields
  <1>12. IsStore(new)
    BY <1>1, <1>6, <1>10, <1>11 DEF IsStore
  <1>13. FragsOK(st.rc, blocks)
    <2>1. FragsOK(st.rc, st.blocks)
      BY DEF Body
    <2>2. ASSUME NEW c \in DOMAIN blocks
          PROVE  /\ Room(blocks[c].recs) >= 0 /\ OneEach(blocks[c].recs)
                 /\ \A i \in DOMAIN blocks[c].recs :
                       LET e == blocks[c].recs[i]
                       IN  e.rec \in DOMAIN st.rc /\ st.rc[e.rec].blk = c
                           /\ e.frag = st.rc[e.rec].nfrags - 1
      <3>1. CASE c = b
        BY <1>4, <1>5, <3>1, BlockNumbers DEF OneEach
      <3>2. CASE c # b
        BY <1>4, <2>1, <3>2, SMTT(30) DEF FragsOK
      <3> QED
        BY <3>1, <3>2
    <2>3. ASSUME NEW r \in DOMAIN st.rc, st.rc[r].blk # 0
          PROVE  /\ st.rc[r].blk \in DOMAIN blocks
                 /\ \E i \in DOMAIN blocks[st.rc[r].blk].recs : blocks[st.rc[r].blk].recs[i].rec = r
      BY <1>4, <2>1, <2>3 DEF FragsOK
    <2> QED
      BY <2>2, <2>3 DEF FragsOK
  <1>14. NumbersOK(blocks, b + 1)
    <2>1. \A c \in DOMAIN st.blocks : c \in Nat /\ c < b
      BY <1>1 DEF Body, NumbersOK, IsBlocks, b
    <2> QED
      BY <1>1, <1>4, <2>1 DEF NumbersOK
  <1>15. Body(new)
    BY <1>9, <1>11, <1>12, <1>13, <1>14 DEF Body
  <1>16. \A e : Cached(new, e) <=> Cached(st, e)
    <2>1. DOMAIN blocks[b].recs = {}
      BY <1>4, <1>5
    <2> QED
      BY <1>4, <1>11, <2>1 DEF Cached
  <1>17. Kept(st, new, {})
    BY <1>11, <1>16 DEF Kept, Filed
  <1> QED
    BY <1>3, <1>4, <1>11, <1>15, <1>17 DEF b, new, blk

\* What the rooms are when one of them is v.
RoomsBut(blocks, b, v) == [x \in DOMAIN blocks |-> IF x = b THEN v ELSE Room(blocks[x].recs)]

FetchedNew(st, new, v) ==
    /\ Body(new) /\ Kept(st, new, {})
    /\ CountOK(new.blocks, new.cachecnt)
    /\ new.maxlen = st.maxlen
    /\ st.blockcount \in DOMAIN new.blocks /\ new.blocks[st.blockcount].recs = <<>>
    /\ FreeFits(new.free, RoomsBut(new.blocks, st.blockcount, v))

\* A new block is made (cache_fetch).
LEMMA FetchNew ==
    ASSUME NEW st, Body(st), CountOK(st.blocks, st.cachecnt), NEW v, NEW r,
           FreeFits(st.free, With(Rooms(st.blocks), st.blockcount, v))
    PROVE  FetchedNew(st, Fetch(st, st.blockcount, r), v)
  <1> DEFINE b == st.blockcount
             rooms == With(Rooms(st.blocks), b, v)
             mid == MakeRoom(st)
             fidx == FIdx(st, r)
             new == Load(mid, b, fidx)
  <1>1. b \notin DOMAIN st.blocks
    BY DEF Body, NumbersOK, IsStore
  <1>2. Fetch(st, b, r) = new
    BY <1>1 DEF Fetch
  <1>3. FreeFits(st.free, rooms)
    OBVIOUS
  <1>4. DOMAIN rooms = DOMAIN st.blocks \cup {b} /\ rooms[b] = v /\ \A c \in DOMAIN st.blocks : rooms[c] = Room(st.blocks[c].recs)
    BY <1>1 DEF With, Rooms
  <1> HIDE DEF rooms
  <1>5. /\ Body(mid) /\ Kept(st, mid, {})
        /\ mid.blockcount = b /\ mid.maxlen = st.maxlen
        /\ IsFiniteSet(DOMAIN mid.blocks)
        /\ mid.cachecnt = Cardinality(DOMAIN mid.blocks) + 1 /\ mid.cachecnt <= MaxBlocks
        /\ DOMAIN mid.blocks \subseteq DOMAIN st.blocks
        /\ \A c \in DOMAIN mid.blocks : mid.blocks[c] = st.blocks[c]
        /\ FreeFits(mid.free, Left(rooms, st, mid))
    BY <1>3, MakeRoomFacts
  <1> HIDE DEF mid
  <1>6. fidx \in 0 .. Areas - 1
    BY FIdxType
  <1> HIDE DEF fidx
  <1>7. /\ Body(new) /\ Kept(mid, new, {})
        /\ new.rc = mid.rc /\ new.free = mid.free
        /\ new.cachecnt = mid.cachecnt
        /\ new.maxlen = mid.maxlen
        /\ b \notin DOMAIN mid.blocks /\ DOMAIN new.blocks = DOMAIN mid.blocks \cup {b}
        /\ new.blocks[b] = [fidx |-> fidx, recs |-> <<>>]
        /\ \A c \in DOMAIN mid.blocks : new.blocks[c] = mid.blocks[c]
    <2>1. mid.blockcount = b /\ IsFiniteSet(DOMAIN mid.blocks) /\ Body(mid)
      BY <1>5
    <2> HIDE DEF b
    <2> QED
      BY <1>6, <2>1, LoadNew
  <1> HIDE DEF new, b
  <1>8. Kept(st, new, {})
    <2>1. IsStore(st)
      BY DEF Body
    <2> QED
      BY <1>5, <1>7, <2>1, KeptTwice
  <1>9. CountOK(new.blocks, new.cachecnt)
    <2>1. /\ IsFiniteSet(DOMAIN new.blocks)
          /\ Cardinality(DOMAIN new.blocks) = Cardinality(DOMAIN mid.blocks) + 1
      BY <1>5, <1>7, FS_AddElement
    <2> QED
      BY <1>5, <1>7, <2>1 DEF CountOK
  <1>10. Left(rooms, st, mid) = RoomsBut(new.blocks, b, v)
    <2>1. DOMAIN rooms \ (DOMAIN st.blocks \ DOMAIN mid.blocks) = DOMAIN new.blocks
      BY <1>1, <1>4, <1>5, <1>7 DEF b
    <2>2. ASSUME NEW x \in DOMAIN new.blocks
          PROVE  rooms[x] = IF x = b THEN v ELSE Room(new.blocks[x].recs)
      BY <1>4, <1>5, <1>7
    <2> QED
      BY <2>1, <2>2 DEF Left, RoomsBut
  <1> QED
    BY <1>2, <1>5, <1>7, <1>8, <1>9, <1>10 DEF b, FetchedNew

-----------------------------------------------------------------------------
(* A record changes, with its fragment in a block. *)

\* All but the record table, the blocks and the free list and count is as it was.
RestSame(st, new) ==
    /\ HasFields(new) /\ new.lists = st.lists /\ new.blockcount = st.blockcount
    /\ new.blockout = st.blockout /\ new.ref = st.ref /\ new.rfb = st.rfb /\ new.fault = st.fault
    /\ new.maxlen \in Nat /\ new.free \in Seq(FreeEntry) /\ new.cachecnt \in Int

\* The table changes at r only, where the number of fragments stays.
OneRecord(st, new, r) ==
    /\ IsRc(new.rc) /\ DOMAIN new.rc = DOMAIN st.rc
    /\ \A q \in DOMAIN st.rc \ {r} : new.rc[q] = st.rc[q]
    /\ new.rc[r].nfrags = st.rc[r].nfrags

\* What is noted of a record changes, and its block does not.
LEMMA RecordChanged ==
    ASSUME NEW st, Body(st), NEW r \in DOMAIN st.rc, NEW new, RestSame(st, new),
           OneRecord(st, new, r), new.rc[r].blk = st.rc[r].blk, new.blocks = st.blocks
    PROVE  Body(new) /\ Kept(st, new, {r})
  <1>1. /\ IsStore(st) /\ FragsOK(st.rc, st.blocks) /\ ListsOK(st.lists, st.blocks)
        /\ NumbersOK(st.blocks, st.blockcount) /\ FilesOK(st.rc, st.ref, st.rfb, st.blockout)
    BY DEF Body
  <1>2. IsStore(new)
    BY <1>1 DEF IsStore, RestSame, OneRecord
  <1>3. DOMAIN new.rc = DOMAIN st.rc
        /\ \A q \in DOMAIN st.rc : new.rc[q].nfrags = st.rc[q].nfrags /\ new.rc[q].blk = st.rc[q].blk
    BY DEF OneRecord
  <1>4. FragsOK(new.rc, st.blocks)
    <2>1. ASSUME NEW b \in DOMAIN st.blocks, NEW i \in DOMAIN st.blocks[b].recs
          PROVE  LET e == st.blocks[b].recs[i]
                 IN  /\ e.rec \in DOMAIN new.rc /\ new.rc[e.rec].blk = b
                     /\ e.frag = new.rc[e.rec].nfrags - 1
      <3>1. LET e == st.blocks[b].recs[i]
            IN  e.rec \in DOMAIN st.rc /\ st.rc[e.rec].blk = b /\ e.frag = st.rc[e.rec].nfrags - 1
        BY <1>1 DEF FragsOK
      <3> QED
        BY <1>3, <3>1
    <2>2. ASSUME NEW q \in DOMAIN new.rc, new.rc[q].blk # 0
          PROVE  /\ new.rc[q].blk \in DOMAIN st.blocks
                 /\ \E i \in DOMAIN st.blocks[new.rc[q].blk].recs :
                       st.blocks[new.rc[q].blk].recs[i].rec = q
      <3>1. q \in DOMAIN st.rc /\ new.rc[q].blk = st.rc[q].blk /\ st.rc[q].blk # 0
        BY <1>3, <2>2
      <3>2. /\ st.rc[q].blk \in DOMAIN st.blocks
            /\ \E i \in DOMAIN st.blocks[st.rc[q].blk].recs : st.blocks[st.rc[q].blk].recs[i].rec = q
        BY <1>1, <3>1 DEF FragsOK
      <3> QED
        BY <3>1, <3>2
    <2>3. \A b \in DOMAIN st.blocks : Room(st.blocks[b].recs) >= 0 /\ OneEach(st.blocks[b].recs)
      BY <1>1 DEF FragsOK
    <2> QED
      BY Zenon, <2>1, <2>2, <2>3 DEF FragsOK
  <1>5. FilesOK(new.rc, st.ref, st.rfb, st.blockout)
    <2>1. {k \in (DOMAIN new.rc) \X Nat : k[2] + 1 < new.rc[k[1]].nfrags}
            = {k \in (DOMAIN st.rc) \X Nat : k[2] + 1 < st.rc[k[1]].nfrags}
      BY <1>3
    <2> QED
      BY <1>1, <2>1 DEF FilesOK
  <1>6. Body(new)
    BY <1>1, <1>2, <1>4, <1>5 DEF Body, RestSame
  <1>7. Kept(st, new, {r})
    BY DEF Kept, Cached, Filed, RestSame, OneRecord
  <1> QED
    BY <1>6, <1>7

\* The fragments of block b change, those of r only; it has one there afterwards, or none.
Content(st, new, b, r, recs) ==
    LET old == st.blocks[b].recs
    IN  /\ new.blocks = [st.blocks EXCEPT ![b] = [@ EXCEPT !.recs = recs]]
        /\ recs \in Seq(Fragment) /\ Room(recs) >= 0 /\ OneEach(recs)
        /\ st.rc[r].blk \in {0, b} /\ new.rc[r].blk \in {0, b}
        /\ \A i \in DOMAIN recs : recs[i].rec # r => \E j \in DOMAIN old : old[j] = recs[i]
        /\ \A j \in DOMAIN old : old[j].rec # r => \E i \in DOMAIN recs : recs[i] = old[j]
        /\ \A i \in DOMAIN recs :
              recs[i].rec = r => new.rc[r].blk = b /\ recs[i].frag = st.rc[r].nfrags - 1
        /\ new.rc[r].blk = b => \E i \in DOMAIN recs : recs[i].rec = r

ContentAfter(st, new, b, r, recs) ==
    /\ Body(new) /\ Kept(st, new, {r})
    /\ DOMAIN new.blocks = DOMAIN st.blocks /\ new.blocks[b].recs = recs
    /\ \A c \in DOMAIN st.blocks : c # b => new.blocks[c] = st.blocks[c]
    /\ RoomsBut(st.blocks, b, Room(recs)) = Rooms(new.blocks)

\* The fragment of one record in a block changes.
LEMMA ContentChanged ==
    ASSUME NEW st, Body(st), NEW b \in DOMAIN st.blocks, NEW r \in DOMAIN st.rc, NEW recs,
           NEW new, RestSame(st, new), OneRecord(st, new, r), Content(st, new, b, r, recs)
    PROVE  ContentAfter(st, new, b, r, recs)
  <1> DEFINE old == st.blocks[b].recs
  <1>1. /\ IsStore(st) /\ FragsOK(st.rc, st.blocks) /\ ListsOK(st.lists, st.blocks)
        /\ NumbersOK(st.blocks, st.blockcount) /\ FilesOK(st.rc, st.ref, st.rfb, st.blockout)
        /\ IsBlocks(st.blocks) /\ IsRc(st.rc)
    BY DEF Body, IsStore
  <1>2. st.blocks[b] \in Block /\ b \in Nat \ {0}
    BY <1>1 DEF IsBlocks
  <1>3. /\ DOMAIN new.blocks = DOMAIN st.blocks
        /\ \A c \in DOMAIN st.blocks : c # b => new.blocks[c] = st.blocks[c]
        /\ new.blocks = [c \in DOMAIN st.blocks |-> new.blocks[c]]
        /\ new.blocks[b] = [st.blocks[b] EXCEPT !.recs = recs]
    BY DEF Content
  <1>4. new.blocks[b] \in Block /\ new.blocks[b].recs = recs /\ new.blocks[b].fidx = st.blocks[b].fidx
    <2>1. recs \in Seq(Fragment)
      BY DEF Content
    <2> QED
      BY <1>2, <1>3, <2>1 DEF Block
  <1>5. IsBlocks(new.blocks)
    BY <1>1, <1>3, <1>4 DEF IsBlocks
  <1>6. \A a : InArea(new.blocks, a) = InArea(st.blocks, a)
    BY <1>3, <1>4 DEF InArea
  <1>7. ListsOK(st.lists, new.blocks)
    BY <1>1, <1>6 DEF ListsOK
  <1>8. NumbersOK(new.blocks, st.blockcount)
    BY <1>1, <1>3 DEF NumbersOK
  <1>9. /\ DOMAIN new.rc = DOMAIN st.rc
        /\ \A q \in DOMAIN st.rc : new.rc[q].nfrags = st.rc[q].nfrags
        /\ \A q \in DOMAIN st.rc : q # r => new.rc[q] = st.rc[q]
    BY DEF OneRecord
  <1>10. FragsOK(new.rc, new.blocks)
    <2>1. ASSUME NEW c \in DOMAIN new.blocks
          PROVE  /\ Room(new.blocks[c].recs) >= 0 /\ OneEach(new.blocks[c].recs)
                 /\ \A i \in DOMAIN new.blocks[c].recs :
                       LET e == new.blocks[c].recs[i]
                       IN  e.rec \in DOMAIN new.rc /\ new.rc[e.rec].blk = c
                           /\ e.frag = new.rc[e.rec].nfrags - 1
      <3>1. CASE c = b
        <4>1. ASSUME NEW i \in DOMAIN recs
              PROVE  /\ recs[i].rec \in DOMAIN new.rc /\ new.rc[recs[i].rec].blk = b
                     /\ recs[i].frag = new.rc[recs[i].rec].nfrags - 1
          <5>1. CASE recs[i].rec = r
            BY <1>9, <5>1 DEF Content
          <5>2. CASE recs[i].rec # r
            <6>1. PICK j \in DOMAIN old : old[j] = recs[i]
              BY <5>2 DEF Content
            <6>2. old[j].rec \in DOMAIN st.rc /\ st.rc[old[j].rec].blk = b /\ old[j].frag = st.rc[old[j].rec].nfrags - 1
              BY CachedFacts
            <6> QED
              BY <1>9, <5>2, <6>1, <6>2
          <5> QED
            BY <5>1, <5>2
        <4>2. Room(recs) >= 0 /\ OneEach(recs)
          BY DEF Content
        <4> QED
          BY <1>4, <3>1, <4>1, <4>2
      <3>2. CASE c # b
        <4>1. c \in DOMAIN st.blocks /\ new.blocks[c] = st.blocks[c] /\ c # 0
          BY <1>1, <1>3, <3>2 DEF IsBlocks
        <4>2. ASSUME NEW i \in DOMAIN st.blocks[c].recs
              PROVE  LET e == st.blocks[c].recs[i]
                     IN  e.rec \in DOMAIN new.rc /\ new.rc[e.rec].blk = c
                         /\ e.frag = new.rc[e.rec].nfrags - 1
          <5> DEFINE e == st.blocks[c].recs[i]
          <5>1. e.rec \in DOMAIN st.rc /\ st.rc[e.rec].blk = c /\ e.frag = st.rc[e.rec].nfrags - 1
            BY <4>1, CachedFacts
          <5> HIDE DEF e
          <5>2. e.rec # r
            BY <3>2, <4>1, <5>1 DEF Content
          <5>3. e.rec \in DOMAIN new.rc /\ new.rc[e.rec].blk = c /\ e.frag = new.rc[e.rec].nfrags - 1
            BY <1>9, <5>1, <5>2
          <5> QED
            BY <5>3 DEF e
        <4>3. Room(st.blocks[c].recs) >= 0 /\ OneEach(st.blocks[c].recs)
          BY <1>1, <4>1 DEF FragsOK
        <4> QED
          BY <4>1, <4>2, <4>3
      <3> QED
        BY <3>1, <3>2
    <2>2. ASSUME NEW q \in DOMAIN new.rc, new.rc[q].blk # 0
          PROVE  /\ new.rc[q].blk \in DOMAIN new.blocks
                 /\ \E i \in DOMAIN new.blocks[new.rc[q].blk].recs : new.blocks[new.rc[q].blk].recs[i].rec = q
      <3>1. CASE q = r
        <4>1. new.rc[r].blk = b /\ \E i \in DOMAIN recs : recs[i].rec = r
          BY <2>2, <3>1 DEF Content
        <4> QED
          BY <1>3, <1>4, <3>1, <4>1
      <3>2. CASE q # r
        <4> DEFINE c == st.rc[q].blk
        <4>1. new.rc[q].blk = c /\ c # 0 /\ q \in DOMAIN st.rc
          BY <1>9, <2>2, <3>2
        <4>2. c \in DOMAIN st.blocks /\ \E j \in DOMAIN st.blocks[c].recs : st.blocks[c].recs[j].rec = q
          BY <1>1, <4>1 DEF FragsOK
        <4> HIDE DEF c
        <4>3. CASE c = b
          <5>1. PICK j \in DOMAIN old : old[j].rec = q
            BY <4>2, <4>3
          <5>2. \E i \in DOMAIN recs : recs[i] = old[j]
            BY <3>2, <5>1 DEF Content
          <5> QED
            BY <1>3, <1>4, <4>1, <4>2, <4>3, <5>1, <5>2
        <4>4. CASE c # b
          BY <1>3, <4>1, <4>2, <4>4
        <4> QED
          BY <4>3, <4>4
      <3> QED
        BY <3>1, <3>2
    <2> QED
      BY <2>1, <2>2 DEF FragsOK
  <1>11. FilesOK(new.rc, st.ref, st.rfb, st.blockout)
    <2>1. {k \in (DOMAIN new.rc) \X Nat : k[2] + 1 < new.rc[k[1]].nfrags}
            = {k \in (DOMAIN st.rc) \X Nat : k[2] + 1 < st.rc[k[1]].nfrags}
      BY <1>9
    <2> QED
      BY <1>1, <2>1 DEF FilesOK
  <1>12. IsStore(new)
    BY <1>1, <1>5 DEF IsStore, RestSame, OneRecord
  <1>13. Body(new)
    BY <1>7, <1>8, <1>10, <1>11, <1>12 DEF Body, RestSame
  <1>14. Kept(st, new, {r})
    <2>1. ASSUME NEW e, e.rec # r, Cached(new, e) PROVE Cached(st, e)
      <3>1. PICK c \in DOMAIN st.blocks : \E i \in DOMAIN new.blocks[c].recs : new.blocks[c].recs[i] = e
        BY <1>3, <2>1 DEF Cached
      <3>2. CASE c = b
        <4>1. \E i \in DOMAIN recs : recs[i] = e
          BY <1>4, <3>1, <3>2
        <4>2. \E j \in DOMAIN old : old[j] = e
          BY <2>1, <4>1 DEF Content
        <4> QED
          BY <4>2 DEF Cached
      <3>3. CASE c # b
        BY <1>3, <3>1, <3>3 DEF Cached
      <3> QED
        BY <3>2, <3>3
    <2>2. ASSUME NEW e, e.rec # r, Cached(st, e) PROVE Cached(new, e)
      <3>1. PICK c \in DOMAIN st.blocks : \E i \in DOMAIN st.blocks[c].recs : st.blocks[c].recs[i] = e
        BY <2>2 DEF Cached
      <3>2. CASE c = b
        <4>1. \E i \in DOMAIN recs : recs[i] = e
          BY <2>2, <3>1, <3>2 DEF Content
        <4> QED
          BY <1>3, <1>4, <4>1 DEF Cached
      <3>3. CASE c # b
        BY <1>3, <3>1, <3>3, SMTT(30) DEF Cached
      <3> QED
        BY <3>2, <3>3
    <2> QED
      BY <1>9, <2>1, <2>2 DEF Kept, Filed, RestSame
  <1>15. RoomsBut(st.blocks, b, Room(recs)) = Rooms(new.blocks)
    BY <1>3, <1>4 DEF RoomsBut, Rooms
  <1> QED
    BY <1>3, <1>4, <1>13, <1>14, <1>15 DEF ContentAfter

\* A record that points to another block, or to none.
Pointing(rc, r, blk) == [rc EXCEPT ![r] = [@ EXCEPT !.blk = blk]]

\* The record points there, and nothing else of it changes.
LEMMA PointingFacts ==
    ASSUME NEW rc, IsRc(rc), NEW r \in DOMAIN rc, NEW blk \in Nat
    PROVE  LET new == Pointing(rc, r, blk)
           IN  /\ IsRc(new) /\ DOMAIN new = DOMAIN rc
               /\ \A q \in DOMAIN rc : q # r => new[q] = rc[q]
               /\ new[r].blk = blk /\ new[r].nfrags = rc[r].nfrags /\ new[r].freq = rc[r].freq
               /\ new[r].bitsize = rc[r].bitsize /\ new[r].lastdoc = rc[r].lastdoc
  <1> DEFINE new == Pointing(rc, r, blk)
             rec == [rc[r] EXCEPT !.blk = blk]
  <1>1. rc[r] \in RecData
    BY DEF IsRc
  <1>2. /\ rec \in RecData
        /\ rec.blk = blk /\ rec.nfrags = rc[r].nfrags /\ rec.freq = rc[r].freq
        /\ rec.bitsize = rc[r].bitsize /\ rec.lastdoc = rc[r].lastdoc
    BY <1>1 DEF RecData
  <1>3. new = [rc EXCEPT ![r] = rec]
    BY DEF Pointing
  <1> HIDE DEF rec, new
  <1>4. /\ DOMAIN new = DOMAIN rc /\ new = [q \in DOMAIN rc |-> new[q]]
        /\ \A q \in DOMAIN rc : q # r => new[q] = rc[q]
        /\ new[r] = rec
    BY <1>3
  <1>5. \A q \in DOMAIN rc : new[q] \in RecData
    BY <1>2, <1>4 DEF IsRc
  <1>6. IsRc(new)
    BY <1>4, <1>5 DEF IsRc
  <1> QED
    BY <1>2, <1>4, <1>6 DEF new

\* A fragment is put into a block with room for it, of which the free list knows.
LEMMA PutIntoFacts ==
    ASSUME NEW st, Body(st), CountOK(st.blocks, st.cachecnt), NEW b \in DOMAIN st.blocks,
           NEW e \in Fragment, e.rec \in DOMAIN st.rc, st.rc[e.rec].blk = 0,
           e.frag = st.rc[e.rec].nfrags - 1, Room(st.blocks[b].recs) >= e.size + RecEnt,
           FreeFits(st.free, RoomsBut(st.blocks, b, Room(st.blocks[b].recs) - e.size - RecEnt))
    PROVE  LET new == PutInto(st, b, e)
           IN  /\ Sound(new) /\ Kept(st, new, {e.rec}) /\ Cached(new, e)
               /\ new.rc = Pointing(st.rc, e.rec, b) /\ new.maxlen = st.maxlen
  <1> DEFINE new == PutInto(st, b, e)
             old == st.blocks[b].recs
             recs == Append(old, e)
             r == e.rec
             rc == Pointing(st.rc, r, b)
             blocks == [st.blocks EXCEPT ![b] = [@ EXCEPT !.recs = recs]]
  <1>1. /\ HasFields(st) /\ IsStore(st) /\ IsBlocks(st.blocks) /\ IsRc(st.rc)
        /\ st.fault = FALSE /\ st.free \in Seq(FreeEntry) /\ st.cachecnt \in Int /\ st.maxlen \in Nat
    BY DEF Body, IsStore
  <1>2. b \in Nat \ {0} /\ old \in Seq(Fragment) /\ e.size \in Nat /\ Room(old) \in Int
    <2>1. st.blocks[b] \in Block
      BY <1>1 DEF IsBlocks
    <2>2. old \in Seq(Fragment)
      BY <2>1 DEF Block
    <2> HIDE DEF old
    <2> QED
      BY <1>1, <2>2, BlockNumbers, RoomLess DEF IsBlocks, Fragment
  <1>3. new = [st EXCEPT !.blocks = blocks, !.rc = rc]
    <2>1. ~ (Room(old) < e.size + RecEnt)
      BY <1>2, BlockNumbers
    <2> QED
      BY <1>1, <2>1 DEF PutInto, Pointing
  <1> HIDE DEF new
  <1>4. /\ HasFields(new) /\ new.rc = rc /\ new.blocks = blocks /\ new.free = st.free
        /\ new.lists = st.lists /\ new.cachecnt = st.cachecnt /\ new.blockcount = st.blockcount
        /\ new.maxlen = st.maxlen /\ new.blockout = st.blockout /\ new.ref = st.ref
        /\ new.rfb = st.rfb /\ new.fault = st.fault
    BY <1>1, <1>3 DEF HasFields, Fields
  <1>5. RestSame(st, new)
    BY <1>1, <1>4 DEF RestSame
  <1>6. OneRecord(st, new, r) /\ new.rc[r].blk = b
    <2>1. r \in DOMAIN st.rc /\ b \in Nat /\ IsRc(st.rc)
      BY <1>1, <1>2
    <2> HIDE DEF r
    <2> DEFINE was == st.rc
    <2>2. r \in DOMAIN was /\ b \in Nat /\ IsRc(was) /\ rc = Pointing(was, r, b)
      BY <2>1
    <2> HIDE DEF was, rc
    <2>3. /\ IsRc(rc) /\ DOMAIN rc = DOMAIN was /\ (\A q \in DOMAIN was : q # r => rc[q] = was[q])
          /\ rc[r].blk = b /\ rc[r].nfrags = was[r].nfrags
      BY <2>2, PointingFacts
    <2> QED
      BY <1>4, <2>3 DEF OneRecord, was
  <1>7. /\ recs \in Seq(Fragment) /\ Len(recs) = Len(old) + 1 /\ Len(old) \in Nat
        /\ DOMAIN recs = 1 .. Len(old) + 1 /\ DOMAIN old = 1 .. Len(old)
        /\ recs[Len(old) + 1] = e /\ \A i \in 1 .. Len(old) : recs[i] = old[i]
    BY <1>2
  <1>8. Room(recs) = Room(old) - e.size - RecEnt
    BY <1>2, BlockNumbers, RoomAppend
  <1>9. \A i \in DOMAIN old : old[i].rec # r
    BY <1>2, CachedFacts
  <1>10. OneEach(old)
    BY DEF Body, FragsOK
  <1> HIDE DEF recs, old
  <1>11. Room(recs) >= 0
    <2>1. Room(old) >= e.size + RecEnt
      BY DEF old
    <2> QED
      BY <1>2, <1>8, <2>1, BlockNumbers
  <1>12. OneEach(recs)
    BY <1>7, <1>9, <1>10 DEF OneEach
  <1>13. Content(st, new, b, r, recs)
    <2>1. \A i \in DOMAIN recs : recs[i].rec # r => \E j \in DOMAIN old : old[j] = recs[i]
      BY <1>7
    <2>2. \A j \in DOMAIN old : old[j].rec # r => \E i \in DOMAIN recs : recs[i] = old[j]
      BY <1>7
    <2>3. \A i \in DOMAIN recs : recs[i].rec = r => recs[i].frag = st.rc[r].nfrags - 1
      BY <1>7, <1>9
    <2>4. \E i \in DOMAIN recs : recs[i].rec = r
      BY <1>7
    <2> QED
      BY <1>4, <1>6, <1>7, <1>11, <1>12, <2>1, <2>2, <2>3, <2>4 DEF Content, old
  <1> HIDE DEF rc, blocks
  <1>14. /\ Body(new) /\ Kept(st, new, {r})
         /\ DOMAIN new.blocks = DOMAIN st.blocks /\ new.blocks[b].recs = recs
         /\ RoomsBut(st.blocks, b, Room(recs)) = Rooms(new.blocks)
    <2>1. r \in DOMAIN st.rc /\ OneRecord(st, new, r)
      BY <1>6
    <2> HIDE DEF r
    <2>2. ContentAfter(st, new, b, r, recs)
      BY <1>5, <1>13, <2>1, ContentChanged
    <2> QED
      BY <2>2 DEF ContentAfter
  <1>15. FreeFits(new.free, Rooms(new.blocks))
    <2>1. FreeFits(st.free, RoomsBut(st.blocks, b, Room(old) - e.size - RecEnt))
      BY DEF old
    <2> QED
      BY <1>4, <1>8, <1>14, <2>1
  <1>16. CountOK(new.blocks, new.cachecnt)
    BY <1>4, <1>14 DEF CountOK
  <1>17. Cached(new, e)
    BY <1>7, <1>14 DEF Cached
  <1> QED
    BY <1>4, <1>14, <1>15, <1>16, <1>17 DEF Sound, new, rc

\* The same, of rooms.
LEMMA RoomsButOne ==
    ASSUME NEW blocks, NEW b \in DOMAIN blocks, NEW v
    PROVE  /\ RoomsBut(blocks, b, v) = [x \in DOMAIN Rooms(blocks) |-> IF x = b THEN v ELSE Rooms(blocks)[x]]
           /\ DOMAIN Rooms(blocks) = DOMAIN blocks /\ Rooms(blocks)[b] = Room(blocks[b].recs)
  BY DEF RoomsBut, Rooms

\* Fragment frag of r is in the block r points to, at its place, and r has no other there.
Placed(st, r, frag) ==
    LET b == st.rc[r].blk
        recs == st.blocks[b].recs
        i == Place(recs, r, frag)
    IN  /\ b \in DOMAIN st.blocks /\ b \in Nat \ {0} /\ st.blocks[b] \in Block
        /\ recs \in Seq(Fragment)
        /\ i \in 1 .. Len(recs) /\ i # 0 /\ recs[i].rec = r /\ recs[i].frag = frag
        /\ recs[i] \in Fragment
        /\ \A j \in DOMAIN recs : recs[j].rec = r => j = i
        /\ \A e : e.rec = r /\ Cached(st, e) => e = recs[i]

\* The block a record points to has its last fragment.
LEMMA PlaceFacts ==
    ASSUME NEW st, Body(st), NEW r \in DOMAIN st.rc, st.rc[r].blk # 0, NEW frag,
           frag = st.rc[r].nfrags - 1
    PROVE  Placed(st, r, frag)
  <1> DEFINE b == st.rc[r].blk
             recs == st.blocks[b].recs
             at == {i \in DOMAIN recs : recs[i].rec = r /\ recs[i].frag = frag}
             i == Place(recs, r, frag)
  <1>1. FragsOK(st.rc, st.blocks) /\ IsBlocks(st.blocks)
    BY DEF Body, IsStore
  <1>2. b \in DOMAIN st.blocks /\ \E j \in DOMAIN recs : recs[j].rec = r
    BY <1>1 DEF FragsOK
  <1>3. b \in Nat \ {0} /\ st.blocks[b] \in Block /\ recs \in Seq(Fragment)
    <2>1. b \in Nat \ {0} /\ st.blocks[b] \in Block
      BY <1>1, <1>2 DEF IsBlocks
    <2> QED
      BY <2>1 DEF Block
  <1>4. OneEach(recs) /\ \A j \in DOMAIN recs : recs[j].rec = r => recs[j].frag = frag
    <2>1. OneEach(recs)
      BY <1>1, <1>2 DEF FragsOK
    <2>2. ASSUME NEW j \in DOMAIN recs, recs[j].rec = r PROVE recs[j].frag = frag
      <3>1. recs[j].frag = st.rc[recs[j].rec].nfrags - 1
        BY Zenon, <1>1, <1>2 DEF FragsOK
      <3> QED
        BY <2>2, <3>1
    <2> QED
      BY Zenon, <2>1, <2>2
  <1>5. at # {}
    BY Zenon, <1>2, <1>4
  <1>6. i = CHOOSE x \in at : TRUE
    BY Zenon, <1>5 DEF Place
  <1>7. i \in at
    BY Zenon, <1>5, <1>6
  <1>8. i \in DOMAIN recs /\ recs[i].rec = r /\ recs[i].frag = frag
    BY Zenon, <1>7
  <1>9. DOMAIN recs = 1 .. Len(recs) /\ Len(recs) \in Nat
    <2>1. recs \in Seq(Fragment)
      BY <1>3
    <2> HIDE DEF recs
    <2> QED
      BY <2>1
  <1>10. \A j \in DOMAIN recs : recs[j].rec = r => j = i
    BY Zenon, <1>4, <1>8 DEF OneEach
  <1>11. recs[i] \in Fragment
    BY <1>3, <1>8, <1>9, SMTT(30)
  <1>12. ASSUME NEW e, e.rec = r, Cached(st, e) PROVE e = recs[i]
    <2>1. PICK c \in DOMAIN st.blocks : \E j \in DOMAIN st.blocks[c].recs : st.blocks[c].recs[j] = e
      BY <1>12 DEF Cached
    <2>2. c = b
      BY <1>12, <2>1, CachedFacts
    <2> QED
      BY <1>10, <1>12, <2>1, <2>2
  <1> HIDE DEF i, recs, b
  <1>13. i \in 1 .. Len(recs) /\ i # 0
    BY <1>8, <1>9
  <1> QED
    BY Zenon, <1>2, <1>3, <1>8, <1>10, <1>11, <1>12, <1>13 DEF b, recs, i, Placed

\* The last fragment of a record is changed where it is.
SetRecs(blocks, b, recs) == [blocks EXCEPT ![b] = [@ EXCEPT !.recs = recs]]
SetAt(st, b, i, e) ==
    [st EXCEPT !.blocks = SetRecs(st.blocks, b, [st.blocks[b].recs EXCEPT ![i] = e])]

\* The fragments that fragment frag of r may be.
FragmentOf(r, frag) == {e \in Fragment : e.rec = r /\ e.frag = frag}

\* The block has room for it in that size.
Fits(st, r, frag, size) ==
    LET recs == st.blocks[st.rc[r].blk].recs
    IN  Room(recs) + recs[Place(recs, r, frag)].size - size >= 0

SetAfter(st, r, frag, e) ==
    LET b == st.rc[r].blk
        recs == st.blocks[b].recs
        i == Place(recs, r, frag)
        new == SetAt(st, b, i, e)
    IN  /\ Body(new) /\ Kept(st, new, {r}) /\ Cached(new, e)
        /\ new.rc = st.rc /\ new.free = st.free /\ new.cachecnt = st.cachecnt
        /\ new.maxlen = st.maxlen /\ new.blockcount = st.blockcount
        /\ DOMAIN new.blocks = DOMAIN st.blocks
        /\ Rooms(new.blocks) = RoomsBut(st.blocks, b, Room(recs) + recs[i].size - e.size)

\* It is overwritten.
LEMMA SetAtFacts ==
    ASSUME NEW st, Body(st), NEW r \in DOMAIN st.rc, st.rc[r].blk # 0,
           NEW frag, frag = st.rc[r].nfrags - 1, NEW e \in FragmentOf(r, frag),
           Fits(st, r, frag, e.size)
    PROVE  SetAfter(st, r, frag, e)
  <1> DEFINE b == st.rc[r].blk
             old == st.blocks[b].recs
             i == Place(old, r, frag)
             new == SetAt(st, b, i, e)
             recs == [old EXCEPT ![i] = e]
             blocks == SetRecs(st.blocks, b, recs)
  <1>0. Room(old) + old[i].size - e.size >= 0 /\ e \in Fragment
    BY DEF FragmentOf, Fits
  <1>1. /\ HasFields(st) /\ IsStore(st) /\ IsRc(st.rc)
        /\ st.free \in Seq(FreeEntry) /\ st.cachecnt \in Int /\ st.maxlen \in Nat
    BY DEF Body, IsStore
  <1>2. /\ b \in DOMAIN st.blocks /\ b \in Nat \ {0}
        /\ old \in Seq(Fragment)
        /\ i \in 1 .. Len(old) /\ i # 0 /\ old[i].rec = r /\ old[i] \in Fragment
        /\ \A j \in DOMAIN old : old[j].rec = r => j = i
    <2>1. Placed(st, r, frag)
      BY PlaceFacts
    <2> QED
      BY Zenon, <2>1 DEF Placed
  <1>3. OneEach(old)
    BY Zenon, <1>2 DEF Body, FragsOK
  <1>4. new = [st EXCEPT !.blocks = blocks]
    BY DEF SetAt
  <1> HIDE DEF new, i, old, b
  <1>6. /\ HasFields(new) /\ new.rc = st.rc /\ new.blocks = blocks /\ new.free = st.free
        /\ new.lists = st.lists /\ new.cachecnt = st.cachecnt /\ new.blockcount = st.blockcount
        /\ new.maxlen = st.maxlen /\ new.blockout = st.blockout /\ new.ref = st.ref
        /\ new.rfb = st.rfb /\ new.fault = st.fault
    BY <1>1, <1>4 DEF HasFields, Fields
  <1>7. RestSame(st, new)
    BY <1>1, <1>6 DEF RestSame
  <1>8. OneRecord(st, new, r)
    BY <1>0, <1>1, <1>6 DEF OneRecord
  <1>9. /\ Room(recs) = Room(old) + old[i].size - e.size
        /\ recs \in Seq(Fragment) /\ Len(recs) = Len(old)
    BY <1>0, <1>2, BlockNumbers, RoomSet
  <1>10. DOMAIN old = 1 .. Len(old) /\ DOMAIN recs = DOMAIN old /\ recs[i] = e
         /\ \A j \in DOMAIN old : j # i => recs[j] = old[j]
    BY <1>2
  <1> HIDE DEF recs
  <1>11. Room(recs) >= 0
    BY <1>0, <1>9
  <1>12. OneEach(recs)
    BY <1>2, <1>3, <1>10 DEF OneEach, FragmentOf
  <1>13. Content(st, new, b, r, recs)
    <2>1. \A j \in DOMAIN recs : recs[j].rec # r => \E k \in DOMAIN old : old[k] = recs[j]
      BY <1>10 DEF FragmentOf
    <2>2. \A j \in DOMAIN old : old[j].rec # r => \E k \in DOMAIN recs : recs[k] = old[j]
      BY <1>2, <1>10
    <2>3. \A j \in DOMAIN recs : recs[j].rec = r => recs[j].frag = st.rc[r].nfrags - 1
      BY <1>2, <1>10 DEF FragmentOf
    <2>4. \E j \in DOMAIN recs : recs[j].rec = r
      BY <1>2, <1>10 DEF FragmentOf
    <2>5. st.rc[r].blk = b
      BY DEF b
    <2>6. new.blocks = [st.blocks EXCEPT ![b] = [@ EXCEPT !.recs = recs]]
      BY <1>6 DEF SetRecs
    <2> QED
      BY <1>6, <1>9, <1>11, <1>12, <2>1, <2>2, <2>3, <2>4, <2>5, <2>6 DEF Content, old
  <1>14. /\ Body(new) /\ Kept(st, new, {r})
         /\ DOMAIN new.blocks = DOMAIN st.blocks /\ new.blocks[b].recs = recs
         /\ RoomsBut(st.blocks, b, Room(recs)) = Rooms(new.blocks)
    <2>1. b \in DOMAIN st.blocks
      BY <1>2
    <2> QED
      <3>1. ContentAfter(st, new, b, r, recs)
        BY <2>1, <1>7, <1>8, <1>13, ContentChanged
      <3> QED
        BY <3>1 DEF ContentAfter
  <1>15. Cached(new, e)
    BY <1>2, <1>10, <1>14 DEF Cached
  <1> HIDE DEF blocks
  <1> QED
    BY Zenon, <1>6, <1>9, <1>14, <1>15 DEF new, i, old, b, SetAfter

\* The last fragment of a record is taken out of its block, and the record points to none.
CutAt(st, b, i, r) ==
    [st EXCEPT !.blocks = SetRecs(st.blocks, b, RemoveAt(st.blocks[b].recs, i)),
               !.rc = Pointing(st.rc, r, 0)]

CutAfter(st, r, frag) ==
    LET b == st.rc[r].blk
        recs == st.blocks[b].recs
        i == Place(recs, r, frag)
        new == CutAt(st, b, i, r)
        room == Room(RemoveAt(recs, i))
    IN  /\ Body(new) /\ Kept(st, new, {r})
        /\ new.rc = Pointing(st.rc, r, 0) /\ new.free = st.free /\ new.cachecnt = st.cachecnt
        /\ new.maxlen = st.maxlen /\ new.blockcount = st.blockcount
        /\ DOMAIN new.blocks = DOMAIN st.blocks
        /\ Rooms(new.blocks) = RoomsBut(st.blocks, b, room)
        /\ room \in Nat /\ room <= BlockSize

\* It is deleted.
LEMMA CutAtFacts ==
    ASSUME NEW st, Body(st), NEW r \in DOMAIN st.rc, st.rc[r].blk # 0, NEW frag,
           frag = st.rc[r].nfrags - 1
    PROVE  CutAfter(st, r, frag)
  <1> DEFINE b == st.rc[r].blk
             old == st.blocks[b].recs
             i == Place(old, r, frag)
             new == CutAt(st, b, i, r)
             recs == RemoveAt(old, i)
             rc == Pointing(st.rc, r, 0)
             blocks == SetRecs(st.blocks, b, recs)
  <1>1. /\ HasFields(st) /\ IsStore(st) /\ IsRc(st.rc)
        /\ st.free \in Seq(FreeEntry) /\ st.cachecnt \in Int /\ st.maxlen \in Nat
    BY DEF Body, IsStore
  <1>2. /\ b \in DOMAIN st.blocks /\ b \in Nat \ {0}
        /\ old \in Seq(Fragment)
        /\ i \in 1 .. Len(old) /\ i # 0 /\ old[i].rec = r /\ old[i] \in Fragment
        /\ \A j \in DOMAIN old : old[j].rec = r => j = i
    <2>1. Placed(st, r, frag)
      BY PlaceFacts
    <2> QED
      BY Zenon, <2>1 DEF Placed
  <1>3. OneEach(old) /\ Room(old) >= 0
    BY Zenon, <1>2 DEF Body, FragsOK
  <1>4. new = [st EXCEPT !.blocks = blocks, !.rc = rc]
    BY DEF CutAt
  <1>5. /\ IsRc(rc) /\ DOMAIN rc = DOMAIN st.rc /\ (\A q \in DOMAIN st.rc : q # r => rc[q] = st.rc[q])
        /\ rc[r].blk = 0 /\ rc[r].nfrags = st.rc[r].nfrags
    BY <1>1, PointingFacts
  <1> HIDE DEF new, i, old, b, rc
  <1>6. /\ HasFields(new) /\ new.rc = rc /\ new.blocks = blocks /\ new.free = st.free
        /\ new.lists = st.lists /\ new.cachecnt = st.cachecnt /\ new.blockcount = st.blockcount
        /\ new.maxlen = st.maxlen /\ new.blockout = st.blockout /\ new.ref = st.ref
        /\ new.rfb = st.rfb /\ new.fault = st.fault
    BY <1>1, <1>4 DEF HasFields, Fields
  <1>7. RestSame(st, new)
    BY <1>1, <1>6 DEF RestSame
  <1>8. OneRecord(st, new, r)
    BY <1>5, <1>6 DEF OneRecord
  <1>9. /\ Room(recs) = Room(old) + old[i].size + RecEnt
        /\ recs \in Seq(Fragment) /\ Len(recs) = Len(old) - 1
        /\ \A j \in 1 .. Len(old) - 1 : recs[j] = IF j < i THEN old[j] ELSE old[j + 1]
    BY <1>2, BlockNumbers, RoomRemove, CutOut
  <1>10. DOMAIN old = 1 .. Len(old) /\ DOMAIN recs = 1 .. Len(old) - 1 /\ Len(old) \in Nat
    BY <1>2, <1>9
  <1> HIDE DEF recs
  <1>11. Room(recs) \in Nat /\ Room(recs) <= BlockSize
    <2>1. Room(recs) \in Int /\ Room(recs) <= BlockSize /\ Room(old) \in Int
      BY <1>2, <1>9, BlockNumbers, RoomLess
    <2>2. old[i].size \in Nat
      BY <1>2 DEF Fragment
    <2> QED
      BY <1>3, <1>9, <2>1, <2>2, BlockNumbers
  <1>12. \A j \in DOMAIN recs : \E k \in DOMAIN old : k # i /\ recs[j] = old[k] /\ k = IF j < i THEN j ELSE j + 1
    <2> SUFFICES ASSUME NEW j \in 1 .. Len(old) - 1
                 PROVE  \E k \in 1 .. Len(old) : k # i /\ recs[j] = old[k] /\ k = IF j < i THEN j ELSE j + 1
      BY <1>10
    <2>1. CASE j < i
      BY <1>2, <1>9, <2>1
    <2>2. CASE ~ (j < i)
      <3>1. j + 1 \in 1 .. Len(old) /\ j + 1 # i
        BY <1>2, <1>10, <2>2
      <3> QED
        BY <1>9, <2>2, <3>1
    <2> QED
      BY <2>1, <2>2
  <1>13. \A j \in DOMAIN recs : recs[j].rec # r
    BY <1>2, <1>12
  <1>14. OneEach(recs)
    <2> SUFFICES ASSUME NEW j \in DOMAIN recs, NEW l \in DOMAIN recs, recs[j].rec = recs[l].rec
                 PROVE  j = l
      BY DEF OneEach
    <2>1. PICK k \in DOMAIN old : recs[j] = old[k] /\ k = IF j < i THEN j ELSE j + 1
      BY <1>12
    <2>2. PICK m \in DOMAIN old : recs[l] = old[m] /\ m = IF l < i THEN l ELSE l + 1
      BY <1>12
    <2>3. k = m
      BY <1>3, <2>1, <2>2 DEF OneEach
    <2> QED
      BY <1>2, <1>10, <2>1, <2>2, <2>3
  <1>15. \A j \in DOMAIN old : old[j].rec # r => \E k \in DOMAIN recs : recs[k] = old[j]
    <2> SUFFICES ASSUME NEW j \in 1 .. Len(old), j # i
                 PROVE  \E k \in 1 .. Len(old) - 1 : recs[k] = old[j]
      BY <1>2, <1>10
    <2>1. CASE j < i
      <3>1. j \in 1 .. Len(old) - 1
        BY <1>2, <1>10, <2>1
      <3> QED
        BY <1>9, <2>1, <3>1
    <2>2. CASE j > i
      <3>1. j - 1 \in 1 .. Len(old) - 1 /\ ~ (j - 1 < i) /\ (j - 1) + 1 = j
        BY <1>2, <1>10, <2>2
      <3>2. recs[j - 1] = old[(j - 1) + 1]
        BY <1>9, <3>1
      <3> QED
        BY <3>1, <3>2
    <2> QED
      BY <1>2, <2>1, <2>2
  <1>16. Content(st, new, b, r, recs)
    <2>1. \A j \in DOMAIN recs : recs[j].rec # r => \E k \in DOMAIN old : old[k] = recs[j]
      BY <1>12
    <2>2. st.rc[r].blk = b
      BY DEF b
    <2>3. new.blocks = [st.blocks EXCEPT ![b] = [@ EXCEPT !.recs = recs]]
      BY <1>6 DEF SetRecs
    <2>4. new.rc[r].blk = 0 /\ b # 0
      BY <1>2, <1>5, <1>6
    <2>5. Room(recs) >= 0 /\ recs \in Seq(Fragment)
      BY <1>9, <1>11
    <2> QED
      BY <1>13, <1>14, <1>15, <2>1, <2>2, <2>3, <2>4, <2>5 DEF Content, old
  <1>17. /\ Body(new) /\ Kept(st, new, {r})
         /\ DOMAIN new.blocks = DOMAIN st.blocks /\ new.blocks[b].recs = recs
         /\ RoomsBut(st.blocks, b, Room(recs)) = Rooms(new.blocks)
    <2>1. b \in DOMAIN st.blocks
      BY <1>2
    <2> QED
      <3>1. ContentAfter(st, new, b, r, recs)
        BY <2>1, <1>7, <1>8, <1>16, ContentChanged
      <3> QED
        BY <3>1 DEF ContentAfter
  <1> HIDE DEF blocks
  <1> QED
    BY Zenon, <1>6, <1>11, <1>17 DEF new, i, old, b, recs, rc, CutAfter

-----------------------------------------------------------------------------
(* Fragments are written, grow and are deleted. *)

\* A call that leaves the last fragment of its record as e, in a block.
SameNumbers(st, new, r) ==
    /\ new.rc[r].freq = st.rc[r].freq /\ new.rc[r].nfrags = st.rc[r].nfrags
    /\ new.rc[r].bitsize = st.rc[r].bitsize /\ new.rc[r].lastdoc = st.rc[r].lastdoc

Puts(st, new, e) ==
    /\ Sound(new) /\ Kept(st, new, {e.rec}) /\ Cached(new, e)
    /\ SameNumbers(st, new, e.rec) /\ new.maxlen = st.maxlen

\* A fragment that may be the last one of its record.
IsLast(st, e) ==
    /\ e \in Fragment /\ e.rec \in DOMAIN st.rc /\ e.frag = st.rc[e.rec].nfrags - 1
    /\ e.size <= FragMax

\* A fragment that is put into a block.
LEMMA PutPuts ==
    ASSUME NEW st, Body(st), CountOK(st.blocks, st.cachecnt), NEW b \in DOMAIN st.blocks,
           NEW e \in Fragment, e.rec \in DOMAIN st.rc, st.rc[e.rec].blk = 0,
           e.frag = st.rc[e.rec].nfrags - 1, Room(st.blocks[b].recs) >= e.size + RecEnt,
           FreeFits(st.free, RoomsBut(st.blocks, b, Room(st.blocks[b].recs) - e.size - RecEnt))
    PROVE  Puts(st, PutInto(st, b, e), e)
  <1> DEFINE new == PutInto(st, b, e)
             r == e.rec
             rc == st.rc
  <1>1. /\ Sound(new) /\ Kept(st, new, {e.rec}) /\ Cached(new, e)
        /\ new.rc = Pointing(st.rc, e.rec, b) /\ new.maxlen = st.maxlen
    BY PutIntoFacts
  <1>2. r \in DOMAIN rc /\ b \in Nat /\ IsRc(rc)
    BY DEF Body, IsStore, IsBlocks
  <1> HIDE DEF r, rc
  <1>3. /\ Pointing(rc, r, b)[r].nfrags = rc[r].nfrags /\ Pointing(rc, r, b)[r].freq = rc[r].freq
        /\ Pointing(rc, r, b)[r].bitsize = rc[r].bitsize
        /\ Pointing(rc, r, b)[r].lastdoc = rc[r].lastdoc
    BY <1>2, PointingFacts
  <1>4. SameNumbers(st, new, e.rec)
    BY <1>1, <1>3 DEF SameNumbers, r, rc
  <1> QED
    BY <1>1, <1>4 DEF Puts

\* What is noted of a record stays so over two calls.
LEMMA SameNumbersTwice ==
    ASSUME NEW st, NEW mid, NEW new, NEW r, SameNumbers(st, mid, r), SameNumbers(mid, new, r)
    PROVE  SameNumbers(st, new, r)
  BY DEF SameNumbers

\* Nothing happens to a record that points to no block unless the call is about it.
LEMMA KeptUnplaced ==
    ASSUME NEW st, NEW new, NEW X, Kept(st, new, X), NEW r \in DOMAIN st.rc, st.rc[r].blk = 0, r \notin X
    PROVE  r \in DOMAIN new.rc /\ new.rc[r] = st.rc[r]
  BY DEF Kept

\* A fragment goes into a new block (BFrecord_frag_write).
LEMMA NewFragmentInNew ==
    ASSUME NEW st, Sound(st), NEW e, IsLast(st, e), st.rc[e.rec].blk = 0,
           NEW fidx \in 0 .. Areas - 1
    PROVE  Puts(st, NewIn(st, 0, fidx, e), e)
  <1> DEFINE b == st.blockcount
             v == BlockSize - e.size - RecEnt
             mid == AddToFree(st, b, fidx, v, FALSE)
             got == Fetch(mid, b, e.rec)
             new == PutInto(got, b, e)
  <1>1. /\ Body(st) /\ IsStore(st) /\ CountOK(st.blocks, st.cachecnt)
        /\ FreeFits(st.free, Rooms(st.blocks)) /\ b \in Nat /\ b \notin DOMAIN st.blocks
    BY DEF Sound, Body, IsStore, NumbersOK
  <1>2. e \in Fragment /\ e.size \in Nat \ {0} /\ v \in Nat /\ v < BlockSize + 2
    <2>1. e \in Fragment /\ e.size <= FragMax
      BY DEF IsLast
    <2>2. e.size \in Nat \ {0}
      BY <2>1 DEF Fragment
    <2> QED
      BY <2>1, <2>2, BlockNumbers
  <1>3. NewIn(st, 0, fidx, e) = new
    BY DEF NewIn
  <1>4. DOMAIN Rooms(st.blocks) = DOMAIN st.blocks
    BY DEF Rooms
  <1> HIDE DEF v
  <1>5. /\ mid = [st EXCEPT !.free = mid.free] /\ mid.free \in Seq(FreeEntry)
        /\ FreeFits(mid.free, With(Rooms(st.blocks), b, v))
    BY <1>1, <1>2, <1>4, AddToFreeNew
  <1> HIDE DEF mid
  <1>6. /\ Body(mid) /\ Kept(st, mid, {})
        /\ mid.rc = st.rc /\ mid.blocks = st.blocks /\ mid.blockcount = b
        /\ mid.maxlen = st.maxlen /\ mid.cachecnt = st.cachecnt
    BY <1>1, <1>5, FreeChanged
  <1>7. FetchedNew(mid, got, v)
    <2>1. CountOK(mid.blocks, mid.cachecnt) /\ FreeFits(mid.free, With(Rooms(mid.blocks), mid.blockcount, v))
      BY <1>1, <1>5, <1>6
    <2>2. FetchedNew(mid, Fetch(mid, mid.blockcount, e.rec), v)
      BY <1>6, <2>1, FetchNew
    <2> QED
      BY <1>6, <2>2
  <1> HIDE DEF got
  <1>8. /\ Body(got) /\ Kept(mid, got, {}) /\ CountOK(got.blocks, got.cachecnt)
        /\ got.maxlen = st.maxlen /\ b \in DOMAIN got.blocks /\ got.blocks[b].recs = <<>>
        /\ FreeFits(got.free, RoomsBut(got.blocks, b, v))
    BY <1>6, <1>7 DEF FetchedNew
  <1>9. Kept(st, got, {})
    BY <1>1, <1>6, <1>8, KeptTwice
  <1>10. e.rec \in DOMAIN got.rc /\ got.rc[e.rec] = st.rc[e.rec]
    <2>1. e.rec \in DOMAIN st.rc
      BY DEF IsLast
    <2> QED
      BY <1>9, <2>1, KeptUnplaced
  <1>11. Room(got.blocks[b].recs) = BlockSize
    BY <1>8, BlockNumbers, RoomOfNone
  <1>12. Puts(got, new, e)
    <2>1. Room(got.blocks[b].recs) >= e.size + RecEnt /\ Room(got.blocks[b].recs) - e.size - RecEnt = v
      BY <1>2, <1>11, BlockNumbers DEF v
    <2>2. e.frag = got.rc[e.rec].nfrags - 1 /\ got.rc[e.rec].blk = 0
      BY <1>10 DEF IsLast
    <2>3. FreeFits(got.free, RoomsBut(got.blocks, b, Room(got.blocks[b].recs) - e.size - RecEnt))
      BY <1>8, <2>1
    <2>4. b \in DOMAIN got.blocks /\ Body(got) /\ CountOK(got.blocks, got.cachecnt)
      BY <1>8
    <2> HIDE DEF b
    <2> QED
      BY <1>2, <1>10, <2>1, <2>2, <2>3, <2>4, PutPuts
  <1> HIDE DEF new
  <1>13. Kept(st, new, {e.rec})
    <2>1. Kept(st, got, {e.rec})
      BY <1>9, KeptMore
    <2> QED
      BY <1>1, <1>12, <2>1, KeptTwice DEF Puts
  <1> QED
    BY <1>3, <1>8, <1>10, <1>12, <1>13 DEF Puts, SameNumbers

\* A fragment goes into a block that has room (BFrecord_frag_write).
LEMMA NewFragmentInOld ==
    ASSUME NEW st, Sound(st), NEW e, IsLast(st, e), st.rc[e.rec].blk = 0, NEW fidx, NEW b,
           b # 0, b = FreeBlockFor(st, fidx, e.size)
    PROVE  Puts(st, NewIn(st, b, fidx, e), e)
  <1> DEFINE mid == TakeRoom(st, b, e.size)
             got == Fetch(mid, b, e.rec)
             new == PutInto(got, b, e)
             rooms == Rooms(st.blocks)
             v == Room(st.blocks[b].recs) - e.size - RecEnt
  <1>1. /\ Body(st) /\ IsStore(st) /\ CountOK(st.blocks, st.cachecnt)
        /\ FreeFits(st.free, rooms)
    BY DEF Sound, Body
  <1>2. e \in Fragment /\ e.size \in Nat
    BY DEF IsLast, Fragment
  <1>3. NewIn(st, b, fidx, e) = new
    BY DEF NewIn
  <1>4. DOMAIN rooms = DOMAIN st.blocks /\ \A x \in DOMAIN rooms : rooms[x] = Room(st.blocks[x].recs)
    BY DEF Rooms
  <1> HIDE DEF rooms
  <1>5. \E i \in DOMAIN st.free : /\ st.free[i].blk = b /\ b \in DOMAIN rooms
                                  /\ rooms[b] >= e.size + RecEnt
    BY <1>1, <1>2, FreeBlockForFacts
  <1>6. b \in DOMAIN st.blocks /\ rooms[b] >= e.size + RecEnt /\ Room(st.blocks[b].recs) = rooms[b]
    BY <1>4, <1>5
  <1>7. FreeListAfter(st, mid, RoomAt(rooms, b, rooms[b] - e.size - RecEnt))
    <2>1. \E i \in DOMAIN st.free : st.free[i].blk = b
      BY <1>5
    <2>2. rooms[b] >= e.size + RecEnt
      BY <1>6
    <2> QED
      BY <1>1, <1>2, <2>1, <2>2, TakeRoomFacts
  <1>8. /\ mid = [st EXCEPT !.free = mid.free] /\ mid.free \in Seq(FreeEntry)
        /\ FreeFits(mid.free, RoomsBut(st.blocks, b, v))
    <2>1. RoomsBut(st.blocks, b, v) = RoomAt(rooms, b, rooms[b] - e.size - RecEnt)
      BY <1>4, <1>6 DEF RoomsBut, RoomAt
    <2> QED
      BY <1>7, <2>1 DEF FreeListAfter
  <1> HIDE DEF mid
  <1>9. /\ Body(mid) /\ Kept(st, mid, {})
        /\ mid.rc = st.rc /\ mid.blocks = st.blocks
        /\ mid.maxlen = st.maxlen /\ mid.cachecnt = st.cachecnt
    BY <1>1, <1>8, FreeChanged
  <1>10. SameBut(mid, got)
    BY <1>6, <1>9, FetchCached
  <1> HIDE DEF got
  <1>11. /\ Body(got) /\ Kept(mid, got, {}) /\ got.rc = st.rc /\ got.blocks = st.blocks
         /\ got.free = mid.free /\ got.cachecnt = st.cachecnt /\ got.maxlen = st.maxlen
    BY <1>9, <1>10 DEF SameBut
  <1>12. Kept(st, got, {})
    BY <1>1, <1>9, <1>11, KeptTwice
  <1>13. Puts(got, new, e)
    <2>1. Room(got.blocks[b].recs) >= e.size + RecEnt /\ Room(got.blocks[b].recs) - e.size - RecEnt = v
      BY <1>6, <1>11
    <2>2. e.frag = got.rc[e.rec].nfrags - 1 /\ got.rc[e.rec].blk = 0 /\ e.rec \in DOMAIN got.rc
      BY <1>11 DEF IsLast
    <2>3. FreeFits(got.free, RoomsBut(got.blocks, b, Room(got.blocks[b].recs) - e.size - RecEnt))
      BY <1>8, <1>11, <2>1
    <2>4. b \in DOMAIN got.blocks /\ Body(got) /\ CountOK(got.blocks, got.cachecnt)
      BY <1>1, <1>6, <1>11
    <2> QED
      BY <1>2, <2>1, <2>2, <2>3, <2>4, PutPuts
  <1> HIDE DEF new
  <1>14. Kept(st, new, {e.rec})
    <2>1. Kept(st, got, {e.rec})
      BY <1>12, KeptMore
    <2> QED
      BY <1>1, <1>13, <2>1, KeptTwice DEF Puts
  <1> QED
    BY <1>3, <1>11, <1>13, <1>14 DEF Puts, SameNumbers

\* A fragment finds a block (BFrecord_frag_write).
LEMMA NewFragmentFacts ==
    ASSUME NEW st, Sound(st), NEW e, IsLast(st, e), st.rc[e.rec].blk = 0
    PROVE  Puts(st, NewFragment(st, e), e)
  <1> DEFINE fidx == FIdx(st, e.rec)
             b == FreeBlockFor(st, fidx, e.size)
  <1>1. NewFragment(st, e) = NewIn(st, b, fidx, e)
    BY DEF NewFragment
  <1>2. fidx \in 0 .. Areas - 1
    BY FIdxType
  <1> HIDE DEF fidx
  <1>3. CASE b = 0
    BY <1>1, <1>2, <1>3, NewFragmentInNew
  <1>4. CASE b # 0
    <2>1. Puts(st, NewIn(st, b, fidx, e), e)
      BY <1>4, NewFragmentInOld
    <2> QED
      BY <1>1, <2>1
  <1> QED
    BY <1>3, <1>4

\* The free list is changed after a block was, so that the store is sound again.
SoundAfter(mid, new) ==
    /\ Sound(new) /\ (\A X : Kept(mid, new, X)) /\ new.rc = mid.rc /\ new.blocks = mid.blocks
    /\ new.maxlen = mid.maxlen

\* freelist_add of a block that has changed.
LEMMA SoundAgain ==
    ASSUME NEW st, Sound(st), NEW mid, Body(mid), mid.free = st.free, mid.cachecnt = st.cachecnt,
           DOMAIN mid.blocks = DOMAIN st.blocks, NEW b \in DOMAIN st.blocks, NEW v \in Nat,
           v < BlockSize + 2, Rooms(mid.blocks) = RoomsBut(st.blocks, b, v), NEW fidx \in 0 .. Areas - 1
    PROVE  SoundAfter(mid, AddToFree(mid, b, fidx, v, TRUE))
  <1> DEFINE new == AddToFree(mid, b, fidx, v, TRUE)
             rooms == Rooms(st.blocks)
  <1>1. /\ Body(st) /\ CountOK(st.blocks, st.cachecnt) /\ FreeFits(st.free, rooms) /\ b \in Nat
        /\ IsStore(mid)
    BY DEF Sound, Body, IsStore, IsBlocks
  <1>2. b \in DOMAIN rooms
    BY DEF Rooms
  <1>3. RoomAt(rooms, b, v) = Rooms(mid.blocks)
    BY DEF RoomAt, RoomsBut, Rooms
  <1> HIDE DEF rooms
  <1>4. FreeFits(mid.free, rooms)
    BY <1>1
  <1>5. FreeListAfter(mid, new, RoomAt(rooms, b, v))
    BY <1>1, <1>2, <1>4, AddToFreeAgain
  <1> HIDE DEF new
  <1>6. new = [mid EXCEPT !.free = new.free] /\ new.free \in Seq(FreeEntry)
        /\ FreeFits(new.free, Rooms(mid.blocks))
    BY <1>3, <1>5 DEF FreeListAfter
  <1>7. /\ Body(new) /\ (\A X : Kept(mid, new, X))
        /\ new.rc = mid.rc /\ new.blocks = mid.blocks
        /\ new.maxlen = mid.maxlen /\ new.cachecnt = mid.cachecnt
    BY <1>6, FreeChanged
  <1>8. CountOK(new.blocks, new.cachecnt)
    BY <1>1, <1>7 DEF CountOK
  <1> QED
    BY <1>6, <1>7, <1>8 DEF Sound, new, SoundAfter

\* The fragment of a record that goes into the block it is in, at its place.
LEMMA OverwriteFragmentFacts ==
    ASSUME NEW st, Sound(st), NEW e, IsLast(st, e), st.rc[e.rec].blk # 0,
           \E old : Cached(st, old) /\ old.rec = e.rec /\ old.size = e.size
    PROVE  Puts(st, OverwriteFragment(st, e), e)
  <1> DEFINE r == e.rec
             frag == e.frag
             b == st.rc[r].blk
             f == Fetch(st, b, r)
             recs == f.blocks[b].recs
             i == Place(recs, r, frag)
             new == OverwriteAt(f, b, i, e)
  <1>1. OverwriteFragment(st, e) = new
    BY DEF OverwriteFragment
  <1>2. Body(st) /\ r \in DOMAIN st.rc /\ e \in FragmentOf(r, frag) /\ b # 0
    BY DEF Sound, IsLast, FragmentOf
  <1>3. frag = st.rc[r].nfrags - 1
    BY DEF IsLast
  <1>4. \E old : Cached(st, old) /\ old.rec = r /\ old.size = e.size
    OBVIOUS
  <1> HIDE DEF r, frag
  <1>5. Placed(st, r, frag)
    BY <1>2, <1>3, PlaceFacts
  <1>6. b \in DOMAIN st.blocks
    BY Zenon, <1>5 DEF Placed
  <1>7. SameBut(st, f)
    BY <1>2, <1>6, FetchCached
  <1> HIDE DEF f
  <1>8. /\ Body(f) /\ Kept(st, f, {r}) /\ f.rc = st.rc /\ f.blocks = st.blocks /\ f.free = st.free
        /\ f.cachecnt = st.cachecnt /\ f.maxlen = st.maxlen /\ f.fault = FALSE
    BY <1>7 DEF SameBut, Body, IsStore
  <1>9. i # 0 /\ i \in 1 .. Len(recs) /\ recs \in Seq(Fragment) /\ recs[i].size = e.size
    BY Zenon, <1>4, <1>5, <1>8 DEF Placed
  <1>10. new = SetAt(f, b, i, e)
    BY Zenon, <1>8, <1>9 DEF OverwriteAt, SetAt, SetRecs
  <1>11. Room(recs) \in Int /\ e.size \in Nat /\ Room(recs) >= 0
    <2>1. Room(recs) \in Int
      BY <1>9, BlockNumbers, RoomLess
    <2>2. e.size \in Nat
      BY <1>2 DEF FragmentOf, Fragment
    <2>3. Room(recs) >= 0
      BY <1>6, <1>8 DEF Body, FragsOK
    <2> QED
      BY <2>1, <2>2, <2>3
  <1> DEFINE room == Room(recs) + recs[i].size - e.size
  <1>12. room = Room(recs)
    BY <1>9, <1>11
  <1>13. Fits(f, r, frag, e.size)
    BY <1>8, <1>11, <1>12 DEF Fits
  <1>14. /\ Body(new) /\ Kept(f, new, {r}) /\ Cached(new, e)
         /\ new.rc = f.rc /\ new.free = f.free /\ new.cachecnt = f.cachecnt
         /\ new.maxlen = f.maxlen
         /\ DOMAIN new.blocks = DOMAIN f.blocks
         /\ Rooms(new.blocks) = RoomsBut(f.blocks, b, room)
    <2>1. f.rc[r].blk = b /\ r \in DOMAIN f.rc /\ f.rc[r].blk # 0
      BY <1>2, <1>8
    <2>2. frag = f.rc[r].nfrags - 1
      BY <1>3, <1>8
    <2>3. SetAfter(f, r, frag, e)
      BY <1>2, <1>8, <1>13, <2>1, <2>2, SetAtFacts
    <2>4. SetAt(f, b, i, e) = new
      BY <1>10
    <2> HIDE DEF new
    <2> QED
      BY <2>1, <2>3, <2>4 DEF SetAfter
  <1> HIDE DEF new, room, i
  <1>15. Rooms(new.blocks) = Rooms(st.blocks)
    BY <1>8, <1>12, <1>14 DEF RoomsBut, Rooms
  <1>16. Sound(new)
    BY <1>8, <1>14, <1>15 DEF Sound, CountOK
  <1>17. Kept(st, new, {r})
    BY <1>2, <1>8, <1>14, KeptTwice DEF Body
  <1> QED
    BY <1>1, <1>8, <1>14, <1>16, <1>17 DEF Puts, SameNumbers, r

\* _BFrecord_delete
Deletes(st, new, r) ==
    /\ Sound(new) /\ Kept(st, new, {r}) /\ SameNumbers(st, new, r) /\ new.maxlen = st.maxlen
    /\ new.rc[r].blk = 0

\* _BFrecord_delete
LEMMA DeleteFragmentFacts ==
    ASSUME NEW st, Sound(st), NEW r \in DOMAIN st.rc, st.rc[r].blk # 0, NEW frag,
           frag = st.rc[r].nfrags - 1
    PROVE  Deletes(st, DeleteFragment(st, r, frag), r)
  <1> DEFINE b == st.rc[r].blk
             f == Fetch(st, b, r)
             recs == f.blocks[b].recs
             i == Place(recs, r, frag)
             v == Room(RemoveAt(recs, i))
             mid == CutAt(f, b, i, r)
             fidx == FIdx(f, r)
             new == AddToFree(mid, b, fidx, v, TRUE)
  <1>1. Body(st)
    BY DEF Sound
  <1>2. Placed(st, r, frag)
    BY <1>1, PlaceFacts
  <1>3. b \in DOMAIN st.blocks
    BY Zenon, <1>2 DEF Placed
  <1>4. SameBut(st, f)
    BY <1>1, <1>3, FetchCached
  <1>5. DeleteFragment(st, r, frag) = DeleteAt(f, b, i, r)
    BY DEF DeleteFragment
  <1> HIDE DEF f
  <1>6. /\ Body(f) /\ Kept(st, f, {r}) /\ f.rc = st.rc /\ f.blocks = st.blocks /\ f.free = st.free
        /\ f.cachecnt = st.cachecnt /\ f.maxlen = st.maxlen /\ f.fault = FALSE
    BY <1>4 DEF SameBut, Body, IsStore
  <1>7. i # 0
    BY Zenon, <1>2, <1>6 DEF Placed
  <1>8. DeleteAt(f, b, i, r) = new
    BY Zenon, <1>6, <1>7 DEF DeleteAt, CutAt, SetRecs, Pointing
  <1>9. /\ Body(mid) /\ Kept(f, mid, {r})
        /\ mid.rc = Pointing(f.rc, r, 0) /\ mid.free = f.free /\ mid.cachecnt = f.cachecnt
        /\ mid.maxlen = f.maxlen /\ DOMAIN mid.blocks = DOMAIN f.blocks
        /\ Rooms(mid.blocks) = RoomsBut(f.blocks, b, v)
        /\ v \in Nat /\ v <= BlockSize
    <2>1. f.rc[r].blk = b /\ r \in DOMAIN f.rc /\ f.rc[r].blk # 0 /\ frag = f.rc[r].nfrags - 1
      BY <1>6
    <2>2. CutAfter(f, r, frag)
      BY <1>6, <2>1, CutAtFacts
    <2> QED
      BY Zenon, <2>1, <2>2 DEF CutAfter
  <1> HIDE DEF mid, v
  <1>10. fidx \in 0 .. Areas - 1
    BY FIdxType
  <1> HIDE DEF fidx
  <1>11. SoundAfter(mid, new)
    <2>1. /\ Body(mid) /\ mid.free = st.free /\ mid.cachecnt = st.cachecnt
          /\ DOMAIN mid.blocks = DOMAIN st.blocks /\ Rooms(mid.blocks) = RoomsBut(st.blocks, b, v)
      BY <1>6, <1>9
    <2>2. v \in Nat /\ v < BlockSize + 2
      BY <1>9, BlockNumbers
    <2>3. b \in DOMAIN st.blocks
      BY <1>3
    <2> HIDE DEF b
    <2> QED
      BY <1>10, <2>1, <2>2, <2>3, SoundAgain
  <1> HIDE DEF new
  <1>12. Kept(st, new, {r})
    <2>1. Kept(st, mid, {r})
      BY <1>1, <1>6, <1>9, KeptTwice DEF Body
    <2>2. Kept(mid, new, {r})
      BY <1>11 DEF SoundAfter
    <2> QED
      BY <1>1, <2>1, <2>2, KeptTwice DEF Body
  <1>13. SameNumbers(st, new, r) /\ new.rc[r].blk = 0
    <2>1. IsRc(st.rc) /\ 0 \in Nat
      BY <1>1 DEF Body, IsStore
    <2> DEFINE rc == st.rc
    <2>2. IsRc(rc) /\ r \in DOMAIN rc /\ new.rc = Pointing(rc, r, 0)
      BY <1>6, <1>9, <1>11, <2>1 DEF SoundAfter
    <2> HIDE DEF rc
    <2>3. LET p == Pointing(rc, r, 0)
          IN  /\ p[r].blk = 0 /\ p[r].nfrags = rc[r].nfrags /\ p[r].freq = rc[r].freq
              /\ p[r].bitsize = rc[r].bitsize /\ p[r].lastdoc = rc[r].lastdoc
      BY <2>1, <2>2, PointingFacts
    <2> QED
      BY <2>2, <2>3 DEF SameNumbers, rc
  <1> QED
    BY <1>5, <1>6, <1>8, <1>9, <1>11, <1>12, <1>13 DEF Deletes, SoundAfter

\* A fragment that grows becomes bigger, and stays what it was.
Grown(e, size) == [e EXCEPT !.size = size]

\* It is the fragment in another size.
LEMMA GrownFacts ==
    ASSUME NEW r, NEW frag, NEW e \in FragmentOf(r, frag), NEW size \in Nat \ {0}
    PROVE  Grown(e, size) \in FragmentOf(r, frag) /\ Grown(e, size).size = size
  BY DEF Grown, Fragment, FragmentOf

\* Its record is there.
LEMMA KeptPlaced ==
    ASSUME NEW st, NEW new, NEW r, Kept(st, new, {r}), r \in DOMAIN st.rc
    PROVE  r \in DOMAIN new.rc
  BY DEF Kept

\* It is moved to another block.
LEMMA MoveFacts ==
    ASSUME NEW st, Sound(st), NEW r \in DOMAIN st.rc, st.rc[r].blk # 0, NEW frag,
           frag = st.rc[r].nfrags - 1, NEW e \in FragmentOf(r, frag), e.size <= FragMax
    PROVE  Puts(st, NewFragment(DeleteFragment(st, r, frag), e), e)
  <1> DEFINE mid == DeleteFragment(st, r, frag)
             new == NewFragment(mid, e)
  <1>1. Deletes(st, mid, r)
    BY DeleteFragmentFacts
  <1> HIDE DEF mid
  <1>2. /\ Sound(mid) /\ Kept(st, mid, {r}) /\ SameNumbers(st, mid, r) /\ mid.maxlen = st.maxlen
        /\ mid.rc[r].blk = 0
    BY <1>1 DEF Deletes
  <1>3. e.rec = r /\ e \in Fragment /\ e.frag = frag
    BY DEF FragmentOf
  <1>4. r \in DOMAIN mid.rc
    BY <1>2, KeptPlaced
  <1>5. IsLast(mid, e)
    BY <1>2, <1>3, <1>4 DEF IsLast, SameNumbers
  <1>6. Puts(mid, new, e)
    BY <1>2, <1>3, <1>5, NewFragmentFacts
  <1> HIDE DEF new
  <1>7. Kept(st, new, {e.rec})
    <2>1. Kept(st, mid, {e.rec})
      BY <1>2, <1>3
    <2>2. Kept(mid, new, {e.rec}) /\ IsStore(st)
      BY <1>6 DEF Puts, Sound, Body
    <2> QED
      BY <2>1, <2>2, KeptTwice
  <1>8. SameNumbers(st, new, e.rec) /\ new.maxlen = st.maxlen
    BY <1>2, <1>3, <1>6 DEF SameNumbers, Puts
  <1> QED
    BY <1>6, <1>7, <1>8 DEF Puts, new, mid

\* BFrecord_frag_grow
LEMMA GrowFragmentFacts ==
    ASSUME NEW st, Sound(st), NEW r \in DOMAIN st.rc, st.rc[r].blk # 0, NEW frag,
           frag = st.rc[r].nfrags - 1, NEW e \in FragmentOf(r, frag), Cached(st, e),
           NEW size \in Nat, e.size < size, size <= FragMax
    PROVE  Puts(st, GrowFragment(st, r, frag, size), Grown(e, size))
  <1> DEFINE b == st.rc[r].blk
             f == Fetch(st, b, r)
             recs == f.blocks[b].recs
             i == Place(recs, r, frag)
             g == Grown(e, size)
             more == size - e.size
             mid == SetAt(f, b, i, g)
             fidx == FIdx(f, r)
             new == GrowAt(f, b, i, size)
  <1>1. Body(st)
    BY DEF Sound
  <1>2. e \in Fragment /\ e.rec = r /\ e.frag = frag /\ e.size \in Nat \ {0}
    BY DEF FragmentOf, Fragment
  <1>3. Placed(st, r, frag)
    BY <1>1, PlaceFacts
  <1>4. b \in DOMAIN st.blocks /\ b # 0
    BY Zenon, <1>3 DEF Placed
  <1>5. SameBut(st, f)
    BY <1>1, <1>4, FetchCached
  <1>6. GrowFragment(st, r, frag, size) = new
    BY DEF GrowFragment
  <1> HIDE DEF f
  <1>7. /\ Body(f) /\ Kept(st, f, {r}) /\ f.rc = st.rc /\ f.blocks = st.blocks /\ f.free = st.free
        /\ f.cachecnt = st.cachecnt /\ f.maxlen = st.maxlen /\ f.fault = FALSE
    BY <1>5 DEF SameBut, Body, IsStore
  <1>8. i # 0 /\ recs[i] = e /\ recs \in Seq(Fragment)
    BY Zenon, <1>2, <1>3, <1>7 DEF Placed
  <1>9. g \in FragmentOf(r, frag) /\ g.size = size /\ g.rec = r /\ g.frag = frag
    <2>1. size \in Nat \ {0}
      BY <1>2
    <2>2. g \in FragmentOf(r, frag) /\ g.size = size
      BY <2>1, GrownFacts
    <2> QED
      BY <2>2 DEF FragmentOf
  <1>10. new = IF Room(recs) < more THEN NewFragment(DeleteFragment(f, r, frag), g)
               ELSE AddToFree(mid, b, fidx, Room(recs) - more, TRUE)
    <2> DEFINE h == [recs[i] EXCEPT !.size = size]
               inc == size - recs[i].size
    <2>1. b # 0 /\ f.fault = FALSE /\ i # 0
      BY <1>4, <1>7, <1>8
    <2>2. new = IF Room(recs) < inc THEN NewFragment(DeleteFragment(f, h.rec, h.frag), h)
                ELSE AddToFree([f EXCEPT !.blocks[b].recs[i] = h], b, FIdx(f, h.rec),
                               Room(recs) - inc, TRUE)
      BY Zenon, <2>1 DEF GrowAt
    <2>3. h = g /\ inc = more
      BY <1>8 DEF Grown
    <2>4. mid = [f EXCEPT !.blocks[b].recs[i] = g]
      BY DEF SetAt, SetRecs
    <2> HIDE DEF more, g, mid, h, inc, new
    <2> QED
      BY <1>9, <2>2, <2>3, <2>4
  <1>11. f.rc[r].blk = b /\ r \in DOMAIN f.rc /\ f.rc[r].blk # 0
    BY <1>4, <1>7
  <1>12. frag = f.rc[r].nfrags - 1
    BY <1>7
  <1>13. Sound(f)
    BY <1>7 DEF Sound
  <1>14. Room(recs) \in Nat /\ Room(recs) <= BlockSize /\ more \in Nat
    <2>1. Room(recs) \in Int /\ Room(recs) <= BlockSize
      BY <1>8, BlockNumbers, RoomLess
    <2>2. Room(recs) >= 0
      BY <1>4, <1>7 DEF Body, FragsOK
    <2> QED
      BY <1>2, <2>1, <2>2
  <1> HIDE DEF g, new, fidx
  <1>15. CASE Room(recs) < more
    <2>1. Puts(f, NewFragment(DeleteFragment(f, r, frag), g), g)
      <3>1. g.size <= FragMax
        BY <1>9
      <3> QED
        BY <1>9, <1>11, <1>12, <1>13, <3>1, MoveFacts
    <2>2. Puts(f, new, g)
      BY <1>10, <1>15, <2>1
    <2>3. Kept(st, new, {r})
      <3>1. Kept(f, new, {r}) /\ IsStore(st)
        BY <1>1, <1>9, <2>2 DEF Puts, Body
      <3> QED
        BY <1>7, <3>1, KeptTwice
    <2>4. SameNumbers(st, new, r) /\ new.maxlen = st.maxlen
      BY <1>7, <1>9, <2>2 DEF Puts, SameNumbers
    <2> QED
      BY <1>6, <1>9, <2>2, <2>3, <2>4 DEF Puts, g
  <1>16. CASE ~ (Room(recs) < more)
    <2> DEFINE v == Room(recs) - more
    <2>1. new = AddToFree(mid, b, fidx, v, TRUE)
      BY <1>10, <1>16
    <2>2. v \in Nat /\ v < BlockSize + 2
      BY <1>14, <1>16, BlockNumbers
    <2>3. Room(recs) + recs[i].size - g.size = v
      BY <1>2, <1>8, <1>9, <1>14
    <2>4. Fits(f, r, frag, g.size)
      BY <1>11, <2>2, <2>3 DEF Fits
    <2>5. SetAfter(f, r, frag, g)
      BY <1>7, <1>9, <1>11, <1>12, <2>4, SetAtFacts
    <2> HIDE DEF v
    <2>6. /\ Body(mid) /\ Kept(f, mid, {r}) /\ Cached(mid, g)
          /\ mid.rc = f.rc /\ mid.free = f.free /\ mid.cachecnt = f.cachecnt
          /\ mid.maxlen = f.maxlen /\ DOMAIN mid.blocks = DOMAIN f.blocks
          /\ Rooms(mid.blocks) = RoomsBut(f.blocks, b, v)
      BY Zenon, <1>11, <2>3, <2>5 DEF SetAfter
    <2> HIDE DEF mid
    <2>7. fidx \in 0 .. Areas - 1
      BY FIdxType DEF fidx
    <2>8. SoundAfter(mid, new)
      <3>1. b \in DOMAIN f.blocks
        BY <1>4, <1>7
      <3> HIDE DEF b
      <3> QED
        BY <1>13, <2>1, <2>2, <2>6, <2>7, <3>1, SoundAgain
    <2>9. /\ Sound(new) /\ Kept(mid, new, {r}) /\ new.rc = mid.rc /\ new.blocks = mid.blocks
          /\ new.maxlen = mid.maxlen
      BY <2>8 DEF SoundAfter
    <2>10. Kept(st, new, {r})
      <3>1. IsStore(st)
        BY <1>1 DEF Body
      <3>2. Kept(st, mid, {r})
        BY <1>7, <2>6, <3>1, KeptTwice
      <3> QED
        BY <2>9, <3>1, <3>2, KeptTwice
    <2>11. Cached(new, g)
      BY <2>6, <2>9 DEF Cached
    <2>12. SameNumbers(st, new, r) /\ new.maxlen = st.maxlen
      BY <1>7, <2>6, <2>9 DEF SameNumbers
    <2> QED
      BY <1>6, <1>9, <2>9, <2>10, <2>11, <2>12 DEF Puts, g
  <1> QED
    BY <1>15, <1>16

\* BFrecord_frag_write
LEMMA WriteFragmentFacts ==
    ASSUME NEW st, Sound(st), NEW e, IsLast(st, e),
           st.rc[e.rec].blk # 0 => \E old : Cached(st, old) /\ old.rec = e.rec /\ old.size = e.size
    PROVE  Puts(st, WriteFragment(st, e), e)
  <1>1. CASE st.rc[e.rec].blk = 0
    BY <1>1, NewFragmentFacts DEF WriteFragment
  <1>2. CASE st.rc[e.rec].blk # 0
    BY <1>2, OverwriteFragmentFacts DEF WriteFragment
  <1> QED
    BY <1>1, <1>2

-----------------------------------------------------------------------------
(* A full block is flushed. *)

Flushed(st, new, b) ==
    /\ Sound(new) /\ Kept(st, new, {}) /\ new.maxlen = st.maxlen
    /\ new.rc = RcOut(st, <<b>>)

\* cache_flush_block leaves the free list alone: it has no entry of a block that is full.
LEMMA FlushBlockFacts ==
    ASSUME NEW st, Sound(st), NEW b \in DOMAIN st.blocks, Room(st.blocks[b].recs) < FreeTolerance
    PROVE  Flushed(st, FlushBlock(st, b), b)
  <1> DEFINE new == Out(st, b, st.cachecnt - 1)
  <1>1. FlushBlock(st, b) = new
    <2> DEFINE mid == BlockOut(st, b)
    <2>1. mid.cachecnt = st.cachecnt
      <3>1. Body(st) /\ HasFields(st)
        BY DEF Sound, Body, IsStore
      <3>2. Goes(st, <<b>>)
        BY OneList DEF Goes
      <3>3. mid = [st EXCEPT !.rc = mid.rc, !.rfb = mid.rfb, !.ref = mid.ref, !.blockout = mid.blockout]
        BY Zenon, <3>1, <3>2, BlocksOutFields DEF BlockOut
      <3> HIDE DEF mid
      <3> DEFINE half == [st EXCEPT !.rc = mid.rc, !.rfb = mid.rfb]
      <3>4. HasFields(half) /\ half.cachecnt = st.cachecnt
        BY <3>1 DEF HasFields, Fields
      <3>5. mid = [half EXCEPT !.ref = mid.ref, !.blockout = mid.blockout]
        BY <3>3
      <3> HIDE DEF half
      <3> QED
        BY <3>4, <3>5 DEF HasFields, Fields
    <2> HIDE DEF mid
    <2> QED
      BY <2>1 DEF FlushBlock, Out, mid
  <1>2. Body(st) /\ CountOK(st.blocks, st.cachecnt) /\ FreeFits(st.free, Rooms(st.blocks))
    BY DEF Sound
  <1>3. st.cachecnt - 1 \in Int
    <2>1. st.cachecnt \in Int
      BY <1>2 DEF Body, IsStore
    <2> QED
      BY <2>1
  <1>4. /\ Body(new) /\ Kept(st, new, {})
        /\ new.blocks = WithoutKey(st.blocks, b) /\ new.free = st.free
        /\ new.cachecnt = st.cachecnt - 1 /\ new.maxlen = st.maxlen
        /\ new.rc = RcOut(st, <<b>>)
    BY <1>2, <1>3, OutFacts
  <1> HIDE DEF new
  <1>5. /\ DOMAIN new.blocks = DOMAIN st.blocks \ {b}
        /\ \A c \in DOMAIN new.blocks : new.blocks[c] = st.blocks[c]
    BY <1>4 DEF WithoutKey
  <1>6. CountOK(new.blocks, new.cachecnt)
    <2>1. IsFiniteSet(DOMAIN st.blocks) /\ st.cachecnt = Cardinality(DOMAIN st.blocks)
          /\ st.cachecnt <= MaxBlocks
      BY <1>2 DEF CountOK
    <2>2. IsFiniteSet(DOMAIN st.blocks \ {b})
          /\ Cardinality(DOMAIN st.blocks \ {b}) = Cardinality(DOMAIN st.blocks) - 1
      BY <2>1, FS_RemoveElement
    <2>3. MaxBlocks \in Nat /\ st.cachecnt \in Int
      BY <1>2, BlockNumbers DEF MaxBlocks, Body, IsStore
    <2>4. new.cachecnt <= MaxBlocks
      BY <1>4, <2>1, <2>3
    <2> QED
      BY <1>4, <1>5, <2>1, <2>2, <2>4 DEF CountOK
  <1>7. FreeFits(new.free, Rooms(new.blocks))
    <2> DEFINE rooms == Rooms(st.blocks)
               less == Rooms(new.blocks)
    <2>1. DOMAIN rooms = DOMAIN st.blocks /\ rooms[b] < FreeTolerance
      BY DEF Rooms
    <2>2. DOMAIN less = DOMAIN rooms \ {b} /\ \A c \in DOMAIN less : less[c] = rooms[c]
      BY <1>5 DEF Rooms
    <2>3. FreeFits(st.free, rooms) /\ new.free = st.free
      BY <1>2, <1>4
    <2>4. FreeTolerance \in Nat
      BY BlockNumbers
    <2>5. rooms[b] \in Int
      <3>1. IsBlocks(st.blocks)
        BY <1>2 DEF Body, IsStore
      <3>2. st.blocks[b].recs \in Seq(Fragment)
        BY <3>1 DEF IsBlocks, Block
      <3> QED
        BY <3>2, BlockNumbers, RoomLess DEF Rooms
    <2> HIDE DEF rooms, less
    <2>6. \A i \in DOMAIN st.free : st.free[i].blk # b
      BY <2>1, <2>3, <2>4, <2>5 DEF FreeFits
    <2>7. FreeFits(st.free, less)
      BY <2>1, <2>2, <2>3, <2>6 DEF FreeFits
    <2> QED
      BY <2>3, <2>7 DEF less
  <1> QED
    BY <1>1, <1>4, <1>6, <1>7 DEF Flushed, Sound

-----------------------------------------------------------------------------
(* What is in the last run of a record. *)

DataOf(st, r) ==
    /\ st.rc[r].blk = 0 <=> st.rc[r].bitsize = 0
    /\ st.rc[r].bitsize < SyncMaxBits
    /\ st.rc[r].bitsize # 0 => st.rc[r].freq > 0
    /\ \A e : Cached(st, e) /\ e.rec = r =>
          /\ e.size = 1 + CeilDiv(st.rc[r].bitsize, WordBits)
          /\ e.ndocs = Len(e.gaps) /\ e.gaps # <<>>
          /\ e.base + Total(e.gaps) = st.rc[r].lastdoc

\* The constants of the runs.
LEMMA SyncNumbers ==
    /\ SyncMaxWords \in Nat \ {0} /\ SyncMaxBits \in Nat \ {0} /\ WordBits \in Nat \ {0}
    /\ FragMax = 1 + SyncMaxWords /\ SyncMaxBits = SyncMaxWords * WordBits
    /\ FreqBits \in Nat /\ FragMax \in Nat
  <1>1. BlockSize \in Nat /\ RecEnt \in Nat /\ BlockSize > RecEnt + 1
    BY BlockNumbers, BlocksAssumption
  <1>2. WordBits \in Nat \ {0} /\ FreqBits \in Nat
    BY IndCacheAssumption
  <1>3. SyncMaxWords \in Nat \ {0} /\ FragMax = 1 + SyncMaxWords /\ FragMax \in Nat
    BY <1>1 DEF SyncMaxWords, FragMax
  <1> DEFINE w == SyncMaxWords
  <1>4. w * WordBits \in Nat /\ w * WordBits # 0
    <2>1. w \in Nat \ {0}
      BY <1>3
    <2> HIDE DEF w
    <2> QED
      BY <1>2, <2>1
  <1> QED
    BY <1>2, <1>3, <1>4 DEF SyncMaxBits

\* A record of which nothing is in the cache.
LEMMA NothingCached ==
    ASSUME NEW st, Body(st), NEW r \in DOMAIN st.rc, st.rc[r].blk = 0
    PROVE  \A e : ~ (Cached(st, e) /\ e.rec = r)
  <1> SUFFICES ASSUME NEW e, Cached(st, e), e.rec = r PROVE FALSE
    OBVIOUS
  <1>1. PICK b \in DOMAIN st.blocks : \E i \in DOMAIN st.blocks[b].recs : st.blocks[b].recs[i] = e
    BY DEF Cached
  <1>2. b # 0 /\ st.rc[r].blk = b
    BY <1>1, CachedFacts
  <1> QED
    BY <1>2

\* A record that was advanced has nothing in the cache.
LEMMA DataOfNothing ==
    ASSUME NEW st, Body(st), NEW r \in DOMAIN st.rc, st.rc[r].blk = 0, st.rc[r].bitsize = 0
    PROVE  DataOf(st, r)
  BY NothingCached, SyncNumbers DEF DataOf

\* A call about other records leaves it so, also when the record is advanced.
LEMMA KeptData ==
    ASSUME NEW st, Body(st), NEW new, Body(new), NEW X, Kept(st, new, X),
           NEW q \in DOMAIN st.rc \ X, DataOf(st, q)
    PROVE  DataOf(new, q)
  <1>1. st.rc[q] \in RecData /\ q \in DOMAIN new.rc
    BY DEF Body, IsStore, IsRc, Kept
  <1>2. CASE new.rc[q] = st.rc[q]
    <2>1. \A e : e.rec = q /\ Cached(new, e) => Cached(st, e)
      BY DEF Kept
    <2> QED
      BY <1>2, <2>1 DEF DataOf
  <1>3. CASE new.rc[q] = Advanced(st.rc[q])
    <2>1. new.rc[q].blk = 0 /\ new.rc[q].bitsize = 0
      BY <1>1, <1>3, AdvancedFacts
    <2> QED
      BY <1>1, <2>1, DataOfNothing
  <1> QED
    BY <1>2, <1>3 DEF Kept

-----------------------------------------------------------------------------
(* Powers of two, and logarithms. *)

Powers(n) == CHOOSE p : p = [i \in 0 .. n |-> IF i = 0 THEN 1 ELSE 2 * p[i - 1]]

\* The powers of two are defined.
LEMMA PowersExist ==
    ASSUME NEW n \in Nat
    PROVE  Powers(n) = [i \in 0 .. n |-> IF i = 0 THEN 1 ELSE 2 * Powers(n)[i - 1]]
  <1> DEFINE Is(g, m) == g = [i \in 0 .. m |-> IF i = 0 THEN 1 ELSE 2 * g[i - 1]]
             P == {m \in 0 .. n : \E g : Is(g, m)}
  <1>1. 0 \in P
    <2> DEFINE g == [i \in 0 .. 0 |-> 1]
    <2>1. Is(g, 0)
      OBVIOUS
    <2>2. 0 \in 0 .. n
      OBVIOUS
    <2> HIDE DEF g, Is
    <2> QED
      BY <2>1, <2>2
  <1>2. ASSUME NEW m \in 0 .. n - 1, m \in P PROVE m + 1 \in P
    <2>1. PICK f : Is(f, m)
      BY <1>2
    <2> DEFINE g == [i \in 0 .. m + 1 |-> IF i = m + 1 THEN 2 * f[m] ELSE f[i]]
    <2>2. (\A i \in 0 .. m : g[i] = f[i]) /\ g[m + 1] = 2 * f[m]
      OBVIOUS
    <2>3. g = [i \in 0 .. m + 1 |-> g[i]]
      OBVIOUS
    <2>4. ASSUME NEW i \in 0 .. m + 1 PROVE g[i] = IF i = 0 THEN 1 ELSE 2 * g[i - 1]
      <3> HIDE DEF g
      <3>1. CASE i = m + 1
        BY <2>2, <3>1
      <3>2. CASE i # m + 1
        <4>1. i \in 0 .. m /\ (i # 0 => i - 1 \in 0 .. m)
          BY <3>2
        <4>2. f[i] = IF i = 0 THEN 1 ELSE 2 * f[i - 1]
          BY <2>1, <4>1
        <4> QED
          BY <2>2, <4>1, <4>2
      <3> QED
        BY <3>1, <3>2
    <2> HIDE DEF g
    <2>5. Is(g, m + 1)
      BY <2>3, <2>4
    <2>6. m + 1 \in 0 .. n
      OBVIOUS
    <2> HIDE DEF Is
    <2> QED
      BY <2>5, <2>6
  <1>3. \E g : Is(g, n)
    <2>1. \A m \in 0 .. n : m \in P
      <3> HIDE DEF P
      <3> QED
        BY <1>1, <1>2, UpTo
    <2> QED
      BY <2>1
  <1>4. Powers(n) = CHOOSE g : Is(g, n)
    BY DEF Powers
  <1>5. Is(Powers(n), n)
    <2> HIDE DEF Is
    <2> QED
      BY <1>3, <1>4
  <1> QED
    BY <1>5

\* What they are made of.
LEMMA PowersSteps ==
    ASSUME NEW n \in Nat
    PROVE  /\ Pow2(n) = Powers(n)[n] /\ Powers(n)[0] = 1
           /\ \A i \in 1 .. n : Powers(n)[i] = 2 * Powers(n)[i - 1]
  <1>1. Pow2(n) = Powers(n)[n]
    BY DEF Pow2, Powers
  <1> DEFINE p == Powers(n)
  <1>2. p = [i \in 0 .. n |-> IF i = 0 THEN 1 ELSE 2 * p[i - 1]]
    BY PowersExist
  <1> HIDE DEF p
  <1>3. p[0] = 1 /\ \A i \in 1 .. n : p[i] = 2 * p[i - 1]
    BY <1>2
  <1> QED
    BY <1>1, <1>3 DEF p

\* Each is twice the last, and they grow without bound.
LEMMA Pow2Steps ==
    /\ Pow2(0) = 1
    /\ \A k \in Nat : Pow2(k) \in Nat /\ Pow2(k) >= k + 1 /\ Pow2(k + 1) = 2 * Pow2(k)
  <1>1. Pow2(0) = 1
    BY PowersSteps
  <1>2. ASSUME NEW k \in Nat PROVE Pow2(k) \in Nat /\ Pow2(k) >= k + 1
    <2> DEFINE p == Powers(k)
               P == {i \in 0 .. k : p[i] \in Nat /\ p[i] >= i + 1}
    <2>1. Pow2(k) = p[k] /\ p[0] = 1 /\ \A i \in 1 .. k : p[i] = 2 * p[i - 1]
      BY PowersSteps
    <2> HIDE DEF p
    <2>2. 0 \in P
      BY <2>1
    <2>3. ASSUME NEW i \in 0 .. k - 1, i \in P PROVE i + 1 \in P
      <3>1. i + 1 \in 1 .. k /\ (i + 1) - 1 = i /\ i + 1 \in 0 .. k
        OBVIOUS
      <3>2. p[i] \in Nat /\ p[i] >= i + 1
        BY <2>3
      <3>3. p[i + 1] = 2 * p[i]
        BY <2>1, <3>1
      <3>4. p[i + 1] \in Nat /\ p[i + 1] >= (i + 1) + 1
        BY <3>2, <3>3
      <3> QED
        BY <3>1, <3>4
    <2>4. \A i \in 0 .. k : i \in P
      <3> HIDE DEF P
      <3> QED
        BY <2>2, <2>3, UpTo
    <2> QED
      BY <2>1, <2>4
  <1>3. ASSUME NEW k \in Nat PROVE Pow2(k + 1) = 2 * Pow2(k)
    <2> DEFINE p == Powers(k)
               q == Powers(k + 1)
               P == {i \in 0 .. k : p[i] = q[i]}
    <2>1. Pow2(k) = p[k] /\ p[0] = 1 /\ \A i \in 1 .. k : p[i] = 2 * p[i - 1]
      BY PowersSteps
    <2>2. Pow2(k + 1) = q[k + 1] /\ q[0] = 1 /\ \A i \in 1 .. k + 1 : q[i] = 2 * q[i - 1]
      BY PowersSteps
    <2> HIDE DEF p, q
    <2>3. 0 \in P
      BY <2>1, <2>2
    <2>4. ASSUME NEW i \in 0 .. k - 1, i \in P PROVE i + 1 \in P
      <3>1. i + 1 \in 1 .. k /\ i + 1 \in 1 .. k + 1 /\ (i + 1) - 1 = i /\ i + 1 \in 0 .. k
        OBVIOUS
      <3> QED
        BY <2>1, <2>2, <2>4, <3>1
    <2>5. \A i \in 0 .. k : i \in P
      <3> HIDE DEF P
      <3> QED
        BY <2>3, <2>4, UpTo
    <2>6. q[k + 1] = 2 * q[k]
      BY <2>2
    <2> QED
      BY <2>1, <2>2, <2>5, <2>6
  <1> QED
    BY <1>1, <1>2, <1>3

\* They grow.
LEMMA Pow2Less ==
    ASSUME NEW i \in Nat, NEW j \in Nat, i <= j
    PROVE  Pow2(i) <= Pow2(j)
  <1> DEFINE P == {k \in 0 .. j - i : Pow2(i) <= Pow2(i + k)}
  <1>1. \A k \in Nat : Pow2(k) \in Nat /\ Pow2(k + 1) = 2 * Pow2(k)
    BY Pow2Steps
  <1>2. 0 \in P
    BY <1>1
  <1>3. ASSUME NEW k \in 0 .. (j - i) - 1, k \in P PROVE k + 1 \in P
    <2>1. i + k \in Nat /\ i + (k + 1) = (i + k) + 1 /\ k + 1 \in 0 .. j - i
      OBVIOUS
    <2>2. Pow2(i) <= Pow2(i + k) /\ Pow2(i) \in Nat /\ Pow2(i + k) \in Nat
      BY <1>1, <1>3, <2>1
    <2>3. Pow2(i + (k + 1)) = 2 * Pow2(i + k)
      BY <1>1, <2>1
    <2>4. Pow2(i) <= Pow2(i + (k + 1))
      BY <2>2, <2>3
    <2> QED
      BY <2>1, <2>4
  <1>4. \A k \in 0 .. j - i : k \in P
    <2>1. j - i \in Nat
      OBVIOUS
    <2> HIDE DEF P
    <2> QED
      BY <1>2, <1>3, <2>1, UpTo
  <1>5. j - i \in 0 .. j - i /\ i + (j - i) = j
    OBVIOUS
  <1> QED
    BY <1>4, <1>5

\* The logarithm is the greatest power that is no more.
LEMMA FloorLog2Facts ==
    ASSUME NEW n \in Nat
    PROVE  /\ FloorLog2(n) \in 0 .. n
           /\ n > 0 => Pow2(FloorLog2(n)) <= n /\ n < Pow2(FloorLog2(n) + 1)
  <1>1. CASE n = 0
    BY <1>1 DEF FloorLog2
  <1>2. CASE n > 0
    <2> DEFINE T == {k \in 0 .. n : n < Pow2(k + 1)}
    <2>1. \A k \in Nat : Pow2(k) \in Nat /\ Pow2(k) >= k + 1
      BY Pow2Steps
    <2>2. n \in T
      <3>1. Pow2(n + 1) \in Nat /\ Pow2(n + 1) >= (n + 1) + 1
        BY <2>1
      <3> QED
        BY <3>1
    <2>3. T \subseteq Nat
      OBVIOUS
    <2>4. \A k \in T : k \in 0 .. n /\ n < Pow2(k + 1)
      OBVIOUS
    <2>5. \A k \in 0 .. n : n < Pow2(k + 1) => k \in T
      OBVIOUS
    <2> HIDE DEF T
    <2>6. PICK m \in T : \A k \in T : m <= k
      BY <2>2, <2>3, LeastExists
    <2>7. m \in 0 .. n /\ n < Pow2(m + 1)
      BY <2>4
    <2>8. Pow2(m) <= n
      <3>1. CASE m = 0
        BY <1>2, <3>1, Pow2Steps
      <3>2. CASE m # 0
        <4>1. m - 1 \in 0 .. n /\ (m - 1) + 1 = m /\ ~ (m <= m - 1)
          BY <2>7, <3>2
        <4>2. ~ (n < Pow2(m))
          BY <2>5, <2>6, <4>1
        <4> QED
          BY <2>1, <2>7, <4>2
      <3> QED
        BY <3>1, <3>2
    <2>9. FloorLog2(n) = CHOOSE k \in 0 .. n : Pow2(k) =< n /\ n < Pow2(k + 1)
      BY <1>2 DEF FloorLog2
    <2> QED
      BY <2>7, <2>8, <2>9
  <1> QED
    BY <1>1, <1>2

\* The logarithm of less is no more.
LEMMA FloorLog2Less ==
    ASSUME NEW a \in Nat, NEW b \in Nat, a <= b
    PROVE  FloorLog2(a) <= FloorLog2(b)
  <1>1. CASE a = 0
    BY <1>1, FloorLog2Facts DEF FloorLog2
  <1>2. CASE a > 0
    <2> DEFINE x == FloorLog2(a)
               y == FloorLog2(b)
    <2>1. /\ x \in Nat /\ y \in Nat /\ Pow2(x) <= a /\ b < Pow2(y + 1)
      BY <1>2, FloorLog2Facts
    <2>2. Pow2(x) \in Nat /\ Pow2(y + 1) \in Nat
      BY <2>1, Pow2Steps
    <2> HIDE DEF x, y
    <2>3. ~ (y + 1 <= x)
      <3> SUFFICES ASSUME y + 1 <= x PROVE FALSE
        OBVIOUS
      <3>1. Pow2(y + 1) <= Pow2(x)
        BY <2>1, Pow2Less
      <3> QED
        BY <2>1, <2>2, <3>1
    <2>4. x <= y
      BY <2>1, <2>3
    <2> QED
      BY <2>4 DEF x, y
  <1> QED
    BY <1>1, <1>2

-----------------------------------------------------------------------------
(* Gaps, and the bits that they take. *)

\* The two parts of a list.
LEMMA SubSeqFacts ==
    ASSUME NEW S, NEW s \in Seq(S), NEW k \in 0 .. Len(s)
    PROVE  /\ SubSeq(s, 1, k) \in Seq(S) /\ Len(SubSeq(s, 1, k)) = k
           /\ \A i \in 1 .. k : SubSeq(s, 1, k)[i] = s[i]
           /\ SubSeq(s, k + 1, Len(s)) \in Seq(S) /\ Len(SubSeq(s, k + 1, Len(s))) = Len(s) - k
           /\ \A i \in 1 .. Len(s) - k : SubSeq(s, k + 1, Len(s))[i] = s[k + i]
  <1>1. Len(s) \in Nat
    OBVIOUS
  <1>2. /\ SubSeq(s, 1, k) \in Seq(S) /\ Len(SubSeq(s, 1, k)) = k
        /\ \A i \in 1 .. k : SubSeq(s, 1, k)[i] = s[i]
    BY <1>1
  <1>3. SubSeq(s, k + 1, Len(s)) \in Seq(S) /\ Len(SubSeq(s, k + 1, Len(s))) = Len(s) - k
    BY <1>1
  <1>4. \A i \in 1 .. Len(s) - k : SubSeq(s, k + 1, Len(s))[i] = s[k + i]
    BY <1>1
  <1> QED
    BY <1>2, <1>3, <1>4

\* Two lists, one after the other.
LEMMA ConcatFacts ==
    ASSUME NEW S, NEW s \in Seq(S), NEW t \in Seq(S)
    PROVE  /\ s \o t \in Seq(S) /\ Len(s \o t) = Len(s) + Len(t)
           /\ \A i \in 1 .. Len(s) : (s \o t)[i] = s[i]
           /\ \A i \in 1 .. Len(t) : (s \o t)[Len(s) + i] = t[i]
  OBVIOUS

\* The sum of two lists after one another.
LEMMA TotalConcat ==
    ASSUME NEW s \in Seq(Nat), NEW t \in Seq(Nat)
    PROVE  Total(s \o t) = Total(s) + Total(t)
  <1> DEFINE w == s \o t
             a == Sum(s, Len(s))
             b == Sum(t, Len(t))
             c == Sum(w, Len(w))
             P == {i \in 0 .. Len(t) : c[Len(s) + i] = a[Len(s)] + b[i]}
  <1>1. Len(s) \in Nat /\ Len(t) \in Nat
    OBVIOUS
  <1>2. /\ w \in Seq(Nat) /\ Len(w) = Len(s) + Len(t)
        /\ (\A i \in 1 .. Len(s) : w[i] = s[i]) /\ \A i \in 1 .. Len(t) : w[Len(s) + i] = t[i]
    BY ConcatFacts
  <1> HIDE DEF w
  <1>3. Total(s) = a[Len(s)]
    BY <1>1, SumSteps
  <1>4. b[0] = 0 /\ Total(t) = b[Len(t)] /\ \A i \in 1 .. Len(t) : b[i] = b[i - 1] + t[i]
    BY <1>1, SumSteps
  <1>5. Total(w) = c[Len(w)] /\ \A i \in 1 .. Len(w) : c[i] = c[i - 1] + w[i]
    <2>1. Len(w) \in Nat
      BY <1>1, <1>2
    <2> QED
      BY <2>1, SumSteps
  <1>6. /\ a[Len(s)] \in Nat /\ \A i \in 0 .. Len(t) : b[i] \in Nat
    BY <1>1, SumType
  <1>7. c[Len(s)] = a[Len(s)]
    <2>1. \A i \in 0 .. Len(s) : Sum(w, Len(w))[i] = Sum(s, Len(s))[i]
      <3>1. Len(s) <= Len(s) /\ Len(s) <= Len(w)
        BY <1>1, <1>2
      <3> QED
        BY <1>1, <1>2, <3>1, SumAgree
    <2> QED
      BY <1>1, <2>1
  <1> HIDE DEF a, b, c
  <1>8. 0 \in P
    BY <1>1, <1>4, <1>6, <1>7
  <1>9. ASSUME NEW i \in 0 .. Len(t) - 1, i \in P PROVE i + 1 \in P
    <2>1. /\ i + 1 \in 1 .. Len(t) /\ (i + 1) - 1 = i /\ i + 1 \in 0 .. Len(t) /\ i \in 0 .. Len(t)
          /\ Len(s) + (i + 1) \in 1 .. Len(w) /\ (Len(s) + (i + 1)) - 1 = Len(s) + i
      BY <1>1, <1>2
    <2>2. c[Len(s) + (i + 1)] = c[Len(s) + i] + w[Len(s) + (i + 1)]
      BY <1>5, <2>1
    <2>3. b[i + 1] = b[i] + t[i + 1] /\ w[Len(s) + (i + 1)] = t[i + 1]
      BY <1>2, <1>4, <2>1
    <2>4. b[i] \in Nat /\ t[i + 1] \in Nat /\ a[Len(s)] \in Nat /\ c[Len(s) + i] = a[Len(s)] + b[i]
      BY <1>6, <1>9, <2>1
    <2>5. c[Len(s) + (i + 1)] = a[Len(s)] + b[i + 1]
      BY <2>2, <2>3, <2>4
    <2> QED
      BY <2>1, <2>5
  <1>10. \A i \in 0 .. Len(t) : i \in P
    <2> HIDE DEF P
    <2> QED
      BY <1>1, <1>8, <1>9, UpTo
  <1>11. c[Len(s) + Len(t)] = a[Len(s)] + b[Len(t)]
    BY <1>1, <1>10
  <1> QED
    BY <1>2, <1>3, <1>4, <1>5, <1>11 DEF w

\* The sum of two parts.
LEMMA TotalSplit ==
    ASSUME NEW s \in Seq(Nat), NEW k \in 0 .. Len(s)
    PROVE  Total(s) = Total(SubSeq(s, 1, k)) + Total(SubSeq(s, k + 1, Len(s)))
  <1> DEFINE a == SubSeq(s, 1, k)
             b == SubSeq(s, k + 1, Len(s))
             c == a \o b
  <1>1. Len(s) \in Nat
    OBVIOUS
  <1>2. /\ a \in Seq(Nat) /\ Len(a) = k /\ (\A i \in 1 .. k : a[i] = s[i])
        /\ b \in Seq(Nat) /\ Len(b) = Len(s) - k /\ \A i \in 1 .. Len(s) - k : b[i] = s[k + i]
    BY SubSeqFacts
  <1> HIDE DEF a, b
  <1>3. /\ c \in Seq(Nat) /\ Len(c) = Len(a) + Len(b)
        /\ (\A i \in 1 .. Len(a) : c[i] = a[i]) /\ \A i \in 1 .. Len(b) : c[Len(a) + i] = b[i]
    BY <1>2, ConcatFacts, SMTT(30)
  <1>4. Total(c) = Total(a) + Total(b)
    BY <1>2, TotalConcat
  <1> HIDE DEF c
  <1>5. \A i \in 1 .. Len(c) : c[i] = s[i]
    <2> SUFFICES ASSUME NEW i \in 1 .. Len(c) PROVE c[i] = s[i]
      OBVIOUS
    <2>1. CASE i <= k
      BY <1>1, <1>2, <1>3, <2>1
    <2>2. CASE i > k
      <3>1. i - k \in 1 .. Len(b) /\ k + (i - k) = i
        BY <1>1, <1>2, <1>3, <2>2
      <3>2. c[Len(a) + (i - k)] = b[i - k] /\ b[i - k] = s[k + (i - k)]
        BY <1>2, <1>3, <3>1
      <3> QED
        BY <1>2, <3>1, <3>2
    <2> QED
      BY <1>1, <2>1, <2>2
  <1>6. c = s
    <2>1. Len(c) = Len(s)
      BY <1>1, <1>2, <1>3
    <2> QED
      BY <1>3, <1>5, <2>1, SameList
  <1> QED
    BY <1>4, <1>6 DEF a, b

\* The length of the code of a gap.
Code(r, logb, gap) ==
    (gap - 1) \div Pow2(logb) + 1 + logb + (IF r \in HasFreqs THEN FreqBits ELSE 0)

\* A gap less than twice the parameter takes few bits.
LEMMA CodeFacts ==
    ASSUME NEW r, NEW logb \in Nat, NEW gap \in Nat \ {0}
    PROVE  /\ Code(r, logb, gap) \in Nat \ {0}
           /\ gap < Pow2(logb + 1) => Code(r, logb, gap) <= FreqBits + 2 + logb
  <1> DEFINE p == Pow2(logb)
             f == IF r \in HasFreqs THEN FreqBits ELSE 0
             q == (gap - 1) \div p
  <1>1. p \in Nat \ {0} /\ Pow2(logb + 1) = 2 * p
    <2>1. Pow2(logb) \in Nat /\ Pow2(logb) >= logb + 1 /\ Pow2(logb + 1) = 2 * Pow2(logb)
      BY Pow2Steps
    <2> QED
      BY <2>1
  <1>2. f \in Nat /\ f <= FreqBits /\ FreqBits \in Nat
    BY SyncNumbers
  <1> HIDE DEF p, f
  <1>3. q \in Nat
    BY <1>1
  <1>4. gap < 2 * p => q <= 1
    BY <1>1
  <1>5. Code(r, logb, gap) = q + 1 + logb + f
    BY DEF Code, p, f
  <1> HIDE DEF q
  <1> QED
    BY <1>1, <1>2, <1>3, <1>4, <1>5

\* Every gap takes a bit at least.
LEMMA BitsFacts ==
    ASSUME NEW r, NEW logb \in Nat, NEW gaps \in Seq(Nat \ {0})
    PROVE  /\ Bits(r, logb, gaps) \in Nat /\ Bits(r, logb, gaps) >= Len(gaps)
           /\ Len(gaps) = 1 => Bits(r, logb, gaps) = Code(r, logb, gaps[1])
  <1> DEFINE s == [i \in DOMAIN gaps |-> Code(r, logb, gaps[i])]
  <1>1. Bits(r, logb, gaps) = Total(s)
    BY DEF Bits, Code
  <1>2. Len(gaps) \in Nat /\ DOMAIN gaps = 1 .. Len(gaps)
    OBVIOUS
  <1>3. \A i \in 1 .. Len(gaps) : Code(r, logb, gaps[i]) \in Nat \ {0}
    BY <1>2, CodeFacts
  <1>4. s = [i \in 1 .. Len(gaps) |-> Code(r, logb, gaps[i])]
    BY <1>2
  <1>5. s \in Seq(Nat \ {0}) /\ Len(s) = Len(gaps) /\ \A i \in 1 .. Len(gaps) : s[i] = Code(r, logb, gaps[i])
    BY <1>2, <1>3, <1>4
  <1> HIDE DEF s
  <1>6. Total(s) \in Nat /\ Len(s) <= Total(s)
    <2>1. s \in Seq(Nat)
      BY <1>5
    <2> QED
      BY <1>5, <2>1, TotalType, TotalOfPositive
  <1>7. ASSUME Len(gaps) = 1 PROVE Total(s) = Code(r, logb, gaps[1])
    <2> DEFINE c == Code(r, logb, gaps[1])
    <2>1. s[1] = c /\ c \in Nat /\ Len(s) = 1
      BY <1>3, <1>5, <1>7
    <2> HIDE DEF c
    <2>2. s = Append(<<>>, c)
      <3> DEFINE t == Append(<<>>, c)
      <3>1. t \in Seq(Nat) /\ Len(t) = 1 /\ t[1] = c /\ s \in Seq(Nat)
        BY <1>5, <2>1
      <3> HIDE DEF t
      <3>2. \A i \in 1 .. Len(s) : s[i] = t[i]
        <4>1. \A i \in 1 .. 1 : i = 1
          OBVIOUS
        <4> QED
          BY <2>1, <3>1, <4>1
      <3> QED
        BY <2>1, <3>1, <3>2, SameList DEF t
    <2>3. <<>> \in Seq(Nat)
      OBVIOUS
    <2>4. Total(Append(<<>>, c)) = 0 + c
      BY <2>1, <2>3, TotalAppend, TotalNone
    <2> QED
      BY <2>1, <2>2, <2>4 DEF c
  <1> QED
    BY <1>1, <1>5, <1>6, <1>7

FitOK(r, logb, bitlen, gaps, k) ==
    /\ k \in 0 .. Len(gaps)
    /\ k = 0 \/ bitlen + Bits(r, logb, SubSeq(gaps, 1, k)) < SyncMaxBits
    /\ k = Len(gaps) \/ bitlen + Bits(r, logb, SubSeq(gaps, 1, k + 1)) >= SyncMaxBits

\* The search for how many gaps fit ends.
LEMMA FitFacts ==
    ASSUME NEW r, NEW logb \in Nat, NEW bitlen \in Nat, NEW gaps \in Seq(Nat \ {0})
    PROVE  FitOK(r, logb, bitlen, gaps, Fit(r, logb, bitlen, gaps))
  <1> DEFINE Size(k) == bitlen + Bits(r, logb, SubSeq(gaps, 1, k))
             n == Len(gaps)
             T == {k \in 0 .. n : k = n \/ Size(k + 1) >= SyncMaxBits}
  <1>1. n \in Nat /\ SyncMaxBits \in Nat
    BY SyncNumbers
  <1>2. ASSUME NEW k \in 0 .. n PROVE Size(k) \in Nat
    <2>1. SubSeq(gaps, 1, k) \in Seq(Nat \ {0})
      BY SubSeqFacts
    <2>2. Bits(r, logb, SubSeq(gaps, 1, k)) \in Nat
      BY <2>1, BitsFacts
    <2> QED
      BY <2>2
  <1>3. Fit(r, logb, bitlen, gaps) =
            CHOOSE k \in 0 .. n : /\ k = 0 \/ Size(k) < SyncMaxBits
                                  /\ k = n \/ Size(k + 1) >= SyncMaxBits
    BY DEF Fit
  <1> HIDE DEF Size, n
  <1>4. T \subseteq Nat /\ n \in T
    BY <1>1
  <1>5. \A k \in 0 .. n : k \in T <=> (k = n \/ Size(k + 1) >= SyncMaxBits)
    OBVIOUS
  <1>6. T \subseteq 0 .. n
    OBVIOUS
  <1> HIDE DEF T
  <1>7. PICK m \in T : \A k \in T : m <= k
    BY <1>4, LeastExists
  <1>8. m \in 0 .. n /\ (m = n \/ Size(m + 1) >= SyncMaxBits)
    BY <1>5, <1>6
  <1>9. m = 0 \/ Size(m) < SyncMaxBits
    <2> SUFFICES ASSUME m # 0 PROVE Size(m) < SyncMaxBits
      OBVIOUS
    <2>1. m - 1 \in 0 .. n /\ (m - 1) + 1 = m /\ ~ (m <= m - 1) /\ m - 1 # n
      BY <1>1, <1>8
    <2>2. ~ (Size(m) >= SyncMaxBits)
      BY <1>5, <1>7, <2>1
    <2>3. Size(m) \in Nat
      BY <1>2, <1>8
    <2> QED
      BY <1>1, <2>2, <2>3
  <1> DEFINE f == Fit(r, logb, bitlen, gaps)
  <1>10. f \in 0 .. n /\ (f = 0 \/ Size(f) < SyncMaxBits) /\ (f = n \/ Size(f + 1) >= SyncMaxBits)
    BY <1>3, <1>8, <1>9
  <1> HIDE DEF f
  <1> QED
    BY <1>10 DEF f, n, Size, FitOK

\* A run takes the code of the first gap, when its parameter is that for a sum that is not
\* less than the gap.
LEMMA FirstFits ==
    ASSUME NEW r, NEW gaps \in Seq(Nat \ {0}), Len(gaps) > 0, NEW d \in Docs, Total(gaps) <= d
    PROVE  Fit(r, FloorLog2(Total(gaps)), 0, gaps) > 0
  <1> DEFINE t == Total(gaps)
             b == FloorLog2(t)
             f == Fit(r, b, 0, gaps)
             one == SubSeq(gaps, 1, 1)
  <1>1. /\ Len(gaps) \in Nat /\ gaps \in Seq(Nat) /\ 1 \in 1 .. Len(gaps) /\ 1 \in 0 .. Len(gaps)
        /\ gaps[1] \in Nat \ {0}
    OBVIOUS
  <1>2. t \in Nat /\ gaps[1] <= t /\ d \in Nat
    BY <1>1, TotalType, TotalAtLeast, IndCacheAssumption
  <1>3. one \in Seq(Nat \ {0}) /\ Len(one) = 1 /\ one[1] = gaps[1]
    BY <1>1, SubSeqFacts
  <1>4. t <= d
    OBVIOUS
  <1> HIDE DEF t
  <1>5. b \in Nat /\ t < Pow2(b + 1) /\ b <= FloorLog2(d) /\ FloorLog2(d) \in Nat
    <2>1. b \in 0 .. t /\ t < Pow2(b + 1)
      <3>1. t > 0 /\ t \in Nat
        BY <1>1, <1>2
      <3> QED
        BY <3>1, FloorLog2Facts
    <2>2. b <= FloorLog2(d)
      BY <1>2, <1>4, FloorLog2Less
    <2>3. FloorLog2(d) \in 0 .. d
      BY <1>2, FloorLog2Facts
    <2> QED
      BY <1>2, <2>1, <2>2, <2>3
  <1>6. FreqBits + 2 + FloorLog2(d) < SyncMaxBits
    BY RunsAssumption
  <1> HIDE DEF b, one
  <1>7. Pow2(b + 1) \in Nat
    BY <1>5, Pow2Steps
  <1>8. Code(r, b, gaps[1]) \in Nat \ {0} /\ Code(r, b, gaps[1]) <= FreqBits + 2 + b
    <2>1. gaps[1] < Pow2(b + 1)
      BY <1>1, <1>2, <1>5, <1>7
    <2> QED
      BY <1>1, <1>5, <2>1, CodeFacts
  <1>9. Bits(r, b, one) = Code(r, b, gaps[1])
    BY <1>3, <1>5, BitsFacts
  <1>10. Bits(r, b, one) < SyncMaxBits /\ Bits(r, b, one) \in Nat
    BY <1>5, <1>6, <1>8, <1>9, SyncNumbers
  <1>11. FitOK(r, b, 0, gaps, f)
    BY <1>5, FitFacts
  <1> HIDE DEF f
  <1>12. f # 0
    <2> SUFFICES ASSUME f = 0 PROVE FALSE
      OBVIOUS
    <2>1. f # Len(gaps)
      BY <1>1
    <2>2. 0 + Bits(r, b, SubSeq(gaps, 1, f + 1)) >= SyncMaxBits
      BY <1>11, <2>1 DEF FitOK
    <2>3. f + 1 = 1
      OBVIOUS
    <2>4. SubSeq(gaps, 1, f + 1) = one
      BY <2>3 DEF one
    <2>5. 0 + Bits(r, b, one) >= SyncMaxBits
      BY <2>2, <2>4
    <2> QED
      BY <1>10, <2>5, SyncNumbers
  <1>13. f \in 0 .. Len(gaps)
    BY <1>11 DEF FitOK
  <1> QED
    BY <1>1, <1>12, <1>13 DEF f, b, t

\* The search for the parameter of a run ends.
LEMMA LocalBFacts ==
    ASSUME NEW r, NEW gaps \in Seq(Nat \ {0}), Len(gaps) > 0, NEW d \in Docs, Total(gaps) <= d
    PROVE  LocalB(r, gaps) \in Nat /\ Fit(r, LocalB(r, gaps), 0, gaps) > 0
  <1> DEFINE t == Total(gaps)
             n == Len(gaps)
             a == AtLeast0(t - n) \div n
             first == FloorLog2(a)
             Takes(b) == Fit(r, b, 0, gaps) > 0
             No(c) == Fit(r, c, 0, gaps) = 0
             T == {b \in first .. first + t : Takes(b)}
             b0 == FloorLog2(t)
  <1>1. n \in Nat \ {0} /\ t \in Nat /\ n <= t
    <2>1. gaps \in Seq(Nat) /\ Len(gaps) \in Nat \ {0}
      OBVIOUS
    <2> QED
      BY <2>1, TotalType, TotalOfPositive
  <1>2. LocalB(r, gaps) = CHOOSE b \in first .. (first + t) : Takes(b) /\ \A c \in first .. b - 1 : No(c)
    BY DEF LocalB
  <1>3. Takes(b0)
    BY FirstFits
  <1>4. \A b \in Nat : Takes(b) \/ No(b)
    <2> SUFFICES ASSUME NEW b \in Nat PROVE Takes(b) \/ No(b)
      OBVIOUS
    <2>1. FitOK(r, b, 0, gaps, Fit(r, b, 0, gaps))
      BY FitFacts
    <2>2. Fit(r, b, 0, gaps) \in 0 .. Len(gaps) /\ Len(gaps) \in Nat
      BY <2>1 DEF FitOK
    <2> QED
      BY <2>2
  <1> HIDE DEF n, t, Takes, No
  <1>5. a \in Nat /\ a <= t
    <2> DEFINE m == t - n
    <2>1. m \in Nat /\ m <= t /\ AtLeast0(t - n) = m
      BY <1>1 DEF AtLeast0
    <2> HIDE DEF m
    <2>2. m \div n \in Nat /\ m \div n <= m
      BY <1>1, <2>1
    <2> QED
      BY <1>1, <2>1, <2>2
  <1> HIDE DEF a
  <1>6. first \in Nat /\ first <= b0 /\ b0 \in Nat /\ b0 <= t
    <2>1. first \in 0 .. a /\ b0 \in 0 .. t /\ first <= b0
      BY <1>1, <1>5, FloorLog2Facts, FloorLog2Less
    <2> QED
      BY <1>1, <1>5, <2>1
  <1> HIDE DEF first, b0
  <1>7. b0 \in T /\ T \subseteq Nat
    BY <1>1, <1>3, <1>6
  <1>8. \A b \in Nat : b \in T <=> (first <= b /\ b <= first + t /\ Takes(b))
    BY <1>1, <1>6
  <1> HIDE DEF T
  <1>9. PICK m \in T : \A k \in T : m <= k
    BY <1>7, LeastExists
  <1>10. m \in first .. first + t /\ Takes(m) /\ m \in Nat
    BY <1>1, <1>6, <1>7, <1>8
  <1>11. \A c \in first .. m - 1 : No(c)
    <2> SUFFICES ASSUME NEW c \in first .. m - 1 PROVE No(c)
      OBVIOUS
    <2>1. c \in Nat /\ first <= c /\ c <= first + t /\ ~ (m <= c)
      BY <1>1, <1>6, <1>10
    <2>2. ~ Takes(c)
      BY <1>8, <1>9, <2>1
    <2> QED
      BY <1>4, <2>1, <2>2
  <1> DEFINE l == LocalB(r, gaps)
  <1>12. l \in first .. (first + t) /\ Takes(l)
    BY <1>2, <1>10, <1>11
  <1> HIDE DEF l
  <1>13. l \in Nat
    BY <1>1, <1>6, <1>12
  <1> QED
    BY <1>12, <1>13 DEF l, Takes

-----------------------------------------------------------------------------
(* A record is noted in the table. *)

\* What is noted of a record changes, and its block does not.
LEMMA RecordSound ==
    ASSUME NEW st, Sound(st), NEW r \in DOMAIN st.rc, NEW new, RestSame(st, new),
           OneRecord(st, new, r), new.rc[r].blk = st.rc[r].blk, new.blocks = st.blocks,
           new.free = st.free, new.cachecnt = st.cachecnt
    PROVE  Sound(new) /\ Kept(st, new, {r})
  <1>1. Body(st) /\ CountOK(st.blocks, st.cachecnt) /\ FreeFits(st.free, Rooms(st.blocks))
    BY DEF Sound
  <1>2. Body(new) /\ Kept(st, new, {r})
    BY <1>1, RecordChanged
  <1> QED
    BY <1>1, <1>2 DEF Sound

Noted(st, r, rec) == [st EXCEPT !.rc[r] = rec]

NotedAfter(st, new, r, rec) ==
    /\ Sound(new) /\ Kept(st, new, {r})
    /\ DOMAIN new.rc = DOMAIN st.rc /\ new.rc[r] = rec
    /\ \A q \in DOMAIN st.rc \ {r} : new.rc[q] = st.rc[q]
    /\ new.blocks = st.blocks /\ new.maxlen = st.maxlen

\* A record is noted.
LEMMA NotedFacts ==
    ASSUME NEW st, Sound(st), NEW r \in DOMAIN st.rc, NEW rec \in RecData,
           rec.blk = st.rc[r].blk, rec.nfrags = st.rc[r].nfrags
    PROVE  NotedAfter(st, Noted(st, r, rec), r, rec)
  <1> DEFINE new == Noted(st, r, rec)
             rc == [st.rc EXCEPT ![r] = rec]
  <1>1. /\ HasFields(st) /\ IsRc(st.rc) /\ st.free \in Seq(FreeEntry) /\ st.cachecnt \in Int
        /\ st.maxlen \in Nat
    BY DEF Sound, Body, IsStore
  <1>2. /\ DOMAIN rc = DOMAIN st.rc /\ rc[r] = rec /\ \A q \in DOMAIN st.rc \ {r} : rc[q] = st.rc[q]
    OBVIOUS
  <1>3. IsRc(rc)
    BY <1>1 DEF IsRc
  <1>4. new = [st EXCEPT !.rc = rc]
    BY DEF Noted
  <1> HIDE DEF new, rc
  <1>5. /\ HasFields(new) /\ new.rc = rc /\ new.blocks = st.blocks /\ new.lists = st.lists
        /\ new.free = st.free /\ new.cachecnt = st.cachecnt /\ new.blockcount = st.blockcount
        /\ new.blockout = st.blockout /\ new.maxlen = st.maxlen /\ new.ref = st.ref
        /\ new.rfb = st.rfb /\ new.fault = st.fault
    BY <1>1, <1>4 DEF HasFields, Fields
  <1>6. RestSame(st, new)
    BY <1>1, <1>5 DEF RestSame
  <1>7. OneRecord(st, new, r) /\ new.rc[r].blk = st.rc[r].blk
    BY <1>2, <1>3, <1>5 DEF OneRecord
  <1>8. Sound(new) /\ Kept(st, new, {r})
    BY <1>5, <1>6, <1>7, RecordSound
  <1> QED
    BY <1>2, <1>5, <1>8 DEF NotedAfter, new

-----------------------------------------------------------------------------
(* The run that is being encoded. *)

Run == [rec : Rec, frag : Nat, base : Nat, ndocs : Nat, logb : Nat, gaps : Seq(Nat \ {0}), size : Nat]

\* It is cached, or was not begun.
RunOK(st, r, run) ==
    /\ run \in Run /\ run.rec = r /\ run.frag = st.rc[r].nfrags - 1
    /\ run.ndocs = Len(run.gaps) /\ run.base + Total(run.gaps) = st.rc[r].lastdoc
    /\ run.gaps # <<>> =>
          /\ Cached(st, run) /\ run \in Fragment /\ st.rc[r].blk # 0
          /\ run.size = 1 + CeilDiv(st.rc[r].bitsize, WordBits)
          /\ st.rc[r].bitsize # 0 /\ st.rc[r].bitsize < SyncMaxBits
    /\ run.gaps = <<>> => st.rc[r].blk = 0 /\ st.rc[r].bitsize = 0

\* What it becomes fits.
Becomes(st, r, run, e) ==
    /\ IsLast(st, e) /\ e.rec = r
    /\ run.gaps # <<>> => run.size <= e.size

\* BFrecord_frag_grow and BFrecord_frag_write, as encode_to_syncrun_freq calls them.
LEMMA WrittenFacts ==
    ASSUME NEW st, Sound(st), NEW r \in DOMAIN st.rc, NEW run, RunOK(st, r, run),
           NEW e, Becomes(st, r, run, e)
    PROVE  Puts(st, Written(st, run, e), e)
  <1>1. IsLast(st, e) /\ e.rec = r /\ e \in Fragment /\ e.size \in Nat /\ e.size <= FragMax
    BY DEF Becomes, IsLast, Fragment
  <1>2. run.rec = r /\ run.frag = st.rc[r].nfrags - 1
    BY DEF RunOK
  <1>3. CASE run.gaps = <<>>
    <2>1. st.rc[e.rec].blk = 0
      BY <1>1, <1>3 DEF RunOK
    <2>2. Puts(st, WriteFragment(st, e), e)
      BY <1>1, <2>1, WriteFragmentFacts
    <2> QED
      BY <1>3, <2>2 DEF Written
  <1>4. CASE run.gaps # <<>> /\ ~ (e.size > run.size)
    <2>1. run \in Fragment /\ run.size <= e.size /\ Cached(st, run)
      BY <1>4 DEF RunOK, Becomes
    <2>2. run.size = e.size
      <3>1. run.size \in Nat
        BY <2>1 DEF Fragment
      <3> QED
        BY <1>1, <1>4, <2>1, <3>1
    <2>3. \E old : Cached(st, old) /\ old.rec = e.rec /\ old.size = e.size
      BY <1>1, <1>2, <2>1, <2>2
    <2>4. Puts(st, WriteFragment(st, e), e)
      BY <1>1, <2>3, WriteFragmentFacts
    <2> QED
      BY <1>4, <2>4 DEF Written
  <1>5. CASE run.gaps # <<>> /\ e.size > run.size
    <2> DEFINE frag == run.frag
               size == e.size
               g == Grown(run, size)
               mid == GrowFragment(st, r, frag, size)
               new == WriteFragment(mid, e)
    <2>1. run \in Fragment /\ Cached(st, run) /\ st.rc[r].blk # 0
      BY <1>5 DEF RunOK
    <2>2. run \in FragmentOf(r, frag) /\ run.size \in Nat
      BY <1>2, <2>1 DEF FragmentOf, Fragment
    <2>3. frag = st.rc[r].nfrags - 1 /\ size \in Nat /\ run.size < size /\ size <= FragMax
      BY <1>1, <1>2, <1>5, <2>2
    <2>4. Written(st, run, e) = new
      BY <1>2, <1>5 DEF Written
    <2>11. size = e.size
      OBVIOUS
    <2> HIDE DEF frag, size
    <2>5. Puts(st, mid, g)
      BY <2>1, <2>2, <2>3, GrowFragmentFacts
    <2>6. g.rec = r /\ g.size = size
      <3>1. size \in Nat \ {0}
        BY <2>2, <2>3
      <3>2. g \in FragmentOf(r, frag) /\ g.size = size
        BY <2>2, <3>1, GrownFacts
      <3> QED
        BY <3>2 DEF FragmentOf
    <2> HIDE DEF g, mid
    <2>7. /\ Sound(mid) /\ Kept(st, mid, {r}) /\ Cached(mid, g) /\ SameNumbers(st, mid, r)
          /\ mid.maxlen = st.maxlen
      BY <2>5, <2>6 DEF Puts
    <2>8. IsLast(mid, e)
      <3>1. e.rec \in DOMAIN mid.rc
        BY <1>1, <2>7, KeptPlaced
      <3> QED
        BY <1>1, <2>7, <3>1 DEF IsLast, SameNumbers
    <2>9. Puts(mid, new, e)
      <3>1. \E old : Cached(mid, old) /\ old.rec = e.rec /\ old.size = e.size
        BY <1>1, <2>6, <2>7, <2>11
      <3> QED
        BY <2>7, <2>8, <3>1, WriteFragmentFacts
    <2> HIDE DEF new
    <2>10. Kept(st, new, {r})
      <3>1. Kept(mid, new, {r}) /\ IsStore(st)
        BY <1>1, <2>9 DEF Puts, Sound, Body
      <3> QED
        BY <2>7, <3>1, KeptTwice
    <2> QED
      BY <1>1, <2>4, <2>7, <2>9, <2>10 DEF Puts, SameNumbers
  <1> QED
    BY <1>3, <1>4, <1>5

\* The words of bits.
LEMMA CeilFacts ==
    ASSUME NEW n \in Nat
    PROVE  /\ CeilDiv(n, WordBits) \in Nat
           /\ n < SyncMaxBits => CeilDiv(n, WordBits) <= SyncMaxWords
           /\ \A m \in Nat : m <= n => CeilDiv(m, WordBits) <= CeilDiv(n, WordBits)
  <1> DEFINE w == WordBits
             s == SyncMaxWords
             k == n + w - 1
  <1>1. w \in Nat \ {0} /\ s \in Nat /\ SyncMaxBits = s * w
    BY SyncNumbers
  <1>2. CeilDiv(n, WordBits) = k \div w /\ k \in Nat
    BY <1>1 DEF CeilDiv
  <1>3. ASSUME n < SyncMaxBits PROVE k \div w <= s
    <2>1. n <= s * w
      BY <1>1, <1>3
    <2> HIDE DEF w, s
    <2> QED
      BY <1>1, <2>1
  <1>4. ASSUME NEW m \in Nat, m <= n PROVE CeilDiv(m, WordBits) <= k \div w
    <2> DEFINE j == m + w - 1
    <2>1. j \in Nat /\ j <= k /\ CeilDiv(m, WordBits) = j \div w
      BY <1>1, <1>4 DEF CeilDiv
    <2> HIDE DEF j, k, w
    <2> QED
      BY <1>1, <1>2, <2>1
  <1> HIDE DEF k, w
  <1>5. k \div w \in Nat
    BY <1>1, <1>2
  <1> QED
    BY <1>2, <1>3, <1>4, <1>5 DEF s

\* A run that goes on.
ExtendedAfter(run, e, fits, size) ==
    /\ e \in Fragment /\ e.rec = run.rec /\ e.frag = run.frag /\ e.base = run.base
    /\ e.gaps = run.gaps \o fits /\ e.gaps # <<>> /\ e.ndocs = Len(e.gaps)
    /\ e.base + Total(e.gaps) = run.base + Total(run.gaps) + Total(fits)
    /\ e.size = size

\* The run has the gaps more.
LEMMA ExtendedFacts ==
    ASSUME NEW run \in Run, run.ndocs = Len(run.gaps), NEW logb \in Nat, NEW newlen \in Nat,
           NEW more \in BOOLEAN, NEW fits \in Seq(Nat \ {0}), run.gaps # <<>> \/ fits # <<>>
    PROVE  ExtendedAfter(run, Extended(run, logb, newlen, more, fits), fits,
                         1 + IF more THEN SyncMaxWords ELSE CeilDiv(newlen, WordBits))
  <1> DEFINE e == Extended(run, logb, newlen, more, fits)
             gaps == run.gaps \o fits
             n == run.ndocs + Len(fits)
             size == 1 + IF more THEN SyncMaxWords ELSE CeilDiv(newlen, WordBits)
             a == [run EXCEPT !.gaps = gaps]
             b == [a EXCEPT !.ndocs = n]
             c == [b EXCEPT !.logb = logb]
  <1>1. /\ run.gaps \in Seq(Nat \ {0}) /\ run.base \in Nat /\ run.ndocs \in Nat /\ Len(fits) \in Nat
        /\ run.gaps \in Seq(Nat) /\ fits \in Seq(Nat)
    <2>1. run.gaps \in Seq(Nat \ {0}) /\ run.base \in Nat /\ run.ndocs \in Nat
      BY DEF Run
    <2> QED
      BY <2>1
  <1>2. gaps \in Seq(Nat \ {0}) /\ Len(gaps) = n /\ gaps # <<>>
    <2>1. gaps \in Seq(Nat \ {0}) /\ Len(gaps) = Len(run.gaps) + Len(fits)
      BY <1>1, ConcatFacts
    <2>2. Len(run.gaps) # 0 \/ Len(fits) # 0
      BY <1>1
    <2>3. Len(gaps) # 0
      BY <1>1, <2>1, <2>2
    <2> HIDE DEF gaps
    <2> QED
      BY <2>1, <2>3
  <1>3. Total(gaps) = Total(run.gaps) + Total(fits) /\ Total(run.gaps) \in Nat /\ Total(fits) \in Nat
    BY <1>1, TotalConcat, TotalType
  <1>4. size \in Nat \ {0}
    <2>1. CeilDiv(newlen, WordBits) \in Nat
      BY CeilFacts
    <2>2. SyncMaxWords \in Nat
      BY SyncNumbers
    <2> QED
      BY <2>1, <2>2
  <1>5. e = [c EXCEPT !.size = size]
    BY DEF Extended
  <1>6. n \in Nat
    BY <1>1
  <1> HIDE DEF e, gaps, n, size
  <1>7. a \in Run /\ a.rec = run.rec /\ a.frag = run.frag /\ a.base = run.base /\ a.gaps = gaps
    BY <1>2 DEF Run
  <1> HIDE DEF a
  <1>8. b \in Run /\ b.rec = run.rec /\ b.frag = run.frag /\ b.base = run.base /\ b.gaps = gaps /\ b.ndocs = n
    BY <1>6, <1>7 DEF Run
  <1> HIDE DEF b
  <1>9. c \in Run /\ c.rec = run.rec /\ c.frag = run.frag /\ c.base = run.base /\ c.gaps = gaps /\ c.ndocs = n
    BY <1>8 DEF Run
  <1> HIDE DEF c
  <1>10. /\ e \in Fragment /\ e.rec = run.rec /\ e.frag = run.frag /\ e.base = run.base
         /\ e.gaps = gaps /\ e.ndocs = n /\ e.size = size
    <2>1. /\ e.rec = c.rec /\ e.frag = c.frag /\ e.base = c.base /\ e.gaps = c.gaps
          /\ e.ndocs = c.ndocs /\ e.size = size
      BY <1>5, <1>9 DEF Run
    <2>2. e \in Fragment
      BY <1>4, <1>5, <1>9 DEF Run, Fragment
    <2> QED
      BY <1>9, <2>1, <2>2
  <1>11. e.base + Total(e.gaps) = run.base + Total(run.gaps) + Total(fits)
    BY <1>1, <1>3, <1>10
  <1> QED
    BY <1>2, <1>10, <1>11 DEF ExtendedAfter, e, gaps, size

\* The only fragment of a record in the cache.
LEMMA OnlyCached ==
    ASSUME NEW st, Body(st), NEW r \in DOMAIN st.rc, NEW e, Cached(st, e), e.rec = r
    PROVE  /\ st.rc[r].blk # 0 /\ st.rc[r].blk \in DOMAIN st.blocks
           /\ st.blocks[st.rc[r].blk].recs \in Seq(Fragment)
           /\ \E i \in 1 .. Len(st.blocks[st.rc[r].blk].recs) : st.blocks[st.rc[r].blk].recs[i] = e
           /\ \A o : Cached(st, o) /\ o.rec = r => o = e
  <1>1. PICK b \in DOMAIN st.blocks : \E i \in DOMAIN st.blocks[b].recs : st.blocks[b].recs[i] = e
    BY DEF Cached
  <1>2. b # 0 /\ st.rc[r].blk = b /\ st.blocks[b].recs \in Seq(Fragment)
    BY <1>1, CachedFacts
  <1> DEFINE frag == st.rc[r].nfrags - 1
  <1>3. Placed(st, r, frag)
    BY <1>2, PlaceFacts
  <1>4. \A o : Cached(st, o) /\ o.rec = r => o = e
    BY Zenon, <1>3 DEF Placed
  <1>5. DOMAIN st.blocks[b].recs = 1 .. Len(st.blocks[b].recs)
    <2> DEFINE recs == st.blocks[b].recs
    <2>1. recs \in Seq(Fragment)
      BY <1>2
    <2> HIDE DEF recs
    <2>2. DOMAIN recs = 1 .. Len(recs)
      BY <2>1
    <2> QED
      BY <2>2 DEF recs
  <1> QED
    BY <1>1, <1>2, <1>4, <1>5

-----------------------------------------------------------------------------
(* encode_to_syncrun_freq. *)

\* What is known of the store st, of which record r is to go on up to document d, and of x
\* when some of the gaps have been encoded.
Encoding(st, r, d, x) ==
    /\ x = [st |-> x.st, run |-> x.run, rest |-> x.rest]
    /\ Sound(x.st) /\ Kept(st, x.st, {r}) /\ x.st.maxlen = st.maxlen
    /\ r \in DOMAIN x.st.rc /\ x.st.rc[r].freq = st.rc[r].freq
    /\ x.rest \in Seq(Nat \ {0}) /\ x.st.rc[r].lastdoc + Total(x.rest) = d
    /\ x.rest = <<>> => DataOf(x.st, r)
    /\ x.rest # <<>> => RunOK(x.st, r, x.run)

\* The last run takes all the gaps that are left.
LEMMA DoneFacts ==
    ASSUME NEW st, IsStore(st), NEW r \in DOMAIN st.rc, st.rc[r].freq > 0, NEW d, NEW x,
           Encoding(st, r, d, x), x.rest # <<>>, NEW logb \in Nat, NEW newlogb,
           NEW newlen \in Nat \ {0}, newlen < SyncMaxBits, x.st.rc[r].bitsize <= newlen,
           NEW fits \in Seq(Nat \ {0}), fits # <<>>, Len(fits) = Len(x.rest), NEW docnum \in Nat,
           docnum = d, docnum = x.st.rc[r].lastdoc + Total(fits)
    PROVE  LET y == RunDone(x, newlogb, logb, newlen, fits, docnum)
           IN  Encoding(st, r, d, y) /\ y.rest = <<>>
  <1> DEFINE run == x.run
             e == Extended(run, logb, newlen, FALSE, fits)
             w == Written(x.st, run, e)
             recA == [w.rc[r] EXCEPT !.bitsize = newlen]
             mid == Noted(w, r, recA)
             recB == [mid.rc[r] EXCEPT !.lastdoc = docnum]
             new == Noted(mid, r, recB)
             y == [st |-> new, run |-> run, rest |-> <<>>]
             size == 1 + CeilDiv(newlen, WordBits)
  <1>1. /\ Sound(x.st) /\ Kept(st, x.st, {r}) /\ x.st.maxlen = st.maxlen
        /\ r \in DOMAIN x.st.rc /\ x.st.rc[r].freq = st.rc[r].freq
        /\ RunOK(x.st, r, run) /\ x = [st |-> x.st, run |-> x.run, rest |-> x.rest]
    BY DEF Encoding
  <1>2. run \in Run /\ run.rec = r /\ run.ndocs = Len(run.gaps) /\ run.frag = x.st.rc[r].nfrags - 1
        /\ run.base + Total(run.gaps) = x.st.rc[r].lastdoc
    BY <1>1 DEF RunOK
  <1>3. RunDone(x, newlogb, logb, newlen, fits, docnum) = y
    <2>1. RunDone(x, newlogb, logb, newlen, fits, docnum) = [x EXCEPT !.st = new, !.rest = <<>>]
      BY <1>2 DEF RunDone, Noted
    <2> HIDE DEF new
    <2> QED
      BY <1>1, <2>1
  <1>4. ExtendedAfter(run, e, fits, size)
    <2>1. FALSE \in BOOLEAN /\ newlen \in Nat
      OBVIOUS
    <2>2. ExtendedAfter(run, e, fits, 1 + IF FALSE THEN SyncMaxWords ELSE CeilDiv(newlen, WordBits))
      BY <1>2, <2>1, ExtendedFacts
    <2> QED
      BY <2>2
  <1> HIDE DEF e
  <1>5. x.st.rc[r].bitsize \in Nat
    BY <1>1 DEF Sound, Body, IsStore, IsRc, RecData
  <1>6. Becomes(x.st, r, run, e)
    <2>1. size <= FragMax
      BY CeilFacts, SyncNumbers
    <2>2. run.gaps # <<>> => run.size <= size
      <3>1. run.gaps # <<>> => run.size = 1 + CeilDiv(x.st.rc[r].bitsize, WordBits)
        BY <1>1 DEF RunOK
      <3>2. /\ CeilDiv(x.st.rc[r].bitsize, WordBits) <= CeilDiv(newlen, WordBits)
            /\ CeilDiv(x.st.rc[r].bitsize, WordBits) \in Nat /\ CeilDiv(newlen, WordBits) \in Nat
        BY <1>5, CeilFacts
      <3> QED
        BY <3>1, <3>2
    <2> HIDE DEF size
    <2> QED
      BY <1>1, <1>2, <1>4, <2>1, <2>2 DEF Becomes, IsLast, ExtendedAfter
  <1>7. Puts(x.st, w, e) /\ e.rec = r
    <2>1. e.rec = r
      BY <1>2, <1>4 DEF ExtendedAfter
    <2> QED
      BY <1>1, <1>6, <2>1, WrittenFacts
  <1> HIDE DEF w
  <1>8. /\ Sound(w) /\ Kept(x.st, w, {r}) /\ Cached(w, e) /\ SameNumbers(x.st, w, r)
        /\ w.maxlen = x.st.maxlen
    BY <1>7 DEF Puts
  <1>9. r \in DOMAIN w.rc
    BY <1>1, <1>8, KeptPlaced
  <1>10. w.rc[r] \in RecData
    BY <1>8, <1>9 DEF Sound, Body, IsStore, IsRc
  <1>11. /\ recA \in RecData /\ recA.blk = w.rc[r].blk /\ recA.nfrags = w.rc[r].nfrags
         /\ recA.freq = w.rc[r].freq /\ recA.bitsize = newlen
    BY <1>10 DEF RecData
  <1> HIDE DEF recA
  <1>12. NotedAfter(w, mid, r, recA)
    BY <1>8, <1>9, <1>11, NotedFacts
  <1> HIDE DEF mid
  <1>13. Sound(mid) /\ r \in DOMAIN mid.rc /\ mid.rc[r] = recA /\ Kept(w, mid, {r})
         /\ mid.blocks = w.blocks /\ mid.maxlen = w.maxlen
    BY <1>9, <1>12 DEF NotedAfter
  <1>14. /\ recB \in RecData /\ recB.blk = recA.blk /\ recB.nfrags = recA.nfrags
         /\ recB.freq = recA.freq /\ recB.bitsize = newlen /\ recB.lastdoc = docnum
    BY <1>11, <1>13 DEF RecData
  <1> HIDE DEF recB
  <1>15. NotedAfter(mid, new, r, recB)
    BY <1>13, <1>14, NotedFacts
  <1> HIDE DEF new
  <1>16. Sound(new) /\ r \in DOMAIN new.rc /\ new.rc[r] = recB /\ Kept(mid, new, {r})
         /\ new.blocks = w.blocks /\ new.maxlen = st.maxlen
    BY <1>1, <1>8, <1>13, <1>15 DEF NotedAfter
  <1>17. Kept(st, new, {r})
    <2>1. IsStore(w) /\ IsStore(x.st)
      BY <1>1, <1>8 DEF Sound, Body
    <2>2. Kept(w, new, {r})
      BY <1>13, <1>16, <2>1, KeptTwice
    <2>3. Kept(x.st, new, {r})
      BY <1>8, <2>1, <2>2, KeptTwice
    <2> QED
      BY <1>1, <2>3, KeptTwice
  <1>18. \A o : Cached(new, o) <=> Cached(w, o)
    BY <1>16 DEF Cached
  <1>19. w.rc[r].blk # 0 /\ \A o : Cached(w, o) /\ o.rec = r => o = e
    <2>1. Body(w)
      BY <1>8 DEF Sound
    <2> QED
      BY <1>7, <1>8, <1>9, <2>1, OnlyCached
  <1>20. new.rc[r].freq = st.rc[r].freq
    BY <1>1, <1>8, <1>11, <1>14, <1>16 DEF SameNumbers
  <1>21. DataOf(new, r)
    <2>1. new.rc[r].blk # 0 /\ new.rc[r].bitsize = newlen /\ new.rc[r].lastdoc = docnum
      BY <1>11, <1>14, <1>16, <1>19
    <2>2. /\ e.size = 1 + CeilDiv(newlen, WordBits) /\ e.ndocs = Len(e.gaps) /\ e.gaps # <<>>
          /\ e.base + Total(e.gaps) = docnum
      BY <1>2, <1>4 DEF ExtendedAfter
    <2> QED
      BY <1>18, <1>19, <1>20, <2>1, <2>2 DEF DataOf
  <1>22. new.rc[r].lastdoc + Total(<<>>) = d
    BY <1>14, <1>16, TotalNone
  <1>23. Encoding(st, r, d, y) /\ y.rest = <<>>
    <2>1. y = [st |-> y.st, run |-> y.run, rest |-> y.rest] /\ y.rest = <<>> /\ y.st = new /\ <<>> \in Seq(Nat \ {0})
      OBVIOUS
    <2> HIDE DEF y
    <2> QED
      BY <1>16, <1>17, <1>20, <1>21, <1>22, <2>1 DEF Encoding
  <1> HIDE DEF y
  <1> QED
    BY <1>3, <1>23

\* Some gaps are left for the next run when k of those of x were encoded.
GoesOn(st, r, d, x, k, y) ==
    Encoding(st, r, d, y) /\ y.rest # <<>> /\ y.run.gaps = <<>> /\ Len(y.rest) = Len(x.rest) - k

\* A run is full, and its block is flushed.
LEMMA MoreFacts ==
    ASSUME NEW st, IsStore(st), NEW r \in DOMAIN st.rc, NEW d \in Nat, NEW x,
           Encoding(st, r, d, x), x.rest # <<>>, NEW logb \in Nat, NEW newlogb \in Nat,
           NEW newlen \in Nat, NEW k \in 0 .. Len(x.rest), k # Len(x.rest),
           x.run.gaps # <<>> \/ k > 0, NEW docnum \in Nat,
           docnum = x.st.rc[r].lastdoc + Total(SubSeq(x.rest, 1, k))
    PROVE  GoesOn(st, r, d, x, k, RunDone(x, newlogb, logb, newlen, SubSeq(x.rest, 1, k), docnum))
  <1> DEFINE run == x.run
             fits == SubSeq(x.rest, 1, k)
             more == SubSeq(x.rest, k + 1, Len(x.rest))
             e == Extended(run, logb, newlen, TRUE, fits)
             w == Written(x.st, run, e)
             rec == [w.rc[r] EXCEPT !.lastdoc = docnum]
             mid == Noted(w, r, rec)
             b == w.rc[r].blk
             new == FlushBlock(mid, b)
             next == EmptyRun(r, run.frag + 1, docnum, newlogb)
             y == [st |-> new, run |-> next, rest |-> more]
  <1>1. /\ Sound(x.st) /\ Kept(st, x.st, {r}) /\ x.st.maxlen = st.maxlen
        /\ r \in DOMAIN x.st.rc /\ x.st.rc[r].freq = st.rc[r].freq
        /\ RunOK(x.st, r, run) /\ x.rest \in Seq(Nat \ {0})
        /\ x.st.rc[r].lastdoc + Total(x.rest) = d
    BY DEF Encoding
  <1>2. run \in Run /\ run.rec = r /\ run.ndocs = Len(run.gaps) /\ run.frag = x.st.rc[r].nfrags - 1
    BY <1>1 DEF RunOK
  <1>3. /\ fits \in Seq(Nat \ {0}) /\ Len(fits) = k
        /\ more \in Seq(Nat \ {0}) /\ Len(more) = Len(x.rest) - k
        /\ Total(x.rest) = Total(fits) + Total(more)
        /\ Total(fits) \in Nat /\ Total(more) \in Nat
    <2>1. /\ fits \in Seq(Nat \ {0}) /\ Len(fits) = k
          /\ more \in Seq(Nat \ {0}) /\ Len(more) = Len(x.rest) - k
      BY <1>1, SubSeqFacts
    <2>2. x.rest \in Seq(Nat)
      BY <1>1
    <2>3. Total(x.rest) = Total(fits) + Total(more)
      BY <2>2, TotalSplit
    <2> HIDE DEF fits, more
    <2>4. fits \in Seq(Nat) /\ more \in Seq(Nat)
      BY <2>1
    <2> QED
      BY <2>1, <2>3, <2>4, TotalType
  <1>4. Len(x.rest) \in Nat /\ k \in Nat
    BY <1>1
  <1>5. RunDone(x, newlogb, logb, newlen, fits, docnum) = y
    <2>1. Len(fits) # Len(x.rest) /\ Len(fits) = k
      BY <1>3
    <2> HIDE DEF fits
    <2> QED
      BY <1>2, <2>1 DEF RunDone, Noted
  <1>6. docnum = x.st.rc[r].lastdoc + Total(fits)
    OBVIOUS
  <1>7. run.gaps # <<>> \/ fits # <<>>
    <2>1. fits # <<>> \/ k = 0
      BY <1>3
    <2> QED
      BY <2>1
  <1> HIDE DEF fits, more
  <1>8. ExtendedAfter(run, e, fits, FragMax)
    <2>1. TRUE \in BOOLEAN
      OBVIOUS
    <2>2. ExtendedAfter(run, e, fits, 1 + IF TRUE THEN SyncMaxWords ELSE CeilDiv(newlen, WordBits))
      BY <1>2, <1>3, <1>7, <2>1, ExtendedFacts
    <2> QED
      BY <2>2, SyncNumbers
  <1> HIDE DEF e
  <1>9. x.st.rc[r].bitsize \in Nat
    BY <1>1 DEF Sound, Body, IsStore, IsRc, RecData
  <1>10. Becomes(x.st, r, run, e) /\ e.rec = r /\ e.size = FragMax
    <2>1. run.gaps # <<>> => run.size <= FragMax
      <3>1. run.gaps # <<>> => run.size = 1 + CeilDiv(x.st.rc[r].bitsize, WordBits)
                               /\ x.st.rc[r].bitsize < SyncMaxBits
        BY <1>1 DEF RunOK
      <3>2. /\ CeilDiv(x.st.rc[r].bitsize, WordBits) \in Nat
            /\ x.st.rc[r].bitsize < SyncMaxBits =>
                  CeilDiv(x.st.rc[r].bitsize, WordBits) <= SyncMaxWords
        BY <1>9, CeilFacts
      <3> QED
        BY <3>1, <3>2, SyncNumbers
    <2>2. FragMax <= FragMax
      BY SyncNumbers
    <2> QED
      BY <1>1, <1>2, <1>8, <2>1, <2>2 DEF Becomes, IsLast, ExtendedAfter
  <1>11. Puts(x.st, w, e)
    BY <1>1, <1>10, WrittenFacts
  <1> HIDE DEF w
  <1>12. /\ Sound(w) /\ Kept(x.st, w, {r}) /\ Cached(w, e) /\ SameNumbers(x.st, w, r)
         /\ w.maxlen = x.st.maxlen /\ Body(w)
    BY <1>10, <1>11 DEF Puts, Sound
  <1>13. r \in DOMAIN w.rc
    BY <1>1, <1>12, KeptPlaced
  <1>14. w.rc[r] \in RecData
    BY <1>12, <1>13 DEF Body, IsStore, IsRc
  <1>15. /\ rec \in RecData /\ rec.blk = w.rc[r].blk /\ rec.nfrags = w.rc[r].nfrags
         /\ rec.freq = w.rc[r].freq /\ rec.lastdoc = docnum
    BY <1>14 DEF RecData
  <1> HIDE DEF rec
  <1>16. NotedAfter(w, mid, r, rec)
    BY <1>12, <1>13, <1>15, NotedFacts
  <1> HIDE DEF mid
  <1>17. /\ Sound(mid) /\ Kept(w, mid, {r}) /\ mid.rc[r] = rec /\ DOMAIN mid.rc = DOMAIN w.rc
         /\ mid.blocks = w.blocks /\ mid.maxlen = w.maxlen
    BY <1>16 DEF NotedAfter
  <1>18. /\ b # 0 /\ b \in DOMAIN w.blocks /\ w.blocks[b].recs \in Seq(Fragment)
         /\ \E i \in 1 .. Len(w.blocks[b].recs) : w.blocks[b].recs[i] = e
    BY <1>10, <1>12, <1>13, OnlyCached
  <1> HIDE DEF b
  <1>19. Room(w.blocks[b].recs) < FreeTolerance
    <2> DEFINE recs == w.blocks[b].recs
    <2>1. PICK i \in 1 .. Len(recs) : recs[i] = e
      BY <1>18
    <2>2. recs \in Seq(Fragment)
      BY <1>18
    <2> HIDE DEF recs
    <2>3. Room(recs) \in Int /\ Room(recs) + recs[i].size + RecEnt <= BlockSize
      BY <2>2, BlockNumbers, RoomLess
    <2>4. recs[i].size = FragMax
      BY <1>10, <2>1
    <2>5. Room(recs) < FreeTolerance
      BY <2>3, <2>4, BlockNumbers DEF FragMax, FreeTolerance
    <2> QED
      BY <2>5 DEF recs
  <1>20. Flushed(mid, new, b)
    <2>1. b \in DOMAIN mid.blocks /\ Room(mid.blocks[b].recs) < FreeTolerance
      BY <1>17, <1>18, <1>19
    <2> QED
      BY <1>17, <2>1, FlushBlockFacts
  <1> HIDE DEF new
  <1>21. /\ Sound(new) /\ Kept(mid, new, {}) /\ new.maxlen = st.maxlen /\ new.rc = RcOut(mid, <<b>>)
    BY <1>1, <1>12, <1>17, <1>20 DEF Flushed
  <1>22. r \in DOMAIN new.rc /\ new.rc[r] = Advanced(rec)
    <2>1. b \in ToSet(<<b>>) /\ rec.blk = b
      BY <1>15 DEF ToSet, b
    <2> QED
      BY <1>13, <1>17, <1>21, <2>1 DEF RcOut
  <1>23. /\ new.rc[r].nfrags = rec.nfrags + 1 /\ new.rc[r].bitsize = 0 /\ new.rc[r].blk = 0
         /\ new.rc[r].freq = rec.freq /\ new.rc[r].lastdoc = docnum /\ rec.nfrags \in Nat
    BY <1>15, <1>22, AdvancedFacts
  <1>24. Kept(st, new, {r})
    <2>1. IsStore(w) /\ IsStore(x.st) /\ IsStore(mid)
      BY <1>1, <1>12, <1>17 DEF Sound, Body
    <2>2. Kept(mid, new, {r})
      <3>1. {} \subseteq {r}
        OBVIOUS
      <3> QED
        BY <1>21, <3>1, KeptMore
    <2>3. Kept(w, new, {r})
      BY <1>17, <2>1, <2>2, KeptTwice
    <2>4. Kept(x.st, new, {r})
      BY <1>12, <2>1, <2>3, KeptTwice
    <2> QED
      BY <1>1, <2>4, KeptTwice
  <1>25. new.rc[r].freq = st.rc[r].freq
    BY <1>1, <1>12, <1>15, <1>23 DEF SameNumbers
  <1>26. run.frag + 1 = new.rc[r].nfrags - 1 /\ run.frag + 1 \in Nat
    <2>1. run.frag \in Nat /\ w.rc[r].nfrags = x.st.rc[r].nfrags
      BY <1>2, <1>12 DEF Run, SameNumbers
    <2>2. x.st.rc[r].nfrags = rec.nfrags
      BY <1>15, <2>1
    <2> QED
      BY <1>2, <1>23, <2>1, <2>2
  <1>27. RunOK(new, r, next) /\ next.gaps = <<>>
    <2>1. next = [rec |-> r, frag |-> run.frag + 1, base |-> docnum, ndocs |-> 0, logb |-> newlogb,
                  gaps |-> <<>>, size |-> 0]
      BY DEF EmptyRun
    <2>2. r \in Rec
      BY <1>2 DEF Run
    <2> HIDE DEF next
    <2>3. next \in Run
      <3>1. <<>> \in Seq(Nat \ {0}) /\ 0 \in Nat
        OBVIOUS
      <3> QED
        BY <1>26, <2>1, <2>2, <3>1 DEF Run
    <2>4. next.rec = r /\ next.frag = run.frag + 1 /\ next.base = docnum /\ next.ndocs = 0 /\ next.gaps = <<>>
      BY <2>1
    <2>5. next.base + Total(next.gaps) = docnum /\ Len(next.gaps) = 0
      BY <2>4, TotalNone
    <2> QED
      BY <1>23, <1>26, <2>3, <2>4, <2>5 DEF RunOK
  <1>28. new.rc[r].lastdoc + Total(more) = d
    <2>1. x.st.rc[r].lastdoc \in Nat
      BY <1>1 DEF Sound, Body, IsStore, IsRc, RecData
    <2> QED
      BY <1>1, <1>3, <1>6, <1>23, <2>1, SMTT(30)
  <1> HIDE DEF next
  <1>29. more # <<>>
    BY <1>3, <1>4
  <1>30. Encoding(st, r, d, y) /\ y.rest = more /\ y.run = next
    <2>1. y = [st |-> y.st, run |-> y.run, rest |-> y.rest] /\ y.rest = more /\ y.st = new /\ y.run = next
      OBVIOUS
    <2> HIDE DEF y
    <2> QED
      BY <1>3, <1>21, <1>22, <1>24, <1>25, <1>27, <1>28, <1>29, <2>1 DEF Encoding
  <1>31. y.rest # <<>> /\ y.run.gaps = <<>> /\ Len(y.rest) = Len(x.rest) - k
    <2> HIDE DEF y, more
    <2> QED
      BY <1>3, <1>27, <1>29, <1>30
  <1> HIDE DEF y
  <1>32. GoesOn(st, r, d, x, k, y)
    BY <1>30, <1>31 DEF GoesOn
  <1> QED
    BY <1>5, <1>32 DEF fits

\* A run more was encoded.
Advances(st, r, d, x, y) ==
    /\ Encoding(st, r, d, y)
    /\ y.rest # <<>> => /\ y.run.gaps = <<>> /\ Len(y.rest) <= Len(x.rest)
                        /\ x.run.gaps = <<>> => Len(y.rest) < Len(x.rest)

\* A run is encoded that takes one gap at least.
LEMMA EncodeRunFacts ==
    ASSUME NEW st, IsStore(st), NEW r \in DOMAIN st.rc, st.rc[r].freq > 0, NEW d \in Nat, NEW x,
           Encoding(st, r, d, x), x.rest # <<>>, NEW logb \in Nat, NEW newlogb \in Nat, NEW bitlen,
           bitlen = x.st.rc[r].bitsize, x.run.gaps # <<>> \/ Fit(r, logb, bitlen, x.rest) > 0
    PROVE  Advances(st, r, d, x, EncodeRun(x, newlogb, logb, bitlen))
  <1> DEFINE k == Fit(r, logb, bitlen, x.rest)
             fits == SubSeq(x.rest, 1, k)
             newlen == bitlen + Bits(r, logb, fits)
             docnum == x.st.rc[r].lastdoc + Total(fits)
             y == RunDone(x, newlogb, logb, newlen, fits, docnum)
  <1>1. /\ Sound(x.st) /\ r \in DOMAIN x.st.rc /\ RunOK(x.st, r, x.run)
        /\ x.rest \in Seq(Nat \ {0}) /\ x.st.rc[r].lastdoc + Total(x.rest) = d
    BY DEF Encoding
  <1>2. x.run.rec = r
    BY <1>1 DEF RunOK
  <1>3. EncodeRun(x, newlogb, logb, bitlen) = y
    BY <1>2 DEF EncodeRun, EncodeFits
  <1>4. x.st.rc[r].lastdoc \in Nat /\ bitlen \in Nat
    BY <1>1 DEF Sound, Body, IsStore, IsRc, RecData
  <1>5. FitOK(r, logb, bitlen, x.rest, k)
    BY <1>1, <1>4, FitFacts
  <1> HIDE DEF k
  <1>6. /\ k \in 0 .. Len(x.rest)
        /\ k = 0 \/ newlen < SyncMaxBits
    BY <1>5 DEF FitOK
  <1>7. fits \in Seq(Nat \ {0}) /\ Len(fits) = k /\ \A i \in 1 .. k : fits[i] = x.rest[i]
    BY <1>1, <1>6, SubSeqFacts
  <1>8. Len(x.rest) \in Nat \ {0} /\ k \in Nat
    <2>1. Len(x.rest) \in Nat /\ Len(x.rest) # 0
      BY <1>1
    <2> QED
      BY <1>6, <2>1
  <1>9. x.run.gaps # <<>> \/ k > 0
    BY DEF k
  <1>10. Bits(r, logb, fits) \in Nat /\ Bits(r, logb, fits) >= k /\ Total(fits) \in Nat
    <2>1. fits \in Seq(Nat)
      BY <1>7
    <2> HIDE DEF fits
    <2> QED
      BY <1>7, <2>1, BitsFacts, TotalType
  <1>11. newlen \in Nat /\ newlen >= k /\ bitlen <= newlen /\ docnum \in Nat
    <2> DEFINE n == Bits(r, logb, fits)
               t == Total(fits)
               l == x.st.rc[r].lastdoc
    <2>1. newlen = bitlen + n /\ docnum = l + t
      OBVIOUS
    <2>2. bitlen \in Nat /\ l \in Nat /\ n \in Nat /\ n >= k /\ t \in Nat /\ k \in Nat
      BY <1>4, <1>8, <1>10
    <2> HIDE DEF n, t, l
    <2>3. bitlen + n \in Nat /\ bitlen + n >= k /\ bitlen <= bitlen + n /\ l + t \in Nat
      BY <2>2
    <2> HIDE DEF newlen, docnum
    <2> QED
      BY <2>1, <2>3
  <1>12. docnum = x.st.rc[r].lastdoc + Total(fits)
    OBVIOUS
  <1>13. CASE k = Len(x.rest)
    <2>1. fits = x.rest
      <3>1. Len(fits) = Len(x.rest) /\ \A i \in 1 .. Len(fits) : fits[i] = x.rest[i]
        BY <1>7, <1>13
      <3> HIDE DEF fits
      <3> QED
        BY <1>1, <1>7, <3>1, SameList
    <2>2. docnum = d
      BY <1>1, <1>12, <2>1
    <2>3. newlen < SyncMaxBits /\ newlen \in Nat \ {0}
      BY <1>6, <1>8, <1>11, <1>13
    <2>4. fits # <<>> /\ Len(fits) = Len(x.rest)
      BY <2>1
    <2>5. x.st.rc[r].bitsize <= newlen
      BY <1>11
    <2> HIDE DEF newlen, fits, docnum
    <2>6. Encoding(st, r, d, y) /\ y.rest = <<>>
      BY <1>7, <1>11, <1>12, <2>2, <2>3, <2>4, <2>5, DoneFacts
    <2> QED
      BY <1>3, <2>6 DEF Advances
  <1>14. CASE k # Len(x.rest)
    <2>1. /\ docnum = x.st.rc[r].lastdoc + Total(SubSeq(x.rest, 1, k))
          /\ fits = SubSeq(x.rest, 1, k)
      OBVIOUS
    <2> HIDE DEF newlen, docnum
    <2>2. GoesOn(st, r, d, x, k, RunDone(x, newlogb, logb, newlen, SubSeq(x.rest, 1, k), docnum))
      BY <1>6, <1>9, <1>11, <1>14, <2>1, MoreFacts
    <2>3. Encoding(st, r, d, y) /\ y.rest # <<>> /\ y.run.gaps = <<>> /\ Len(y.rest) = Len(x.rest) - k
      BY <2>1, <2>2 DEF GoesOn
    <2> HIDE DEF y
    <2>4. Len(y.rest) <= Len(x.rest) /\ (k > 0 => Len(y.rest) < Len(x.rest))
      BY <1>8, <2>3
    <2> QED
      BY <1>3, <1>9, <2>3, <2>4 DEF Advances
  <1> QED
    BY <1>13, <1>14

\* A run is encoded, with the parameter it needs.
LEMMA NextRunFacts ==
    ASSUME NEW st, IsStore(st), NEW r \in DOMAIN st.rc, st.rc[r].freq > 0, NEW d \in Docs, NEW x,
           Encoding(st, r, d, x), NEW newlogb \in Nat
    PROVE  Advances(st, r, d, x, NextRun(x, newlogb))
  <1>0. d \in Nat
    BY IndCacheAssumption
  <1>1. CASE x.rest = <<>>
    BY <1>1 DEF NextRun, Advances
  <1>2. CASE x.rest # <<>>
    <2>1. /\ Sound(x.st) /\ r \in DOMAIN x.st.rc /\ RunOK(x.st, r, x.run)
          /\ x.rest \in Seq(Nat \ {0}) /\ x.st.rc[r].lastdoc + Total(x.rest) = d
      BY <1>2 DEF Encoding
    <2>2. x.run.rec = r /\ x.run.logb \in Nat
      BY <2>1 DEF RunOK, Run
    <2> DEFINE logb == x.run.logb
               bitlen == x.st.rc[r].bitsize
    <2>3. CASE x.run.gaps # <<>>
      <3>1. NextRun(x, newlogb) = EncodeRun(x, newlogb, logb, bitlen)
        BY <1>2, <2>2, <2>3 DEF NextRun
      <3>2. logb \in Nat /\ bitlen = x.st.rc[r].bitsize
        BY <2>2
      <3> HIDE DEF logb
      <3> QED
        BY <1>0, <1>2, <2>3, <3>1, <3>2, EncodeRunFacts
    <2>4. CASE x.run.gaps = <<>>
      <3> DEFINE fit == Fit(r, logb, 0, x.rest)
                 b == IF fit = 0 THEN LocalB(r, x.rest) ELSE logb
      <3>1. bitlen = 0
        BY <2>1, <2>4 DEF RunOK
      <3>2. NextRun(x, newlogb) = EncodeRun(x, newlogb, b, 0)
        BY <1>2, <2>2, <2>4 DEF NextRun
      <3>3. b \in Nat /\ Fit(r, b, 0, x.rest) > 0
        <4>1. CASE fit = 0
          <5>1. Total(x.rest) <= d
            <6>1. x.st.rc[r].lastdoc \in Nat
              BY <2>1 DEF Sound, Body, IsStore, IsRc, RecData
            <6>2. x.rest \in Seq(Nat)
              BY <2>1
            <6>3. Total(x.rest) \in Nat
              BY <6>2, TotalType
            <6> QED
              BY <2>1, <6>1, <6>3
          <5>2. Len(x.rest) > 0
            BY <1>2, <2>1
          <5> QED
            BY <2>1, <4>1, <5>1, <5>2, LocalBFacts
        <4>2. CASE fit # 0
          <5>1. logb \in Nat /\ 0 \in Nat
            BY <2>2
          <5> HIDE DEF logb
          <5>2. FitOK(r, logb, 0, x.rest, fit)
            BY <2>1, <5>1, FitFacts
          <5>3. fit \in 0 .. Len(x.rest) /\ Len(x.rest) \in Nat
            BY <2>1, <5>2 DEF FitOK
          <5> HIDE DEF fit
          <5>4. fit > 0
            BY <4>2, <5>3
          <5> QED
            BY <4>2, <5>1, <5>4 DEF fit
        <4> QED
          BY <4>1, <4>2
      <3> HIDE DEF b
      <3>4. 0 = x.st.rc[r].bitsize
        BY <3>1
      <3> DEFINE none == 0
      <3>5. none = x.st.rc[r].bitsize /\ Fit(r, b, none, x.rest) > 0
        BY <3>3, <3>4
      <3> HIDE DEF none
      <3>6. Advances(st, r, d, x, EncodeRun(x, newlogb, b, none))
        BY <1>0, <1>2, <3>3, <3>5, EncodeRunFacts
      <3> QED
        BY <3>2, <3>6 DEF none
    <2> QED
      BY <2>3, <2>4
  <1> QED
    BY <1>1, <1>2

EncodeSteps(st, f, gaps, newlogb, n) ==
    CHOOSE at : at = [i \in 0 .. n |-> IF i = 0 THEN [st |-> st, run |-> f, rest |-> gaps]
                                       ELSE NextRun(at[i - 1], newlogb)]

AreEncodeSteps(at, st, f, gaps, newlogb, n) ==
    /\ at[0] = [st |-> st, run |-> f, rest |-> gaps]
    /\ \A i \in 1 .. n : at[i] = NextRun(at[i - 1], newlogb)

\* The loop is defined.
LEMMA EncodeStepsExist ==
    ASSUME NEW st, NEW f, NEW gaps, NEW newlogb, NEW n \in Nat
    PROVE  AreEncodeSteps(EncodeSteps(st, f, gaps, newlogb, n), st, f, gaps, newlogb, n)
  <1> DEFINE c == [st |-> st, run |-> f, rest |-> gaps]
             Step(y, i) == NextRun(y, newlogb)
             Is(g, m) == g = [i \in 0 .. m |-> IF i = 0 THEN c ELSE Step(g[i - 1], i)]
             P == {m \in 0 .. n : \E g : Is(g, m)}
             at == EncodeSteps(st, f, gaps, newlogb, n)
  <1>1. at = CHOOSE g : Is(g, n)
    BY DEF EncodeSteps
  <1> HIDE DEF c, Step
  <1>2. 0 \in P
    <2> DEFINE g == [i \in 0 .. 0 |-> c]
    <2>1. Is(g, 0)
      OBVIOUS
    <2>2. 0 \in 0 .. n
      OBVIOUS
    <2> HIDE DEF g, Is
    <2> QED
      BY <2>1, <2>2
  <1>3. ASSUME NEW m \in 0 .. n - 1, m \in P PROVE m + 1 \in P
    <2>1. PICK h : Is(h, m)
      BY <1>3
    <2> DEFINE g == [i \in 0 .. m + 1 |-> IF i = m + 1 THEN Step(h[m], m + 1) ELSE h[i]]
    <2>2. (\A i \in 0 .. m : g[i] = h[i]) /\ g[m + 1] = Step(h[m], m + 1)
      OBVIOUS
    <2>3. g = [i \in 0 .. m + 1 |-> g[i]]
      OBVIOUS
    <2>4. ASSUME NEW i \in 0 .. m + 1 PROVE g[i] = IF i = 0 THEN c ELSE Step(g[i - 1], i)
      <3> HIDE DEF g
      <3>1. CASE i = m + 1
        BY <2>2, <3>1
      <3>2. CASE i # m + 1
        <4>1. i \in 0 .. m /\ (i # 0 => i - 1 \in 0 .. m)
          BY <3>2
        <4>2. h[i] = IF i = 0 THEN c ELSE Step(h[i - 1], i)
          BY <2>1, <4>1
        <4> QED
          BY <2>2, <4>1, <4>2
      <3> QED
        BY <3>1, <3>2
    <2> HIDE DEF g
    <2>5. Is(g, m + 1)
      BY <2>3, <2>4
    <2>6. m + 1 \in 0 .. n
      OBVIOUS
    <2> HIDE DEF Is
    <2> QED
      BY <2>5, <2>6
  <1>4. \E g : Is(g, n)
    <2>1. \A m \in 0 .. n : m \in P
      <3> HIDE DEF P
      <3> QED
        BY <1>2, <1>3, UpTo
    <2> QED
      BY <2>1
  <1>5. Is(at, n)
    <2> HIDE DEF Is, at
    <2> QED
      BY <1>1, <1>4
  <1> HIDE DEF at
  <1>6. at[0] = c /\ \A i \in 1 .. n : at[i] = Step(at[i - 1], i)
    BY <1>5
  <1> QED
    BY <1>6 DEF at, c, Step, AreEncodeSteps

\* All hits of record r up to document d are in its runs.
EncodedTo(st, new, r, d) ==
    /\ Sound(new) /\ Kept(st, new, {r}) /\ new.maxlen = st.maxlen
    /\ r \in DOMAIN new.rc /\ new.rc[r].freq = st.rc[r].freq /\ new.rc[r].lastdoc = d
    /\ DataOf(new, r)

\* encode_to_syncrun_freq: all the gaps are in the runs of the record.
LEMMA EncodeFacts ==
    ASSUME NEW st, Sound(st), NEW r \in DOMAIN st.rc, st.rc[r].freq > 0, NEW d \in Docs,
           NEW f, RunOK(st, r, f), NEW gaps \in Seq(Nat \ {0}), gaps # <<>>,
           st.rc[r].lastdoc + Total(gaps) = d, NEW newlogb \in Nat
    PROVE  EncodedTo(st, Encode(st, f, gaps, newlogb), r, d)
  <1> DEFINE n == Len(gaps) + 1
             at == EncodeSteps(st, f, gaps, newlogb, n)
             P == {i \in 0 .. n : /\ Encoding(st, r, d, at[i])
                                  /\ i > 0 /\ at[i].rest # <<>> =>
                                        at[i].run.gaps = <<>> /\ Len(at[i].rest) <= n - i}
  <1>1. n \in Nat /\ Len(gaps) \in Nat /\ Len(gaps) # 0 /\ IsStore(st)
    BY DEF Sound, Body
  <1>2. Encode(st, f, gaps, newlogb) = at[n].st
    BY DEF Encode, EncodeSteps
  <1>3. at[0] = [st |-> st, run |-> f, rest |-> gaps] /\ \A i \in 1 .. n : at[i] = NextRun(at[i - 1], newlogb)
    <2> HIDE DEF n
    <2>1. n \in Nat
      BY <1>1
    <2>2. AreEncodeSteps(EncodeSteps(st, f, gaps, newlogb, n), st, f, gaps, newlogb, n)
      BY <2>1, EncodeStepsExist
    <2> QED
      BY <2>2 DEF AreEncodeSteps
  <1> HIDE DEF at
  <1>4. Encoding(st, r, d, at[0]) /\ at[0].rest = gaps
    <2> DEFINE x == at[0]
    <2>1. x = [st |-> x.st, run |-> x.run, rest |-> x.rest] /\ x.st = st /\ x.run = f /\ x.rest = gaps
      BY <1>3
    <2>2. Kept(st, st, {r})
      BY KeptSame
    <2> HIDE DEF x
    <2>3. Encoding(st, r, d, x)
      BY <2>1, <2>2 DEF Encoding
    <2> QED
      BY <2>1, <2>3 DEF x
  <1>5. 0 \in P
    BY <1>1, <1>4
  <1>6. ASSUME NEW i \in 0 .. n - 1, i \in P PROVE i + 1 \in P
    <2>1. i + 1 \in 1 .. n /\ (i + 1) - 1 = i /\ i + 1 \in 0 .. n /\ i + 1 > 0
      BY <1>1
    <2>2. /\ Encoding(st, r, d, at[i])
          /\ i > 0 /\ at[i].rest # <<>> => at[i].run.gaps = <<>> /\ Len(at[i].rest) <= n - i
      BY <1>6
    <2>3. Advances(st, r, d, at[i], at[i + 1])
      <3>1. at[i + 1] = NextRun(at[i], newlogb)
        BY <1>3, <2>1
      <3>2. Advances(st, r, d, at[i], NextRun(at[i], newlogb))
        BY <1>1, <2>2, NextRunFacts
      <3> QED
        BY <3>1, <3>2
    <2>4. Encoding(st, r, d, at[i + 1])
      BY <2>3 DEF Advances
    <2>5. ASSUME at[i + 1].rest # <<>>
          PROVE  at[i + 1].run.gaps = <<>> /\ Len(at[i + 1].rest) <= n - (i + 1)
      <3>1. /\ at[i + 1].run.gaps = <<>> /\ Len(at[i + 1].rest) <= Len(at[i].rest)
            /\ at[i].run.gaps = <<>> => Len(at[i + 1].rest) < Len(at[i].rest)
        BY <2>3, <2>5 DEF Advances
      <3>2. Len(at[i].rest) \in Nat /\ Len(at[i + 1].rest) \in Nat /\ Len(at[i + 1].rest) # 0
        <4>1. at[i].rest \in Seq(Nat \ {0}) /\ at[i + 1].rest \in Seq(Nat \ {0})
          BY <2>2, <2>4 DEF Encoding
        <4> QED
          BY <2>5, <4>1
      <3>3. CASE i = 0
        BY <1>1, <1>4, <3>1, <3>2, <3>3
      <3>4. CASE i > 0
        <4>1. at[i].rest # <<>>
          BY <3>1, <3>2
        <4> QED
          BY <1>1, <2>1, <2>2, <3>1, <3>2, <3>4, <4>1, SMTT(30)
      <3> QED
        BY <2>1, <3>3, <3>4
    <2> QED
      BY <2>1, <2>4, <2>5
  <1>7. \A i \in 0 .. n : i \in P
    <2> HIDE DEF P, n
    <2> QED
      BY <1>1, <1>5, <1>6, UpTo
  <1>8. /\ Encoding(st, r, d, at[n])
        /\ at[n].rest # <<>> => Len(at[n].rest) <= 0
    <2>1. n \in P /\ n > 0 /\ n - n = 0
      BY <1>1, <1>7
    <2> QED
      BY <2>1
  <1> DEFINE x == at[n]
  <1>9. x.rest = <<>>
    <2>1. x.rest \in Seq(Nat \ {0}) /\ (x.rest # <<>> => Len(x.rest) <= 0)
      BY <1>8 DEF Encoding
    <2> HIDE DEF x
    <2> QED
      BY <2>1
  <1>10. /\ Encoding(st, r, d, x) /\ Encode(st, f, gaps, newlogb) = x.st
    BY <1>2, <1>8
  <1> HIDE DEF x
  <1>11. /\ Sound(x.st) /\ Kept(st, x.st, {r}) /\ x.st.maxlen = st.maxlen
         /\ r \in DOMAIN x.st.rc /\ x.st.rc[r].freq = st.rc[r].freq
         /\ x.st.rc[r].lastdoc + Total(x.rest) = d /\ DataOf(x.st, r)
    BY <1>9, <1>10 DEF Encoding
  <1>12. x.st.rc[r].lastdoc = d
    <2>1. x.st.rc[r].lastdoc \in Nat
      BY <1>11 DEF Sound, Body, IsStore, IsRc, RecData
    <2> QED
      BY <1>9, <1>11, <2>1, TotalNone
  <1> QED
    BY <1>10, <1>11, <1>12 DEF EncodedTo

-----------------------------------------------------------------------------
(* The hits of a record are encoded. *)

\* Documents in order, after last and up to d.
Ascending(hits, last, d) ==
    /\ hits \in Seq(Docs)
    /\ \A i \in 1 .. Len(hits) : last < hits[i] /\ hits[i] <= d
    /\ \A i, j \in 1 .. Len(hits) : i < j => hits[i] < hits[j]

GapsOf(hits, last, gaps) ==
    /\ gaps \in Seq(Nat \ {0}) /\ Len(gaps) = Len(hits) /\ gaps # <<>>
    /\ last + Total(gaps) = Last(hits) /\ Last(hits) \in Docs

\* The gaps lead from the last document to the last hit.
LEMMA GapsFacts ==
    ASSUME NEW hits, NEW last \in Nat, NEW d, Ascending(hits, last, d), hits # <<>>
    PROVE  GapsOf(hits, last, Gaps(hits, last))
  <1> DEFINE gaps == Gaps(hits, last)
             n == Len(hits)
             u == Sum(gaps, n)
             P == {i \in 0 .. n : u[i] = IF i = 0 THEN 0 ELSE hits[i] - last}
  <1>1. hits \in Seq(Docs) /\ n \in Nat \ {0} /\ DOMAIN hits = 1 .. n /\ Docs \subseteq Nat \ {0}
    BY IndCacheAssumption DEF Ascending
  <1>2. /\ \A i \in 1 .. n : hits[i] \in Nat \ {0} /\ last < hits[i]
        /\ \A i \in 2 .. n : i - 1 \in 1 .. n /\ hits[i - 1] < hits[i]
    <2>1. \A i \in 1 .. n : hits[i] \in Docs /\ hits[i] \in Nat \ {0}
      <3>1. \A i \in 1 .. n : hits[i] \in Docs
        BY <1>1
      <3> QED
        BY <1>1, <3>1
    <2>2. \A i \in 2 .. n : i - 1 \in 1 .. n /\ i \in 1 .. n /\ i - 1 < i
      BY <1>1
    <2> QED
      BY <2>1, <2>2 DEF Ascending
  <1>3. gaps = [i \in 1 .. n |-> hits[i] - (IF i = 1 THEN last ELSE hits[i - 1])]
    <2>1. gaps = [i \in DOMAIN hits |-> hits[i] - (IF i = 1 THEN last ELSE hits[i - 1])]
      BY DEF Gaps
    <2> HIDE DEF gaps
    <2> QED
      BY <1>1, <2>1
  <1> HIDE DEF gaps, n
  <1>4. \A i \in 1 .. n : gaps[i] \in Nat \ {0}
    <2> TAKE i \in 1 .. n
    <2>1. CASE i = 1
      BY <1>2, <1>3, <2>1
    <2>2. CASE i # 1
      <3>1. i \in 2 .. n
        BY <1>1, <2>2
      <3>2. hits[i] \in Nat /\ hits[i - 1] \in Nat /\ hits[i - 1] < hits[i]
        BY <1>2, <3>1
      <3> QED
        BY <1>3, <2>2, <3>2
    <2> QED
      BY <2>1, <2>2
  <1>5. gaps \in Seq(Nat \ {0}) /\ Len(gaps) = n
    <2>1. DOMAIN gaps = 1 .. n /\ gaps = [i \in 1 .. n |-> gaps[i]]
      BY <1>3
    <2> QED
      BY <1>1, <1>4, <2>1, SMTT(30)
  <1>6. u[0] = 0 /\ (\A i \in 1 .. n : u[i] = u[i - 1] + gaps[i]) /\ Total(gaps) = u[n]
    <2>1. Len(gaps) \in Nat
      BY <1>5
    <2> QED
      BY <1>5, <2>1, SumSteps
  <1> HIDE DEF u
  <1>7. 0 \in P
    BY <1>1, <1>6
  <1>8. ASSUME NEW i \in 0 .. n - 1, i \in P PROVE i + 1 \in P
    <2>1. i + 1 \in 1 .. n /\ (i + 1) - 1 = i /\ i + 1 \in 0 .. n /\ i + 1 # 0
      BY <1>1
    <2>2. u[i + 1] = u[i] + gaps[i + 1]
      BY <1>6, <2>1
    <2>3. u[i + 1] = hits[i + 1] - last
      <3>1. CASE i = 0
        <4>1. u[0] = 0 /\ gaps[1] = hits[1] - last /\ hits[1] \in Nat
          BY <1>2, <1>3, <1>6, <2>1, <3>1
        <4> QED
          BY <2>2, <3>1, <4>1
      <3>2. CASE i # 0
        <4>1. i \in 1 .. n /\ i + 1 # 1
          BY <1>1, <3>2
        <4>2. gaps[i + 1] = hits[i + 1] - hits[i] /\ u[i] = hits[i] - last
          BY <1>3, <1>8, <2>1, <3>2, <4>1
        <4>3. hits[i + 1] \in Nat /\ hits[i] \in Nat
          BY <1>2, <2>1, <4>1
        <4> QED
          BY <2>2, <4>2, <4>3
      <3> QED
        BY <3>1, <3>2
    <2> QED
      BY <2>1, <2>3
  <1>9. \A i \in 0 .. n : i \in P
    <2> HIDE DEF P
    <2> QED
      BY <1>1, <1>7, <1>8, UpTo
  <1>10. u[n] = hits[n] - last
    <2>1. n \in P /\ n # 0
      BY <1>1, <1>9
    <2> QED
      BY <2>1
  <1>11. Last(hits) = hits[n] /\ n \in 1 .. n /\ hits[n] \in Docs /\ hits[n] \in Nat
    BY <1>1, <1>2 DEF Last, n
  <1>12. last + Total(gaps) = Last(hits)
    BY <1>6, <1>10, <1>11
  <1>13. gaps # <<>>
    BY <1>1, <1>5
  <1> QED
    BY <1>5, <1>11, <1>12, <1>13 DEF GapsOf, gaps, n

\* A record has hits more, and is noted with them.
Counted(st, r, n, bad) ==
    [st EXCEPT !.rc[r].freq = st.rc[r].freq + n, !.fault = @ \/ bad,
               !.maxlen = IF st.rc[r].freq + n > @ THEN st.rc[r].freq + n ELSE @]

CountedAfter(st, new, r, n) ==
    /\ Sound(new) /\ Kept(st, new, {r}) /\ r \in DOMAIN new.rc
    /\ new.rc[r].freq = st.rc[r].freq + n /\ new.rc[r].freq > 0
    /\ new.rc[r].nfrags = st.rc[r].nfrags /\ new.rc[r].bitsize = st.rc[r].bitsize
    /\ new.rc[r].lastdoc = st.rc[r].lastdoc /\ new.rc[r].blk = st.rc[r].blk
    /\ new.blocks = st.blocks

\* The hits are counted in the record table.
LEMMA CountedFacts ==
    ASSUME NEW st, Sound(st), NEW r \in DOMAIN st.rc, NEW n \in Nat \ {0}
    PROVE  CountedAfter(st, Counted(st, r, n, FALSE), r, n)
  <1> DEFINE new == Counted(st, r, n, FALSE)
             freq == st.rc[r].freq + n
             rec == [st.rc[r] EXCEPT !.freq = freq]
             rc == [st.rc EXCEPT ![r] = rec]
             maxlen == IF freq > st.maxlen THEN freq ELSE st.maxlen
             fault == st.fault \/ FALSE
  <1>1. /\ HasFields(st) /\ IsRc(st.rc) /\ st.free \in Seq(FreeEntry) /\ st.cachecnt \in Int
        /\ st.maxlen \in Nat /\ st.fault = FALSE
    BY DEF Sound, Body, IsStore
  <1>2. st.rc[r] \in RecData
    BY <1>1 DEF IsRc
  <1>3. freq \in Nat /\ freq > 0
    BY <1>2 DEF RecData
  <1>4. /\ rec \in RecData /\ rec.freq = freq /\ rec.nfrags = st.rc[r].nfrags
        /\ rec.bitsize = st.rc[r].bitsize /\ rec.lastdoc = st.rc[r].lastdoc /\ rec.blk = st.rc[r].blk
    <2> HIDE DEF freq
    <2> QED
      BY <1>2, <1>3 DEF RecData
  <1>5. maxlen \in Nat /\ fault = FALSE
    BY <1>1, <1>3
  <1>6. new = [[st EXCEPT !.rc = rc] EXCEPT !.fault = fault, !.maxlen = maxlen]
    <2>1. new = [st EXCEPT !.rc = rc, !.fault = fault, !.maxlen = maxlen]
      BY DEF Counted
    <2> HIDE DEF new, rc, maxlen, fault
    <2> QED
      BY <2>1
  <1>7. /\ DOMAIN rc = DOMAIN st.rc /\ rc[r] = rec /\ \A q \in DOMAIN st.rc \ {r} : rc[q] = st.rc[q]
    OBVIOUS
  <1>8. IsRc(rc)
    BY <1>1, <1>4 DEF IsRc
  <1> HIDE DEF new, rc, rec, maxlen, freq, fault
  <1>9. /\ HasFields(new) /\ new.rc = rc /\ new.blocks = st.blocks /\ new.lists = st.lists
        /\ new.free = st.free /\ new.cachecnt = st.cachecnt /\ new.blockcount = st.blockcount
        /\ new.blockout = st.blockout /\ new.maxlen = maxlen /\ new.ref = st.ref
        /\ new.rfb = st.rfb /\ new.fault = fault
    <2> DEFINE one == [st EXCEPT !.rc = rc]
    <2>1. /\ HasFields(one) /\ one.rc = rc /\ one.blocks = st.blocks /\ one.lists = st.lists
          /\ one.free = st.free /\ one.cachecnt = st.cachecnt /\ one.blockcount = st.blockcount
          /\ one.blockout = st.blockout /\ one.ref = st.ref /\ one.rfb = st.rfb
      BY <1>1 DEF HasFields, Fields
    <2>2. new = [one EXCEPT !.fault = fault, !.maxlen = maxlen]
      BY <1>6
    <2> HIDE DEF one
    <2> QED
      BY <2>1, <2>2 DEF HasFields, Fields
  <1>10. RestSame(st, new)
    BY <1>1, <1>5, <1>9 DEF RestSame
  <1>11. OneRecord(st, new, r) /\ new.rc[r].blk = st.rc[r].blk
    BY <1>4, <1>7, <1>8, <1>9 DEF OneRecord
  <1>12. Sound(new) /\ Kept(st, new, {r})
    BY <1>9, <1>10, <1>11, RecordSound
  <1>13. r \in DOMAIN new.rc /\ new.rc[r] = rec
    BY <1>7, <1>9
  <1> QED
    BY <1>3, <1>4, <1>9, <1>12, <1>13 DEF CountedAfter, new, freq

\* The hits of r are in its runs, and counted.
CompressedTo(st, new, r, hits) ==
    /\ Sound(new) /\ Kept(st, new, {r}) /\ r \in DOMAIN new.rc
    /\ new.rc[r].freq = st.rc[r].freq + Len(hits) /\ new.rc[r].lastdoc = Last(hits)
    /\ DataOf(new, r)

\* A run is begun, or goes on.
LEMMA Begun ==
    ASSUME NEW st, NEW r, NEW old, RunOK(st, r, old), NEW logb \in Nat
    PROVE  RunOK(st, r, IF old.gaps = <<>> THEN [old EXCEPT !.logb = logb] ELSE old)
  <1>1. CASE old.gaps # <<>>
    BY <1>1
  <1>2. CASE old.gaps = <<>>
    <2> DEFINE run == [old EXCEPT !.logb = logb]
    <2>1. old \in Run
      BY DEF RunOK
    <2>2. /\ run \in Run /\ run.rec = old.rec /\ run.frag = old.frag /\ run.base = old.base
          /\ run.ndocs = old.ndocs /\ run.gaps = old.gaps
      BY <2>1 DEF Run
    <2> HIDE DEF run
    <2>3. RunOK(st, r, run)
      BY <1>2, <2>2 DEF RunOK
    <2> QED
      BY <1>2, <2>3 DEF run
  <1> QED
    BY <1>1, <1>2

\* Counting changes nothing of it.
LEMMA RunCounted ==
    ASSUME NEW st, NEW r, NEW run, RunOK(st, r, run), NEW new, NEW n, CountedAfter(st, new, r, n)
    PROVE  RunOK(new, r, run)
  <1>1. \A e : Cached(st, e) => Cached(new, e)
    BY DEF CountedAfter, Cached
  <1>2. /\ new.rc[r].nfrags = st.rc[r].nfrags /\ new.rc[r].bitsize = st.rc[r].bitsize
        /\ new.rc[r].lastdoc = st.rc[r].lastdoc /\ new.rc[r].blk = st.rc[r].blk
    BY DEF CountedAfter
  <1> QED
    BY <1>1, <1>2 DEF RunOK

\* Hits go on after a run, or in a new one.
LEMMA AppendedFacts ==
    ASSUME NEW st, Sound(st), NEW r \in DOMAIN st.rc, NEW hits, NEW d,
           Ascending(hits, st.rc[r].lastdoc, d), hits # <<>>, NEW old, RunOK(st, r, old)
    PROVE  CompressedTo(st, Appended(st, r, hits, old), r, hits)
  <1> DEFINE n == Len(hits)
             last == st.rc[r].lastdoc
             misses == Last(hits) - old.base - old.ndocs - n
             newlogb == FloorLog2(AtLeast0(misses) \div (old.ndocs + n))
             counted == Counted(st, r, n, misses < 0)
             run == IF old.gaps = <<>> THEN [old EXCEPT !.logb = newlogb] ELSE old
             gaps == Gaps(hits, last)
             new == Encode(counted, run, gaps, newlogb)
  <1>1. Appended(st, r, hits, old) = new
    BY DEF Appended, Counted
  <1>2. last \in Nat
    BY DEF Sound, Body, IsStore, IsRc, RecData
  <1>3. n \in Nat \ {0}
    BY DEF Ascending
  <1>4. GapsOf(hits, last, gaps)
    <2> HIDE DEF last
    <2>1. Ascending(hits, last, d)
      BY DEF last
    <2> QED
      BY <1>2, <2>1, GapsFacts
  <1>5. /\ gaps \in Seq(Nat \ {0}) /\ Len(gaps) = n /\ gaps # <<>>
        /\ last + Total(gaps) = Last(hits) /\ Last(hits) \in Docs /\ Last(hits) \in Nat
    BY <1>4, IndCacheAssumption DEF GapsOf
  <1> HIDE DEF gaps
  <1>6. Total(gaps) \in Nat /\ n <= Total(gaps)
    <2>1. gaps \in Seq(Nat) /\ Len(gaps) <= Total(gaps)
      BY <1>5, TotalOfPositive
    <2> QED
      BY <1>5, <2>1, TotalType
  <1>7. old.ndocs \in Nat /\ old.base \in Nat /\ old.base + old.ndocs <= last
    <2>1. /\ old \in Run /\ old.ndocs = Len(old.gaps) /\ old.base + Total(old.gaps) = last
      BY DEF RunOK
    <2>2. old.gaps \in Seq(Nat \ {0}) /\ old.base \in Nat
      BY <2>1 DEF Run
    <2>3. Len(old.gaps) <= Total(old.gaps) /\ Len(old.gaps) \in Nat
      BY <2>2, TotalOfPositive
    <2>4. Total(old.gaps) \in Nat
      <3>1. old.gaps \in Seq(Nat)
        BY <2>2
      <3> QED
        BY <3>1, TotalType
    <2> HIDE DEF last
    <2> QED
      BY <1>2, <2>1, <2>2, <2>3, <2>4
  <1> HIDE DEF last, n
  <1>8. misses \in Nat
    BY <1>2, <1>3, <1>5, <1>6, <1>7, SMTT(30)
  <1>9. newlogb \in Nat
    <2> DEFINE m == old.ndocs + n
               q == misses \div m
    <2>1. AtLeast0(misses) = misses
      BY <1>8 DEF AtLeast0
    <2>2. m \in Nat \ {0}
      BY <1>3, <1>7
    <2> HIDE DEF m, misses
    <2>3. q \in Nat
      BY <1>8, <2>2
    <2>4. newlogb = FloorLog2(q)
      BY <2>1 DEF m
    <2> HIDE DEF q, newlogb
    <2>5. FloorLog2(q) \in 0 .. q
      BY <2>3, FloorLog2Facts
    <2> QED
      BY <2>3, <2>4, <2>5
  <1>10. counted = Counted(st, r, n, FALSE)
    <2>1. (misses < 0) = FALSE
      BY <1>8
    <2> QED
      BY <2>1
  <1> HIDE DEF misses, newlogb, counted, run, new
  <1>11. CountedAfter(st, counted, r, n)
    BY <1>3, <1>10, CountedFacts
  <1>12. /\ Sound(counted) /\ Kept(st, counted, {r}) /\ r \in DOMAIN counted.rc
         /\ counted.rc[r].freq = st.rc[r].freq + n /\ counted.rc[r].freq > 0
         /\ counted.rc[r].lastdoc = last
    BY <1>11 DEF CountedAfter, last
  <1>13. RunOK(counted, r, run)
    <2>1. RunOK(st, r, run)
      BY <1>9, Begun DEF run
    <2> QED
      BY <1>11, <2>1, RunCounted
  <1>14. EncodedTo(counted, new, r, Last(hits))
    <2> DEFINE to == Last(hits)
    <2>1. to \in Docs /\ counted.rc[r].lastdoc + Total(gaps) = to
      BY <1>5, <1>12
    <2> HIDE DEF to
    <2>2. EncodedTo(counted, Encode(counted, run, gaps, newlogb), r, to)
      BY <1>5, <1>9, <1>12, <1>13, <2>1, EncodeFacts
    <2> QED
      BY <2>2 DEF new, to
  <1>15. /\ Sound(new) /\ Kept(counted, new, {r}) /\ r \in DOMAIN new.rc
         /\ new.rc[r].freq = counted.rc[r].freq /\ new.rc[r].lastdoc = Last(hits) /\ DataOf(new, r)
    BY <1>14 DEF EncodedTo
  <1>16. Kept(st, new, {r})
    <2>1. IsStore(st)
      BY DEF Sound, Body
    <2> QED
      BY <1>12, <1>15, <2>1, KeptTwice
  <1> QED
    BY <1>1, <1>12, <1>15, <1>16 DEF CompressedTo, n

\* The last fragment of a record, once its block was fetched.
LEMMA LastFragFacts ==
    ASSUME NEW st, Sound(st), NEW r \in DOMAIN st.rc, DataOf(st, r), st.rc[r].bitsize # 0
    PROVE  RunOK(st, r, LastFrag(st, r))
  <1> DEFINE b == st.rc[r].blk
             frag == st.rc[r].nfrags - 1
             recs == st.blocks[b].recs
             i == Place(recs, r, frag)
             e == LastFrag(st, r)
  <1>1. Body(st) /\ st.rc[r].blk # 0
    BY DEF Sound, DataOf
  <1>2. Placed(st, r, frag)
    <2>1. frag = st.rc[r].nfrags - 1
      OBVIOUS
    <2> HIDE DEF frag
    <2> QED
      BY <1>1, <2>1, PlaceFacts
  <1>3. /\ b \in DOMAIN st.blocks /\ i \in DOMAIN recs /\ recs[i].rec = r /\ recs[i].frag = frag
        /\ recs[i] \in Fragment
    <2>1. /\ b \in DOMAIN st.blocks /\ recs \in Seq(Fragment) /\ i \in 1 .. Len(recs)
          /\ recs[i].rec = r /\ recs[i].frag = frag /\ recs[i] \in Fragment
      BY Zenon, <1>2 DEF Placed
    <2> HIDE DEF i, recs, b, frag
    <2> QED
      BY <2>1
  <1>4. e = recs[i]
    BY DEF LastFrag
  <1>5. Cached(st, e) /\ e.rec = r /\ e.frag = frag /\ e \in Fragment
    <2>1. Cached(st, recs[i])
      BY Zenon, <1>3 DEF Cached
    <2> QED
      BY Zenon, <1>3, <1>4, <2>1
  <1> HIDE DEF e
  <1>6. /\ e.size = 1 + CeilDiv(st.rc[r].bitsize, WordBits)
        /\ e.ndocs = Len(e.gaps) /\ e.gaps # <<>> /\ e.base + Total(e.gaps) = st.rc[r].lastdoc
        /\ st.rc[r].bitsize < SyncMaxBits
    BY <1>5 DEF DataOf
  <1>7. e \in Run
    BY <1>5 DEF Fragment, Run
  <1> QED
    BY <1>1, <1>5, <1>6, <1>7 DEF RunOK, e

\* BFrecord_frag_fetch.
LEMMA FetchedLast ==
    ASSUME NEW st, Sound(st), NEW r \in DOMAIN st.rc, st.rc[r].blk # 0
    PROVE  LET new == Fetch(st, st.rc[r].blk, r)
           IN  Sound(new) /\ Kept(st, new, {r}) /\ new.rc = st.rc /\ new.blocks = st.blocks
  <1> DEFINE b == st.rc[r].blk
             new == Fetch(st, b, r)
  <1>1. Body(st) /\ CountOK(st.blocks, st.cachecnt) /\ FreeFits(st.free, Rooms(st.blocks))
    BY DEF Sound
  <1>2. b \in DOMAIN st.blocks
    BY <1>1 DEF Body, FragsOK
  <1> HIDE DEF b
  <1>3. SameBut(st, new)
    BY <1>1, <1>2, FetchCached
  <1> HIDE DEF new
  <1>4. Sound(new) /\ Kept(st, new, {r}) /\ new.rc = st.rc /\ new.blocks = st.blocks
    BY <1>1, <1>3 DEF SameBut, Sound
  <1> QED
    BY <1>4 DEF new, b

\* The hits of a record are encoded (indCacheFlush).
LEMMA CompressedFacts ==
    ASSUME NEW st, Sound(st), NEW r \in DOMAIN st.rc, DataOf(st, r), NEW hits, NEW d,
           Ascending(hits, st.rc[r].lastdoc, d), hits # <<>>
    PROVE  CompressedTo(st, Compressed(st, r, hits), r, hits)
  <1>1. st.rc[r].bitsize # 0 => st.rc[r].freq > 0 /\ st.rc[r].blk # 0
    BY DEF DataOf
  <1>2. IsStore(st) /\ Body(st)
    BY DEF Sound, Body
  <1>3. CASE st.rc[r].bitsize # 0
    <2> DEFINE mid == Fetch(st, st.rc[r].blk, r)
               new == AppendedIn(mid, r, hits)
    <2>1. Compressed(st, r, hits) = new
      BY <1>1, <1>3 DEF Compressed
    <2>2. Sound(mid) /\ Kept(st, mid, {r}) /\ mid.rc = st.rc /\ mid.blocks = st.blocks
      BY <1>1, <1>3, FetchedLast
    <2> HIDE DEF mid
    <2>3. DataOf(mid, r)
      BY <2>2 DEF DataOf, Cached
    <2>4. RunOK(mid, r, LastFrag(mid, r))
      BY <1>3, <2>2, <2>3, LastFragFacts
    <2>5. CompressedTo(mid, new, r, hits)
      <3>1. Ascending(hits, mid.rc[r].lastdoc, d) /\ r \in DOMAIN mid.rc
        BY <2>2
      <3>2. CompressedTo(mid, Appended(mid, r, hits, LastFrag(mid, r)), r, hits)
        BY <2>2, <2>4, <3>1, AppendedFacts
      <3> QED
        BY <3>2 DEF AppendedIn
    <2> HIDE DEF new
    <2>6. Kept(st, new, {r})
      <3>1. Kept(mid, new, {r})
        BY <2>5 DEF CompressedTo
      <3> QED
        BY <1>2, <2>2, <3>1, KeptTwice
    <2> QED
      BY <2>1, <2>2, <2>5, <2>6 DEF CompressedTo
  <1>4. CASE st.rc[r].bitsize = 0
    <2> DEFINE old == EmptyRun(r, st.rc[r].nfrags - 1, st.rc[r].lastdoc, 0)
    <2>1. Compressed(st, r, hits) = Appended(st, r, hits, old)
      BY <1>4 DEF Compressed
    <2>2. st.rc[r].blk = 0
      BY <1>4 DEF DataOf
    <2>3. /\ r \in Rec /\ st.rc[r].nfrags - 1 \in Nat /\ st.rc[r].lastdoc \in Nat
      BY <1>2 DEF IsStore, IsRc, RecData
    <2>4. RunOK(st, r, old)
      <3>1. old = [rec |-> r, frag |-> st.rc[r].nfrags - 1, base |-> st.rc[r].lastdoc, ndocs |-> 0,
                   logb |-> 0, gaps |-> <<>>, size |-> 0]
        BY DEF EmptyRun
      <3> HIDE DEF old
      <3>2. old \in Run
        <4>1. <<>> \in Seq(Nat \ {0}) /\ 0 \in Nat
          OBVIOUS
        <4> QED
          BY <2>3, <3>1, <4>1 DEF Run
      <3>3. /\ old.rec = r /\ old.frag = st.rc[r].nfrags - 1 /\ old.base = st.rc[r].lastdoc
            /\ old.ndocs = 0 /\ old.gaps = <<>>
        BY <3>1
      <3>4. Len(old.gaps) = 0 /\ old.base + Total(old.gaps) = st.rc[r].lastdoc
        BY <2>3, <3>3, TotalNone
      <3> QED
        BY <1>4, <2>2, <3>2, <3>3, <3>4 DEF RunOK
    <2> HIDE DEF old
    <2>5. CompressedTo(st, Appended(st, r, hits, old), r, hits)
      BY <2>4, AppendedFacts
    <2> QED
      BY <2>1, <2>5
  <1> QED
    BY <1>3, <1>4

-----------------------------------------------------------------------------
(* What the primary cache looks like. *)

CacheFields == {"st", "hits", "lists", "top", "nlow", "nlowtotal", "total"}
HasCacheFields(c) == c = [f \in CacheFields |-> c[f]]

TopMost == MaxRecHits \div Quant

IsCache(c) ==
    /\ HasCacheFields(c)
    /\ c.hits \in [Rec -> Seq(Docs)] /\ c.lists \in [SameHits -> Seq(Rec)]
    /\ c.top \in 0 .. TopMost /\ c.nlow \in [0 .. SameHitsMin -> Int]
    /\ c.nlowtotal \in Int /\ c.total \in Int

\* The hits of a record go on after those in its runs, up to document d.
HitOK(st, hits, d, r) ==
    /\ Len(hits[r]) <= MaxRecHits
    /\ r \notin DOMAIN st.rc => hits[r] = <<>>
    /\ r \in DOMAIN st.rc => /\ st.rc[r].lastdoc <= d /\ DataOf(st, r)
                             /\ Ascending(hits[r], st.rc[r].lastdoc, d)

\* The list for each number of hits has the records with as many.
Having(hits, l) == {r \in Rec : hits[r] # <<>> /\ ListOf(Len(hits[r])) = l}
ListsAre(lists, hits) == \A l \in SameHits : ListsOnce(lists[l], Having(hits, l))

\* The hits are counted.
Weights(hits) == [r \in Rec |-> 1 .. Len(hits[r]) * Weight(r)]
TotalIs(total, hits) == total = Cardinality(OfAll(Rec, Weights(hits)))

TopIs(top, lists) == \A k \in 0 .. TopMost : lists[<<"big", k>>] # <<>> => k <= top

CacheOK(c, d) ==
    /\ IsCache(c) /\ Sound(c.st) /\ (\A r \in Rec : HitOK(c.st, c.hits, d, r))
    /\ ListsAre(c.lists, c.hits) /\ TotalIs(c.total, c.hits) /\ TopIs(c.top, c.lists)

\* The records with n hits that were never compressed are counted.
LowSet(c, n) == {r \in DOMAIN c.st.rc : Len(c.hits[r]) = n /\ c.st.rc[r].freq <= LowFreq}
LowOK(c) == \A n \in 1 .. LowHitsMax : Cardinality(LowSet(c, n)) <= c.nlow[n]

\* The constants of the primary cache.
LEMMA CacheNumbers ==
    /\ Quant \in Nat \ {0} /\ MaxRecHits \in Nat \ {0} /\ SameHitsMin \in Nat \ {0}
    /\ LowHitsMax \in Nat /\ LowFreq \in Nat /\ MaxTotalHits \in Nat \ {0}
    /\ LowHitsMax <= SameHitsMin /\ TopMost \in Nat
  <1>1. /\ Quant \in Nat \ {0} /\ MaxRecHits \in Nat \ {0} /\ SameHitsMin \in Nat \ {0}
        /\ LowHitsMax \in Nat /\ LowFreq \in Nat /\ MaxTotalHits \in Nat \ {0}
        /\ LowHitsMax <= SameHitsMin
    BY IndCacheAssumption
  <1>2. TopMost \in Nat
    BY <1>1 DEF TopMost
  <1> QED
    BY <1>1, <1>2

\* The list for a number.
LEMMA ListOfFacts ==
    ASSUME NEW n \in 0 .. MaxRecHits
    PROVE  /\ ListOf(n) \in SameHits
           /\ n \div Quant \in 0 .. TopMost
           /\ ListOf(n) = <<"small", n>> \/ ListOf(n) = <<"big", n \div Quant>>
  <1>1. n \div Quant \in 0 .. TopMost
    BY CacheNumbers DEF TopMost
  <1>2. n <= SameHitsMin => n \in 0 .. SameHitsMin
    BY CacheNumbers
  <1> QED
    BY <1>1, <1>2 DEF ListOf, SameHits, TopMost

\* A hit weighs one or two.
LEMMA WeightFacts ==
    ASSUME NEW r, NEW n \in Nat
    PROVE  /\ Weight(r) \in 1 .. 2 /\ n * Weight(r) \in Nat
           /\ IsFiniteSet(1 .. n * Weight(r)) /\ Cardinality(1 .. n * Weight(r)) = n * Weight(r)
  <1>1. Weight(r) \in 1 .. 2
    BY DEF Weight
  <1>2. n * Weight(r) \in Nat
    BY <1>1
  <1> DEFINE m == n * Weight(r)
  <1>3. m \in Nat
    BY <1>2
  <1> HIDE DEF m
  <1>4. IsFiniteSet(1 .. m) /\ Cardinality(1 .. m) = m
    <2>1. 1 \in Int /\ m \in Int
      BY <1>3
    <2>2. IsFiniteSet(1 .. m) /\ Cardinality(1 .. m) = IF 1 > m THEN 0 ELSE m - 1 + 1
      BY <2>1, FS_Interval
    <2> QED
      BY <1>3, <2>2
  <1> QED
    BY <1>1, <1>2, <1>4 DEF m

\* What the records weigh.
LEMMA WeightsFamily ==
    ASSUME NEW hits \in [Rec -> Seq(Docs)]
    PROVE  Family(Rec, Weights(hits))
  <1>1. ASSUME NEW r \in Rec PROVE IsFiniteSet(Weights(hits)[r])
    <2>1. Len(hits[r]) \in Nat
      OBVIOUS
    <2> QED
      BY <2>1, WeightFacts DEF Weights
  <1> QED
    BY <1>1, RecAssumption DEF Family

\* The number of hits of one record changes.
LEMMA TotalChanges ==
    ASSUME NEW hits \in [Rec -> Seq(Docs)], NEW new \in [Rec -> Seq(Docs)], NEW r \in Rec,
           \A q \in Rec \ {r} : new[q] = hits[q], NEW total, TotalIs(total, hits)
    PROVE  TotalIs(total + Len(new[r]) * Weight(r) - Len(hits[r]) * Weight(r), new)
  <1> DEFINE f == Weights(hits)
             g == Weights(new)
  <1>1. Family(Rec, f) /\ Family(Rec, g)
    BY WeightsFamily
  <1>2. \A q \in Rec \ {r} : g[q] = f[q]
    BY DEF Weights
  <1>3. Len(hits[r]) \in Nat /\ Len(new[r]) \in Nat
    OBVIOUS
  <1>4. /\ Cardinality(f[r]) = Len(hits[r]) * Weight(r) /\ Cardinality(g[r]) = Len(new[r]) * Weight(r)
        /\ Len(hits[r]) * Weight(r) \in Nat /\ Len(new[r]) * Weight(r) \in Nat
    BY <1>3, WeightFacts DEF Weights
  <1> HIDE DEF f, g
  <1>5. /\ Cardinality(OfAll(Rec, g)) + Cardinality(f[r]) = Cardinality(OfAll(Rec, f)) + Cardinality(g[r])
        /\ Cardinality(OfAll(Rec, f)) \in Nat /\ Cardinality(OfAll(Rec, g)) \in Nat
    BY <1>1, <1>2, OfAllChange
  <1> DEFINE a == Len(new[r]) * Weight(r)
             b == Len(hits[r]) * Weight(r)
             u == Cardinality(OfAll(Rec, f))
             v == Cardinality(OfAll(Rec, g))
  <1>6. a \in Nat /\ b \in Nat /\ u \in Nat /\ v \in Nat /\ v + b = u + a /\ total = u
    BY <1>4, <1>5 DEF TotalIs, f
  <1> HIDE DEF a, b, u, v
  <1>7. total + a - b = v
    BY <1>6
  <1> QED
    BY <1>7 DEF TotalIs, a, b, v, g

-----------------------------------------------------------------------------
(* The hits of a record leave the primary cache. *)

\* A list of nothing is empty.
LEMMA ListsNothing ==
    ASSUME NEW S, NEW q, ListsOnce(q, S)
    PROVE  q = <<>> <=> S = {}
  <1>1. q \in Seq(S) /\ ToSet(q) = S
    BY DEF ListsOnce
  <1>2. ToSet(q) = {q[i] : i \in DOMAIN q}
    BY DEF ToSet
  <1>3. CASE q = <<>>
    <2>1. DOMAIN q = {}
      BY <1>3
    <2> QED
      BY <1>1, <1>2, <1>3, <2>1
  <1>4. CASE q # <<>>
    <2>1. 1 \in DOMAIN q
      BY <1>1, <1>4
    <2> QED
      BY <1>1, <1>2, <1>4, <2>1
  <1> QED
    BY <1>3, <1>4

\* The members of a list.
LEMMA ListsSome ==
    ASSUME NEW S, NEW q, ListsOnce(q, S), NEW T, S \subseteq T
    PROVE  q \in Seq(T) /\ \A e : e \in S <=> \E i \in 1 .. Len(q) : q[i] = e
  <1>1. q \in Seq(S) /\ ToSet(q) = S /\ DOMAIN q = 1 .. Len(q)
    BY DEF ListsOnce
  <1>2. ToSet(q) = {q[i] : i \in DOMAIN q}
    BY DEF ToSet
  <1> QED
    BY <1>1, <1>2

\* What encoding the hits of r does to the other records.
OthersKept(st, new, r) ==
    /\ DOMAIN new.rc = DOMAIN st.rc
    /\ \A q \in DOMAIN st.rc \ {r} : /\ new.rc[q].freq = st.rc[q].freq
                                     /\ new.rc[q].lastdoc = st.rc[q].lastdoc
                                     /\ DataOf(st, q) => DataOf(new, q)

\* The other records have their hits.
LEMMA OthersAreKept ==
    ASSUME NEW st, Sound(st), NEW new, Sound(new), NEW r, Kept(st, new, {r})
    PROVE  OthersKept(st, new, r)
  <1>1. Body(st) /\ Body(new) /\ IsRc(st.rc)
    BY DEF Sound, Body, IsStore
  <1>2. DOMAIN new.rc = DOMAIN st.rc
    BY DEF Kept
  <1>3. ASSUME NEW q \in DOMAIN st.rc \ {r}
        PROVE  /\ new.rc[q].freq = st.rc[q].freq /\ new.rc[q].lastdoc = st.rc[q].lastdoc
               /\ DataOf(st, q) => DataOf(new, q)
    <2>1. st.rc[q] \in RecData
      BY <1>1 DEF IsRc
    <2>2. Advanced(st.rc[q]).freq = st.rc[q].freq /\ Advanced(st.rc[q]).lastdoc = st.rc[q].lastdoc
      BY <2>1 DEF RecData, Advanced
    <2>3. new.rc[q] = st.rc[q] \/ new.rc[q] = Advanced(st.rc[q])
      BY DEF Kept
    <2>4. DataOf(st, q) => DataOf(new, q)
      BY <1>1, KeptData
    <2> QED
      BY <2>2, <2>3, <2>4
  <1> QED
    BY <1>2, <1>3 DEF OthersKept

\* The lists without the record.
LessAfter(lists, hits, left, new, r) ==
    /\ left \in [SameHits -> Seq(Rec)] /\ ListsAre(left, new)
    /\ \A l \in SameHits : left[l] # <<>> => lists[l] # <<>>
    /\ \A l \in SameHits : Having(new, l) = Having(hits, l) \ {r}

\* A record without hits leaves its list.
LEMMA ListsLess ==
    ASSUME NEW hits \in [Rec -> Seq(Docs)], NEW lists \in [SameHits -> Seq(Rec)],
           ListsAre(lists, hits), NEW r \in Rec, hits[r] # <<>>, Len(hits[r]) <= MaxRecHits
    PROVE  LessAfter(lists, hits, [lists EXCEPT ![ListOf(Len(hits[r]))] = RemoveFirst(@, r)],
                     [hits EXCEPT ![r] = <<>>], r)
  <1> DEFINE n == Len(hits[r])
             m == ListOf(n)
             new == [hits EXCEPT ![r] = <<>>]
             left == [lists EXCEPT ![m] = RemoveFirst(@, r)]
  <1>1. n \in 0 .. MaxRecHits
    BY CacheNumbers
  <1>2. m \in SameHits
    <2> HIDE DEF n
    <2> QED
      BY <1>1, ListOfFacts
  <1>3. new[r] = <<>> /\ \A q \in Rec : q # r => new[q] = hits[q]
    OBVIOUS
  <1>4. left[m] = RemoveFirst(lists[m], r) /\ \A l \in SameHits : l # m => left[l] = lists[l]
    BY <1>2
  <1>5. DOMAIN left = SameHits /\ left = [l \in SameHits |-> left[l]]
    OBVIOUS
  <1>6. \A l \in SameHits : Having(new, l) = Having(hits, l) \ {r}
    BY <1>3 DEF Having
  <1>7. r \in Having(hits, m) /\ \A l : r \in Having(hits, l) => l = m
    BY DEF Having
  <1> HIDE DEF m, n, new, left
  <1>8. ASSUME NEW l \in SameHits
        PROVE  /\ ListsOnce(left[l], Having(new, l)) /\ left[l] \in Seq(Rec)
               /\ left[l] # <<>> => lists[l] # <<>>
    <2>1. ListsOnce(lists[l], Having(hits, l))
      BY DEF ListsAre
    <2>2. ListsOnce(left[l], Having(new, l))
      <3>1. CASE l = m
        <4>1. ListsOnce(RemoveFirst(lists[l], r), Having(hits, l) \ {r})
          BY <1>7, <2>1, <3>1, Unlinked
        <4> QED
          BY <1>4, <1>6, <3>1, <4>1
      <3>2. CASE l # m
        <4>1. Having(new, l) = Having(hits, l) /\ left[l] = lists[l]
          BY <1>4, <1>6, <1>7, <3>2
        <4> QED
          BY <2>1, <4>1
      <3> QED
        BY <3>1, <3>2
    <2>3. left[l] \in Seq(Rec)
      <3>1. Having(new, l) \subseteq Rec
        BY DEF Having
      <3> QED
        BY <2>2, <3>1, ListsSome
    <2>4. left[l] # <<>> => lists[l] # <<>>
      <3>1. left[l] = <<>> <=> Having(new, l) = {}
        BY <2>2, ListsNothing
      <3>2. lists[l] = <<>> <=> Having(hits, l) = {}
        BY <2>1, ListsNothing
      <3> QED
        BY <1>6, <3>1, <3>2
    <2> QED
      BY <2>2, <2>3, <2>4
  <1>9. left \in [SameHits -> Seq(Rec)]
    BY <1>5, <1>8
  <1> QED
    BY <1>6, <1>8, <1>9 DEF ListsAre, LessAfter, new, left, m, n

Flushes(c, new, d, r) ==
    /\ CacheOK(new, d)
    /\ new.hits = [c.hits EXCEPT ![r] = <<>>]
    /\ new.lists = [c.lists EXCEPT ![ListOf(Len(c.hits[r]))] = RemoveFirst(@, r)]
    /\ new.top = c.top /\ new.nlow = c.nlow /\ new.nlowtotal = c.nlowtotal
    /\ new.total = c.total - Len(c.hits[r]) * Weight(r)
    /\ OthersKept(c.st, new.st, r)

\* The fields of the cache (indCacheFlush).
LEMMA FlushRecFields ==
    ASSUME NEW c, HasCacheFields(c), NEW r
    PROVE  LET new == FlushRec(c, r)
           IN  /\ HasCacheFields(new)
               /\ new.st = Compressed(c.st, r, c.hits[r])
               /\ new.hits = [c.hits EXCEPT ![r] = <<>>]
               /\ new.lists = [c.lists EXCEPT ![ListOf(Len(c.hits[r]))] = RemoveFirst(@, r)]
               /\ new.top = c.top /\ new.nlow = c.nlow /\ new.nlowtotal = c.nlowtotal
               /\ new.total = c.total - Len(c.hits[r]) * Weight(r)
  <1> DEFINE st == Compressed(c.st, r, c.hits[r])
             hits == [c.hits EXCEPT ![r] = <<>>]
             total == c.total - Len(c.hits[r]) * Weight(r)
             l == ListOf(Len(c.hits[r]))
             lists == [c.lists EXCEPT ![l] = RemoveFirst(@, r)]
             one == [c EXCEPT !.st = st, !.hits = hits]
             two == [one EXCEPT !.total = total, !.lists = lists]
             new == FlushRec(c, r)
  <1>1. new = [[c EXCEPT !.st = st, !.hits = hits, !.total = total] EXCEPT !.lists[l] = RemoveFirst(@, r)]
    BY DEF FlushRec, LeaveList
  <1> HIDE DEF new, st, hits, total, l
  <1>2. /\ HasCacheFields(one) /\ one.st = st /\ one.hits = hits /\ one.lists = c.lists
        /\ one.top = c.top /\ one.nlow = c.nlow /\ one.nlowtotal = c.nlowtotal
        /\ one.total = c.total
    BY DEF HasCacheFields, CacheFields
  <1>3. [c EXCEPT !.st = st, !.hits = hits, !.total = total] = [one EXCEPT !.total = total]
    OBVIOUS
  <1> DEFINE mid == [one EXCEPT !.total = total]
  <1>4. new = [mid EXCEPT !.lists[l] = RemoveFirst(@, r)]
    BY <1>1, <1>3
  <1> HIDE DEF one
  <1>5. /\ HasCacheFields(mid) /\ mid.st = st /\ mid.hits = hits /\ mid.lists = c.lists
        /\ mid.top = c.top /\ mid.nlow = c.nlow /\ mid.nlowtotal = c.nlowtotal
        /\ mid.total = total
    BY <1>2 DEF HasCacheFields, CacheFields
  <1> HIDE DEF mid, lists
  <1>6. new = [mid EXCEPT !.lists = lists]
    BY <1>4, <1>5 DEF lists
  <1>7. /\ HasCacheFields(new) /\ new.st = st /\ new.hits = hits /\ new.lists = lists
        /\ new.top = c.top /\ new.nlow = c.nlow /\ new.nlowtotal = c.nlowtotal
        /\ new.total = total
    BY <1>5, <1>6 DEF HasCacheFields, CacheFields
  <1> QED
    BY <1>7 DEF new, st, hits, total, lists, l

\* Nothing is pending.
LEMMA NonePending ==
    ASSUME NEW last, NEW d
    PROVE  Ascending(<<>>, last, d)
  <1>1. <<>> \in Seq(Docs) /\ Len(<<>>) = 0 /\ 1 .. 0 = {}
    OBVIOUS
  <1> QED
    BY <1>1 DEF Ascending

\* The last hit is one of them.
LEMMA LastHit ==
    ASSUME NEW hits, NEW last, NEW d, Ascending(hits, last, d), hits # <<>>
    PROVE  Last(hits) <= d /\ last < Last(hits) /\ Last(hits) \in Docs
  <1>1. hits \in Seq(Docs) /\ Len(hits) \in 1 .. Len(hits)
    BY DEF Ascending
  <1>2. Last(hits) = hits[Len(hits)] /\ hits[Len(hits)] \in Docs
    BY <1>1 DEF Last
  <1> QED
    BY <1>1, <1>2 DEF Ascending

\* indCacheFlush
LEMMA FlushRecFacts ==
    ASSUME NEW c, NEW d, CacheOK(c, d), NEW r \in Rec, c.hits[r] # <<>>
    PROVE  Flushes(c, FlushRec(c, r), d, r)
  <1> DEFINE new == FlushRec(c, r)
  <1>1. /\ IsCache(c) /\ Sound(c.st) /\ ListsAre(c.lists, c.hits) /\ TotalIs(c.total, c.hits)
        /\ TopIs(c.top, c.lists)
    BY DEF CacheOK
  <1>2. \A q \in Rec : HitOK(c.st, c.hits, d, q)
    BY DEF CacheOK
  <1>3. /\ HasCacheFields(c) /\ c.hits \in [Rec -> Seq(Docs)] /\ c.lists \in [SameHits -> Seq(Rec)]
        /\ c.top \in 0 .. TopMost /\ c.nlow \in [0 .. SameHitsMin -> Int]
        /\ c.nlowtotal \in Int /\ c.total \in Int
    BY <1>1 DEF IsCache
  <1>4. /\ HasCacheFields(new)
        /\ new.st = Compressed(c.st, r, c.hits[r])
        /\ new.hits = [c.hits EXCEPT ![r] = <<>>]
        /\ new.lists = [c.lists EXCEPT ![ListOf(Len(c.hits[r]))] = RemoveFirst(@, r)]
        /\ new.top = c.top /\ new.nlow = c.nlow /\ new.nlowtotal = c.nlowtotal
        /\ new.total = c.total - Len(c.hits[r]) * Weight(r)
    BY <1>3, FlushRecFields
  <1> HIDE DEF new
  <1>5. /\ r \in DOMAIN c.st.rc /\ c.st.rc[r].lastdoc <= d /\ DataOf(c.st, r)
        /\ Ascending(c.hits[r], c.st.rc[r].lastdoc, d) /\ Len(c.hits[r]) <= MaxRecHits
    BY <1>2 DEF HitOK
  <1>6. CompressedTo(c.st, new.st, r, c.hits[r])
    <2> DEFINE hits == c.hits[r]
               st == c.st
    <2>1. /\ Sound(st) /\ r \in DOMAIN st.rc /\ DataOf(st, r)
          /\ Ascending(hits, st.rc[r].lastdoc, d) /\ hits # <<>>
      BY <1>1, <1>5
    <2> HIDE DEF hits, st
    <2>2. CompressedTo(st, Compressed(st, r, hits), r, hits)
      BY <2>1, CompressedFacts
    <2> QED
      BY <1>4, <2>2 DEF hits, st
  <1>7. /\ Sound(new.st) /\ Kept(c.st, new.st, {r}) /\ r \in DOMAIN new.st.rc
        /\ new.st.rc[r].lastdoc = Last(c.hits[r]) /\ DataOf(new.st, r)
    BY <1>6 DEF CompressedTo
  <1>8. OthersKept(c.st, new.st, r)
    BY <1>1, <1>7, OthersAreKept
  <1>9. /\ new.hits[r] = <<>> /\ (\A q \in Rec : q # r => new.hits[q] = c.hits[q])
        /\ new.hits \in [Rec -> Seq(Docs)]
    <2>1. <<>> \in Seq(Docs)
      OBVIOUS
    <2> QED
      BY <1>3, <1>4, <2>1
  <1>10. ASSUME NEW q \in Rec PROVE HitOK(new.st, new.hits, d, q)
    <2>1. CASE q = r
      <3>1. Len(<<>>) <= MaxRecHits
        BY CacheNumbers
      <3>2. Ascending(<<>>, new.st.rc[r].lastdoc, d)
        BY NonePending
      <3>3. new.st.rc[r].lastdoc <= d
        BY <1>5, <1>7, LastHit
      <3> QED
        BY <1>7, <1>9, <2>1, <3>1, <3>2, <3>3 DEF HitOK
    <2>2. CASE q # r
      <3>1. HitOK(c.st, c.hits, d, q) /\ new.hits[q] = c.hits[q]
        BY <1>2, <1>9, <2>2
      <3>2. /\ DOMAIN new.st.rc = DOMAIN c.st.rc
            /\ q \in DOMAIN c.st.rc => /\ new.st.rc[q].lastdoc = c.st.rc[q].lastdoc
                                       /\ DataOf(c.st, q) => DataOf(new.st, q)
        BY <1>8, <2>2 DEF OthersKept
      <3> QED
        BY <3>1, <3>2 DEF HitOK
    <2> QED
      BY <2>1, <2>2
  <1>11. /\ new.lists \in [SameHits -> Seq(Rec)] /\ ListsAre(new.lists, new.hits)
         /\ \A l \in SameHits : new.lists[l] # <<>> => c.lists[l] # <<>>
    <2>1. LessAfter(c.lists, c.hits, [c.lists EXCEPT ![ListOf(Len(c.hits[r]))] = RemoveFirst(@, r)],
                    [c.hits EXCEPT ![r] = <<>>], r)
      BY <1>1, <1>3, <1>5, ListsLess
    <2> QED
      BY <1>4, <2>1 DEF LessAfter
  <1>12. TotalIs(new.total, new.hits) /\ new.total \in Int
    <2>1. Len(new.hits[r]) * Weight(r) = 0
      <3>1. Weight(r) \in Int
        BY DEF Weight
      <3>2. Len(new.hits[r]) = 0
        BY <1>9
      <3> QED
        BY <3>1, <3>2
    <2>2. TotalIs(c.total + Len(new.hits[r]) * Weight(r) - Len(c.hits[r]) * Weight(r), new.hits)
      BY <1>1, <1>3, <1>9, TotalChanges
    <2>3. Len(c.hits[r]) * Weight(r) \in Int
      <3>1. Len(c.hits[r]) \in Nat
        BY <1>3
      <3> QED
        BY <3>1, WeightFacts
    <2> DEFINE a == Len(c.hits[r]) * Weight(r)
               b == Len(new.hits[r]) * Weight(r)
    <2>4. b = 0 /\ a \in Int /\ new.total = c.total - a
      BY <1>4, <2>1, <2>3
    <2>5. TotalIs(c.total + b - a, new.hits)
      BY <2>2
    <2> HIDE DEF a, b
    <2>6. new.total = c.total + b - a /\ new.total \in Int
      BY <1>3, <2>4
    <2> QED
      BY <2>5, <2>6
  <1>13. TopIs(new.top, new.lists)
    <2>1. \A k \in 0 .. TopMost : <<"big", k>> \in SameHits
      BY DEF SameHits, TopMost
    <2> QED
      BY <1>1, <1>4, <1>11, <2>1 DEF TopIs
  <1>14. IsCache(new)
    BY <1>3, <1>4, <1>9, <1>11, <1>12 DEF IsCache
  <1>15. CacheOK(new, d)
    BY <1>7, <1>10, <1>11, <1>12, <1>13, <1>14 DEF CacheOK
  <1> QED
    BY <1>4, <1>8, <1>15 DEF Flushes, new

\* The records never compressed that have n hits, without it.
LEMMA LowLess ==
    ASSUME NEW c, NEW d, CacheOK(c, d), NEW r \in Rec, NEW new, Flushes(c, new, d, r),
           NEW n \in Nat \ {0}
    PROVE  LowSet(new, n) = LowSet(c, n) \ {r}
  <1>1. /\ DOMAIN new.st.rc = DOMAIN c.st.rc
        /\ \A q \in DOMAIN c.st.rc \ {r} : new.st.rc[q].freq = c.st.rc[q].freq
    BY DEF Flushes, OthersKept
  <1>2. DOMAIN c.st.rc \subseteq Rec
    BY DEF CacheOK, Sound, Body, IsStore, IsRc
  <1>3. c.hits \in [Rec -> Seq(Docs)] /\ new.hits = [c.hits EXCEPT ![r] = <<>>]
    BY DEF CacheOK, IsCache, Flushes
  <1>4. new.hits[r] = <<>> /\ \A q \in Rec : q # r => new.hits[q] = c.hits[q]
    BY <1>3
  <1>5. r \notin LowSet(new, n)
    BY <1>4 DEF LowSet
  <1>6. \A q : q # r => (q \in LowSet(new, n) <=> q \in LowSet(c, n))
    BY <1>1, <1>2, <1>4 DEF LowSet
  <1> QED
    BY <1>5, <1>6

\* They are finitely many.
LEMMA LowFinite ==
    ASSUME NEW c, NEW d, CacheOK(c, d), NEW n
    PROVE  IsFiniteSet(LowSet(c, n)) /\ Cardinality(LowSet(c, n)) \in Nat
  <1>1. DOMAIN c.st.rc \subseteq Rec
    BY DEF CacheOK, Sound, Body, IsStore, IsRc
  <1>2. LowSet(c, n) \subseteq Rec
    BY <1>1 DEF LowSet
  <1> QED
    BY <1>2, RecAssumption, FS_Subset, FS_CardinalityType

\* The counts stay long enough.
LEMMA LowStays ==
    ASSUME NEW c, NEW d, CacheOK(c, d), LowOK(c), NEW r \in Rec, NEW new, Flushes(c, new, d, r)
    PROVE  LowOK(new)
  <1>1. ASSUME NEW n \in 1 .. LowHitsMax PROVE Cardinality(LowSet(new, n)) <= new.nlow[n]
    <2>1. n \in Nat \ {0} /\ n \in 0 .. SameHitsMin
      BY CacheNumbers
    <2>2. LowSet(new, n) \subseteq LowSet(c, n)
      BY <2>1, LowLess
    <2>3. Cardinality(LowSet(new, n)) <= Cardinality(LowSet(c, n))
      BY <2>2, LowFinite, FS_Subset
    <2>4. Cardinality(LowSet(c, n)) <= c.nlow[n] /\ new.nlow = c.nlow /\ c.nlow[n] \in Int
      BY <2>1 DEF LowOK, Flushes, CacheOK, IsCache
    <2>5. Cardinality(LowSet(c, n)) \in Nat /\ Cardinality(LowSet(new, n)) \in Nat
      <3>1. CacheOK(new, d)
        BY DEF Flushes
      <3> QED
        BY <3>1, LowFinite
    <2> QED
      BY <2>3, <2>4, <2>5
  <1> QED
    BY <1>1 DEF LowOK

-----------------------------------------------------------------------------
(* Some records lose their hits to their runs. *)

Fewer(c, new, d) ==
    /\ CacheOK(new, d) /\ LowOK(new) /\ DOMAIN new.st.rc = DOMAIN c.st.rc
    /\ \A q \in Rec : new.hits[q] = c.hits[q] \/ new.hits[q] = <<>>

\* None does.
LEMMA FewerSame ==
    ASSUME NEW c, NEW d, CacheOK(c, d), LowOK(c)
    PROVE  Fewer(c, c, d)
  BY DEF Fewer

\* Some, and then some more.
LEMMA FewerTwice ==
    ASSUME NEW c, NEW d, NEW mid, Fewer(c, mid, d), NEW new, Fewer(mid, new, d)
    PROVE  Fewer(c, new, d)
  <1>1. DOMAIN new.st.rc = DOMAIN c.st.rc
    BY DEF Fewer
  <1>2. ASSUME NEW q \in Rec PROVE new.hits[q] = c.hits[q] \/ new.hits[q] = <<>>
    BY DEF Fewer
  <1> QED
    BY <1>1, <1>2 DEF Fewer

\* Lists that are empty stay so.
LEMMA FewerLists ==
    ASSUME NEW c, NEW d, CacheOK(c, d), NEW new, Fewer(c, new, d), NEW l \in SameHits
    PROVE  /\ c.lists[l] = <<>> => new.lists[l] = <<>>
           /\ (\A q \in Having(c.hits, l) : new.hits[q] = <<>>) => new.lists[l] = <<>>
  <1>1. ListsOnce(c.lists[l], Having(c.hits, l)) /\ ListsOnce(new.lists[l], Having(new.hits, l))
    BY DEF Fewer, CacheOK, ListsAre
  <1>2. c.lists[l] = <<>> <=> Having(c.hits, l) = {}
    BY <1>1, ListsNothing
  <1>3. new.lists[l] = <<>> <=> Having(new.hits, l) = {}
    BY <1>1, ListsNothing
  <1>4. ASSUME NEW q \in Having(new.hits, l)
        PROVE  q \in Having(c.hits, l) /\ new.hits[q] # <<>>
    <2>1. q \in Rec /\ new.hits[q] # <<>> /\ ListOf(Len(new.hits[q])) = l
      BY DEF Having
    <2>2. new.hits[q] = c.hits[q]
      BY <2>1 DEF Fewer
    <2> QED
      BY <2>1, <2>2 DEF Having
  <1> QED
    BY <1>2, <1>3, <1>4

\* The hits of one record go.
LEMMA FlushesFewer ==
    ASSUME NEW c, NEW d, CacheOK(c, d), LowOK(c), NEW r \in Rec, NEW new, Flushes(c, new, d, r)
    PROVE  /\ Fewer(c, new, d) /\ new.hits[r] = <<>> /\ new.top = c.top
           /\ \A q \in Rec : q # r => new.hits[q] = c.hits[q]
  <1>1. c.hits \in [Rec -> Seq(Docs)] /\ new.hits = [c.hits EXCEPT ![r] = <<>>]
    BY DEF CacheOK, IsCache, Flushes
  <1>2. new.hits[r] = <<>> /\ \A q \in Rec : q # r => new.hits[q] = c.hits[q]
    BY <1>1
  <1>3. \A q \in Rec : new.hits[q] = c.hits[q] \/ new.hits[q] = <<>>
    BY <1>2
  <1>4. LowOK(new)
    BY LowStays
  <1>5. CacheOK(new, d) /\ DOMAIN new.st.rc = DOMAIN c.st.rc /\ new.top = c.top
    BY DEF Flushes, OthersKept
  <1> QED
    BY <1>2, <1>3, <1>4, <1>5 DEF Fewer

FlushUnless(y, r, lowater) == IF y.total <= lowater THEN y ELSE FlushRec(y, r)

ListSteps(c, recs, lowater, n) ==
    CHOOSE at : at = [i \in 0 .. n |-> IF i = 0 THEN c
                                       ELSE FlushUnless(at[i - 1], recs[i], lowater)]

AreListSteps(at, c, recs, lowater, n) ==
    at[0] = c /\ \A i \in 1 .. n : at[i] = FlushUnless(at[i - 1], recs[i], lowater)

\* The loop is defined.
LEMMA ListStepsExist ==
    ASSUME NEW c, NEW recs, NEW lowater, NEW n \in Nat
    PROVE  AreListSteps(ListSteps(c, recs, lowater, n), c, recs, lowater, n)
  <1> DEFINE Step(y, i) == FlushUnless(y, recs[i], lowater)
             Is(g, m) == g = [i \in 0 .. m |-> IF i = 0 THEN c ELSE Step(g[i - 1], i)]
             P == {m \in 0 .. n : \E g : Is(g, m)}
             at == ListSteps(c, recs, lowater, n)
  <1>1. at = CHOOSE g : Is(g, n)
    BY DEF ListSteps
  <1> HIDE DEF Step
  <1>2. 0 \in P
    <2> DEFINE g == [i \in 0 .. 0 |-> c]
    <2>1. Is(g, 0)
      OBVIOUS
    <2>2. 0 \in 0 .. n
      OBVIOUS
    <2> HIDE DEF g, Is
    <2> QED
      BY <2>1, <2>2
  <1>3. ASSUME NEW m \in 0 .. n - 1, m \in P PROVE m + 1 \in P
    <2>1. PICK h : Is(h, m)
      BY <1>3
    <2> DEFINE g == [i \in 0 .. m + 1 |-> IF i = m + 1 THEN Step(h[m], m + 1) ELSE h[i]]
    <2>2. (\A i \in 0 .. m : g[i] = h[i]) /\ g[m + 1] = Step(h[m], m + 1)
      OBVIOUS
    <2>3. g = [i \in 0 .. m + 1 |-> g[i]]
      OBVIOUS
    <2>4. ASSUME NEW i \in 0 .. m + 1 PROVE g[i] = IF i = 0 THEN c ELSE Step(g[i - 1], i)
      <3> HIDE DEF g
      <3>1. CASE i = m + 1
        BY <2>2, <3>1
      <3>2. CASE i # m + 1
        <4>1. i \in 0 .. m /\ (i # 0 => i - 1 \in 0 .. m)
          BY <3>2
        <4>2. h[i] = IF i = 0 THEN c ELSE Step(h[i - 1], i)
          BY <2>1, <4>1
        <4> QED
          BY <2>2, <4>1, <4>2
      <3> QED
        BY <3>1, <3>2
    <2> HIDE DEF g
    <2>5. Is(g, m + 1)
      BY <2>3, <2>4
    <2>6. m + 1 \in 0 .. n
      OBVIOUS
    <2> HIDE DEF Is
    <2> QED
      BY <2>5, <2>6
  <1>4. \E g : Is(g, n)
    <2>1. \A m \in 0 .. n : m \in P
      <3> HIDE DEF P
      <3> QED
        BY <1>2, <1>3, UpTo
    <2> QED
      BY <2>1
  <1>5. Is(at, n)
    <2> HIDE DEF Is, at
    <2> QED
      BY <1>1, <1>4
  <1> HIDE DEF at
  <1>6. at[0] = c /\ \A i \in 1 .. n : at[i] = Step(at[i - 1], i)
    BY <1>5
  <1> QED
    BY <1>6 DEF at, Step, AreListSteps

ListFlushed(c, new, l, lowater, d) ==
    /\ Fewer(c, new, d) /\ new.top = c.top
    /\ new.total <= lowater \/ new.lists[l] = <<>>

\* The records of one list.
LEMMA FlushListFacts ==
    ASSUME NEW c, NEW d, CacheOK(c, d), LowOK(c), NEW l \in SameHits, NEW lowater \in Int
    PROVE  ListFlushed(c, FlushList(c, l, lowater), l, lowater, d)
  <1> DEFINE recs == c.lists[l]
             n == Len(recs)
             at == ListSteps(c, recs, lowater, n)
             P == {i \in 0 .. n :
                      /\ Fewer(c, at[i], d) /\ at[i].top = c.top
                      /\ \A j \in 1 .. n : j > i => at[i].hits[recs[j]] = c.hits[recs[j]]
                      /\ at[i].total <= lowater \/ \A j \in 1 .. n : j <= i => at[i].hits[recs[j]] = <<>>}
  <1>1. ListsOnce(recs, Having(c.hits, l)) /\ Having(c.hits, l) \subseteq Rec
    BY DEF CacheOK, ListsAre, Having
  <1>2. /\ n \in Nat /\ \A i \in 1 .. n : recs[i] \in Rec /\ c.hits[recs[i]] # <<>>
        /\ \A i, j \in 1 .. n : recs[i] = recs[j] => i = j
        /\ \A e \in Having(c.hits, l) : \E i \in 1 .. n : recs[i] = e
    <2>1. recs \in Seq(Having(c.hits, l)) /\ IsInjective(recs)
      BY <1>1 DEF ListsOnce
    <2>2. \A e : e \in Having(c.hits, l) <=> \E i \in 1 .. n : recs[i] = e
      BY <1>1, ListsSome
    <2>3. n \in Nat /\ DOMAIN recs = 1 .. n
      BY <2>1
    <2>4. \A i, j \in 1 .. n : recs[i] = recs[j] => i = j
      BY <2>1, <2>3 DEF IsInjective
    <2>5. ASSUME NEW i \in 1 .. n PROVE recs[i] \in Rec /\ c.hits[recs[i]] # <<>>
      <3>1. recs[i] \in Having(c.hits, l)
        BY <2>2
      <3> QED
        BY <3>1 DEF Having
    <2> HIDE DEF recs, n
    <2> QED
      BY <2>2, <2>3, <2>4, <2>5
  <1>3. FlushList(c, l, lowater) = at[n]
    BY DEF FlushList, ListSteps, FlushUnless
  <1> HIDE DEF recs, n
  <1>4. at[0] = c /\ \A i \in 1 .. n : at[i] = FlushUnless(at[i - 1], recs[i], lowater)
    <2>1. AreListSteps(ListSteps(c, recs, lowater, n), c, recs, lowater, n)
      BY <1>2, ListStepsExist
    <2> QED
      BY <2>1 DEF AreListSteps
  <1> HIDE DEF at
  <1>5. 0 \in P
    <2>1. Fewer(c, at[0], d) /\ at[0].top = c.top
      BY <1>4, FewerSame
    <2>2. ~ \E j \in 1 .. n : j <= 0
      BY <1>2
    <2> QED
      BY <1>2, <1>4, <2>1, <2>2
  <1>6. ASSUME NEW i \in 0 .. n - 1, i \in P PROVE i + 1 \in P
    <2> DEFINE x == at[i]
               r == recs[i + 1]
               y == at[i + 1]
    <2>1. i + 1 \in 1 .. n /\ (i + 1) - 1 = i /\ i + 1 \in 0 .. n /\ i + 1 > i
      BY <1>2
    <2>2. /\ Fewer(c, x, d) /\ x.top = c.top
          /\ \A j \in 1 .. n : j > i => x.hits[recs[j]] = c.hits[recs[j]]
          /\ x.total <= lowater \/ \A j \in 1 .. n : j <= i => x.hits[recs[j]] = <<>>
      BY <1>6
    <2>3. r \in Rec /\ x.hits[r] # <<>>
      BY <1>2, <2>1, <2>2
    <2>4. y = FlushUnless(x, r, lowater)
      BY <1>4, <2>1
    <2>5. CASE x.total <= lowater
      <3>1. y = x
        BY <2>4, <2>5 DEF FlushUnless
      <3>2. \A j \in 1 .. n : j > i + 1 => j > i
        BY <1>2
      <3> QED
        BY <2>1, <2>2, <2>5, <3>1, <3>2
    <2>6. CASE ~ (x.total <= lowater)
      <3>1. y = FlushRec(x, r)
        BY <2>4, <2>6 DEF FlushUnless
      <3>2. CacheOK(x, d) /\ LowOK(x)
        BY <2>2 DEF Fewer
      <3>3. Flushes(x, y, d, r)
        <4> HIDE DEF x, y, r
        <4> QED
          BY <2>3, <3>1, <3>2, FlushRecFacts
      <3>4. /\ Fewer(x, y, d) /\ y.hits[r] = <<>> /\ y.top = x.top
            /\ \A q \in Rec : q # r => y.hits[q] = x.hits[q]
        <4> HIDE DEF x, y, r
        <4> QED
          BY <2>3, <3>2, <3>3, FlushesFewer
      <3>5. Fewer(c, y, d)
        <4> HIDE DEF x, y, r
        <4> QED
          BY <2>2, <3>4, FewerTwice
      <3>6. ASSUME NEW j \in 1 .. n, j > i + 1 PROVE y.hits[recs[j]] = c.hits[recs[j]]
        <4>1. recs[j] \in Rec /\ recs[j] # r /\ j > i
          BY <1>2, <2>1, <3>6
        <4> HIDE DEF x, y, r
        <4> QED
          BY <2>2, <3>4, <4>1
      <3>7. ASSUME NEW j \in 1 .. n, j <= i + 1 PROVE y.hits[recs[j]] = <<>>
        <4>1. CASE j = i + 1
          BY <3>4, <4>1
        <4>2. CASE j # i + 1
          <5>1. j <= i /\ recs[j] \in Rec /\ recs[j] # r
            BY <1>2, <2>1, <3>7, <4>2
          <5>2. x.hits[recs[j]] = <<>>
            BY <2>2, <2>6, <5>1
          <5> HIDE DEF x, y, r
          <5> QED
            BY <3>4, <5>1, <5>2
        <4> QED
          BY <4>1, <4>2
      <3>8. y.top = c.top
        BY <2>2, <3>4
      <3> QED
        BY <2>1, <3>5, <3>6, <3>7, <3>8
    <2> QED
      BY <2>5, <2>6
  <1>7. \A i \in 0 .. n : i \in P
    <2> HIDE DEF P
    <2> QED
      BY <1>2, <1>5, <1>6, UpTo
  <1> DEFINE new == at[n]
  <1>8. /\ Fewer(c, new, d) /\ new.top = c.top
        /\ new.total <= lowater \/ \A j \in 1 .. n : new.hits[recs[j]] = <<>>
    <2>1. n \in P /\ \A j \in 1 .. n : j <= n
      BY <1>2, <1>7
    <2> QED
      BY <2>1
  <1> HIDE DEF new
  <1>9. new.total <= lowater \/ new.lists[l] = <<>>
    <2>1. CASE \A j \in 1 .. n : new.hits[recs[j]] = <<>>
      <3>1. \A q \in Having(c.hits, l) : new.hits[q] = <<>>
        BY <1>2, <2>1
      <3> QED
        BY <1>8, <3>1, FewerLists
    <2> QED
      BY <1>8, <2>1
  <1> QED
    BY <1>3, <1>8, <1>9 DEF ListFlushed, new

-----------------------------------------------------------------------------
(* The levels are flushed, from the longest lists down. *)

Rank(l) == IF l[1] = "big" THEN SameHitsMin + 1 + l[2] ELSE l[2]

\* What the lists are.
LEMMA SameHitsFacts ==
    ASSUME NEW l \in SameHits
    PROVE  /\ Rank(l) \in Nat
           /\ \/ l[1] = "big" /\ l[2] \in 0 .. TopMost /\ l = <<"big", l[2]>>
                 /\ Rank(l) = SameHitsMin + 1 + l[2]
              \/ l[1] = "small" /\ l[2] \in 0 .. SameHitsMin /\ l = <<"small", l[2]>>
                 /\ Rank(l) = l[2]
  <1>1. CASE \E k \in 0 .. TopMost : l = <<"big", k>>
    BY <1>1, CacheNumbers DEF Rank
  <1>2. CASE \E k \in 0 .. SameHitsMin : l = <<"small", k>>
    BY <1>2, CacheNumbers DEF Rank
  <1> QED
    BY <1>1, <1>2 DEF SameHits, TopMost

\* A rank says which.
LEMMA RankOnce ==
    ASSUME NEW l \in SameHits, NEW m \in SameHits, Rank(l) = Rank(m)
    PROVE  l = m
  <1>1. SameHitsMin \in Nat
    BY CacheNumbers
  <1>2. /\ \/ l[2] \in Nat /\ l = <<"big", l[2]>> /\ Rank(l) = SameHitsMin + 1 + l[2]
           \/ l[2] \in 0 .. SameHitsMin /\ l = <<"small", l[2]>> /\ Rank(l) = l[2]
    BY SameHitsFacts
  <1>3. /\ \/ m[2] \in Nat /\ m = <<"big", m[2]>> /\ Rank(m) = SameHitsMin + 1 + m[2]
           \/ m[2] \in 0 .. SameHitsMin /\ m = <<"small", m[2]>> /\ Rank(m) = m[2]
    BY SameHitsFacts
  <1> DEFINE i == l[2]
             j == m[2]
  <1>4. i = j /\ (l = <<"big", i>> <=> m = <<"big", j>>)
    <2>1. /\ \/ i \in Nat /\ Rank(l) = SameHitsMin + 1 + i
             \/ i \in 0 .. SameHitsMin /\ Rank(l) = i
          /\ \/ j \in Nat /\ Rank(l) = SameHitsMin + 1 + j
             \/ j \in 0 .. SameHitsMin /\ Rank(l) = j
      BY <1>2, <1>3
    <2> HIDE DEF i, j
    <2>2. i = j
      BY <1>1, <2>1
    <2> QED
      BY <1>1, <1>2, <1>3, <2>2 DEF i, j
  <1> QED
    BY <1>2, <1>3, <1>4

\* Lists of a rank and above are empty, or there are few hits.
EmptyFrom(c, n, lowater) ==
    c.total <= lowater \/ \A l \in SameHits : Rank(l) >= n => c.lists[l] = <<>>

\* nSameHitsTop is another.
LEMMA TopChanged ==
    ASSUME NEW c, NEW d, CacheOK(c, d), LowOK(c), NEW top \in 0 .. TopMost, TopIs(top, c.lists),
           NEW new, new = [c EXCEPT !.top = top]
    PROVE  Fewer(c, new, d) /\ new.total = c.total /\ new.lists = c.lists /\ new.top = top
  <1>1. HasCacheFields(c)
    BY DEF CacheOK, IsCache
  <1>2. /\ HasCacheFields(new) /\ new.st = c.st /\ new.hits = c.hits /\ new.lists = c.lists
        /\ new.top = top /\ new.nlow = c.nlow /\ new.nlowtotal = c.nlowtotal /\ new.total = c.total
    BY <1>1 DEF HasCacheFields, CacheFields
  <1>3. IsCache(new)
    BY <1>2 DEF CacheOK, IsCache
  <1>4. CacheOK(new, d)
    BY <1>2, <1>3 DEF CacheOK
  <1>5. LowOK(new)
    BY <1>2 DEF LowOK, LowSet
  <1> QED
    BY <1>2, <1>4, <1>5 DEF Fewer

TopAfter(c, l) ==
    IF l[1] = "small" THEN 0 ELSE IF c.lists[l] = <<>> THEN AtLeast0(l[2] - 1) ELSE l[2]

LevelDone(c, new, l, lowater, d) ==
    Fewer(c, new, d) /\ EmptyFrom(new, Rank(l), lowater)

\* One level.
LEMMA FlushLevelFacts ==
    ASSUME NEW c, NEW d, CacheOK(c, d), LowOK(c), NEW l \in SameHits, NEW lowater \in Int,
           EmptyFrom(c, Rank(l) + 1, lowater)
    PROVE  LevelDone(c, FlushLevel(c, l, lowater), l, lowater, d)
  <1>1. CASE c.total <= lowater
    BY <1>1, FewerSame DEF FlushLevel, LevelDone, EmptyFrom
  <1>2. CASE ~ (c.total <= lowater)
    <2> DEFINE mid == FlushList(c, l, lowater)
               top == TopAfter(mid, l)
               new == [mid EXCEPT !.top = top]
    <2>1. FlushLevel(c, l, lowater) = new
      BY <1>2 DEF FlushLevel, Settled, TopAfter
    <2>2. ListFlushed(c, mid, l, lowater, d)
      BY FlushListFacts
    <2> HIDE DEF mid
    <2>3. Fewer(c, mid, d) /\ (mid.total <= lowater \/ mid.lists[l] = <<>>)
      BY <2>2 DEF ListFlushed
    <2>4. CacheOK(mid, d) /\ LowOK(mid)
      BY <2>3 DEF Fewer
    <2>5. ASSUME NEW m \in SameHits, Rank(m) >= Rank(l) + 1 PROVE mid.lists[m] = <<>>
      <3>1. c.lists[m] = <<>>
        BY <1>2, <2>5 DEF EmptyFrom
      <3> QED
        BY <2>3, <3>1, FewerLists
    <2>6. top \in 0 .. TopMost /\ TopIs(top, mid.lists)
      <3>1. ASSUME NEW k \in 0 .. TopMost, mid.lists[<<"big", k>>] # <<>> PROVE k <= top
        <4> DEFINE m == <<"big", k>>
        <4>1. m \in SameHits /\ Rank(m) = SameHitsMin + 1 + k
          BY DEF SameHits, TopMost, Rank
        <4>2. Rank(l) \in Nat /\ ~ (Rank(m) >= Rank(l) + 1)
          BY <2>5, <3>1, <4>1, SameHitsFacts
        <4>3. \/ l[1] = "big" /\ l[2] \in 0 .. TopMost /\ Rank(l) = SameHitsMin + 1 + l[2]
                 /\ l = <<"big", l[2]>>
              \/ l[1] = "small" /\ l[2] \in 0 .. SameHitsMin /\ Rank(l) = l[2]
          BY SameHitsFacts
        <4>4. l[1] = "big" /\ l[2] \in 0 .. TopMost /\ k <= l[2] /\ l = <<"big", l[2]>>
          BY <4>1, <4>2, <4>3, CacheNumbers
        <4>5. CASE mid.lists[l] = <<>>
          <5>1. k # l[2]
            BY <3>1, <4>4, <4>5
          <5>2. k <= l[2] - 1 /\ l[2] - 1 >= 0
            BY <4>4, <5>1
          <5>3. top = l[2] - 1
            BY <4>4, <4>5, <5>2 DEF TopAfter, AtLeast0
          <5> QED
            BY <5>2, <5>3
        <4>6. CASE mid.lists[l] # <<>>
          BY <4>4, <4>6 DEF TopAfter
        <4> QED
          BY <4>5, <4>6
      <3>2. top \in 0 .. TopMost
        <4>1. \/ l[1] = "big" /\ l[2] \in 0 .. TopMost
              \/ l[1] = "small"
          BY SameHitsFacts
        <4> QED
          BY <4>1, CacheNumbers DEF TopAfter, AtLeast0
      <3> QED
        BY <3>1, <3>2 DEF TopIs
    <2> HIDE DEF top
    <2>7. Fewer(mid, new, d) /\ new.total = mid.total /\ new.lists = mid.lists
      <3>1. new = [mid EXCEPT !.top = top]
        OBVIOUS
      <3> HIDE DEF new
      <3> QED
        BY <2>4, <2>6, <3>1, TopChanged
    <2> HIDE DEF new
    <2>8. Fewer(c, new, d)
      BY <2>3, <2>7, FewerTwice
    <2>9. EmptyFrom(new, Rank(l), lowater)
      <3>1. ASSUME NEW m \in SameHits, Rank(m) >= Rank(l), ~ (mid.total <= lowater)
            PROVE  new.lists[m] = <<>>
        <4>1. Rank(m) \in Nat /\ Rank(l) \in Nat
          BY SameHitsFacts
        <4>2. CASE Rank(m) = Rank(l)
          BY <2>3, <2>7, <3>1, <4>2, RankOnce
        <4>3. CASE Rank(m) # Rank(l)
          BY <2>5, <2>7, <3>1, <4>1, <4>3
        <4> QED
          BY <4>2, <4>3
      <3> QED
        BY <2>7, <3>1 DEF EmptyFrom
    <2> QED
      BY <2>1, <2>8, <2>9 DEF LevelDone
  <1> QED
    BY <1>1, <1>2

LevelSteps(c, levels, lowater, n) ==
    CHOOSE at : at = [i \in 0 .. n |-> IF i = 0 THEN c ELSE FlushLevel(at[i - 1], levels[i], lowater)]

AreLevelSteps(at, c, levels, lowater, n) ==
    at[0] = c /\ \A i \in 1 .. n : at[i] = FlushLevel(at[i - 1], levels[i], lowater)

\* The loop is defined.
LEMMA LevelStepsExist ==
    ASSUME NEW c, NEW levels, NEW lowater, NEW n \in Nat
    PROVE  AreLevelSteps(LevelSteps(c, levels, lowater, n), c, levels, lowater, n)
  <1> DEFINE Step(y, i) == FlushLevel(y, levels[i], lowater)
             Is(g, m) == g = [i \in 0 .. m |-> IF i = 0 THEN c ELSE Step(g[i - 1], i)]
             P == {m \in 0 .. n : \E g : Is(g, m)}
             at == LevelSteps(c, levels, lowater, n)
  <1>1. at = CHOOSE g : Is(g, n)
    BY DEF LevelSteps
  <1> HIDE DEF Step
  <1>2. 0 \in P
    <2> DEFINE g == [i \in 0 .. 0 |-> c]
    <2>1. Is(g, 0)
      OBVIOUS
    <2>2. 0 \in 0 .. n
      OBVIOUS
    <2> HIDE DEF g, Is
    <2> QED
      BY <2>1, <2>2
  <1>3. ASSUME NEW m \in 0 .. n - 1, m \in P PROVE m + 1 \in P
    <2>1. PICK h : Is(h, m)
      BY <1>3
    <2> DEFINE g == [i \in 0 .. m + 1 |-> IF i = m + 1 THEN Step(h[m], m + 1) ELSE h[i]]
    <2>2. (\A i \in 0 .. m : g[i] = h[i]) /\ g[m + 1] = Step(h[m], m + 1)
      OBVIOUS
    <2>3. g = [i \in 0 .. m + 1 |-> g[i]]
      OBVIOUS
    <2>4. ASSUME NEW i \in 0 .. m + 1 PROVE g[i] = IF i = 0 THEN c ELSE Step(g[i - 1], i)
      <3> HIDE DEF g
      <3>1. CASE i = m + 1
        BY <2>2, <3>1
      <3>2. CASE i # m + 1
        <4>1. i \in 0 .. m /\ (i # 0 => i - 1 \in 0 .. m)
          BY <3>2
        <4>2. h[i] = IF i = 0 THEN c ELSE Step(h[i - 1], i)
          BY <2>1, <4>1
        <4> QED
          BY <2>2, <4>1, <4>2
      <3> QED
        BY <3>1, <3>2
    <2> HIDE DEF g
    <2>5. Is(g, m + 1)
      BY <2>3, <2>4
    <2>6. m + 1 \in 0 .. n
      OBVIOUS
    <2> HIDE DEF Is
    <2> QED
      BY <2>5, <2>6
  <1>4. \E g : Is(g, n)
    <2>1. \A m \in 0 .. n : m \in P
      <3> HIDE DEF P
      <3> QED
        BY <1>2, <1>3, UpTo
    <2> QED
      BY <2>1
  <1>5. Is(at, n)
    <2> HIDE DEF Is, at
    <2> QED
      BY <1>1, <1>4
  <1> HIDE DEF at
  <1>6. at[0] = c /\ \A i \in 1 .. n : at[i] = Step(at[i - 1], i)
    BY <1>5
  <1> QED
    BY <1>6 DEF at, Step, AreLevelSteps

\* The levels go down from nSameHitsTop, one rank after the other.
LEMMA LevelsFacts ==
    ASSUME NEW c, c.top \in 0 .. TopMost
    PROVE  LET n == c.top + SameHitsMin + 2
           IN  /\ Len(Levels(c)) = n
               /\ \A j \in 1 .. n : Levels(c)[j] \in SameHits /\ Rank(Levels(c)[j]) = n - j
  <1> DEFINE top == c.top
             Big(k) == <<"big", k>>
             Small(k) == <<"small", k>>
             a == [j \in 1 .. top + 1 |-> Big(top + 1 - j)]
             b == [j \in 1 .. SameHitsMin + 1 |-> Small(SameHitsMin + 1 - j)]
             n == top + SameHitsMin + 2
             s == a \o b
  <1>1. Levels(c) = s
    BY DEF Levels
  <1>2. top \in Nat /\ top <= TopMost /\ TopMost \in Nat /\ SameHitsMin \in Nat
    BY CacheNumbers
  <1>3. \A k \in 0 .. TopMost : Big(k) \in SameHits /\ Rank(Big(k)) = SameHitsMin + 1 + k
    BY DEF SameHits, TopMost, Rank
  <1>4. \A k \in 0 .. SameHitsMin : Small(k) \in SameHits /\ Rank(Small(k)) = k
    BY DEF SameHits, Rank
  <1> HIDE DEF top, Big, Small
  <1>5. a \in Seq(SameHits) /\ Len(a) = top + 1 /\ \A j \in 1 .. top + 1 : a[j] = Big(top + 1 - j)
    <2>1. \A j \in 1 .. top + 1 : Big(top + 1 - j) \in SameHits
      <3>1. \A j \in 1 .. top + 1 : top + 1 - j \in 0 .. TopMost
        BY <1>2
      <3> QED
        BY <1>3, <3>1
    <2> QED
      BY <1>2, <2>1
  <1>6. /\ b \in Seq(SameHits) /\ Len(b) = SameHitsMin + 1
        /\ \A j \in 1 .. SameHitsMin + 1 : b[j] = Small(SameHitsMin + 1 - j)
    <2>1. \A j \in 1 .. SameHitsMin + 1 : Small(SameHitsMin + 1 - j) \in SameHits
      <3>1. \A j \in 1 .. SameHitsMin + 1 : SameHitsMin + 1 - j \in 0 .. SameHitsMin
        BY <1>2
      <3> QED
        BY <1>4, <3>1
    <2> QED
      BY <1>2, <2>1
  <1> HIDE DEF a, b
  <1>7. /\ Len(s) = Len(a) + Len(b)
        /\ \A i \in 1 .. Len(a) : s[i] = a[i]
        /\ \A i \in 1 .. Len(b) : s[Len(a) + i] = b[i]
    <2>1. a \in Seq(SameHits) /\ b \in Seq(SameHits)
      BY <1>5, <1>6
    <2> QED
      BY <2>1, ConcatFacts
  <1> HIDE DEF s
  <1>8. ASSUME NEW j \in 1 .. n PROVE s[j] \in SameHits /\ Rank(s[j]) = n - j
    <2>1. CASE j <= top + 1
      <3>1. j \in 1 .. top + 1 /\ s[j] = Big(top + 1 - j)
        BY <1>2, <1>5, <1>7, <2>1
      <3>2. top + 1 - j \in 0 .. TopMost
        BY <1>2, <3>1
      <3> QED
        BY <1>2, <1>3, <3>1, <3>2
    <2>2. CASE j > top + 1
      <3> DEFINE i == j - (top + 1)
      <3>1. i \in 1 .. SameHitsMin + 1 /\ j = top + 1 + i /\ SameHitsMin + 1 - i \in 0 .. SameHitsMin
        BY <1>2, <2>2
      <3> HIDE DEF i
      <3>2. s[j] = Small(SameHitsMin + 1 - i)
        BY <1>5, <1>6, <1>7, <3>1
      <3> QED
        BY <1>2, <1>4, <3>1, <3>2
    <2> QED
      BY <1>2, <2>1, <2>2
  <1>9. Len(s) = n
    BY <1>2, <1>5, <1>6, <1>7
  <1> QED
    BY <1>1, <1>8, <1>9 DEF top

\* Without lists there are no hits.
LEMMA NoHits ==
    ASSUME NEW c, NEW d, CacheOK(c, d), \A l \in SameHits : c.lists[l] = <<>>
    PROVE  c.total = 0 /\ \A q \in Rec : c.hits[q] = <<>>
  <1>1. \A q \in Rec : c.hits[q] = <<>>
    <2>1. ASSUME NEW q \in Rec, c.hits[q] # <<>> PROVE FALSE
      <3> DEFINE n == Len(c.hits[q])
                 l == ListOf(n)
      <3>1. n \in 0 .. MaxRecHits
        <4>1. c.hits[q] \in Seq(Docs) /\ n <= MaxRecHits
          BY DEF CacheOK, IsCache, HitOK
        <4> QED
          BY <4>1, CacheNumbers
      <3>2. l \in SameHits
        <4> HIDE DEF n
        <4> QED
          BY <3>1, ListOfFacts
      <3>3. q \in Having(c.hits, l)
        BY <2>1 DEF Having
      <3> HIDE DEF l
      <3>4. ListsOnce(c.lists[l], Having(c.hits, l))
        BY <3>2 DEF CacheOK, ListsAre
      <3> QED
        BY <3>2, <3>3, <3>4, ListsNothing
    <2> QED
      BY <2>1
  <1>2. OfAll(Rec, Weights(c.hits)) = {}
    <2>1. ASSUME NEW q \in Rec PROVE Weights(c.hits)[q] = {}
      <3>1. Weights(c.hits)[q] = 1 .. 0 * Weight(q)
        <4>1. Len(c.hits[q]) = 0
          BY <1>1
        <4> QED
          BY <4>1 DEF Weights
      <3>2. 0 * Weight(q) = 0
        BY DEF Weight
      <3> QED
        BY <3>1, <3>2
    <2> DEFINE f == Weights(c.hits)
    <2>2. \A q \in Rec : f[q] = {}
      BY <2>1
    <2> HIDE DEF f
    <2>3. \A x : x \notin OfAll(Rec, f)
      BY <2>2, OfAllMembers
    <2> QED
      BY <2>3 DEF f
  <1>3. c.total = 0
    BY <1>2, FS_EmptySet DEF CacheOK, TotalIs
  <1> QED
    BY <1>1, <1>3

LevelsDone(c, new, lowater, d) == Fewer(c, new, d) /\ new.total <= lowater

\* All levels, until there are few enough hits.
LEMMA FlushLevelsFacts ==
    ASSUME NEW c, NEW d, CacheOK(c, d), LowOK(c), NEW lowater \in Nat
    PROVE  LevelsDone(c, FlushLevels(c, lowater), lowater, d)
  <1> DEFINE levels == Levels(c)
             n == Len(levels)
             at == LevelSteps(c, levels, lowater, n)
             P == {j \in 0 .. n : Fewer(c, at[j], d) /\ EmptyFrom(at[j], n - j, lowater)}
  <1>1. c.top \in 0 .. TopMost /\ TopIs(c.top, c.lists)
    BY DEF CacheOK, IsCache
  <1>2. n = c.top + SameHitsMin + 2 /\ n \in Nat
    <2>1. n = c.top + SameHitsMin + 2
      BY <1>1, LevelsFacts
    <2> HIDE DEF n
    <2> QED
      BY <1>1, <2>1, CacheNumbers
  <1>3. \A j \in 1 .. n : levels[j] \in SameHits /\ Rank(levels[j]) = n - j
    <2> DEFINE m == c.top + SameHitsMin + 2
    <2>1. \A j \in 1 .. m : levels[j] \in SameHits /\ Rank(levels[j]) = m - j
      BY <1>1, LevelsFacts
    <2>2. n = m
      BY <1>2
    <2> HIDE DEF n, m, levels
    <2> QED
      BY <2>1, <2>2
  <1>4. FlushLevels(c, lowater) = at[n]
    BY DEF FlushLevels, LevelSteps
  <1> HIDE DEF levels, n
  <1>5. at[0] = c /\ \A j \in 1 .. n : at[j] = FlushLevel(at[j - 1], levels[j], lowater)
    <2>1. AreLevelSteps(LevelSteps(c, levels, lowater, n), c, levels, lowater, n)
      BY <1>2, LevelStepsExist
    <2> QED
      BY <2>1 DEF AreLevelSteps
  <1> HIDE DEF at
  <1>6. 0 \in P
    <2>1. Fewer(c, c, d)
      BY FewerSame
    <2>2. ASSUME NEW l \in SameHits, Rank(l) >= n PROVE c.lists[l] = <<>>
      <3>1. \/ l[1] = "big" /\ l[2] \in 0 .. TopMost /\ Rank(l) = SameHitsMin + 1 + l[2]
               /\ l = <<"big", l[2]>>
            \/ l[1] = "small" /\ l[2] \in 0 .. SameHitsMin /\ Rank(l) = l[2]
        BY SameHitsFacts
      <3>2. l[2] \in 0 .. TopMost /\ l = <<"big", l[2]>> /\ l[2] > c.top
        BY <1>1, <1>2, <2>2, <3>1, CacheNumbers
      <3>3. ~ (l[2] <= c.top)
        BY <1>1, <3>2
      <3> QED
        BY <1>1, <3>2, <3>3 DEF TopIs
    <2>3. EmptyFrom(c, n, lowater)
      BY <2>2 DEF EmptyFrom
    <2>4. n - 0 = n /\ 0 \in 0 .. n
      BY <1>2
    <2> QED
      BY <1>5, <2>1, <2>3, <2>4
  <1>7. ASSUME NEW j \in 0 .. n - 1, j \in P PROVE j + 1 \in P
    <2> DEFINE x == at[j]
               y == at[j + 1]
               l == levels[j + 1]
    <2>1. j + 1 \in 1 .. n /\ (j + 1) - 1 = j /\ j + 1 \in 0 .. n /\ n - j = n - (j + 1) + 1
      BY <1>2
    <2>2. Fewer(c, x, d) /\ EmptyFrom(x, n - j, lowater)
      BY <1>7
    <2>3. CacheOK(x, d) /\ LowOK(x)
      BY <2>2 DEF Fewer
    <2>4. y = FlushLevel(x, l, lowater) /\ l \in SameHits /\ Rank(l) = n - (j + 1)
      BY <1>3, <1>5, <2>1
    <2>5. EmptyFrom(x, Rank(l) + 1, lowater)
      BY <2>1, <2>2, <2>4
    <2> HIDE DEF x, y, l
    <2>6. LevelDone(x, y, l, lowater, d)
      BY <2>3, <2>4, <2>5, FlushLevelFacts
    <2>7. Fewer(x, y, d) /\ EmptyFrom(y, n - (j + 1), lowater)
      BY <2>4, <2>6 DEF LevelDone
    <2>8. Fewer(c, y, d)
      BY <2>2, <2>7, FewerTwice
    <2> QED
      BY <2>1, <2>7, <2>8 DEF y
  <1>8. \A j \in 0 .. n : j \in P
    <2> HIDE DEF P
    <2> QED
      BY <1>2, <1>6, <1>7, UpTo
  <1> DEFINE new == at[n]
  <1>9. Fewer(c, new, d) /\ EmptyFrom(new, 0, lowater)
    <2>1. n \in P /\ n - n = 0
      BY <1>2, <1>8
    <2> QED
      BY <2>1
  <1> HIDE DEF new
  <1>10. new.total <= lowater
    <2>1. CASE \A l \in SameHits : Rank(l) >= 0 => new.lists[l] = <<>>
      <3>1. \A l \in SameHits : new.lists[l] = <<>>
        <4> TAKE l \in SameHits
        <4>1. Rank(l) >= 0
          BY SameHitsFacts
        <4> QED
          BY <2>1, <4>1
      <3>2. CacheOK(new, d)
        BY <1>9 DEF Fewer
      <3>3. new.total = 0
        BY <3>1, <3>2, NoHits
      <3> QED
        BY <3>3
    <2> QED
      BY <1>9, <2>1 DEF EmptyFrom
  <1> QED
    BY <1>4, <1>9, <1>10 DEF LevelsDone, new

-----------------------------------------------------------------------------
(* The records that were never compressed are flushed. *)

CountsAfter(c, new, n, v, d) ==
    /\ CacheOK(new, d) /\ new.hits = c.hits /\ new.st = c.st
    /\ new.nlow[n] = v /\ \A m \in 1 .. LowHitsMax : m # n => new.nlow[m] = c.nlow[m]

\* The counts of records never compressed are others.
LEMMA CountsChanged ==
    ASSUME NEW c, NEW d, CacheOK(c, d), NEW n \in 1 .. LowHitsMax, NEW v \in Int, NEW w \in Int
    PROVE  CountsAfter(c, [c EXCEPT !.nlowtotal = w, !.nlow[n] = v], n, v, d)
  <1> DEFINE new == [c EXCEPT !.nlowtotal = w, !.nlow[n] = v]
             nlow == [c.nlow EXCEPT ![n] = v]
  <1>1. HasCacheFields(c) /\ c.nlow \in [0 .. SameHitsMin -> Int]
    BY DEF CacheOK, IsCache
  <1>2. n \in 0 .. SameHitsMin /\ \A m \in 1 .. LowHitsMax : m \in 0 .. SameHitsMin
    BY CacheNumbers
  <1>3. /\ nlow \in [0 .. SameHitsMin -> Int]
        /\ nlow[n] = v /\ \A m \in 0 .. SameHitsMin : m # n => nlow[m] = c.nlow[m]
    BY <1>1, <1>2
  <1>4. new = [c EXCEPT !.nlowtotal = w, !.nlow = nlow]
    OBVIOUS
  <1> HIDE DEF nlow, new
  <1>5. /\ HasCacheFields(new) /\ new.st = c.st /\ new.hits = c.hits /\ new.lists = c.lists
        /\ new.top = c.top /\ new.nlow = nlow /\ new.nlowtotal = w /\ new.total = c.total
    BY <1>1, <1>4 DEF HasCacheFields, CacheFields
  <1>6. IsCache(new)
    BY <1>3, <1>5 DEF CacheOK, IsCache
  <1>7. CacheOK(new, d)
    BY <1>5, <1>6 DEF CacheOK
  <1> QED
    BY <1>2, <1>3, <1>5, <1>7 DEF CountsAfter, new

LowDone(c, new, r, d) ==
    Fewer(c, new, d) /\ \A q \in Rec : q # r => new.hits[q] = c.hits[q]

\* One of the records never compressed.
LEMMA FlushIfLowFacts ==
    ASSUME NEW c, NEW d, CacheOK(c, d), LowOK(c), NEW n \in 1 .. LowHitsMax, NEW r \in Rec,
           Len(c.hits[r]) = n, NEW limit
    PROVE  LowDone(c, FlushIfLow(c, r, n, limit), r, d)
  <1>1. CASE ~ (c.nlow[n] > limit /\ c.st.rc[r].freq <= LowFreq)
    <2>1. FlushIfLow(c, r, n, limit) = c
      BY <1>1 DEF FlushIfLow
    <2> QED
      BY <2>1, FewerSame DEF LowDone
  <1>2. CASE c.nlow[n] > limit /\ c.st.rc[r].freq <= LowFreq
    <2> DEFINE mid == FlushRec(c, r)
               v == mid.nlow[n] - 1
               w == mid.nlowtotal - 1
               new == [mid EXCEPT !.nlowtotal = w, !.nlow[n] = v]
    <2>1. FlushIfLow(c, r, n, limit) = new
      BY <1>2 DEF FlushIfLow
    <2>2. n \in Nat \ {0} /\ n \in 0 .. SameHitsMin /\ c.hits[r] # <<>>
      <3>1. n \in Nat \ {0} /\ n \in 0 .. SameHitsMin
        BY CacheNumbers
      <3>2. Len(<<>>) = 0
        OBVIOUS
      <3> QED
        BY <3>1, <3>2
    <2>3. Flushes(c, mid, d, r)
      BY <2>2, FlushRecFacts
    <2> HIDE DEF mid
    <2>4. /\ Fewer(c, mid, d) /\ \A q \in Rec : q # r => mid.hits[q] = c.hits[q]
      BY <2>3, FlushesFewer
    <2>5. CacheOK(mid, d) /\ LowOK(mid) /\ mid.nlow = c.nlow
      BY <2>3, <2>4 DEF Fewer, Flushes
    <2>6. mid.nlow[n] \in Int /\ mid.nlowtotal \in Int
      BY <2>2, <2>5 DEF CacheOK, IsCache
    <2>7. v \in Int /\ w \in Int
      BY <2>6
    <2> DEFINE a == v
    <2>8. a = mid.nlow[n] - 1 /\ a \in Int
      BY <2>7
    <2> HIDE DEF v, w
    <2>9. CountsAfter(mid, new, n, v, d)
      BY Zenon, <2>5, <2>7, CountsChanged
    <2> HIDE DEF new
    <2>10. /\ CacheOK(new, d) /\ new.hits = mid.hits /\ new.st = mid.st
           /\ new.nlow[n] = v /\ \A m \in 1 .. LowHitsMax : m # n => new.nlow[m] = mid.nlow[m]
      BY <2>9 DEF CountsAfter
    <2>11. r \in LowSet(c, n) /\ LowSet(mid, n) = LowSet(c, n) \ {r}
      <3>1. HitOK(c.st, c.hits, d, r)
        BY DEF CacheOK
      <3>2. r \in DOMAIN c.st.rc
        BY <2>2, <3>1 DEF HitOK
      <3>3. r \in LowSet(c, n)
        BY <1>2, <3>2 DEF LowSet
      <3> QED
        BY <2>2, <2>3, <3>3, LowLess
    <2>12. Cardinality(LowSet(mid, n)) = Cardinality(LowSet(c, n)) - 1
           /\ Cardinality(LowSet(c, n)) \in Nat
      <3>1. IsFiniteSet(LowSet(c, n)) /\ Cardinality(LowSet(c, n)) \in Nat
        BY LowFinite
      <3> QED
        BY <2>11, <3>1, FS_RemoveElement
    <2>13. ASSUME NEW m \in 1 .. LowHitsMax PROVE Cardinality(LowSet(new, m)) <= new.nlow[m]
      <3>1. LowSet(new, m) = LowSet(mid, m)
        BY <2>10 DEF LowSet
      <3>2. CASE m = n
        <4>1. Cardinality(LowSet(c, n)) <= c.nlow[n] /\ c.nlow[n] \in Int
          BY <2>5, <2>6 DEF LowOK
        <4>2. new.nlow[m] = c.nlow[n] - 1
          BY <2>5, <2>8, <2>10, <3>2
        <4> QED
          BY <2>12, <3>1, <3>2, <4>1, <4>2
      <3>3. CASE m # n
        BY <2>5, <2>10, <3>1, <3>3 DEF LowOK
      <3> QED
        BY <3>2, <3>3
    <2>14. Fewer(c, new, d)
      BY <2>4, <2>10, <2>13 DEF Fewer, LowOK
    <2>15. \A q \in Rec : q # r => new.hits[q] = c.hits[q]
      BY <2>4, <2>10
    <2> QED
      BY <2>1, <2>14, <2>15 DEF LowDone
  <1> QED
    BY <1>1, <1>2

LowSteps(c, recs, m, limit, n) ==
    CHOOSE at : at = [i \in 0 .. n |-> IF i = 0 THEN c ELSE FlushIfLow(at[i - 1], recs[i], m, limit)]

AreLowSteps(at, c, recs, m, limit, n) ==
    at[0] = c /\ \A i \in 1 .. n : at[i] = FlushIfLow(at[i - 1], recs[i], m, limit)

\* The loop is defined.
LEMMA LowStepsExist ==
    ASSUME NEW c, NEW recs, NEW least, NEW limit, NEW n \in Nat
    PROVE  AreLowSteps(LowSteps(c, recs, least, limit, n), c, recs, least, limit, n)
  <1> DEFINE Step(y, i) == FlushIfLow(y, recs[i], least, limit)
             Is(g, m) == g = [i \in 0 .. m |-> IF i = 0 THEN c ELSE Step(g[i - 1], i)]
             P == {m \in 0 .. n : \E g : Is(g, m)}
             at == LowSteps(c, recs, least, limit, n)
  <1>1. at = CHOOSE g : Is(g, n)
    BY DEF LowSteps
  <1> HIDE DEF Step
  <1>2. 0 \in P
    <2> DEFINE g == [i \in 0 .. 0 |-> c]
    <2>1. Is(g, 0)
      OBVIOUS
    <2>2. 0 \in 0 .. n
      OBVIOUS
    <2> HIDE DEF g, Is
    <2> QED
      BY <2>1, <2>2
  <1>3. ASSUME NEW m \in 0 .. n - 1, m \in P PROVE m + 1 \in P
    <2>1. PICK h : Is(h, m)
      BY <1>3
    <2> DEFINE g == [i \in 0 .. m + 1 |-> IF i = m + 1 THEN Step(h[m], m + 1) ELSE h[i]]
    <2>2. (\A i \in 0 .. m : g[i] = h[i]) /\ g[m + 1] = Step(h[m], m + 1)
      OBVIOUS
    <2>3. g = [i \in 0 .. m + 1 |-> g[i]]
      OBVIOUS
    <2>4. ASSUME NEW i \in 0 .. m + 1 PROVE g[i] = IF i = 0 THEN c ELSE Step(g[i - 1], i)
      <3> HIDE DEF g
      <3>1. CASE i = m + 1
        BY <2>2, <3>1
      <3>2. CASE i # m + 1
        <4>1. i \in 0 .. m /\ (i # 0 => i - 1 \in 0 .. m)
          BY <3>2
        <4>2. h[i] = IF i = 0 THEN c ELSE Step(h[i - 1], i)
          BY <2>1, <4>1
        <4> QED
          BY <2>2, <4>1, <4>2
      <3> QED
        BY <3>1, <3>2
    <2> HIDE DEF g
    <2>5. Is(g, m + 1)
      BY <2>3, <2>4
    <2>6. m + 1 \in 0 .. n
      OBVIOUS
    <2> HIDE DEF Is
    <2> QED
      BY <2>5, <2>6
  <1>4. \E g : Is(g, n)
    <2>1. \A m \in 0 .. n : m \in P
      <3> HIDE DEF P
      <3> QED
        BY <1>2, <1>3, UpTo
    <2> QED
      BY <2>1
  <1>5. Is(at, n)
    <2> HIDE DEF Is, at
    <2> QED
      BY <1>1, <1>4
  <1> HIDE DEF at
  <1>6. at[0] = c /\ \A i \in 1 .. n : at[i] = Step(at[i - 1], i)
    BY <1>5
  <1> QED
    BY <1>6 DEF at, Step, AreLowSteps

\* Those with m hits.
LEMMA FlushLowFacts ==
    ASSUME NEW c, NEW d, CacheOK(c, d), LowOK(c), NEW m \in 1 .. LowHitsMax
    PROVE  Fewer(c, FlushLow(c, m), d)
  <1> DEFINE l == <<"small", m>>
             recs == c.lists[l]
             n == Len(recs)
             limit == c.nlow[m] \div 8
             at == LowSteps(c, recs, m, limit, n)
             P == {i \in 0 .. n :
                      /\ Fewer(c, at[i], d)
                      /\ \A j \in 1 .. n : j > i => at[i].hits[recs[j]] = c.hits[recs[j]]}
  <1>1. l \in SameHits /\ m \in 0 .. SameHitsMin
    BY CacheNumbers DEF SameHits
  <1>2. FlushLow(c, m) = at[n]
    BY DEF FlushLow, LowSteps
  <1>3. \A k : ListOf(k) = l => k = m
    BY DEF ListOf
  <1>4. ListsOnce(recs, Having(c.hits, l)) /\ Having(c.hits, l) \subseteq Rec
    BY <1>1 DEF CacheOK, ListsAre, Having
  <1> HIDE DEF l, limit
  <1>5. /\ n \in Nat /\ \A i \in 1 .. n : recs[i] \in Rec /\ Len(c.hits[recs[i]]) = m
        /\ \A i, j \in 1 .. n : recs[i] = recs[j] => i = j
    <2>1. recs \in Seq(Having(c.hits, l)) /\ IsInjective(recs)
      BY <1>4 DEF ListsOnce
    <2>2. \A e : e \in Having(c.hits, l) <=> \E i \in 1 .. n : recs[i] = e
      BY <1>4, ListsSome
    <2>3. n \in Nat /\ DOMAIN recs = 1 .. n
      BY <2>1
    <2>4. \A i, j \in 1 .. n : recs[i] = recs[j] => i = j
      BY <2>1, <2>3 DEF IsInjective
    <2>5. ASSUME NEW i \in 1 .. n PROVE recs[i] \in Rec /\ Len(c.hits[recs[i]]) = m
      <3>1. recs[i] \in Having(c.hits, l)
        BY <2>2
      <3> QED
        BY <1>3, <3>1 DEF Having
    <2> HIDE DEF recs, n
    <2> QED
      BY <2>3, <2>4, <2>5
  <1> HIDE DEF recs, n
  <1>6. at[0] = c /\ \A i \in 1 .. n : at[i] = FlushIfLow(at[i - 1], recs[i], m, limit)
    <2>1. AreLowSteps(LowSteps(c, recs, m, limit, n), c, recs, m, limit, n)
      BY <1>5, LowStepsExist
    <2> QED
      BY <2>1 DEF AreLowSteps
  <1> HIDE DEF at
  <1>7. 0 \in P
    <2>1. Fewer(c, at[0], d)
      BY <1>6, FewerSame
    <2> QED
      BY <1>5, <1>6, <2>1
  <1>8. ASSUME NEW i \in 0 .. n - 1, i \in P PROVE i + 1 \in P
    <2> DEFINE x == at[i]
               r == recs[i + 1]
               y == at[i + 1]
    <2>1. i + 1 \in 1 .. n /\ (i + 1) - 1 = i /\ i + 1 \in 0 .. n /\ i + 1 > i
      BY <1>5
    <2>2. Fewer(c, x, d) /\ \A j \in 1 .. n : j > i => x.hits[recs[j]] = c.hits[recs[j]]
      BY <1>8
    <2>3. r \in Rec /\ Len(x.hits[r]) = m
      BY <1>5, <2>1, <2>2
    <2>4. y = FlushIfLow(x, r, m, limit)
      BY <1>6, <2>1
    <2>5. CacheOK(x, d) /\ LowOK(x)
      BY <2>2 DEF Fewer
    <2>6. LowDone(x, y, r, d)
      <3> HIDE DEF x, y, r
      <3> QED
        BY <2>3, <2>4, <2>5, FlushIfLowFacts
    <2>7. Fewer(x, y, d) /\ \A q \in Rec : q # r => y.hits[q] = x.hits[q]
      BY <2>6 DEF LowDone
    <2>8. Fewer(c, y, d)
      <3> HIDE DEF x, y, r
      <3> QED
        BY <2>2, <2>7, FewerTwice
    <2>9. ASSUME NEW j \in 1 .. n, j > i + 1 PROVE y.hits[recs[j]] = c.hits[recs[j]]
      <3>1. recs[j] \in Rec /\ recs[j] # r /\ j > i
        BY <1>5, <2>1, <2>9
      <3> HIDE DEF x, y, r
      <3> QED
        BY <2>2, <2>7, <3>1
    <2> QED
      BY <2>1, <2>8, <2>9
  <1>9. \A i \in 0 .. n : i \in P
    <2> HIDE DEF P
    <2> QED
      BY <1>5, <1>7, <1>8, UpTo
  <1>10. Fewer(c, at[n], d)
    <2>1. n \in P
      BY <1>5, <1>9
    <2> QED
      BY <2>1
  <1> QED
    BY <1>2, <1>10

LowsSteps(c, n) ==
    CHOOSE at : at = [i \in 0 .. n |-> IF i = 0 THEN c ELSE FlushLow(at[i - 1], i)]

AreLowsSteps(at, c, n) ==
    at[0] = c /\ \A i \in 1 .. n : at[i] = FlushLow(at[i - 1], i)

\* The loop is defined.
LEMMA LowsStepsExist ==
    ASSUME NEW c, NEW n \in Nat
    PROVE  AreLowsSteps(LowsSteps(c, n), c, n)
  <1> DEFINE Step(y, i) == FlushLow(y, i)
             Is(g, m) == g = [i \in 0 .. m |-> IF i = 0 THEN c ELSE Step(g[i - 1], i)]
             P == {m \in 0 .. n : \E g : Is(g, m)}
             at == LowsSteps(c, n)
  <1>1. at = CHOOSE g : Is(g, n)
    BY DEF LowsSteps
  <1> HIDE DEF Step
  <1>2. 0 \in P
    <2> DEFINE g == [i \in 0 .. 0 |-> c]
    <2>1. Is(g, 0)
      OBVIOUS
    <2>2. 0 \in 0 .. n
      OBVIOUS
    <2> HIDE DEF g, Is
    <2> QED
      BY <2>1, <2>2
  <1>3. ASSUME NEW m \in 0 .. n - 1, m \in P PROVE m + 1 \in P
    <2>1. PICK h : Is(h, m)
      BY <1>3
    <2> DEFINE g == [i \in 0 .. m + 1 |-> IF i = m + 1 THEN Step(h[m], m + 1) ELSE h[i]]
    <2>2. (\A i \in 0 .. m : g[i] = h[i]) /\ g[m + 1] = Step(h[m], m + 1)
      OBVIOUS
    <2>3. g = [i \in 0 .. m + 1 |-> g[i]]
      OBVIOUS
    <2>4. ASSUME NEW i \in 0 .. m + 1 PROVE g[i] = IF i = 0 THEN c ELSE Step(g[i - 1], i)
      <3> HIDE DEF g
      <3>1. CASE i = m + 1
        BY <2>2, <3>1
      <3>2. CASE i # m + 1
        <4>1. i \in 0 .. m /\ (i # 0 => i - 1 \in 0 .. m)
          BY <3>2
        <4>2. h[i] = IF i = 0 THEN c ELSE Step(h[i - 1], i)
          BY <2>1, <4>1
        <4> QED
          BY <2>2, <4>1, <4>2
      <3> QED
        BY <3>1, <3>2
    <2> HIDE DEF g
    <2>5. Is(g, m + 1)
      BY <2>3, <2>4
    <2>6. m + 1 \in 0 .. n
      OBVIOUS
    <2> HIDE DEF Is
    <2> QED
      BY <2>5, <2>6
  <1>4. \E g : Is(g, n)
    <2>1. \A m \in 0 .. n : m \in P
      <3> HIDE DEF P
      <3> QED
        BY <1>2, <1>3, UpTo
    <2> QED
      BY <2>1
  <1>5. Is(at, n)
    <2> HIDE DEF Is, at
    <2> QED
      BY <1>1, <1>4
  <1> HIDE DEF at
  <1>6. at[0] = c /\ \A i \in 1 .. n : at[i] = Step(at[i - 1], i)
    BY <1>5
  <1> QED
    BY <1>6 DEF at, Step, AreLowsSteps

\* Those with few hits.
LEMMA FlushLowsFacts ==
    ASSUME NEW c, NEW d, CacheOK(c, d), LowOK(c)
    PROVE  Fewer(c, FlushLows(c), d)
  <1> DEFINE n == LowHitsMax
             at == LowsSteps(c, n)
             P == {i \in 0 .. n : Fewer(c, at[i], d)}
  <1>1. n \in Nat
    BY CacheNumbers
  <1>2. FlushLows(c) = at[n]
    BY DEF FlushLows, LowsSteps
  <1>3. at[0] = c /\ \A i \in 1 .. n : at[i] = FlushLow(at[i - 1], i)
    <2>1. AreLowsSteps(LowsSteps(c, n), c, n)
      BY <1>1, LowsStepsExist
    <2> QED
      BY <2>1 DEF AreLowsSteps
  <1> HIDE DEF at
  <1>4. 0 \in P
    BY <1>1, <1>3, FewerSame
  <1>5. ASSUME NEW i \in 0 .. n - 1, i \in P PROVE i + 1 \in P
    <2> DEFINE x == at[i]
               y == at[i + 1]
    <2>1. i + 1 \in 1 .. n /\ (i + 1) - 1 = i /\ i + 1 \in 0 .. n
      BY <1>1
    <2>2. y = FlushLow(x, i + 1) /\ Fewer(c, x, d)
      BY <1>3, <1>5, <2>1
    <2> HIDE DEF x, y
    <2>3. CacheOK(x, d) /\ LowOK(x)
      BY <2>2 DEF Fewer
    <2>4. Fewer(x, y, d)
      BY <2>1, <2>2, <2>3, FlushLowFacts DEF n
    <2>5. Fewer(c, y, d)
      BY <2>2, <2>4, FewerTwice
    <2> QED
      BY <2>1, <2>5 DEF y
  <1>6. \A i \in 0 .. n : i \in P
    <2> HIDE DEF P, n
    <2> QED
      BY <1>1, <1>4, <1>5, UpTo
  <1>7. n \in P
    BY <1>1, <1>6
  <1> QED
    BY <1>2, <1>7

\* indCacheFlushHits: no more hits than asked for are left.
LEMMA FlushHitsFacts ==
    ASSUME NEW c, NEW d, CacheOK(c, d), LowOK(c), NEW lowater \in Nat
    PROVE  LevelsDone(c, FlushHits(c, lowater), lowater, d)
  <1> DEFINE mid == IF c.nlowtotal >= lowater \div 3 THEN FlushLows(c) ELSE c
             new == FlushLevels(mid, lowater)
  <1>1. FlushHits(c, lowater) = new
    BY DEF FlushHits
  <1>2. Fewer(c, mid, d)
    BY FewerSame, FlushLowsFacts
  <1> HIDE DEF mid
  <1>3. CacheOK(mid, d) /\ LowOK(mid)
    BY <1>2 DEF Fewer
  <1>4. LevelsDone(mid, new, lowater, d)
    BY <1>3, FlushLevelsFacts
  <1> HIDE DEF new
  <1>5. Fewer(c, new, d) /\ new.total <= lowater
    BY <1>2, <1>4, FewerTwice DEF LevelsDone
  <1> QED
    BY <1>1, <1>5 DEF LevelsDone

-----------------------------------------------------------------------------
(* A record is entered. *)

EmptyRecord == [freq |-> 0, nfrags |-> 1, bitsize |-> 0, lastdoc |-> 0, blk |-> 0]

Entered(st, new, r) ==
    /\ Sound(new) /\ DOMAIN new.rc = DOMAIN st.rc \cup {r}
    /\ \A q \in DOMAIN st.rc : new.rc[q] = st.rc[q] /\ (DataOf(st, q) => DataOf(new, q))
    /\ r \notin DOMAIN st.rc => new.rc[r] = EmptyRecord /\ DataOf(new, r)

\* initnewrecord: a record without hits, fragments or a block.
LEMMA NewRecordFacts ==
    ASSUME NEW st, Sound(st), NEW r \in Rec
    PROVE  Entered(st, NewRecord(st, r), r)
  <1>1. CASE r \in DOMAIN st.rc
    <2>1. NewRecord(st, r) = st /\ DOMAIN st.rc = DOMAIN st.rc \cup {r}
      BY <1>1 DEF NewRecord
    <2> QED
      BY <1>1, <2>1 DEF Entered
  <1>2. CASE r \notin DOMAIN st.rc
    <2> DEFINE rc == With(st.rc, r, EmptyRecord)
               new == NewRecord(st, r)
    <2>1. new = [st EXCEPT !.rc = rc]
      BY <1>2 DEF NewRecord, EmptyRecord
    <2>2. /\ Body(st) /\ IsStore(st) /\ HasFields(st) /\ IsRc(st.rc)
          /\ CountOK(st.blocks, st.cachecnt) /\ FreeFits(st.free, Rooms(st.blocks))
      BY DEF Sound, Body, IsStore
    <2>3. /\ DOMAIN rc = DOMAIN st.rc \cup {r} /\ rc[r] = EmptyRecord
          /\ \A q \in DOMAIN st.rc : rc[q] = st.rc[q]
          /\ rc = [q \in DOMAIN rc |-> rc[q]]
      BY <1>2 DEF With
    <2>4. EmptyRecord \in RecData /\ EmptyRecord.nfrags = 1 /\ EmptyRecord.blk = 0 /\ EmptyRecord.bitsize = 0
      BY DEF EmptyRecord, RecData
    <2> HIDE DEF new, rc
    <2>5. IsRc(rc)
      <3>1. \A q \in DOMAIN rc : rc[q] \in RecData /\ q \in Rec
        BY <2>2, <2>3, <2>4 DEF IsRc
      <3> QED
        BY <2>3, <3>1 DEF IsRc
    <2>6. /\ HasFields(new) /\ new.rc = rc /\ new.blocks = st.blocks /\ new.lists = st.lists
          /\ new.free = st.free /\ new.cachecnt = st.cachecnt /\ new.blockcount = st.blockcount
          /\ new.blockout = st.blockout /\ new.maxlen = st.maxlen /\ new.ref = st.ref
          /\ new.rfb = st.rfb /\ new.fault = st.fault
      BY <2>1, <2>2 DEF HasFields, Fields
    <2>7. IsStore(new)
      BY <2>2, <2>5, <2>6 DEF IsStore
    <2>8. FragsOK(rc, st.blocks)
      <3>1. FragsOK(st.rc, st.blocks)
        BY <2>2 DEF Body
      <3>2. ASSUME NEW b \in DOMAIN st.blocks, NEW i \in DOMAIN st.blocks[b].recs
            PROVE  LET e == st.blocks[b].recs[i]
                   IN  e.rec \in DOMAIN rc /\ rc[e.rec].blk = b /\ e.frag = rc[e.rec].nfrags - 1
        <4> DEFINE e == st.blocks[b].recs[i]
        <4>1. e.rec \in DOMAIN st.rc /\ st.rc[e.rec].blk = b /\ e.frag = st.rc[e.rec].nfrags - 1
          BY <3>1 DEF FragsOK
        <4> HIDE DEF e
        <4>2. e.rec \in DOMAIN rc /\ rc[e.rec].blk = b /\ e.frag = rc[e.rec].nfrags - 1
          BY <2>3, <4>1
        <4> QED
          BY <4>2 DEF e
      <3>3. ASSUME NEW q \in DOMAIN rc, rc[q].blk # 0
            PROVE  /\ rc[q].blk \in DOMAIN st.blocks
                   /\ \E i \in DOMAIN st.blocks[rc[q].blk].recs : st.blocks[rc[q].blk].recs[i].rec = q
        <4>1. q \in DOMAIN st.rc /\ rc[q] = st.rc[q]
          BY <2>3, <2>4, <3>3
        <4> QED
          BY <3>1, <3>3, <4>1 DEF FragsOK
      <3> QED
        BY <3>1, <3>2, <3>3 DEF FragsOK
    <2>9. FilesOK(rc, st.ref, st.rfb, st.blockout)
      <3>1. FilesOK(st.rc, st.ref, st.rfb, st.blockout)
        BY <2>2 DEF Body
      <3>2. {k \in (DOMAIN rc) \X Nat : k[2] + 1 < rc[k[1]].nfrags}
              = {k \in (DOMAIN st.rc) \X Nat : k[2] + 1 < st.rc[k[1]].nfrags}
        <4>1. ASSUME NEW q \in DOMAIN rc, NEW n \in Nat
              PROVE  n + 1 < rc[q].nfrags <=> (q \in DOMAIN st.rc /\ n + 1 < st.rc[q].nfrags)
          <5>1. CASE q \in DOMAIN st.rc
            BY <2>3, <5>1
          <5>2. CASE q \notin DOMAIN st.rc
            BY <2>3, <2>4, <5>2
          <5> QED
            BY <5>1, <5>2
        <4> QED
          BY <2>3, <4>1
      <3> QED
        BY <3>1, <3>2 DEF FilesOK
    <2>10. Body(new)
      BY <2>2, <2>6, <2>7, <2>8, <2>9 DEF Body
    <2>11. Sound(new)
      BY <2>2, <2>6, <2>10 DEF Sound
    <2>12. r \in DOMAIN new.rc /\ new.rc[r].blk = 0 /\ new.rc[r].bitsize = 0
      BY <2>3, <2>4, <2>6
    <2>13. DataOf(new, r)
      BY <2>10, <2>12, DataOfNothing
    <2>14. ASSUME NEW q \in DOMAIN st.rc, DataOf(st, q) PROVE DataOf(new, q)
      <3>1. new.rc[q] = st.rc[q] /\ \A e : Cached(new, e) <=> Cached(st, e)
        BY <2>3, <2>6 DEF Cached
      <3> QED
        BY <2>14, <3>1 DEF DataOf
    <2> QED
      BY <2>3, <2>6, <2>11, <2>13, <2>14 DEF Entered, new
  <1> QED
    BY <1>1, <1>2

\* A record is entered, in the cache's view.
EntersCache(c, new, r, d) ==
    /\ CacheOK(new, d) /\ LowOK(new) /\ new.hits = c.hits /\ new.total = c.total
    /\ r \in DOMAIN new.st.rc /\ new.st = NewRecord(c.st, r)

\* initnewrecord, for the cache.
LEMMA EnteredFacts ==
    ASSUME NEW c, NEW d \in Nat, CacheOK(c, d), LowOK(c), NEW r \in Rec
    PROVE  EntersCache(c, [c EXCEPT !.st = NewRecord(@, r)], r, d)
  <1> DEFINE st == NewRecord(c.st, r)
             new == [c EXCEPT !.st = st]
  <1>1. HasCacheFields(c) /\ Sound(c.st)
    BY DEF CacheOK, IsCache
  <1>2. Entered(c.st, st, r)
    BY <1>1, NewRecordFacts
  <1>3. [c EXCEPT !.st = NewRecord(@, r)] = new
    OBVIOUS
  <1> HIDE DEF st
  <1>4. /\ HasCacheFields(new) /\ new.st = st /\ new.hits = c.hits /\ new.lists = c.lists
        /\ new.top = c.top /\ new.nlow = c.nlow /\ new.nlowtotal = c.nlowtotal /\ new.total = c.total
    BY <1>1 DEF HasCacheFields, CacheFields
  <1> HIDE DEF new
  <1>5. IsCache(new)
    BY <1>4 DEF CacheOK, IsCache
  <1>6. /\ Sound(st) /\ DOMAIN st.rc = DOMAIN c.st.rc \cup {r}
        /\ \A q \in DOMAIN c.st.rc : st.rc[q] = c.st.rc[q] /\ (DataOf(c.st, q) => DataOf(st, q))
        /\ r \notin DOMAIN c.st.rc => st.rc[r] = EmptyRecord /\ DataOf(st, r)
    BY <1>2 DEF Entered
  <1>7. ASSUME NEW q \in Rec PROVE HitOK(st, c.hits, d, q)
    <2>1. HitOK(c.st, c.hits, d, q)
      BY DEF CacheOK
    <2>2. CASE q \in DOMAIN c.st.rc
      BY <1>6, <2>1, <2>2 DEF HitOK
    <2>3. CASE q \notin DOMAIN c.st.rc /\ q = r
      <3>1. st.rc[r].lastdoc <= d
        BY <1>6, <2>3 DEF EmptyRecord
      <3>2. c.hits[r] = <<>>
        BY <2>1, <2>3 DEF HitOK
      <3>3. Ascending(c.hits[r], st.rc[r].lastdoc, d)
        BY <3>2, NonePending
      <3> QED
        BY <1>6, <2>1, <2>3, <3>1, <3>3 DEF HitOK
    <2>4. CASE q \notin DOMAIN c.st.rc /\ q # r
      BY <1>6, <2>1, <2>4 DEF HitOK
    <2> QED
      BY <2>2, <2>3, <2>4
  <1>8. CacheOK(new, d)
    BY <1>4, <1>5, <1>6, <1>7 DEF CacheOK
  <1>9. ASSUME NEW n \in 1 .. LowHitsMax PROVE Cardinality(LowSet(new, n)) <= new.nlow[n]
    <2>1. LowSet(new, n) = LowSet(c, n)
      <3>1. r \notin DOMAIN c.st.rc => Len(c.hits[r]) # n
        <4>1. HitOK(c.st, c.hits, d, r)
          BY DEF CacheOK
        <4>2. Len(<<>>) = 0 /\ n # 0
          BY CacheNumbers
        <4> QED
          BY <4>1, <4>2 DEF HitOK
      <3> QED
        BY <1>4, <1>6, <3>1 DEF LowSet
    <2> QED
      BY <1>4, <2>1 DEF LowOK
  <1>10. LowOK(new)
    BY <1>9 DEF LowOK
  <1>11. EntersCache(c, new, r, d)
    BY <1>4, <1>6, <1>8, <1>10 DEF EntersCache, st
  <1> QED
    BY <1>3, <1>11

-----------------------------------------------------------------------------
(* A hit more. *)

\* A hit of a later document.
LEMMA AscendingAppend ==
    ASSUME NEW hits, NEW last \in Nat, NEW d \in Docs, Ascending(hits, last, d), last < d,
           hits = <<>> \/ Last(hits) # d
    PROVE  Ascending(Append(hits, d), last, d)
  <1> DEFINE new == Append(hits, d)
             n == Len(hits)
  <1>1. hits \in Seq(Docs) /\ d \in Nat
    BY IndCacheAssumption DEF Ascending
  <1>2. /\ new \in Seq(Docs) /\ Len(new) = n + 1 /\ new[n + 1] = d /\ n \in Nat
        /\ \A i \in 1 .. n : new[i] = hits[i]
    BY <1>1
  <1>3. \A i \in 1 .. n : hits[i] \in Nat /\ last < hits[i] /\ hits[i] <= d
    <2>1. \A i \in 1 .. n : hits[i] \in Docs
      BY <1>1
    <2>2. \A i \in 1 .. n : hits[i] \in Nat
      BY <2>1, IndCacheAssumption
    <2> QED
      BY <2>2 DEF Ascending
  <1>4. \A i \in 1 .. n : hits[i] < d
    <2>1. ASSUME NEW i \in 1 .. n PROVE hits[i] < d
      <3>1. hits # <<>> /\ Last(hits) = hits[n] /\ n \in 1 .. n
        BY <1>1, <1>2 DEF Last
      <3>2. hits[n] < d
        BY <1>1, <1>3, <3>1
      <3>3. i < n => hits[i] < hits[n]
        BY <3>1 DEF Ascending
      <3> QED
        BY <1>1, <1>2, <1>3, <3>1, <3>2, <3>3
    <2> QED
      BY <2>1
  <1>5. \A i, j \in 1 .. n : i < j => hits[i] < hits[j]
    BY DEF Ascending
  <1> HIDE DEF new, n
  <1>6. ASSUME NEW i \in 1 .. n + 1 PROVE last < new[i] /\ new[i] <= d
    <2>1. CASE i = n + 1
      BY <1>1, <1>2, <2>1
    <2>2. CASE i # n + 1
      BY <1>2, <1>3, <2>2
    <2> QED
      BY <2>1, <2>2
  <1>7. ASSUME NEW i \in 1 .. n + 1, NEW j \in 1 .. n + 1, i < j PROVE new[i] < new[j]
    <2>1. i \in 1 .. n
      BY <1>2, <1>7
    <2>2. CASE j = n + 1
      BY <1>2, <1>4, <2>1, <2>2
    <2>3. CASE j # n + 1
      <3>1. j \in 1 .. n
        BY <1>2, <2>3
      <3> QED
        BY <1>2, <1>5, <1>7, <2>1, <3>1
    <2> QED
      BY <2>2, <2>3
  <1>8. Ascending(new, last, d)
    BY <1>2, <1>6, <1>7 DEF Ascending
  <1> QED
    BY <1>8 DEF new

MovedLists(lists, r, n) ==
    IF n > 1 /\ ListOf(n) = ListOf(n - 1) THEN lists
    ELSE [(IF n > 1 THEN [lists EXCEPT ![ListOf(n - 1)] = RemoveFirst(@, r)] ELSE lists)
            EXCEPT ![ListOf(n)] = Append(@, r)]

LowCounts(c, r, n) ==
    IF n > LowHitsMax + 1 \/ c.st.rc[r].freq > LowFreq THEN c.nlow
    ELSE [k \in DOMAIN c.nlow |-> CASE k = n /\ n <= LowHitsMax -> c.nlow[k] + 1
                                    [] k = n - 1 /\ n > 1 -> c.nlow[k] - 1
                                    [] OTHER -> c.nlow[k]]

AddedFields(c, new, r, d, n) ==
    /\ HasCacheFields(new) /\ new.st = c.st /\ new.hits = [c.hits EXCEPT ![r] = Append(@, d)]
    /\ new.lists = MovedLists(c.lists, r, n)
    /\ new.top = (IF n \div Quant > c.top THEN n \div Quant ELSE c.top)
    /\ new.nlow = LowCounts(c, r, n)
    /\ c.nlowtotal \in Int => new.nlowtotal \in Int
    /\ new.total = c.total + Weight(r)

\* The fields of the cache (indCacheAdd).
LEMMA AddedIsFields ==
    ASSUME NEW c, HasCacheFields(c), NEW r, NEW d, NEW n
    PROVE  AddedFields(c, Added(c, r, d, n), r, d, n)
  <1> DEFINE mid == Moved(c, r, n)
             low == CountLow(mid, r, n)
             new == Added(c, r, d, n)
             SameAs(x, y) == /\ HasCacheFields(x) /\ x.st = y.st /\ x.hits = y.hits
                             /\ x.top = y.top /\ x.total = y.total
  <1>1. SameAs(mid, c) /\ mid.lists = MovedLists(c.lists, r, n) /\ mid.nlow = c.nlow /\ mid.nlowtotal = c.nlowtotal
    <2>1. CASE n > 1 /\ ListOf(n) = ListOf(n - 1)
      BY <2>1 DEF Moved, MovedLists
    <2>2. CASE ~ (n > 1 /\ ListOf(n) = ListOf(n - 1))
      <3> DEFINE lists == IF n > 1 THEN [c.lists EXCEPT ![ListOf(n - 1)] = RemoveFirst(@, r)] ELSE c.lists
                 one == IF n > 1 THEN LeaveList(c, ListOf(n - 1), r) ELSE c
      <3>1. one = [c EXCEPT !.lists = lists]
        <4>1. CASE n > 1
          BY <4>1 DEF LeaveList
        <4>2. CASE ~ (n > 1)
          BY <4>2 DEF HasCacheFields, CacheFields
        <4> QED
          BY <4>1, <4>2
      <3>2. mid = [one EXCEPT !.lists[ListOf(n)] = Append(@, r)]
        BY <2>2 DEF Moved, EnterList
      <3>3. MovedLists(c.lists, r, n) = [lists EXCEPT ![ListOf(n)] = Append(@, r)]
        BY <2>2 DEF MovedLists
      <3> HIDE DEF one, lists, mid
      <3>4. SameAs(one, c) /\ one.lists = lists /\ one.nlow = c.nlow /\ one.nlowtotal = c.nlowtotal
        BY <3>1 DEF HasCacheFields, CacheFields
      <3> DEFINE moved == [lists EXCEPT ![ListOf(n)] = Append(@, r)]
      <3>5. mid = [one EXCEPT !.lists = moved]
        BY <3>2, <3>4
      <3> HIDE DEF moved
      <3>6. SameAs(mid, c) /\ mid.lists = moved /\ mid.nlow = c.nlow /\ mid.nlowtotal = c.nlowtotal
        BY <3>4, <3>5 DEF HasCacheFields, CacheFields
      <3> QED
        BY <3>3, <3>6 DEF moved
    <2> QED
      BY <2>1, <2>2
  <1> HIDE DEF mid
  <1>2. /\ SameAs(low, mid) /\ low.lists = mid.lists /\ low.nlow = LowCounts(mid, r, n)
        /\ mid.nlowtotal \in Int => low.nlowtotal \in Int
    <2>1. CASE n > LowHitsMax + 1 \/ mid.st.rc[r].freq > LowFreq
      BY <1>1, <2>1 DEF CountLow, LowCounts
    <2>2. CASE ~ (n > LowHitsMax + 1 \/ mid.st.rc[r].freq > LowFreq)
      <3> DEFINE nlow == LowCounts(mid, r, n)
                 w == mid.nlowtotal + (IF n = 1 THEN 1 ELSE 0) - (IF n = LowHitsMax + 1 THEN 1 ELSE 0)
      <3>1. low = [mid EXCEPT !.nlow = nlow, !.nlowtotal = w]
        BY <2>2 DEF CountLow, LowCounts
      <3>2. mid.nlowtotal \in Int => w \in Int
        OBVIOUS
      <3> HIDE DEF low, nlow, w
      <3>3. SameAs(low, mid) /\ low.lists = mid.lists /\ low.nlow = nlow /\ low.nlowtotal = w
        BY <1>1, <3>1 DEF HasCacheFields, CacheFields
      <3> QED
        BY <3>2, <3>3 DEF nlow
    <2> QED
      BY <2>1, <2>2
  <1>3. LowCounts(mid, r, n) = LowCounts(c, r, n)
    BY <1>1 DEF LowCounts
  <1> HIDE DEF low
  <1> DEFINE hits == [low.hits EXCEPT ![r] = Append(@, d)]
             total == low.total + Weight(r)
             top == IF n \div Quant > low.top THEN n \div Quant ELSE low.top
             one == [low EXCEPT !.hits = hits, !.total = total]
  <1>4. new = [one EXCEPT !.top = top]
    <2>1. new = [low EXCEPT !.hits[r] = Append(@, d), !.total = @ + Weight(r),
                            !.top = IF n \div Quant > @ THEN n \div Quant ELSE @]
      BY DEF Added, low, mid
    <2>2. new = [low EXCEPT !.hits = hits, !.total = total, !.top = top]
      BY <2>1
    <2> HIDE DEF hits, total, top, new
    <2> QED
      BY <2>2
  <1>5. /\ hits = [c.hits EXCEPT ![r] = Append(@, d)] /\ total = c.total + Weight(r)
        /\ top = (IF n \div Quant > c.top THEN n \div Quant ELSE c.top)
    BY <1>1, <1>2
  <1> HIDE DEF hits, total, top, new
  <1>6. /\ HasCacheFields(one) /\ one.st = low.st /\ one.hits = hits /\ one.total = total
        /\ one.lists = low.lists /\ one.nlow = low.nlow /\ one.nlowtotal = low.nlowtotal
    BY <1>2 DEF HasCacheFields, CacheFields
  <1> HIDE DEF one
  <1>7. /\ HasCacheFields(new) /\ new.st = low.st /\ new.hits = hits /\ new.total = total
        /\ new.lists = low.lists /\ new.nlow = low.nlow /\ new.nlowtotal = low.nlowtotal /\ new.top = top
    BY <1>4, <1>6 DEF HasCacheFields, CacheFields
  <1>8. AddedFields(c, new, r, d, n)
    BY <1>1, <1>2, <1>3, <1>5, <1>7 DEF AddedFields
  <1> QED
    BY <1>8 DEF new

\* A hit more, and the record is in the next list.
MovedAfter(lists, hits, moved, new, r, n) ==
    /\ moved \in [SameHits -> Seq(Rec)] /\ ListsAre(moved, new)
    /\ \A l \in SameHits : l # ListOf(n) => Having(new, l) \subseteq Having(hits, l)

\* The record moves to the next list.
LEMMA ListsMoved ==
    ASSUME NEW hits \in [Rec -> Seq(Docs)], NEW lists \in [SameHits -> Seq(Rec)],
           ListsAre(lists, hits), NEW r \in Rec, NEW d \in Docs, NEW n \in 1 .. MaxRecHits,
           Len(hits[r]) = n - 1
    PROVE  MovedAfter(lists, hits, MovedLists(lists, r, n), [hits EXCEPT ![r] = Append(@, d)], r, n)
  <1> DEFINE new == [hits EXCEPT ![r] = Append(@, d)]
             moved == MovedLists(lists, r, n)
             m == ListOf(n)
             p == ListOf(n - 1)
  <1>1. n \in Nat /\ n \in 0 .. MaxRecHits /\ n - 1 \in 0 .. MaxRecHits
    BY CacheNumbers
  <1>2. m \in SameHits /\ p \in SameHits
    BY <1>1, ListOfFacts
  <1>3. new[r] # <<>> /\ Len(new[r]) = n /\ \A q \in Rec : q # r => new[q] = hits[q]
    <2>1. new[r] = Append(hits[r], d) /\ \A q \in Rec : q # r => new[q] = hits[q]
      OBVIOUS
    <2>2. hits[r] \in Seq(Docs)
      OBVIOUS
    <2>3. Append(hits[r], d) # <<>> /\ Len(Append(hits[r], d)) = Len(hits[r]) + 1
      BY <2>2
    <2> HIDE DEF new
    <2> QED
      BY <1>1, <2>1, <2>3
  <1>4. hits[r] = <<>> <=> n = 1
    <2>1. hits[r] \in Seq(Docs) /\ Len(hits[r]) = n - 1
      OBVIOUS
    <2> QED
      BY <1>1, <2>1
  <1> HIDE DEF new
  <1>5. \A l \in SameHits : Having(new, l) = (Having(hits, l) \ {r}) \cup (IF l = m THEN {r} ELSE {})
    <2> TAKE l \in SameHits
    <2>1. r \in Having(new, l) <=> l = m
      BY <1>3 DEF Having
    <2>2. \A q : q # r => (q \in Having(new, l) <=> q \in Having(hits, l))
      BY <1>3 DEF Having
    <2> QED
      BY <2>1, <2>2
  <1>6. \A l \in SameHits : r \in Having(hits, l) <=> n > 1 /\ l = p
    <2> TAKE l \in SameHits
    <2>1. r \in Having(hits, l) <=> hits[r] # <<>> /\ ListOf(Len(hits[r])) = l
      BY DEF Having
    <2>2. hits[r] # <<>> <=> n > 1
      BY <1>1, <1>4
    <2> QED
      BY <2>1, <2>2
  <1>7. \A l \in SameHits : ListsOnce(lists[l], Having(hits, l))
    BY DEF ListsAre
  <1>8. CASE n > 1 /\ m = p
    <2>1. moved = lists
      BY <1>8 DEF MovedLists
    <2>2. \A l \in SameHits : Having(new, l) = Having(hits, l)
      BY <1>5, <1>6, <1>8
    <2> QED
      BY <1>7, <2>1, <2>2 DEF MovedAfter, ListsAre, new
  <1>9. CASE ~ (n > 1 /\ m = p)
    <2> DEFINE left == IF n > 1 THEN [lists EXCEPT ![p] = RemoveFirst(@, r)] ELSE lists
    <2>1. moved = [left EXCEPT ![m] = Append(@, r)]
      BY <1>9 DEF MovedLists
    <2> HIDE DEF moved, m, p
    <2>2. /\ DOMAIN left = SameHits /\ left = [l \in SameHits |-> left[l]]
          /\ \A l \in SameHits : left[l] = IF n > 1 /\ l = p THEN RemoveFirst(lists[l], r) ELSE lists[l]
      BY <1>2
    <2> HIDE DEF left
    <2>3. ASSUME NEW l \in SameHits PROVE ListsOnce(left[l], Having(hits, l) \ {r})
      <3>1. CASE n > 1 /\ l = p
        <4>1. r \in Having(hits, l)
          BY <1>6, <3>1
        <4>2. ListsOnce(RemoveFirst(lists[l], r), Having(hits, l) \ {r})
          BY <1>7, <4>1, Unlinked
        <4> QED
          BY <2>2, <3>1, <4>2
      <3>2. CASE ~ (n > 1 /\ l = p)
        <4>1. r \notin Having(hits, l)
          BY <1>6, <3>2
        <4>2. Having(hits, l) \ {r} = Having(hits, l) /\ left[l] = lists[l]
          BY <2>2, <3>2, <4>1
        <4> QED
          BY <1>7, <4>2
      <3> QED
        BY <3>1, <3>2
    <2>4. /\ DOMAIN moved = SameHits /\ moved = [l \in SameHits |-> moved[l]]
          /\ \A l \in SameHits : moved[l] = IF l = m THEN Append(left[l], r) ELSE left[l]
      BY <1>2, <2>1, <2>2
    <2>5. ASSUME NEW l \in SameHits PROVE ListsOnce(moved[l], Having(new, l)) /\ moved[l] \in Seq(Rec)
      <3> DEFINE S == Having(hits, l) \ {r}
                 q == left[l]
      <3>1. q \in Seq(S) /\ IsInjective(q) /\ ToSet(q) = S
        BY <2>3 DEF ListsOnce
      <3>2. S \subseteq Rec /\ r \notin S /\ Having(new, l) = S \cup (IF l = m THEN {r} ELSE {})
        BY <1>5 DEF Having
      <3>3. moved[l] = IF l = m THEN Append(q, r) ELSE q
        BY <2>4
      <3> HIDE DEF S, q
      <3>4. CASE l = m
        <4> DEFINE T == S \cup {r}
        <4>1. q \in Seq(T) /\ r \in T /\ r \notin ToSet(q)
          <5>1. S \subseteq T
            OBVIOUS
          <5>2. q \in Seq(T)
            <6>1. ListsOnce(q, S)
              BY <3>1 DEF ListsOnce
            <6> HIDE DEF T
            <6> QED
              BY <5>1, <6>1, ListsSome
          <5> QED
            BY <3>1, <3>2, <5>2
        <4> HIDE DEF T
        <4>2. /\ Append(q, r) \in Seq(T) /\ ToSet(Append(q, r)) = ToSet(q) \cup {r}
              /\ IsInjective(Append(q, r))
          BY <3>1, <4>1, AppendFacts
        <4>3. ListsOnce(Append(q, r), T)
          BY <3>1, <4>2 DEF ListsOnce, T
        <4>4. Having(new, l) = T
          BY <3>2, <3>4 DEF T
        <4>5. T \subseteq Rec
          BY <3>2 DEF T
        <4>6. Append(q, r) \in Seq(Rec)
          BY <4>3, <4>5, ListsSome
        <4> QED
          BY <3>3, <3>4, <4>3, <4>4, <4>6
      <3>5. CASE l # m
        <4>1. Having(new, l) = S /\ ListsOnce(q, S)
          BY <3>1, <3>2, <3>5 DEF ListsOnce
        <4>2. q \in Seq(Rec)
          BY <3>2, <4>1, ListsSome
        <4> QED
          BY <3>3, <3>5, <4>1, <4>2
      <3> QED
        BY <3>4, <3>5
    <2>6. moved \in [SameHits -> Seq(Rec)] /\ ListsAre(moved, new)
      BY <2>4, <2>5 DEF ListsAre
    <2>7. \A l \in SameHits : l # m => Having(new, l) \subseteq Having(hits, l)
      BY <1>5
    <2> QED
      BY <2>6, <2>7 DEF MovedAfter, moved, new, m
  <1> QED
    BY <1>8, <1>9

\* The longest list.
LEMMA TopMoved ==
    ASSUME NEW hits, NEW lists, ListsAre(lists, hits), NEW top \in 0 .. TopMost, TopIs(top, lists),
           NEW moved, NEW new, NEW r, NEW n \in 1 .. MaxRecHits, MovedAfter(lists, hits, moved, new, r, n)
    PROVE  LET t == IF n \div Quant > top THEN n \div Quant ELSE top
           IN  t \in 0 .. TopMost /\ TopIs(t, moved)
  <1> DEFINE k == n \div Quant
             t == IF k > top THEN k ELSE top
  <1>1. k \in 0 .. TopMost /\ (ListOf(n) = <<"small", n>> \/ ListOf(n) = <<"big", k>>)
    <2>1. n \in 0 .. MaxRecHits
      BY CacheNumbers
    <2> QED
      BY <2>1, ListOfFacts
  <1> HIDE DEF k
  <1>2. t \in 0 .. TopMost /\ top <= t /\ k <= t
    BY <1>1, CacheNumbers
  <1> HIDE DEF t
  <1>3. ASSUME NEW j \in 0 .. TopMost, moved[<<"big", j>>] # <<>> PROVE j <= t
    <2> DEFINE l == <<"big", j>>
    <2>1. l \in SameHits
      BY DEF SameHits, TopMost
    <2>2. CASE l = ListOf(n)
      <3>1. j = k
        BY <1>1, <2>2
      <3> QED
        BY <1>2, <3>1
    <2>3. CASE l # ListOf(n)
      <3>1. Having(new, l) \subseteq Having(hits, l)
        BY <2>1, <2>3 DEF MovedAfter
      <3>2. ListsOnce(moved[l], Having(new, l)) /\ ListsOnce(lists[l], Having(hits, l))
        BY <2>1 DEF MovedAfter, ListsAre
      <3>3. moved[l] # <<>>
        BY <1>3
      <3> HIDE DEF l
      <3>4. lists[l] # <<>>
        BY <3>1, <3>2, <3>3, ListsNothing
      <3>5. j <= top
        BY <3>4 DEF TopIs, l
      <3> QED
        BY <1>1, <1>2, <3>5, CacheNumbers
    <2> QED
      BY <2>2, <2>3
  <1> QED
    BY <1>2, <1>3 DEF TopIs, t, k

\* One more.
MoreLow(c, d, n, r, m) ==
    LET set == LowSet(c, m)
    IN  IF n > LowHitsMax + 1 \/ c.st.rc[r].freq > LowFreq THEN set
        ELSE IF m = n THEN set \cup {r} ELSE IF m = n - 1 THEN set \ {r} ELSE set

\* The records with m hits that were never compressed.
LEMMA LowMoves ==
    ASSUME NEW c, NEW d, CacheOK(c, d), NEW r \in DOMAIN c.st.rc, NEW n \in 1 .. MaxRecHits,
           Len(c.hits[r]) = n - 1, NEW new, new.st = c.st, new.hits \in [Rec -> Seq(Docs)],
           Len(new.hits[r]) = n, \A q \in Rec \ {r} : new.hits[q] = c.hits[q],
           NEW m \in 1 .. LowHitsMax
    PROVE  /\ LowSet(new, m) = MoreLow(c, d, n, r, m)
           /\ m = n => r \notin LowSet(c, m)
           /\ m = n - 1 /\ c.st.rc[r].freq <= LowFreq => r \in LowSet(c, m)
  <1>1. DOMAIN c.st.rc \subseteq Rec /\ r \in Rec /\ c.st.rc[r].freq \in Nat
    BY DEF CacheOK, Sound, Body, IsStore, IsRc, RecData
  <1>2. LowHitsMax \in Nat /\ LowFreq \in Nat /\ n \in Nat /\ m \in Nat /\ n \in 1 .. MaxRecHits
        /\ MaxRecHits \in Nat
    BY CacheNumbers
  <1>3. \A q : q # r => (q \in LowSet(new, m) <=> q \in LowSet(c, m))
    BY <1>1 DEF LowSet
  <1>4. r \in LowSet(new, m) <=> m = n /\ c.st.rc[r].freq <= LowFreq
    BY DEF LowSet
  <1>5. r \in LowSet(c, m) <=> m = n - 1 /\ c.st.rc[r].freq <= LowFreq
    BY DEF LowSet
  <1> DEFINE old == LowSet(c, m)
             now == LowSet(new, m)
             f == c.st.rc[r].freq
  <1> HIDE DEF old, now, f
  <1>6. \A q : q # r => (q \in now <=> q \in old)
    BY <1>3 DEF old, now
  <1>7. (r \in now <=> m = n /\ f <= LowFreq) /\ (r \in old <=> m = n - 1 /\ f <= LowFreq) /\ f \in Nat
    BY <1>1, <1>4, <1>5 DEF old, now, f
  <1>8. now = IF n > LowHitsMax + 1 \/ f > LowFreq THEN old
              ELSE IF m = n THEN old \cup {r} ELSE IF m = n - 1 THEN old \ {r} ELSE old
    <2>1. CASE n > LowHitsMax + 1 \/ f > LowFreq
      <3>1. r \notin now /\ r \notin old
        BY <1>2, <1>7, <2>1
      <3>2. \A q : q \in now <=> q \in old
        BY <1>6, <3>1
      <3>3. now = old
        BY <3>2
      <3> QED
        BY <2>1, <3>3
    <2>2. CASE ~ (n > LowHitsMax + 1 \/ f > LowFreq)
      <3>1. f <= LowFreq
        BY <1>2, <1>7, <2>2
      <3>2. (r \in now <=> m = n) /\ (r \in old <=> m = n - 1)
        BY <1>7, <3>1
      <3>3. m = n => m # n - 1
        BY <1>2
      <3>4. CASE m = n
        <4>1. now = old \cup {r}
          BY <1>6, <3>2, <3>4
        <4> QED
          BY <2>2, <3>4, <4>1
      <3>5. CASE m # n /\ m = n - 1
        <4>1. now = old \ {r}
          BY <1>6, <3>2, <3>5
        <4> QED
          BY <2>2, <3>5, <4>1
      <3>6. CASE m # n /\ m # n - 1
        <4>1. now = old
          <5>1. \A q : q \in now <=> q \in old
            BY <1>6, <3>2, <3>6
          <5> QED
            BY <5>1
        <4> QED
          BY <2>2, <3>6, <4>1
      <3> QED
        BY <3>4, <3>5, <3>6
    <2> QED
      BY <2>1, <2>2
  <1>9. LowSet(new, m) = MoreLow(c, d, n, r, m)
    BY <1>8 DEF MoreLow, old, now, f
  <1> QED
    BY <1>2, <1>5, <1>9

\* The counts are not short.
LEMMA LowCounted ==
    ASSUME NEW c, NEW d, CacheOK(c, d), LowOK(c), NEW r \in DOMAIN c.st.rc, NEW n \in 1 .. MaxRecHits,
           Len(c.hits[r]) = n - 1, NEW new, new.st = c.st, new.hits \in [Rec -> Seq(Docs)],
           Len(new.hits[r]) = n, \A q \in Rec \ {r} : new.hits[q] = c.hits[q],
           new.nlow = LowCounts(c, r, n)
    PROVE  new.nlow \in [0 .. SameHitsMin -> Int] /\ LowOK(new)
  <1>1. c.nlow \in [0 .. SameHitsMin -> Int]
    BY DEF CacheOK, IsCache
  <1>2. LowHitsMax \in Nat /\ n \in Nat /\ SameHitsMin \in Nat /\ LowHitsMax <= SameHitsMin
    BY CacheNumbers
  <1>3. new.nlow \in [0 .. SameHitsMin -> Int]
    <2>1. CASE n > LowHitsMax + 1 \/ c.st.rc[r].freq > LowFreq
      BY <1>1, <2>1 DEF LowCounts
    <2>2. CASE ~ (n > LowHitsMax + 1 \/ c.st.rc[r].freq > LowFreq)
      <3> DEFINE G(k) == CASE k = n /\ n <= LowHitsMax -> c.nlow[k] + 1
                           [] k = n - 1 /\ n > 1 -> c.nlow[k] - 1
                           [] OTHER -> c.nlow[k]
      <3>1. new.nlow = [k \in 0 .. SameHitsMin |-> G(k)]
        BY <1>1, <2>2 DEF LowCounts
      <3>2. ASSUME NEW k \in 0 .. SameHitsMin PROVE G(k) \in Int
        <4>1. c.nlow[k] \in Int
          BY <1>1
        <4>2. k \in Int
          BY <1>2
        <4>3. n = n - 1 => FALSE
          BY <1>2
        <4>4. CASE k = n /\ n <= LowHitsMax
          BY <4>1, <4>3, <4>4
        <4>5. CASE k # n /\ k = n - 1 /\ n > 1
          BY <4>1, <4>5
        <4>6. CASE ~ (k = n /\ n <= LowHitsMax) /\ ~ (k = n - 1 /\ n > 1)
          <5>1. G(k) = c.nlow[k]
            BY <4>6
          <5> QED
            BY <4>1, <5>1
        <4> QED
          BY <4>2, <4>3, <4>4, <4>5, <4>6
      <3> HIDE DEF G
      <3> QED
        BY <3>1, <3>2
    <2> QED
      BY <2>1, <2>2
  <1>4. ASSUME NEW m \in 1 .. LowHitsMax PROVE Cardinality(LowSet(new, m)) <= new.nlow[m]
    <2> DEFINE old == LowSet(c, m)
               now == LowSet(new, m)
               v == c.nlow[m]
               none == n > LowHitsMax + 1 \/ c.st.rc[r].freq > LowFreq
    <2>1. m \in 0 .. SameHitsMin /\ m \in Nat /\ m <= LowHitsMax /\ m >= 1
      BY <1>2
    <2>2. new.nlow[m] = IF none THEN v ELSE IF m = n THEN v + 1 ELSE IF m = n - 1 THEN v - 1 ELSE v
      <3>1. CASE none
        BY <3>1 DEF LowCounts
      <3>2. CASE ~ none
        <4>1. new.nlow[m] = CASE m = n /\ n <= LowHitsMax -> c.nlow[m] + 1
                              [] m = n - 1 /\ n > 1 -> c.nlow[m] - 1
                              [] OTHER -> c.nlow[m]
          BY <1>1, <2>1, <3>2 DEF LowCounts
        <4> HIDE DEF none
        <4>2. CASE m = n
          BY <1>2, <2>1, <3>2, <4>1, <4>2
        <4>3. CASE m # n /\ m = n - 1
          BY <1>2, <2>1, <3>2, <4>1, <4>3
        <4>4. CASE m # n /\ m # n - 1
          BY <1>2, <2>1, <3>2, <4>1, <4>4
        <4> QED
          BY <4>2, <4>3, <4>4
      <3> QED
        BY <3>1, <3>2
    <2>3. /\ now = IF none THEN old ELSE IF m = n THEN old \cup {r} ELSE IF m = n - 1 THEN old \ {r} ELSE old
          /\ m = n => r \notin old
          /\ m = n - 1 /\ ~ none => r \in old
      <3>1. c.st.rc[r].freq \in Nat /\ LowFreq \in Nat
        BY CacheNumbers DEF CacheOK, Sound, Body, IsStore, IsRc, RecData
      <3>2. LowSet(new, m) = MoreLow(c, d, n, r, m)
        BY LowMoves
      <3>3. /\ m = n => r \notin LowSet(c, m)
            /\ m = n - 1 /\ c.st.rc[r].freq <= LowFreq => r \in LowSet(c, m)
        BY LowMoves
      <3>4. ~ none => c.st.rc[r].freq <= LowFreq
        BY <3>1
      <3>5. now = IF none THEN old ELSE IF m = n THEN old \cup {r} ELSE IF m = n - 1 THEN old \ {r} ELSE old
        BY <3>2 DEF MoreLow
      <3> HIDE DEF none, now
      <3> QED
        BY <3>3, <3>4, <3>5
    <2>4. IsFiniteSet(old) /\ Cardinality(old) \in Nat
      BY LowFinite
    <2>5. Cardinality(old) <= v /\ v \in Int
      BY <1>1, <2>1 DEF LowOK
    <2> HIDE DEF old, now, v, none
    <2>6. CASE ~ none /\ m = n
      <3>1. Cardinality(now) = Cardinality(old) + 1
        BY <2>3, <2>4, <2>6, FS_AddElement
      <3> QED
        BY <2>2, <2>4, <2>5, <2>6, <3>1 DEF now
    <2>7. CASE ~ none /\ m # n /\ m = n - 1
      <3>1. now = old \ {r} /\ r \in old
        BY <2>3, <2>7
      <3>2. Cardinality(now) = Cardinality(old) - 1
        BY <2>4, <3>1, FS_RemoveElement
      <3> QED
        BY <2>2, <2>4, <2>5, <2>7, <3>2 DEF now
    <2>8. CASE none \/ (m # n /\ m # n - 1)
      <3>1. now = old /\ new.nlow[m] = v
        BY <2>2, <2>3, <2>8
      <3> QED
        BY <2>5, <3>1 DEF now
    <2> QED
      BY <2>6, <2>7, <2>8
  <1> QED
    BY <1>3, <1>4 DEF LowOK

AddedTo(c, new, r, d, n) ==
    /\ CacheOK(new, d) /\ LowOK(new) /\ new.total = c.total + Weight(r)
    /\ Len(new.hits[r]) = n /\ \A q \in Rec : q # r => new.hits[q] = c.hits[q]

\* A hit is in the cache.
LEMMA AddedFacts ==
    ASSUME NEW c, NEW d \in Docs, CacheOK(c, d), LowOK(c), NEW r \in DOMAIN c.st.rc,
           c.st.rc[r].lastdoc < d, c.hits[r] = <<>> \/ Last(c.hits[r]) # d,
           NEW n \in 1 .. MaxRecHits, Len(c.hits[r]) = n - 1
    PROVE  AddedTo(c, Added(c, r, d, n), r, d, n)
  <1> DEFINE new == Added(c, r, d, n)
  <1>1. DOMAIN c.st.rc \subseteq Rec /\ r \in Rec /\ c.st.rc[r].lastdoc \in Nat
    BY DEF CacheOK, Sound, Body, IsStore, IsRc, RecData
  <1>2. /\ c.hits \in [Rec -> Seq(Docs)] /\ c.lists \in [SameHits -> Seq(Rec)]
        /\ c.top \in 0 .. TopMost /\ c.nlow \in [0 .. SameHitsMin -> Int]
        /\ c.nlowtotal \in Int /\ c.total \in Int /\ HasCacheFields(c)
    BY DEF CacheOK, IsCache
  <1>3. AddedFields(c, new, r, d, n)
    BY <1>2, AddedIsFields
  <1> HIDE DEF new
  <1>4. /\ HasCacheFields(new) /\ new.st = c.st /\ new.hits = [c.hits EXCEPT ![r] = Append(@, d)]
        /\ new.lists = MovedLists(c.lists, r, n) /\ new.nlow = LowCounts(c, r, n)
        /\ new.top = (IF n \div Quant > c.top THEN n \div Quant ELSE c.top)
        /\ new.nlowtotal \in Int /\ new.total = c.total + Weight(r)
    BY <1>2, <1>3 DEF AddedFields
  <1>5. Append(c.hits[r], d) \in Seq(Docs) /\ Len(Append(c.hits[r], d)) = n
    <2> DEFINE hits == c.hits[r]
    <2>1. hits \in Seq(Docs) /\ Len(hits) = n - 1 /\ n \in Int
      BY <1>1, <1>2
    <2> HIDE DEF hits
    <2>2. Append(hits, d) \in Seq(Docs) /\ Len(Append(hits, d)) = n
      BY <2>1
    <2> QED
      BY <2>2 DEF hits
  <1>6. /\ new.hits \in [Rec -> Seq(Docs)] /\ Len(new.hits[r]) = n /\ new.hits[r] = Append(c.hits[r], d)
        /\ \A q \in Rec : q # r => new.hits[q] = c.hits[q]
    BY <1>1, <1>2, <1>4, <1>5
  <1>7. ASSUME NEW q \in Rec PROVE HitOK(new.st, new.hits, d, q)
    <2>1. HitOK(c.st, c.hits, d, q)
      BY DEF CacheOK
    <2>2. CASE q # r
      <3>1. new.hits[q] = c.hits[q] /\ new.st = c.st
        BY <1>4, <1>6, <2>2
      <3> QED
        BY <2>1, <3>1 DEF HitOK
    <2>3. CASE q = r
      <3> DEFINE hits == c.hits[r]
                 last == c.st.rc[r].lastdoc
      <3>1. Ascending(hits, last, d) /\ last <= d /\ DataOf(c.st, r)
        BY <2>1, <2>3 DEF HitOK
      <3>2. last \in Nat /\ last < d /\ (hits = <<>> \/ Last(hits) # d)
        BY <1>1
      <3> HIDE DEF hits, last
      <3>3. Ascending(Append(hits, d), last, d)
        BY <3>1, <3>2, AscendingAppend
      <3>4. Len(new.hits[r]) <= MaxRecHits
        BY <1>6, CacheNumbers
      <3> QED
        BY <1>4, <1>6, <2>3, <3>1, <3>3, <3>4 DEF HitOK, hits, last
    <2> QED
      BY <2>2, <2>3
  <1>8. MovedAfter(c.lists, c.hits, new.lists, new.hits, r, n)
    <2>1. ListsAre(c.lists, c.hits)
      BY DEF CacheOK
    <2> DEFINE hits == c.hits
               lists == c.lists
    <2>2. hits \in [Rec -> Seq(Docs)] /\ lists \in [SameHits -> Seq(Rec)] /\ ListsAre(lists, hits)
      BY <1>2, <2>1
    <2>3. r \in Rec /\ Len(hits[r]) = n - 1
      BY <1>1
    <2> HIDE DEF hits, lists
    <2>4. MovedAfter(lists, hits, MovedLists(lists, r, n), [hits EXCEPT ![r] = Append(@, d)], r, n)
      BY <2>2, <2>3, ListsMoved
    <2> QED
      BY <1>4, <2>4 DEF hits, lists
  <1>9. new.top \in 0 .. TopMost /\ TopIs(new.top, new.lists)
    <2>1. ListsAre(c.lists, c.hits) /\ TopIs(c.top, c.lists)
      BY DEF CacheOK
    <2>2. LET t == IF n \div Quant > c.top THEN n \div Quant ELSE c.top
          IN  t \in 0 .. TopMost /\ TopIs(t, new.lists)
      <3> HIDE DEF TopMost
      <3> QED
        BY <1>1, <1>2, <1>8, <2>1, TopMoved
    <2> QED
      BY <1>4, <2>2
  <1>10. TotalIs(new.total, new.hits) /\ new.total \in Int
    <2> DEFINE a == Len(new.hits[r]) * Weight(r)
               b == Len(c.hits[r]) * Weight(r)
    <2>1. TotalIs(c.total, c.hits)
      BY DEF CacheOK
    <2>2. TotalIs(c.total + Len(new.hits[r]) * Weight(r) - Len(c.hits[r]) * Weight(r), new.hits)
      BY <1>1, <1>2, <1>6, <2>1, TotalChanges
    <2>3. TotalIs(c.total + a - b, new.hits)
      BY <2>2
    <2>4. a = n * Weight(r) /\ b = (n - 1) * Weight(r)
      BY <1>6
    <2>5. Weight(r) \in 1 .. 2
      BY WeightFacts
    <2> HIDE DEF a, b
    <2>6. a = b + Weight(r) /\ a \in Int /\ b \in Int
      <3>1. CASE Weight(r) = 1
        BY <2>4, <3>1
      <3>2. CASE Weight(r) = 2
        BY <2>4, <3>2
      <3> QED
        BY <2>5, <3>1, <3>2
    <2>7. c.total + a - b = new.total /\ new.total \in Int
      BY <1>2, <1>4, <2>5, <2>6
    <2> QED
      BY <2>3, <2>7
  <1>11. new.nlow \in [0 .. SameHitsMin -> Int] /\ LowOK(new)
    <2>1. \A q \in Rec \ {r} : new.hits[q] = c.hits[q]
      BY <1>6
    <2>2. /\ new.st = c.st /\ new.nlow = LowCounts(c, r, n) /\ Len(new.hits[r]) = n
          /\ new.hits \in [Rec -> Seq(Docs)]
      BY <1>4, <1>6
    <2> QED
      BY <2>1, <2>2, LowCounted
  <1>12. new.lists \in [SameHits -> Seq(Rec)] /\ ListsAre(new.lists, new.hits)
    BY <1>8 DEF MovedAfter
  <1>13. IsCache(new)
    BY <1>4, <1>6, <1>9, <1>10, <1>11, <1>12 DEF IsCache
  <1>14. CacheOK(new, d)
    <2>1. Sound(new.st)
      BY <1>4 DEF CacheOK
    <2> QED
      BY <1>7, <1>9, <1>10, <1>12, <1>13, <2>1 DEF CacheOK
  <1>15. AddedTo(c, new, r, d, n)
    BY <1>4, <1>6, <1>11, <1>14 DEF AddedTo
  <1> QED
    BY <1>15 DEF new

-----------------------------------------------------------------------------
(* Between two calls no record has as many hits as it may have, and neither has the       *)
(* cache.  (9/10 of two hits too many are not less than the limit when it is 8 or less.)  *)

AtRest(c, d) ==
    /\ CacheOK(c, d) /\ LowOK(c) /\ \A q \in Rec : Len(c.hits[q]) < MaxRecHits
    /\ MaxTotalHits > 8 => c.total <= MaxTotalHits

\* What a hit too many does.
LEMMA FlushedIfFullFacts ==
    ASSUME NEW c, NEW d, CacheOK(c, d), LowOK(c), NEW r \in Rec, c.hits[r] # <<>>,
           \A q \in Rec : q # r => Len(c.hits[q]) < MaxRecHits,
           MaxTotalHits > 8 => c.total - Weight(r) <= MaxTotalHits
    PROVE  AtRest(FlushedIfFull(c, r), d)
  <1>1. c.hits \in [Rec -> Seq(Docs)] /\ c.total \in Int /\ Weight(r) \in 1 .. 2
    BY WeightFacts DEF CacheOK, IsCache
  <1>2. MaxRecHits \in Nat \ {0} /\ MaxTotalHits \in Nat \ {0}
    BY CacheNumbers
  <1>3. CASE Len(c.hits[r]) >= MaxRecHits
    <2> DEFINE new == FlushRec(c, r)
    <2>1. Flushes(c, new, d, r)
      BY FlushRecFacts
    <2>2. FlushedIfFull(c, r) = new
      BY <1>3 DEF FlushedIfFull
    <2> HIDE DEF new
    <2>3. Fewer(c, new, d) /\ new.hits[r] = <<>> /\ \A q \in Rec : q # r => new.hits[q] = c.hits[q]
      BY <2>1, FlushesFewer
    <2>4. \A q \in Rec : Len(new.hits[q]) < MaxRecHits
      <3>1. Len(new.hits[r]) = 0
        BY <2>3
      <3> QED
        BY <1>2, <2>3, <3>1
    <2>5. new.total = c.total - Len(c.hits[r]) * Weight(r)
      BY <2>1 DEF Flushes
    <2>6. MaxTotalHits > 8 => new.total <= MaxTotalHits
      <3> DEFINE a == Len(c.hits[r])
      <3>1. a \in Nat /\ a >= 1
        BY <1>1, <1>2, <1>3
      <3> HIDE DEF a
      <3>2. a * Weight(r) >= Weight(r) /\ a * Weight(r) \in Int
        <4>1. CASE Weight(r) = 1
          BY <3>1, <4>1
        <4>2. CASE Weight(r) = 2
          BY <3>1, <4>2
        <4> QED
          BY <1>1, <4>1, <4>2
      <3>3. new.total = c.total - a * Weight(r)
        BY <2>5 DEF a
      <3> DEFINE w == a * Weight(r)
      <3>4. new.total = c.total - w /\ w >= Weight(r) /\ w \in Int
        BY <3>2, <3>3
      <3> HIDE DEF w
      <3> QED
        BY <1>1, <1>2, <3>4
    <2> QED
      BY <2>2, <2>3, <2>4, <2>6 DEF AtRest, Fewer
  <1>4. CASE Len(c.hits[r]) < MaxRecHits
    <2>1. \A q \in Rec : Len(c.hits[q]) < MaxRecHits
      BY <1>4
    <2>2. CASE c.total >= MaxTotalHits
      <3> DEFINE lowater == (c.total * 9) \div 10
                 new == FlushHits(c, lowater)
      <3>1. lowater \in Nat /\ (MaxTotalHits > 8 => lowater <= MaxTotalHits)
        BY <1>1, <1>2, <2>2
      <3>2. FlushedIfFull(c, r) = new
        <4>1. ~ (Len(c.hits[r]) >= MaxRecHits)
          <5>1. Len(c.hits[r]) \in Nat
            BY <1>1
          <5> QED
            BY <1>2, <1>4, <5>1
        <4> QED
          BY <2>2, <4>1 DEF FlushedIfFull
      <3> HIDE DEF lowater
      <3>3. LevelsDone(c, new, lowater, d)
        BY <3>1, FlushHitsFacts
      <3> HIDE DEF new
      <3>4. Fewer(c, new, d) /\ new.total <= lowater
        BY <3>3 DEF LevelsDone
      <3>5. CacheOK(new, d) /\ LowOK(new) /\ \A q \in Rec : new.hits[q] = c.hits[q] \/ new.hits[q] = <<>>
        BY <3>4 DEF Fewer
      <3>6. \A q \in Rec : Len(new.hits[q]) < MaxRecHits
        <4>1. Len(<<>>) = 0
          OBVIOUS
        <4> QED
          BY <1>2, <2>1, <3>5, <4>1
      <3>7. new.total \in Int
        BY <3>5 DEF CacheOK, IsCache
      <3>8. MaxTotalHits > 8 => new.total <= MaxTotalHits
        BY <1>2, <3>1, <3>4, <3>7
      <3> QED
        BY <3>2, <3>5, <3>6, <3>8 DEF AtRest
    <2>3. CASE ~ (c.total >= MaxTotalHits)
      <3>1. ~ (Len(c.hits[r]) >= MaxRecHits)
        <4>1. Len(c.hits[r]) \in Nat
          BY <1>1
        <4> QED
          BY <1>2, <1>4, <4>1
      <3>2. FlushedIfFull(c, r) = c
        BY <2>3, <3>1 DEF FlushedIfFull
      <3>3. c.total <= MaxTotalHits
        BY <1>1, <1>2, <2>3
      <3> QED
        BY <2>1, <3>2, <3>3 DEF AtRest
    <2> QED
      BY <2>2, <2>3
  <1> QED
    <2>1. Len(c.hits[r]) \in Nat
      BY <1>1
    <2> QED
      BY <1>2, <1>3, <1>4, <2>1

\* indCacheAdd, indCacheAddFreq
LEMMA AddHitFacts ==
    ASSUME NEW c, NEW d \in Docs, AtRest(c, d), NEW r \in DOMAIN c.st.rc,
           c.st.rc[r].lastdoc < d, c.hits[r] = <<>> \/ Last(c.hits[r]) # d
    PROVE  AtRest(AddHit(c, r, d), d)
  <1> DEFINE n == Len(c.hits[r]) + 1
             new == Added(c, r, d, n)
  <1>1. CacheOK(c, d) /\ LowOK(c) /\ (MaxTotalHits > 8 => c.total <= MaxTotalHits)
        /\ \A q \in Rec : Len(c.hits[q]) < MaxRecHits
    BY DEF AtRest
  <1>2. r \in Rec /\ c.hits \in [Rec -> Seq(Docs)] /\ c.total \in Int
    BY <1>1 DEF CacheOK, IsCache, Sound, Body, IsStore, IsRc
  <1>3. MaxRecHits \in Nat \ {0} /\ MaxTotalHits \in Nat \ {0}
    BY CacheNumbers
  <1>4. n \in 1 .. MaxRecHits /\ Len(c.hits[r]) = n - 1
    <2>1. Len(c.hits[r]) \in Nat /\ Len(c.hits[r]) < MaxRecHits
      BY <1>1, <1>2
    <2> QED
      BY <1>3, <2>1
  <1>5. AddHit(c, r, d) = FlushedIfFull(new, r)
    BY DEF AddHit
  <1> HIDE DEF n
  <1>6. AddedTo(c, new, r, d, n)
    BY <1>1, <1>4, AddedFacts
  <1> HIDE DEF new
  <1>7. /\ CacheOK(new, d) /\ LowOK(new) /\ new.total = c.total + Weight(r)
        /\ Len(new.hits[r]) = n /\ \A q \in Rec : q # r => new.hits[q] = c.hits[q]
    BY <1>6 DEF AddedTo
  <1>8. new.hits[r] # <<>>
    <2>1. Len(<<>>) = 0 /\ n # 0
      BY <1>4
    <2> QED
      BY <1>7, <2>1
  <1>9. \A q \in Rec : q # r => Len(new.hits[q]) < MaxRecHits
    BY <1>1, <1>7
  <1>10. MaxTotalHits > 8 => new.total - Weight(r) <= MaxTotalHits
    <2>1. Weight(r) \in 1 .. 2
      BY WeightFacts
    <2> QED
      BY <1>1, <1>2, <1>7, <2>1
  <1> QED
    BY <1>2, <1>5, <1>7, <1>8, <1>9, <1>10, FlushedIfFullFacts

-----------------------------------------------------------------------------
(* The lists of the areas, one after the other. *)

\* Two lists of different things.
LEMMA OnceJoined ==
    ASSUME NEW S, NEW s, ListsOnce(s, S), NEW T, NEW t, ListsOnce(t, T), S \cap T = {}
    PROVE  ListsOnce(s \o t, S \cup T)
  <1> DEFINE U == S \cup T
             m == Len(s)
             n == Len(t)
             both == s \o t
  <1>1. s \in Seq(U) /\ \A e : e \in S <=> \E i \in 1 .. m : s[i] = e
    BY ListsSome
  <1>2. t \in Seq(U) /\ \A e : e \in T <=> \E i \in 1 .. n : t[i] = e
    BY ListsSome
  <1>3. /\ \A i, j \in 1 .. m : s[i] = s[j] => i = j
        /\ \A i, j \in 1 .. n : t[i] = t[j] => i = j
    <2>1. DOMAIN s = 1 .. m /\ DOMAIN t = 1 .. n
      BY <1>1, <1>2
    <2> HIDE DEF m, n
    <2> QED
      BY <2>1 DEF ListsOnce, IsInjective
  <1> HIDE DEF U
  <1>4. /\ both \in Seq(U) /\ Len(both) = m + n /\ DOMAIN both = 1 .. m + n
        /\ \A i \in 1 .. m : both[i] = s[i]
        /\ \A i \in 1 .. n : both[m + i] = t[i]
        /\ m \in Nat /\ n \in Nat
    BY <1>1, <1>2
  <1> HIDE DEF m, n, both
  <1>5. \A i \in 1 .. m + n : i \in 1 .. m \/ (i - m \in 1 .. n /\ i = m + (i - m))
    BY <1>4
  <1>6. ASSUME NEW i \in 1 .. m + n, NEW j \in 1 .. m + n, both[i] = both[j] PROVE i = j
    <2>1. CASE i \in 1 .. m /\ j \in 1 .. m
      BY <1>3, <1>4, <1>6, <2>1
    <2>2. CASE i \notin 1 .. m /\ j \notin 1 .. m
      <3>1. i - m \in 1 .. n /\ j - m \in 1 .. n /\ i = m + (i - m) /\ j = m + (j - m)
        BY <1>5, <2>2
      <3>2. both[i] = t[i - m] /\ both[j] = t[j - m]
        BY <1>4, <3>1
      <3>3. i - m = j - m
        BY <1>3, <1>6, <3>1, <3>2
      <3> QED
        BY <1>4, <3>3
    <2>3. CASE i \in 1 .. m /\ j \notin 1 .. m
      <3>1. j - m \in 1 .. n /\ j = m + (j - m)
        BY <1>5, <2>3
      <3>2. both[i] = s[i] /\ both[j] = t[j - m]
        BY <1>4, <2>3, <3>1
      <3>3. s[i] \in S /\ t[j - m] \in T
        BY <1>1, <1>2, <2>3, <3>1
      <3> QED
        BY <1>6, <3>2, <3>3
    <2>4. CASE j \in 1 .. m /\ i \notin 1 .. m
      <3>1. i - m \in 1 .. n /\ i = m + (i - m)
        BY <1>5, <2>4
      <3>2. both[j] = s[j] /\ both[i] = t[i - m]
        BY <1>4, <2>4, <3>1
      <3>3. s[j] \in S /\ t[i - m] \in T
        BY <1>1, <1>2, <2>4, <3>1
      <3> QED
        BY <1>6, <3>2, <3>3
    <2> QED
      BY <2>1, <2>2, <2>3, <2>4
  <1>7. \A e : e \in U <=> \E i \in DOMAIN both : both[i] = e
    <2>1. ASSUME NEW e \in U PROVE \E i \in DOMAIN both : both[i] = e
      <3>1. CASE e \in S
        <4>1. PICK i \in 1 .. m : s[i] = e
          BY <1>1, <3>1
        <4>2. i \in 1 .. m + n /\ both[i] = e
          BY <1>4, <4>1
        <4> QED
          BY <1>4, <4>2
      <3>2. CASE e \in T
        <4>1. PICK i \in 1 .. n : t[i] = e
          BY <1>2, <3>2
        <4>2. m + i \in 1 .. m + n /\ both[m + i] = e
          BY <1>4, <4>1
        <4> QED
          BY <1>4, <4>2
      <3> QED
        BY <3>1, <3>2 DEF U
    <2>2. \A i \in DOMAIN both : both[i] \in U
      BY <1>4
    <2> QED
      BY <2>1, <2>2
  <1>8. ToSet(both) = U
    <2>1. ToSet(both) = {both[i] : i \in DOMAIN both}
      BY DEF ToSet
    <2> QED
      BY <1>7, <2>1
  <1>9. IsInjective(both)
    BY <1>4, <1>6 DEF IsInjective
  <1> QED
    BY <1>4, <1>8, <1>9 DEF ListsOnce, U, both

\* The lists up to n.
Flat(seqs, n) ==
    CHOOSE flat : flat = [i \in 1 .. n |-> IF i = 1 THEN seqs[i] ELSE flat[i - 1] \o seqs[i]]

\* They are defined.
LEMMA FlatExists ==
    ASSUME NEW seqs, NEW n \in Nat
    PROVE  Flat(seqs, n) = [i \in 1 .. n |-> IF i = 1 THEN seqs[i] ELSE Flat(seqs, n)[i - 1] \o seqs[i]]
  <1> DEFINE Is(g, m) == g = [i \in 1 .. m |-> IF i = 1 THEN seqs[i] ELSE g[i - 1] \o seqs[i]]
             P == {m \in 0 .. n : \E g : Is(g, m)}
  <1>1. Flat(seqs, n) = CHOOSE g : Is(g, n)
    BY DEF Flat
  <1>2. 0 \in P
    <2> DEFINE g == [i \in 1 .. 0 |-> seqs[i]]
    <2>1. Is(g, 0)
      <3>1. 1 .. 0 = {}
        OBVIOUS
      <3> QED
        BY <3>1
    <2>2. 0 \in 0 .. n
      OBVIOUS
    <2> HIDE DEF g, Is
    <2> QED
      BY <2>1, <2>2
  <1>3. ASSUME NEW m \in 0 .. n - 1, m \in P PROVE m + 1 \in P
    <2>1. PICK h : Is(h, m)
      BY <1>3
    <2> DEFINE end == IF m = 0 THEN seqs[1] ELSE h[m] \o seqs[m + 1]
               g == [i \in 1 .. m + 1 |-> IF i = m + 1 THEN end ELSE h[i]]
    <2> HIDE DEF end
    <2>0. (\A i \in 1 .. m : g[i] = h[i]) /\ g[m + 1] = end
      OBVIOUS
    <2>2. (\A i \in 1 .. m : g[i] = h[i])
          /\ g[m + 1] = (IF m = 0 THEN seqs[1] ELSE h[m] \o seqs[m + 1])
      <3> HIDE DEF g
      <3> QED
        BY <2>0 DEF end
    <2>3. g = [i \in 1 .. m + 1 |-> g[i]]
      OBVIOUS
    <2>4. ASSUME NEW i \in 1 .. m + 1 PROVE g[i] = IF i = 1 THEN seqs[i] ELSE g[i - 1] \o seqs[i]
      <3> HIDE DEF g
      <3>1. CASE i = m + 1
        <4>1. CASE m = 0
          BY <2>2, <3>1, <4>1
        <4>2. CASE m # 0
          <5>1. i # 1 /\ i - 1 = m /\ m \in 1 .. m
            BY <3>1, <4>2
          <5>2. g[m] = h[m]
            BY <2>2, <5>1
          <5> QED
            BY <2>2, <3>1, <4>2, <5>1, <5>2
        <4> QED
          BY <4>1, <4>2
      <3>2. CASE i # m + 1
        <4>1. i \in 1 .. m /\ (i # 1 => i - 1 \in 1 .. m)
          BY <3>2
        <4>2. h[i] = IF i = 1 THEN seqs[i] ELSE h[i - 1] \o seqs[i]
          BY <2>1, <4>1
        <4> QED
          BY <2>2, <4>1, <4>2
      <3> QED
        BY <3>1, <3>2
    <2> HIDE DEF g
    <2>5. Is(g, m + 1)
      BY <2>3, <2>4
    <2>6. m + 1 \in 0 .. n
      OBVIOUS
    <2> HIDE DEF Is
    <2> QED
      BY <2>5, <2>6
  <1> HIDE DEF Is
  <1>4. \A m \in 0 .. n : m \in P
    <2> HIDE DEF P
    <2> QED
      BY <1>2, <1>3, UpTo
  <1>5. n \in P
    BY <1>4
  <1>6. \E g : Is(g, n)
    BY <1>5
  <1>7. Is(Flat(seqs, n), n)
    BY <1>1, <1>6
  <1> QED
    BY <1>7 DEF Is

\* Lists of different things, one after the other.
LEMMA FlatOnce ==
    ASSUME NEW n \in Nat \ {0}, NEW seqs, Len(seqs) = n, NEW S,
           \A i \in 1 .. n : ListsOnce(seqs[i], S[i]),
           \A i, j \in 1 .. n : S[i] \cap S[j] # {} => i = j
    PROVE  ListsOnce(FlattenSeq(seqs), UNION {S[j] : j \in 1 .. n})
  <1> DEFINE flat == Flat(seqs, n)
             Up(i) == UNION {S[j] : j \in 1 .. i}
             P == {i \in 0 .. n : i = 0 \/ ListsOnce(flat[i], Up(i))}
  <1>1. FlattenSeq(seqs) = flat[n]
    BY DEF FlattenSeq, Flat
  <1>2. flat = [i \in 1 .. n |-> IF i = 1 THEN seqs[i] ELSE flat[i - 1] \o seqs[i]]
    BY FlatExists
  <1> HIDE DEF flat
  <1>3. flat[1] = seqs[1] /\ \A i \in 1 .. n : i # 1 => flat[i] = flat[i - 1] \o seqs[i]
    <2> DEFINE Step(i) == IF i = 1 THEN seqs[i] ELSE flat[i - 1] \o seqs[i]
    <2>1. flat = [i \in 1 .. n |-> Step(i)]
      BY <1>2
    <2> HIDE DEF Step
    <2>2. \A i \in 1 .. n : flat[i] = Step(i)
      BY <2>1
    <2>3. 1 \in 1 .. n
      OBVIOUS
    <2>4. flat[1] = Step(1) /\ Step(1) = seqs[1]
      BY <2>2, <2>3 DEF Step
    <2>5. ASSUME NEW i \in 1 .. n, i # 1 PROVE Step(i) = flat[i - 1] \o seqs[i]
      BY <2>5 DEF Step
    <2> QED
      BY <2>2, <2>4, <2>5
  <1>4. 0 \in P
    OBVIOUS
  <1>5. ASSUME NEW i \in 0 .. n - 1, i \in P PROVE i + 1 \in P
    <2>1. i + 1 \in 1 .. n /\ i + 1 \in 0 .. n
      OBVIOUS
    <2>2. ListsOnce(seqs[i + 1], S[i + 1])
      BY <2>1
    <2>3. CASE i = 0
      <3>1. Up(1) = S[1]
        <4>1. 1 .. 1 = {1}
          OBVIOUS
        <4> QED
          BY <4>1
      <3>2. flat[i + 1] = seqs[i + 1] /\ i + 1 = 1
        BY <1>3, <2>3
      <3> HIDE DEF Up
      <3>3. ListsOnce(flat[i + 1], Up(i + 1))
        BY <2>2, <3>1, <3>2
      <3> QED
        BY <2>1, <3>3
    <2>4. CASE i # 0
      <3>1. ListsOnce(flat[i], Up(i))
        BY <1>5, <2>4
      <3>2. Up(i + 1) = Up(i) \cup S[i + 1]
        <4>1. 1 .. i + 1 = (1 .. i) \cup {i + 1}
          OBVIOUS
        <4> QED
          BY <4>1
      <3>3. Up(i) \cap S[i + 1] = {}
        <4>1. ASSUME NEW e \in Up(i), e \in S[i + 1] PROVE FALSE
          <5>1. PICK j \in 1 .. i : e \in S[j]
            OBVIOUS
          <5>2. j \in 1 .. n /\ j # i + 1
            OBVIOUS
          <5>3. S[j] \cap S[i + 1] # {}
            BY <4>1, <5>1
          <5> QED
            BY <2>1, <5>2, <5>3
        <4> QED
          BY <4>1
      <3>4. flat[i + 1] = flat[i] \o seqs[i + 1]
        <4>1. i + 1 # 1 /\ (i + 1) - 1 = i
          BY <2>4
        <4> QED
          BY <1>3, <2>1, <4>1
      <3> HIDE DEF Up
      <3>5. ListsOnce(flat[i] \o seqs[i + 1], Up(i) \cup S[i + 1])
        BY <2>2, <3>1, <3>3, OnceJoined
      <3>6. ListsOnce(flat[i + 1], Up(i + 1))
        BY <3>2, <3>4, <3>5
      <3> QED
        BY <2>1, <3>6
    <2> QED
      BY <2>3, <2>4
  <1>6. \A i \in 0 .. n : i \in P
    <2> HIDE DEF P
    <2> QED
      BY <1>4, <1>5, UpTo
  <1>7. n \in P
    <2>1. n \in 0 .. n
      OBVIOUS
    <2> HIDE DEF P
    <2> QED
      BY <1>6, <2>1
  <1> HIDE DEF Up
  <1>8. ListsOnce(flat[n], Up(n))
    BY <1>7
  <1> QED
    BY <1>1, <1>8 DEF Up

-----------------------------------------------------------------------------
(* All blocks are written out at the end. *)

\* Every record that has a fragment in a block is advanced.
AllOut(st, new) ==
    /\ HasFields(new) /\ new.blocks = st.blocks /\ new.lists = st.lists /\ new.free = st.free
    /\ new.cachecnt = st.cachecnt /\ new.fault = FALSE
    /\ new.rc = [r \in DOMAIN st.rc |-> IF st.rc[r].blk # 0 THEN Advanced(st.rc[r]) ELSE st.rc[r]]
    /\ IsRc(new.rc) /\ IsFiles(new.ref, new.rfb) /\ new.blockout \in Nat \ {0}
    /\ FilesOK(new.rc, new.ref, new.rfb, new.blockout)

\* The lists have every cached block once.
LEMMA DirtyOrder ==
    ASSUME NEW st, Body(st)
    PROVE  LET order == FlattenSeq([a \in 1 .. Areas |-> st.lists[a - 1]])
           IN  Goes(st, order) /\ ToSet(order) = DOMAIN st.blocks
  <1> DEFINE seqs == [a \in 1 .. Areas |-> st.lists[a - 1]]
             S == [a \in 1 .. Areas |-> InArea(st.blocks, a - 1)]
             order == FlattenSeq(seqs)
             all == UNION {S[j] : j \in 1 .. Areas}
  <1>1. Areas \in Nat \ {0}
    BY BlockNumbers
  <1>2. Len(seqs) = Areas
    BY <1>1
  <1>3. ASSUME NEW i \in 1 .. Areas PROVE ListsOnce(seqs[i], S[i])
    <2>1. i - 1 \in 0 .. Areas - 1
      BY <1>1
    <2>2. ListsOnce(st.lists[i - 1], InArea(st.blocks, i - 1))
      BY <2>1 DEF Body, ListsOK
    <2> QED
      BY <2>2
  <1>4. ASSUME NEW i \in 1 .. Areas, NEW j \in 1 .. Areas, S[i] \cap S[j] # {} PROVE i = j
    <2>1. PICK b : b \in InArea(st.blocks, i - 1) /\ b \in InArea(st.blocks, j - 1)
      BY <1>4
    <2>2. i - 1 = j - 1
      BY <2>1 DEF InArea
    <2> QED
      BY <1>1, <2>2
  <1>5. all = DOMAIN st.blocks
    <2>1. ASSUME NEW b \in DOMAIN st.blocks PROVE b \in all
      <3> DEFINE a == st.blocks[b].fidx + 1
      <3>1. st.blocks[b].fidx \in 0 .. Areas - 1
        BY DEF Body, IsStore, IsBlocks, Block
      <3>2. a \in 1 .. Areas /\ st.blocks[b].fidx = a - 1
        BY <1>1, <3>1
      <3> HIDE DEF a
      <3>3. b \in S[a]
        BY <3>2 DEF InArea
      <3> HIDE DEF S
      <3> QED
        BY <3>2, <3>3
    <2>2. ASSUME NEW b \in all PROVE b \in DOMAIN st.blocks
      BY DEF InArea
    <2> QED
      BY <2>1, <2>2
  <1> HIDE DEF seqs, S
  <1>6. ListsOnce(order, all)
    BY <1>1, <1>2, <1>3, <1>4, FlatOnce
  <1> HIDE DEF order, all
  <1>7. Goes(st, order) /\ ToSet(order) = DOMAIN st.blocks
    BY <1>5, <1>6 DEF Goes, ListsOnce
  <1> QED
    BY <1>7 DEF order, seqs

\* FlushDirtyBlocks
LEMMA AllOutFacts ==
    ASSUME NEW st, Body(st)
    PROVE  AllOut(st, FlushDirtyBlocks(st))
  <1> DEFINE order == FlattenSeq([a \in 1 .. Areas |-> st.lists[a - 1]])
             new == BlocksOut(st, order)
  <1>1. FlushDirtyBlocks(st) = new
    BY DEF FlushDirtyBlocks
  <1>2. Goes(st, order) /\ ToSet(order) = DOMAIN st.blocks
    BY DirtyOrder
  <1> HIDE DEF order
  <1>3. /\ new = [st EXCEPT !.rc = new.rc, !.rfb = new.rfb, !.ref = new.ref,
                            !.blockout = new.blockout]
        /\ new.rc = RcOut(st, order)
    BY Zenon, <1>2, BlocksOutFields
  <1>4. /\ IsRc(new.rc) /\ IsFiles(new.ref, new.rfb) /\ new.blockout \in Nat \ {0}
        /\ FilesOK(new.rc, new.ref, new.rfb, new.blockout)
    BY <1>2, BlocksOutFiles
  <1> HIDE DEF new
  <1>5. HasFields(st) /\ st.fault = FALSE
    BY DEF Body, IsStore
  <1>6. /\ HasFields(new) /\ new.blocks = st.blocks /\ new.lists = st.lists /\ new.free = st.free
        /\ new.cachecnt = st.cachecnt /\ new.fault = FALSE
    <2> DEFINE a == new.rc
               b == new.rfb
               c == new.ref
               d == new.blockout
    <2>1. new = [[st EXCEPT !.rc = a, !.rfb = b] EXCEPT !.ref = c, !.blockout = d]
      BY <1>3
    <2> HIDE DEF a, b, c, d
    <2> DEFINE mid == [st EXCEPT !.rc = a, !.rfb = b]
    <2>2. /\ HasFields(mid) /\ mid.blocks = st.blocks /\ mid.lists = st.lists /\ mid.free = st.free
          /\ mid.cachecnt = st.cachecnt /\ mid.fault = FALSE
      BY <1>5 DEF HasFields, Fields
    <2>3. new = [mid EXCEPT !.ref = c, !.blockout = d]
      BY <2>1
    <2> HIDE DEF mid
    <2>4. /\ HasFields(new) /\ new.blocks = mid.blocks /\ new.lists = mid.lists
          /\ new.free = mid.free /\ new.cachecnt = mid.cachecnt /\ new.fault = mid.fault
      BY <2>2, <2>3 DEF HasFields, Fields
    <2> QED
      BY <2>2, <2>4
  <1>7. \A r \in DOMAIN st.rc : st.rc[r].blk \in ToSet(order) <=> st.rc[r].blk # 0
    <2>1. ASSUME NEW r \in DOMAIN st.rc, st.rc[r].blk # 0 PROVE st.rc[r].blk \in DOMAIN st.blocks
      BY <2>1 DEF Body, FragsOK
    <2>2. 0 \notin DOMAIN st.blocks
      BY DEF Body, IsStore, IsBlocks
    <2> QED
      BY <1>2, <2>1, <2>2
  <1>8. new.rc = [r \in DOMAIN st.rc |-> IF st.rc[r].blk # 0 THEN Advanced(st.rc[r]) ELSE st.rc[r]]
    BY <1>3, <1>7 DEF RcOut
  <1>9. AllOut(st, new)
    BY <1>4, <1>6, <1>8 DEF AllOut
  <1> QED
    BY <1>1, <1>9

-----------------------------------------------------------------------------
(* Between two runs of the program. *)

\* The store is as it was left, and no record points to a block.
Closed(st, d) ==
    /\ HasFields(st) /\ IsBlocks(st.blocks) /\ IsLists(st.lists) /\ st.free \in Seq(FreeEntry)
    /\ IsRc(st.rc) /\ IsFiles(st.ref, st.rfb) /\ st.blockout \in Nat \ {0} /\ st.fault = FALSE
    /\ ListsOK(st.lists, st.blocks) /\ CountOK(st.blocks, st.cachecnt)
    /\ FreeFits(st.free, Rooms(st.blocks))
    /\ FilesOK(st.rc, st.ref, st.rfb, st.blockout)
    /\ \A r \in DOMAIN st.rc : st.rc[r].blk = 0 /\ st.rc[r].bitsize = 0 /\ st.rc[r].lastdoc <= d

\* The store that Save leaves.
LEMMA ClosedFacts ==
    ASSUME NEW c, NEW d, CacheOK(c, d)
    PROVE  Closed(FlushDirtyBlocks(c.st), d)
  <1> DEFINE st == c.st
             new == FlushDirtyBlocks(st)
  <1>1. Sound(st) /\ Body(st)
    BY DEF CacheOK, Sound
  <1>2. AllOut(st, new)
    BY <1>1, AllOutFacts
  <1> HIDE DEF new
  <1>3. /\ HasFields(new) /\ new.blocks = st.blocks /\ new.lists = st.lists /\ new.free = st.free
        /\ new.cachecnt = st.cachecnt /\ new.fault = FALSE
        /\ new.rc = [r \in DOMAIN st.rc |-> IF st.rc[r].blk # 0 THEN Advanced(st.rc[r]) ELSE st.rc[r]]
        /\ IsRc(new.rc) /\ IsFiles(new.ref, new.rfb) /\ new.blockout \in Nat \ {0}
        /\ FilesOK(new.rc, new.ref, new.rfb, new.blockout)
    BY <1>2 DEF AllOut
  <1>4. /\ IsBlocks(st.blocks) /\ IsLists(st.lists) /\ st.free \in Seq(FreeEntry)
        /\ ListsOK(st.lists, st.blocks) /\ IsRc(st.rc)
    BY <1>1 DEF Body, IsStore
  <1>5. CountOK(st.blocks, st.cachecnt) /\ FreeFits(st.free, Rooms(st.blocks))
    BY <1>1 DEF Sound
  <1>6. ASSUME NEW r \in DOMAIN new.rc
        PROVE  new.rc[r].blk = 0 /\ new.rc[r].bitsize = 0 /\ new.rc[r].lastdoc <= d
    <2>1. r \in DOMAIN st.rc /\ r \in Rec /\ st.rc[r] \in RecData
      BY <1>3, <1>4 DEF IsRc
    <2>2. HitOK(st, c.hits, d, r)
      BY <2>1 DEF CacheOK
    <2>3. st.rc[r].lastdoc <= d /\ (st.rc[r].blk = 0 <=> st.rc[r].bitsize = 0)
      BY <2>1, <2>2 DEF HitOK, DataOf
    <2>4. CASE st.rc[r].blk # 0
      <3>1. new.rc[r] = Advanced(st.rc[r])
        BY <1>3, <2>1, <2>4
      <3> QED
        BY <2>1, <2>3, <3>1, AdvancedFacts
    <2>5. CASE st.rc[r].blk = 0
      <3>1. new.rc[r] = st.rc[r]
        BY <1>3, <2>1, <2>5
      <3> QED
        BY <2>3, <2>5, <3>1
    <2> QED
      BY <2>4, <2>5
  <1>7. Closed(new, d)
    <2> HIDE DEF st
    <2> QED
      BY <1>3, <1>4, <1>5, <1>6 DEF Closed
  <1> QED
    BY <1>7 DEF new

-----------------------------------------------------------------------------
(* A cache without hits. *)

\* The books of the cache.
Books(c) ==
    /\ c.hits \in [Rec -> Seq(Docs)] /\ c.total \in Int
    /\ ListsAre(c.lists, c.hits) /\ TotalIs(c.total, c.hits) /\ TopIs(c.top, c.lists) /\ LowOK(c)
    /\ MaxTotalHits > 8 => c.total <= MaxTotalHits

EmptyBooks(c, st) == IsCache(c) /\ Books(c) /\ c.st = st /\ \A r \in Rec : c.hits[r] = <<>>

\* The books of an empty cache are right.
LEMMA EmptyCacheBooks ==
    ASSUME NEW st, DOMAIN st.rc \subseteq Rec
    PROVE  EmptyBooks(EmptyCache(st), st)
  <1> DEFINE c == EmptyCache(st)
  <1>1. /\ HasCacheFields(c) /\ c.st = st /\ c.hits = [r \in Rec |-> <<>>]
        /\ c.lists = [l \in SameHits |-> <<>>] /\ c.top = 0 /\ c.nlow = [n \in 0 .. SameHitsMin |-> 0]
        /\ c.nlowtotal = 0 /\ c.total = 0
    BY DEF EmptyCache, HasCacheFields, CacheFields
  <1> HIDE DEF c
  <1>2. /\ c.hits \in [Rec -> Seq(Docs)] /\ c.lists \in [SameHits -> Seq(Rec)]
        /\ \A r \in Rec : c.hits[r] = <<>>
    <2>1. <<>> \in Seq(Docs) /\ <<>> \in Seq(Rec)
      OBVIOUS
    <2> QED
      BY <1>1, <2>1
  <1>3. \A l : Having(c.hits, l) = {}
    BY <1>2 DEF Having
  <1>4. ListsAre(c.lists, c.hits)
    <2>1. ListsOnce(<<>>, {})
      BY DEF ListsOnce, IsInjective, ToSet
    <2>2. \A l \in SameHits : c.lists[l] = <<>>
      BY <1>1
    <2> QED
      BY <1>3, <2>1, <2>2 DEF ListsAre
  <1>5. TopIs(c.top, c.lists)
    <2>1. \A k \in 0 .. TopMost : <<"big", k>> \in SameHits
      BY DEF SameHits, TopMost
    <2> QED
      BY <1>1, <2>1 DEF TopIs
  <1>6. TotalIs(c.total, c.hits)
    <2>1. ASSUME NEW r \in Rec PROVE Weights(c.hits)[r] = {}
      <3>1. Weight(r) \in 1 .. 2
        BY WeightFacts
      <3>2. Len(c.hits[r]) * Weight(r) = 0
        <4>1. Len(c.hits[r]) = 0
          BY <1>2
        <4> QED
          BY <3>1, <4>1
      <3>3. Weights(c.hits)[r] = 1 .. Len(c.hits[r]) * Weight(r)
        BY DEF Weights
      <3> QED
        BY <3>2, <3>3
    <2>2. OfAll(Rec, Weights(c.hits)) = {}
      BY <2>1 DEF OfAll
    <2> QED
      BY <1>1, <2>2, FS_EmptySet DEF TotalIs
  <1>7. LowOK(c)
    <2>1. ASSUME NEW n \in 1 .. LowHitsMax PROVE Cardinality(LowSet(c, n)) <= c.nlow[n]
      <3>1. LowSet(c, n) = {}
        <4>1. ASSUME NEW r \in DOMAIN st.rc PROVE Len(c.hits[r]) # n
          <5>1. c.hits[r] = <<>> /\ Len(<<>>) = 0 /\ n # 0
            BY <1>2, CacheNumbers
          <5> QED
            BY <5>1
        <4> QED
          BY <1>1, <4>1 DEF LowSet
      <3>2. n \in 0 .. SameHitsMin
        BY CacheNumbers
      <3>3. Cardinality(LowSet(c, n)) = 0 /\ c.nlow[n] = 0
        BY <1>1, <3>1, <3>2, FS_EmptySet
      <3> QED
        BY <3>3
    <2> QED
      BY <2>1 DEF LowOK
  <1>8. MaxTotalHits \in Nat /\ TopMost \in Nat
    BY CacheNumbers
  <1>9. IsCache(c)
    BY <1>1, <1>2, <1>8 DEF IsCache
  <1>10. Books(c)
    BY <1>1, <1>2, <1>4, <1>5, <1>6, <1>7, <1>8 DEF Books
  <1>11. EmptyBooks(c, st)
    BY <1>1, <1>2, <1>9, <1>10 DEF EmptyBooks
  <1> QED
    BY <1>11 DEF c

\* A sound store with an empty cache.
LEMMA EmptyCacheFacts ==
    ASSUME NEW st, Sound(st), NEW d \in Nat,
           \A r \in DOMAIN st.rc : st.rc[r].lastdoc <= d /\ DataOf(st, r)
    PROVE  AtRest(EmptyCache(st), d)
  <1> DEFINE c == EmptyCache(st)
  <1>1. DOMAIN st.rc \subseteq Rec
    BY DEF Sound, Body, IsStore, IsRc
  <1>2. EmptyBooks(c, st)
    BY <1>1, EmptyCacheBooks
  <1> HIDE DEF c
  <1>3. IsCache(c) /\ Books(c) /\ c.st = st /\ \A r \in Rec : c.hits[r] = <<>>
    BY <1>2 DEF EmptyBooks
  <1>4. MaxRecHits \in Nat \ {0} /\ Len(<<>>) = 0
    BY CacheNumbers
  <1>5. ASSUME NEW r \in Rec PROVE HitOK(c.st, c.hits, d, r) /\ Len(c.hits[r]) < MaxRecHits
    <2>1. Len(c.hits[r]) <= MaxRecHits /\ Len(c.hits[r]) < MaxRecHits
      BY <1>3, <1>4
    <2>2. r \in DOMAIN st.rc => Ascending(c.hits[r], st.rc[r].lastdoc, d)
      BY <1>3, NonePending
    <2> QED
      BY <1>3, <2>1, <2>2 DEF HitOK
  <1>6. AtRest(c, d)
    BY <1>3, <1>5 DEF AtRest, CacheOK, Books
  <1> QED
    BY <1>6 DEF c

-----------------------------------------------------------------------------
(* The next run of the program. *)

\* A finite set of numbers has a greatest one.
LEMMA FiniteMax ==
    ASSUME NEW A, A \subseteq Nat, IsFiniteSet(A), A # {}
    PROVE  Max(A) \in Nat
  <1> DEFINE n == Cardinality(A)
             s == InOrder(A)
  <1>1. s \in [1 .. n -> A] /\ n \in Nat /\ \A a \in A : \E i \in 1 .. n : s[i] = a
    BY InOrderFacts
  <1> HIDE DEF n, s
  <1>2. s \in Seq(Nat) /\ Len(s) = n
    <2>1. s \in [1 .. n -> Nat] /\ n \in Nat
      BY <1>1
    <2> QED
      BY <2>1
  <1>3. \A a \in A : a <= Total(s)
    BY <1>1, <1>2, TotalAtLeast
  <1>4. Total(s) \in Nat
    BY <1>2, TotalType
  <1>5. A \subseteq 0 .. Total(s)
    BY <1>3, <1>4
  <1>6. Max(A) \in A
    BY <1>4, <1>5, MaxFacts
  <1> QED
    BY <1>6

SavedOf(st) ==
    [rc |-> [r \in DOMAIN st.rc |-> SavedRecord(st.rc[r])], blockcount |-> st.blockout]

\* The records have what they had.
LEMMA ReopenedRecords ==
    ASSUME NEW st, NEW d, Closed(st, d)
    PROVE  /\ DOMAIN SavedOf(st).rc = DOMAIN st.rc
           /\ \A r \in DOMAIN st.rc : /\ SavedOf(st).rc[r].nfrags = st.rc[r].nfrags - 1
                                      /\ SavedOf(st).rc[r].freq = st.rc[r].freq
                                      /\ OpenedRecord(SavedOf(st).rc[r]) = st.rc[r]
  <1>1. DOMAIN SavedOf(st).rc = DOMAIN st.rc
    BY DEF SavedOf
  <1>2. ASSUME NEW r \in DOMAIN st.rc
        PROVE  /\ SavedOf(st).rc[r].nfrags = st.rc[r].nfrags - 1
               /\ SavedOf(st).rc[r].freq = st.rc[r].freq
               /\ OpenedRecord(SavedOf(st).rc[r]) = st.rc[r]
    <2> DEFINE rec == st.rc[r]
    <2>1. rec \in RecData /\ rec.blk = 0 /\ rec.bitsize = 0
      BY DEF Closed, IsRc
    <2>2. SavedOf(st).rc[r] = SavedRecord(rec)
      BY DEF SavedOf
    <2> HIDE DEF rec
    <2>3. SavedRecord(rec) = [rec EXCEPT !.nfrags = @ - 1]
      BY <2>1 DEF SavedRecord
    <2>4. SavedRecord(rec).nfrags = rec.nfrags - 1 /\ SavedRecord(rec).freq = rec.freq
      BY <2>1, <2>3 DEF RecData
    <2>5. OpenedRecord(SavedRecord(rec)) = rec
      <3> DEFINE a == rec.freq
                 b == rec.nfrags
                 e == rec.lastdoc
      <3>1. b \in Nat /\ b = (b - 1) + 1
        BY <2>1 DEF RecData
      <3>2. rec = [freq |-> a, nfrags |-> b, bitsize |-> 0, lastdoc |-> e, blk |-> 0]
        BY <2>1 DEF RecData
      <3> HIDE DEF a, b, e
      <3>3. SavedRecord(rec) = [freq |-> a, nfrags |-> b - 1, bitsize |-> 0, lastdoc |-> e, blk |-> 0]
        BY <2>3, <3>2
      <3>4. OpenedRecord(SavedRecord(rec))
              = [freq |-> a, nfrags |-> (b - 1) + 1, bitsize |-> 0, lastdoc |-> e, blk |-> 0]
        <4> DEFINE n == b - 1
                   less == [freq |-> a, nfrags |-> n, bitsize |-> 0, lastdoc |-> e, blk |-> 0]
                   more == [freq |-> a, nfrags |-> n + 1, bitsize |-> 0, lastdoc |-> e, blk |-> 0]
        <4> HIDE DEF n
        <4>1. [less EXCEPT !.nfrags = @ + 1] = more
          <5>1. less.nfrags = n
            OBVIOUS
          <5> DEFINE m == n + 1
          <5>2. [less EXCEPT !.nfrags = @ + 1] = [less EXCEPT !.nfrags = m]
            BY <5>1
          <5> HIDE DEF m
          <5>3. [less EXCEPT !.nfrags = m]
                  = [freq |-> a, nfrags |-> m, bitsize |-> 0, lastdoc |-> e, blk |-> 0]
            OBVIOUS
          <5> QED
            BY <5>2, <5>3 DEF m
        <4>2. [[more EXCEPT !.bitsize = 0] EXCEPT !.blk = 0] = more
          <5>1. more.bitsize = 0 /\ more.blk = 0 /\ "bitsize" \in DOMAIN more /\ "blk" \in DOMAIN more
                /\ more = [f \in DOMAIN more |-> more[f]]
            OBVIOUS
          <5> HIDE DEF more
          <5>2. [more EXCEPT !.bitsize = 0] = more
            BY <5>1
          <5>3. [more EXCEPT !.blk = 0] = more
            BY <5>1
          <5> QED
            BY <5>2, <5>3
        <4> HIDE DEF more, less
        <4>3. OpenedRecord(less) = [[[less EXCEPT !.nfrags = @ + 1] EXCEPT !.bitsize = 0] EXCEPT !.blk = 0]
          BY DEF OpenedRecord
        <4>4. OpenedRecord(less) = more
          BY <4>1, <4>2, <4>3
        <4> QED
          BY <3>3, <4>4 DEF more, less, n
      <3> QED
        BY <3>1, <3>2, <3>4
    <2> QED
      BY <2>2, <2>4, <2>5 DEF rec
  <1> QED
    BY <1>1, <1>2

\* A store without blocks.
NoBlocks(st) ==
    /\ HasFields(st) /\ st.blocks = <<>> /\ st.lists = [a \in 0 .. Areas - 1 |-> <<>>]
    /\ st.free = <<>> /\ st.cachecnt = 0 /\ st.fault = FALSE
    /\ st.blockcount \in Nat \ {0} /\ st.blockout \in Nat \ {0} /\ st.maxlen \in Nat
    /\ IsRc(st.rc) /\ IsFiles(st.ref, st.rfb) /\ FilesOK(st.rc, st.ref, st.rfb, st.blockout)
    /\ \A r \in DOMAIN st.rc : st.rc[r].blk = 0 /\ st.rc[r].bitsize = 0

\* It is sound.
LEMMA NoBlocksFacts ==
    ASSUME NEW st, NoBlocks(st)
    PROVE  Sound(st) /\ \A r \in DOMAIN st.rc : DataOf(st, r)
  <1>1. /\ HasFields(st) /\ st.blocks = <<>> /\ st.lists = [a \in 0 .. Areas - 1 |-> <<>>]
        /\ st.free = <<>> /\ st.cachecnt = 0 /\ st.fault = FALSE
        /\ st.blockcount \in Nat \ {0} /\ st.blockout \in Nat \ {0} /\ st.maxlen \in Nat
        /\ IsRc(st.rc) /\ IsFiles(st.ref, st.rfb) /\ FilesOK(st.rc, st.ref, st.rfb, st.blockout)
        /\ \A r \in DOMAIN st.rc : st.rc[r].blk = 0 /\ st.rc[r].bitsize = 0
    BY DEF NoBlocks
  <1>2. DOMAIN st.blocks = {}
    BY <1>1
  <1>3. IsBlocks(st.blocks)
    BY <1>1 DEF IsBlocks
  <1>4. IsLists(st.lists) /\ st.free \in Seq(FreeEntry)
    BY <1>1 DEF IsLists
  <1>5. IsStore(st)
    BY <1>1, <1>3, <1>4 DEF IsStore
  <1>6. ListsOK(st.lists, st.blocks)
    <2>1. ListsOnce(<<>>, {})
      BY DEF ListsOnce, IsInjective, ToSet
    <2>2. \A a : InArea(st.blocks, a) = {}
      BY <1>2 DEF InArea
    <2>3. \A a \in 0 .. Areas - 1 : st.lists[a] = <<>>
      BY <1>1
    <2> QED
      BY <2>1, <2>2, <2>3 DEF ListsOK
  <1>7. FragsOK(st.rc, st.blocks) /\ NumbersOK(st.blocks, st.blockcount)
    BY <1>1, <1>2 DEF FragsOK, NumbersOK
  <1>8. Body(st)
    BY <1>1, <1>5, <1>6, <1>7 DEF Body
  <1>9. CountOK(st.blocks, st.cachecnt)
    <2>1. IsFiniteSet({}) /\ Cardinality({}) = 0
      BY FS_EmptySet
    <2>2. 0 <= MaxBlocks
      BY BlockNumbers DEF MaxBlocks
    <2> QED
      BY <1>1, <1>2, <2>1, <2>2 DEF CountOK
  <1>10. FreeFits(st.free, Rooms(st.blocks))
    <2>1. DOMAIN Rooms(st.blocks) = {}
      BY <1>2 DEF Rooms
    <2>2. DOMAIN st.free = {}
      BY <1>1
    <2> QED
      BY <2>1, <2>2 DEF FreeFits
  <1>11. Sound(st)
    BY <1>8, <1>9, <1>10 DEF Sound
  <1>12. ASSUME NEW r \in DOMAIN st.rc PROVE DataOf(st, r)
    BY <1>1, <1>8, DataOfNothing
  <1> QED
    BY <1>11, <1>12

\* The first run.
LEMMA EmptyStoreFacts == NoBlocks(EmptyStore) /\ DOMAIN EmptyStore.rc = {}
  <1> DEFINE st == EmptyStore
  <1>1. /\ HasFields(st) /\ st.blocks = <<>> /\ st.lists = [a \in 0 .. Areas - 1 |-> <<>>]
        /\ st.free = <<>> /\ st.cachecnt = 0 /\ st.fault = FALSE
        /\ st.blockcount = 1 /\ st.blockout = 1 /\ st.maxlen = 0
        /\ st.rc = <<>> /\ st.ref = <<>> /\ st.rfb = <<>>
    BY DEF EmptyStore, HasFields, Fields
  <1> HIDE DEF st
  <1>2. IsRc(st.rc) /\ DOMAIN st.rc = {}
    BY <1>1 DEF IsRc
  <1>3. IsFiles(st.ref, st.rfb) /\ DOMAIN st.ref = {} /\ DOMAIN st.rfb = {}
    BY <1>1 DEF IsFiles
  <1>4. FilesOK(st.rc, st.ref, st.rfb, st.blockout)
    <2>1. 1 .. st.blockout - 1 = {}
      BY <1>1
    <2>2. (DOMAIN st.rc) \X Nat = {}
      BY <1>2
    <2> QED
      BY <1>3, <2>1, <2>2 DEF FilesOK
  <1>5. NoBlocks(st) /\ DOMAIN st.rc = {}
    BY <1>1, <1>2, <1>3, <1>4 DEF NoBlocks
  <1> QED
    BY <1>5 DEF st

OpenedStore(sv, st) ==
    [EmptyStore EXCEPT
        !.rc = [r \in DOMAIN sv.rc |-> OpenedRecord(sv.rc[r])],
        !.blockcount = sv.blockcount, !.blockout = sv.blockcount,
        !.maxlen = Max({sv.rc[r].freq : r \in DOMAIN sv.rc} \cup {0}),
        !.ref = st.ref, !.rfb = st.rfb]

\* The next run: the records and the files are those of the last one.
LEMMA OpenedFacts ==
    ASSUME NEW st, NEW d, Closed(st, d)
    PROVE  LET new == OpenedStore(SavedOf(st), st)
           IN  NoBlocks(new) /\ new.rc = st.rc
  <1> DEFINE sv == SavedOf(st)
             rc == [r \in DOMAIN sv.rc |-> OpenedRecord(sv.rc[r])]
             T == {sv.rc[r].freq : r \in DOMAIN sv.rc} \cup {0}
             maxlen == Max(T)
             blockout == sv.blockcount
             ref == st.ref
             rfb == st.rfb
             new == OpenedStore(sv, st)
  <1>1. DOMAIN sv.rc = DOMAIN st.rc /\ blockout = st.blockout
        /\ \A r \in DOMAIN st.rc : sv.rc[r].freq = st.rc[r].freq /\ OpenedRecord(sv.rc[r]) = st.rc[r]
    BY ReopenedRecords DEF SavedOf
  <1>2. /\ IsRc(st.rc) /\ IsFiles(st.ref, st.rfb) /\ st.blockout \in Nat \ {0}
        /\ FilesOK(st.rc, st.ref, st.rfb, st.blockout)
        /\ \A r \in DOMAIN st.rc : st.rc[r].blk = 0 /\ st.rc[r].bitsize = 0
    BY DEF Closed
  <1> HIDE DEF sv
  <1>3. rc = st.rc
    <2>1. rc = [r \in DOMAIN st.rc |-> st.rc[r]]
      BY <1>1
    <2> QED
      BY <1>2, <2>1 DEF IsRc
  <1>4. maxlen \in Nat
    <2> DEFINE f == [r \in DOMAIN st.rc |-> st.rc[r].freq]
               U == {st.rc[r].freq : r \in DOMAIN st.rc}
    <2>1. DOMAIN st.rc \subseteq Rec /\ \A r \in DOMAIN st.rc : st.rc[r].freq \in Nat
      BY <1>2 DEF IsRc, RecData
    <2>2. IsFiniteSet(DOMAIN st.rc)
      BY <2>1, RecAssumption, FS_Subset
    <2>3. f \in Surjection(DOMAIN st.rc, U)
      BY DEF Surjection
    <2> HIDE DEF f
    <2>4. IsFiniteSet(U)
      BY <2>2, <2>3, FS_Surjection
    <2>5. T = U \cup {0}
      BY <1>1
    <2>6. U \subseteq Nat
      BY <2>1
    <2> HIDE DEF U, T
    <2>7. IsFiniteSet(T) /\ T \subseteq Nat /\ T # {}
      BY <2>4, <2>5, <2>6, FS_AddElement
    <2> QED
      BY <2>7, FiniteMax
  <1>5. new = [[[EmptyStore EXCEPT !.rc = rc, !.blockcount = blockout]
                  EXCEPT !.blockout = blockout, !.maxlen = maxlen] EXCEPT !.ref = ref, !.rfb = rfb]
    BY DEF OpenedStore
  <1> HIDE DEF rc, maxlen, blockout, ref, rfb, new
  <1>6. /\ HasFields(EmptyStore) /\ EmptyStore.blocks = <<>>
        /\ EmptyStore.lists = [a \in 0 .. Areas - 1 |-> <<>>]
        /\ EmptyStore.free = <<>> /\ EmptyStore.cachecnt = 0 /\ EmptyStore.fault = FALSE
    BY DEF EmptyStore, HasFields, Fields
  <1> DEFINE mid1 == [EmptyStore EXCEPT !.rc = rc, !.blockcount = blockout]
             mid2 == [mid1 EXCEPT !.blockout = blockout, !.maxlen = maxlen]
  <1>7. /\ HasFields(mid1) /\ mid1.blocks = <<>> /\ mid1.lists = [a \in 0 .. Areas - 1 |-> <<>>]
        /\ mid1.free = <<>> /\ mid1.cachecnt = 0 /\ mid1.fault = FALSE
        /\ mid1.rc = rc /\ mid1.blockcount = blockout
    BY <1>6 DEF HasFields, Fields
  <1> HIDE DEF mid1
  <1>8. /\ HasFields(mid2) /\ mid2.blocks = <<>> /\ mid2.lists = [a \in 0 .. Areas - 1 |-> <<>>]
        /\ mid2.free = <<>> /\ mid2.cachecnt = 0 /\ mid2.fault = FALSE
        /\ mid2.rc = rc /\ mid2.blockcount = blockout
        /\ mid2.blockout = blockout /\ mid2.maxlen = maxlen
    BY <1>7 DEF HasFields, Fields
  <1>9. new = [mid2 EXCEPT !.ref = ref, !.rfb = rfb]
    BY <1>5 DEF mid1
  <1> HIDE DEF mid2
  <1>10. /\ HasFields(new) /\ new.blocks = <<>> /\ new.lists = [a \in 0 .. Areas - 1 |-> <<>>]
         /\ new.free = <<>> /\ new.cachecnt = 0 /\ new.fault = FALSE
         /\ new.rc = rc /\ new.blockcount = blockout
         /\ new.blockout = blockout /\ new.maxlen = maxlen /\ new.ref = ref /\ new.rfb = rfb
    BY <1>8, <1>9 DEF HasFields, Fields
  <1>11. ref = st.ref /\ rfb = st.rfb
    BY DEF ref, rfb
  <1>12. NoBlocks(new) /\ new.rc = st.rc
    BY <1>1, <1>2, <1>3, <1>4, <1>10, <1>11 DEF NoBlocks
  <1> QED
    BY <1>12 DEF new, sv

-----------------------------------------------------------------------------
(* The invariant. *)

IInv ==
    /\ doc \in Docs \cup {0}
    /\ indexing => AtRest(ix, doc)
    /\ ~ indexing => Closed(ix.st, doc) /\ ix = EmptyCache(ix.st) /\ saved = SavedOf(ix.st)

\* Documents are numbers.
LEMMA DocNumbers ==
    ASSUME NEW d \in Docs \cup {0}
    PROVE  d \in Nat /\ (d > 0 => d \in Docs)
  BY IndCacheAssumption

\* The first run begins without records.
LEMMA InitIInv ==
    ASSUME Init
    PROVE  IInv
  <1>1. ix = EmptyCache(EmptyStore) /\ doc = 0 /\ indexing = TRUE
    BY DEF Init
  <1>2. Sound(EmptyStore) /\ \A r \in DOMAIN EmptyStore.rc : DataOf(EmptyStore, r)
    BY EmptyStoreFacts, NoBlocksFacts
  <1>3. \A r \in DOMAIN EmptyStore.rc : EmptyStore.rc[r].lastdoc <= 0
    BY EmptyStoreFacts
  <1>4. AtRest(EmptyCache(EmptyStore), 0)
    <2> DEFINE st == EmptyStore
    <2>1. Sound(st) /\ \A r \in DOMAIN st.rc : st.rc[r].lastdoc <= 0 /\ DataOf(st, r)
      BY <1>2, <1>3
    <2> HIDE DEF st
    <2>2. AtRest(EmptyCache(st), 0)
      BY <2>1, EmptyCacheFacts
    <2> QED
      BY <2>2 DEF st
  <1> QED
    BY <1>1, <1>4 DEF IInv

\* The next document.
LEMMA NextDocIInv ==
    ASSUME IInv, NextDoc
    PROVE  IInv'
  <1>1. /\ indexing /\ indexing' = indexing /\ ix' = ix
        /\ doc' \in Docs /\ doc' > doc
    BY DEF NextDoc
  <1>2. AtRest(ix, doc) /\ doc \in Nat /\ doc' \in Nat
    BY <1>1, DocNumbers DEF IInv
  <1>3. AtRest(ix, doc')
    <2> DEFINE d == doc
               e == doc'
               c == ix
    <2>1. AtRest(c, d) /\ d \in Nat /\ e \in Nat /\ d < e
      BY <1>1, <1>2
    <2> HIDE DEF c, d, e
    <2>2. ASSUME NEW r \in Rec PROVE HitOK(c.st, c.hits, e, r)
      <3>1. HitOK(c.st, c.hits, d, r)
        BY <2>1 DEF AtRest, CacheOK
      <3>2. CASE r \in DOMAIN c.st.rc
        <4> DEFINE hits == c.hits[r]
                   last == c.st.rc[r].lastdoc
        <4>1. last <= d /\ last \in Nat /\ Ascending(hits, last, d)
          <5>1. c.st.rc[r].lastdoc \in Nat
            BY <2>1, <3>2 DEF AtRest, CacheOK, Sound, Body, IsStore, IsRc, RecData
          <5> QED
            BY <3>1, <3>2, <5>1 DEF HitOK
        <4> HIDE DEF hits, last
        <4>2. last <= e
          BY <2>1, <4>1
        <4>3. \A i \in 1 .. Len(hits) : hits[i] \in Nat
          <5>1. hits \in Seq(Docs)
            BY <4>1 DEF Ascending
          <5>2. \A i \in 1 .. Len(hits) : hits[i] \in Docs
            BY <5>1
          <5>3. \A x \in Docs : x \in Nat
            BY IndCacheAssumption
          <5> QED
            BY <5>2, <5>3
        <4>4. Ascending(hits, last, e)
          BY <2>1, <4>1, <4>3 DEF Ascending
        <4> QED
          BY <3>1, <3>2, <4>2, <4>4 DEF HitOK, hits, last
      <3>3. CASE r \notin DOMAIN c.st.rc
        BY <3>1, <3>3 DEF HitOK
      <3> QED
        BY <3>2, <3>3
    <2>3. AtRest(c, e)
      BY <2>1, <2>2 DEF AtRest, CacheOK
    <2> QED
      BY <2>3 DEF c, e
  <1> QED
    BY <1>1, <1>3 DEF IInv

\* A word of the document.
LEMMA AddIInv ==
    ASSUME IInv, NEW r \in Rec, Add(r)
    PROVE  IInv'
  <1>1. /\ indexing /\ indexing' = indexing /\ doc' = doc /\ doc > 0
        /\ ix.hits[r] = <<>> \/ Last(ix.hits[r]) # doc
        /\ r \in DOMAIN ix.st.rc => ix.st.rc[r].lastdoc # doc
        /\ ix' = AddHit([ix EXCEPT !.st = NewRecord(@, r)], r, doc)
    BY DEF Add, Pending, Encoded
  <1>2. AtRest(ix, doc) /\ doc \in Docs /\ doc \in Nat
    BY <1>1, DocNumbers DEF IInv
  <1> DEFINE c == ix
             d == doc
             mid == [c EXCEPT !.st = NewRecord(@, r)]
  <1>3. /\ AtRest(c, d) /\ d \in Docs /\ d \in Nat /\ d > 0
        /\ c.hits[r] = <<>> \/ Last(c.hits[r]) # d
        /\ r \in DOMAIN c.st.rc => c.st.rc[r].lastdoc # d
    BY <1>1, <1>2
  <1>4. ix' = AddHit(mid, r, d)
    BY <1>1
  <1> HIDE DEF c, d
  <1>5. CacheOK(c, d) /\ LowOK(c)
    BY <1>3 DEF AtRest
  <1>6. EntersCache(c, mid, r, d)
    BY <1>3, <1>5, EnteredFacts
  <1> HIDE DEF mid
  <1>7. /\ CacheOK(mid, d) /\ LowOK(mid) /\ mid.hits = c.hits /\ mid.total = c.total
        /\ r \in DOMAIN mid.st.rc /\ mid.st = NewRecord(c.st, r)
    BY <1>6 DEF EntersCache
  <1>8. AtRest(mid, d)
    BY <1>3, <1>7 DEF AtRest
  <1>9. mid.st.rc[r].lastdoc < d
    <2>1. Entered(c.st, mid.st, r)
      <3>1. Sound(c.st)
        BY <1>5 DEF CacheOK
      <3> QED
        BY <1>7, <3>1, NewRecordFacts
    <2>2. CASE r \in DOMAIN c.st.rc
      <3>1. mid.st.rc[r] = c.st.rc[r]
        BY <2>1, <2>2 DEF Entered
      <3>2. c.st.rc[r].lastdoc <= d /\ c.st.rc[r].lastdoc \in Nat
        <4>1. HitOK(c.st, c.hits, d, r)
          BY <1>5 DEF CacheOK
        <4> QED
          BY <1>5, <2>2, <4>1 DEF HitOK, CacheOK, Sound, Body, IsStore, IsRc, RecData
      <3> QED
        BY <1>3, <2>2, <3>1, <3>2
    <2>3. CASE r \notin DOMAIN c.st.rc
      <3>1. mid.st.rc[r] = EmptyRecord
        BY <2>1, <2>3 DEF Entered
      <3>2. mid.st.rc[r].lastdoc = 0
        BY <3>1 DEF EmptyRecord
      <3> QED
        BY <1>3, <3>2
    <2> QED
      BY <2>2, <2>3
  <1>10. AtRest(AddHit(mid, r, d), d)
    BY <1>3, <1>7, <1>8, <1>9, AddHitFacts
  <1>11. AtRest(ix', doc')
    BY <1>1, <1>4, <1>10 DEF d
  <1> QED
    BY <1>1, <1>2, <1>11 DEF IInv

\* The run ends.
LEMMA SaveIInv ==
    ASSUME IInv, Save
    PROVE  IInv'
  <1> DEFINE mid == FlushHits(ix, 0)
             st == FlushDirtyBlocks(mid.st)
  <1>1. /\ indexing /\ indexing' = FALSE /\ doc' = doc
        /\ ix' = EmptyCache(st) /\ saved' = SavedOf(st)
    BY DEF Save, SavedAs, SavedOf
  <1>2. CacheOK(ix, doc) /\ LowOK(ix)
    BY <1>1 DEF IInv, AtRest
  <1>3. LevelsDone(ix, mid, 0, doc)
    BY <1>2, FlushHitsFacts
  <1> HIDE DEF mid
  <1>4. CacheOK(mid, doc)
    BY <1>3 DEF LevelsDone, Fewer
  <1>5. Closed(st, doc)
    BY <1>4, ClosedFacts
  <1> HIDE DEF st
  <1>6. ix'.st = st
    <2>1. EmptyCache(st).st = st
      BY DEF EmptyCache
    <2> QED
      BY <1>1, <2>1
  <1>7. Closed(ix'.st, doc') /\ ix' = EmptyCache(ix'.st) /\ saved' = SavedOf(ix'.st)
    BY <1>1, <1>5, <1>6
  <1>8. doc' \in Docs \cup {0} /\ ~ indexing'
    BY <1>1 DEF IInv
  <1> QED
    BY <1>7, <1>8 DEF IInv

\* The next run begins.
LEMMA OpenIInv ==
    ASSUME IInv, Open
    PROVE  IInv'
  <1> DEFINE st == ix.st
             new == OpenedStore(SavedOf(st), st)
  <1>1. /\ ~ indexing /\ indexing' = TRUE /\ doc' = doc
        /\ ix' = EmptyCache(OpenedStore(saved, st))
    BY DEF Open, OpenedStore
  <1>2. Closed(st, doc) /\ saved = SavedOf(st) /\ doc \in Docs \cup {0}
    BY <1>1 DEF IInv
  <1>3. ix' = EmptyCache(new)
    BY <1>1, <1>2
  <1>4. NoBlocks(new) /\ new.rc = st.rc
    BY <1>2, OpenedFacts
  <1> HIDE DEF new
  <1>5. Sound(new) /\ \A r \in DOMAIN new.rc : DataOf(new, r)
    BY <1>4, NoBlocksFacts
  <1>6. \A r \in DOMAIN new.rc : new.rc[r].lastdoc <= doc
    BY <1>2, <1>4 DEF Closed
  <1>7. AtRest(EmptyCache(new), doc)
    BY <1>2, <1>5, <1>6, DocNumbers, EmptyCacheFacts
  <1> QED
    BY <1>1, <1>2, <1>3, <1>7 DEF IInv

\* The indexer keeps its books, whatever it does.
THEOREM IndCacheInv == Spec => []IInv
  <1>1. Init => IInv
    BY InitIInv
  <1>2. IInv /\ [Next]_vars => IInv'
    <2> SUFFICES ASSUME IInv, [Next]_vars PROVE IInv'
      OBVIOUS
    <2>1. CASE NextDoc
      BY <2>1, NextDocIInv
    <2>2. CASE Save
      BY <2>2, SaveIInv
    <2>3. CASE Open
      BY <2>3, OpenIInv
    <2>4. ASSUME NEW r \in Rec, Add(r) PROVE IInv'
      BY <2>4, AddIInv
    <2>5. CASE UNCHANGED vars
      BY <2>5 DEF vars, IInv
    <2> QED
      BY <2>1, <2>2, <2>3, <2>4, <2>5 DEF Next
  <1> QED
    BY <1>1, <1>2, PTL DEF Spec

-----------------------------------------------------------------------------
(* What follows. *)

\* What is known of the store in every state.
StoreFacts(st) ==
    /\ st.fault = FALSE /\ IsBlocks(st.blocks) /\ IsLists(st.lists) /\ st.free \in Seq(FreeEntry)
    /\ ListsOK(st.lists, st.blocks) /\ CountOK(st.blocks, st.cachecnt)
    /\ FreeFits(st.free, Rooms(st.blocks))

\* The store in every state.
LEMMA InvStore ==
    ASSUME IInv
    PROVE  StoreFacts(ix.st)
  <1>1. CASE indexing
    <2>1. Sound(ix.st)
      BY <1>1 DEF IInv, AtRest, CacheOK
    <2> QED
      BY <2>1 DEF Sound, Body, IsStore, StoreFacts
  <1>2. CASE ~ indexing
    <2>1. Closed(ix.st, doc)
      BY <1>2 DEF IInv
    <2> QED
      BY <2>1 DEF Closed, StoreFacts
  <1> QED
    BY <1>1, <1>2

\* The books in every state.
LEMMA InvBooks ==
    ASSUME IInv
    PROVE  Books(ix)
  <1>1. CASE indexing
    BY <1>1 DEF IInv, AtRest, CacheOK, IsCache, Books
  <1>2. CASE ~ indexing
    <2>1. Closed(ix.st, doc) /\ ix = EmptyCache(ix.st)
      BY <1>2 DEF IInv
    <2>2. DOMAIN ix.st.rc \subseteq Rec
      BY <2>1 DEF Closed, IsRc
    <2>3. EmptyBooks(EmptyCache(ix.st), ix.st)
      BY <2>2, EmptyCacheBooks
    <2> QED
      BY <2>1, <2>3 DEF EmptyBooks
  <1> QED
    BY <1>1, <1>2

\* No "Internal error" is reached.
THEOREM NoInternalError == Spec => []NeverInternalError
  <1>1. IInv => NeverInternalError
    BY InvStore DEF StoreFacts, NeverInternalError
  <1> QED
    BY <1>1, IndCacheInv, PTL

\* The free list has the blocks with enough room, each once and with the room it has.
LEMMA FreeListInv ==
    ASSUME IInv
    PROVE  FreeListIsExact
  <1> DEFINE free == ix.st.free
             blocks == ix.st.blocks
             entries == {free[i] : i \in DOMAIN free}
             blks == {e.blk : e \in entries}
  <1>1. free \in Seq(FreeEntry) /\ FreeFits(free, Rooms(blocks))
    BY InvStore DEF StoreFacts
  <1>2. /\ \A i, j \in DOMAIN free : free[i].blk = free[j].blk => i = j
        /\ \A i \in DOMAIN free : free[i].blk \in DOMAIN blocks /\ free[i].bytes = Room(blocks[free[i].blk].recs)
        /\ \A b \in DOMAIN blocks : Room(blocks[b].recs) >= FreeTolerance => \E i \in DOMAIN free : free[i].blk = b
    <2>1. DOMAIN Rooms(blocks) = DOMAIN blocks /\ \A b \in DOMAIN blocks : Rooms(blocks)[b] = Room(blocks[b].recs)
      BY DEF Rooms
    <2> HIDE DEF free, blocks
    <2> QED
      BY <1>1, <2>1 DEF FreeFits
  <1> HIDE DEF free
  <1>3. Len(free) = Cardinality(blks)
    <2> DEFINE n == Len(free)
               f == [i \in 1 .. n |-> free[i].blk]
    <2>1. n \in Nat /\ DOMAIN free = 1 .. n
      BY <1>1
    <2>2. \A b : b \in blks <=> \E i \in DOMAIN free : b = free[i].blk
      OBVIOUS
    <2> HIDE DEF n, blks, entries
    <2>3. f \in [1 .. n -> blks]
      BY <2>1, <2>2
    <2>4. \A i, j \in 1 .. n : f[i] = f[j] => i = j
      BY <1>2, <2>1
    <2>5. \A b \in blks : \E i \in 1 .. n : f[i] = b
      BY <2>1, <2>2
    <2>6. IsFiniteSet(1 .. n) /\ Cardinality(1 .. n) = n
      BY <2>1, FS_Interval
    <2> HIDE DEF f
    <2>7. Cardinality(blks) = Cardinality(1 .. n)
      BY <2>3, <2>4, <2>5, <2>6, SameSize
    <2> QED
      BY <2>6, <2>7 DEF n
  <1>4. \A e \in entries : e.blk \in DOMAIN blocks /\ e.bytes = Room(blocks[e.blk].recs)
    BY <1>2
  <1>5. \A b \in DOMAIN blocks : Room(blocks[b].recs) >= FreeTolerance => \E e \in entries : e.blk = b
    BY <1>2
  <1> HIDE DEF blks
  <1> QED
    BY <1>3, <1>4, <1>5 DEF FreeListIsExact, free, blks

\* The free list is exact whatever is written, grows or leaves (freeblock_get, freelist_del).
THEOREM FreeListKept == Spec => []FreeListIsExact
  <1>1. IInv => FreeListIsExact
    BY FreeListInv
  <1> QED
    BY <1>1, IndCacheInv, PTL

\* The secondary cache is counted, each block in the list of its area, and bounded.
LEMMA CacheInv ==
    ASSUME IInv
    PROVE  CacheIsBounded
  <1> DEFINE st == ix.st
  <1>1. IsBlocks(st.blocks) /\ ListsOK(st.lists, st.blocks) /\ CountOK(st.blocks, st.cachecnt)
    BY InvStore DEF StoreFacts
  <1>2. ASSUME NEW b \in DOMAIN st.blocks PROVE Contains(st.lists[st.blocks[b].fidx], b)
    <2> DEFINE a == st.blocks[b].fidx
               q == st.lists[a]
    <2>1. a \in 0 .. Areas - 1
      BY <1>1 DEF IsBlocks, Block
    <2>2. ListsOnce(q, InArea(st.blocks, a)) /\ b \in InArea(st.blocks, a)
      BY <1>1, <2>1 DEF ListsOK, InArea
    <2> DEFINE area == InArea(st.blocks, a)
    <2> HIDE DEF q, area
    <2>3. \E i \in 1 .. Len(q) : q[i] = b
      <3>1. ListsOnce(q, area) /\ b \in area
        BY <2>2 DEF area
      <3>2. \A e : e \in area <=> \E i \in 1 .. Len(q) : q[i] = e
        BY <3>1, ListsSome
      <3> QED
        BY <3>1, <3>2
    <2> QED
      BY <2>3 DEF Contains, q
  <1>3. st.cachecnt = Cardinality(DOMAIN st.blocks)
        /\ st.cachecnt <= IF MaxCache > Areas THEN MaxCache ELSE Areas + 1
    BY <1>1 DEF CountOK, MaxBlocks
  <1> QED
    BY <1>2, <1>3 DEF CacheIsBounded

\* The cache never has more blocks than it may (cache_fetch).
THEOREM CacheKept == Spec => []CacheIsBounded
  <1>1. IInv => CacheIsBounded
    BY CacheInv
  <1> QED
    BY <1>1, IndCacheInv, PTL

\* A saved index has an entry for every fragment.
LEMMA SavedInv ==
    ASSUME IInv
    PROVE  SavedIndexOpens
  <1> SUFFICES ASSUME ~ indexing
               PROVE  /\ DOMAIN ix.st.rfb = UNION {{<<r, f>> : f \in 0 .. saved.rc[r].nfrags - 1} : r \in DOMAIN saved.rc}
                      /\ \A e \in DOMAIN ix.st.rfb : ix.st.rfb[e] \in 1 .. saved.blockcount - 1
                      /\ DOMAIN ix.st.ref = 1 .. saved.blockcount - 1
    BY DEF SavedIndexOpens
  <1> DEFINE st == ix.st
             pairs == UNION {{<<r, f>> : f \in 0 .. saved.rc[r].nfrags - 1} : r \in DOMAIN saved.rc}
  <1>1. Closed(st, doc) /\ saved = SavedOf(st)
    BY DEF IInv
  <1>2. FilesOK(st.rc, st.ref, st.rfb, st.blockout) /\ \A r \in DOMAIN st.rc : st.rc[r].nfrags \in Nat \ {0}
    BY <1>1 DEF Closed, IsRc, RecData
  <1>3. DOMAIN saved.rc = DOMAIN st.rc /\ saved.blockcount = st.blockout
        /\ \A r \in DOMAIN st.rc : saved.rc[r].nfrags = st.rc[r].nfrags - 1
    <2>1. SavedOf(st).blockcount = st.blockout
      BY DEF SavedOf
    <2> HIDE DEF st
    <2> QED
      BY <1>1, <2>1, ReopenedRecords
  <1>4. DOMAIN st.rfb = {k \in (DOMAIN st.rc) \X Nat : k[2] + 1 < st.rc[k[1]].nfrags}
        /\ DOMAIN st.ref = 1 .. st.blockout - 1
        /\ \A k \in DOMAIN st.rfb : st.rfb[k] \in DOMAIN st.ref
    BY <1>2 DEF FilesOK
  <1> HIDE DEF st
  <1>5. ASSUME NEW k \in DOMAIN st.rfb PROVE k \in pairs
    <2>1. k \in (DOMAIN st.rc) \X Nat /\ k[2] + 1 < st.rc[k[1]].nfrags
      BY <1>4
    <2>2. k[1] \in DOMAIN st.rc /\ k[2] \in Nat /\ k = <<k[1], k[2]>>
      BY <2>1
    <2>3. k[2] \in 0 .. saved.rc[k[1]].nfrags - 1
      <3> DEFINE n == st.rc[k[1]].nfrags
                 f == k[2]
      <3>1. n \in Nat /\ f \in Nat /\ f + 1 < n /\ saved.rc[k[1]].nfrags = n - 1
        BY <1>2, <1>3, <2>1, <2>2
      <3> HIDE DEF n, f
      <3>2. f \in 0 .. (n - 1) - 1
        BY <3>1
      <3> QED
        BY <3>1, <3>2 DEF f
    <2> QED
      BY <1>3, <2>2, <2>3
  <1>6. ASSUME NEW k \in pairs PROVE k \in DOMAIN st.rfb
    <2>1. PICK r \in DOMAIN saved.rc : k \in {<<r, f>> : f \in 0 .. saved.rc[r].nfrags - 1}
      OBVIOUS
    <2>2. PICK f \in 0 .. saved.rc[r].nfrags - 1 : k = <<r, f>>
      BY <2>1
    <2>3. r \in DOMAIN st.rc /\ saved.rc[r].nfrags = st.rc[r].nfrags - 1 /\ st.rc[r].nfrags \in Nat
      BY <1>2, <1>3
    <2>4. f \in Nat /\ f + 1 < st.rc[r].nfrags
      BY <2>3
    <2>5. <<r, f>> \in (DOMAIN st.rc) \X Nat /\ <<r, f>>[1] = r /\ <<r, f>>[2] = f
      BY <2>3, <2>4
    <2>6. <<r, f>> \in {x \in (DOMAIN st.rc) \X Nat : x[2] + 1 < st.rc[x[1]].nfrags}
      BY <2>4, <2>5
    <2> QED
      BY <1>4, <2>2, <2>6
  <1>7. DOMAIN st.rfb = pairs
    <2> HIDE DEF pairs
    <2>1. \A k : k \in DOMAIN st.rfb <=> k \in pairs
      BY <1>5, <1>6
    <2> QED
      BY <1>4, <2>1
  <1> QED
    BY <1>3, <1>4, <1>7 DEF st

\* A searcher finds an entry for every fragment of a saved index (rfbmap_searcher_read).
THEOREM SavedIndexKept == Spec => []SavedIndexOpens
  <1>1. IInv => SavedIndexOpens
    BY SavedInv
  <1> QED
    BY <1>1, IndCacheInv, PTL

\* The primary cache's books are right.
LEMMA CountersInv ==
    ASSUME IInv, MaxTotalHits > 8
    PROVE  CountersAreRight
  <1>1. Books(ix)
    BY InvBooks
  <1>2. ix.total = Cardinality(UNION {{r} \X (1 .. Len(ix.hits[r]) * Weight(r)) : r \in Rec})
    <2>1. ix.total = Cardinality(OfAll(Rec, Weights(ix.hits)))
      BY <1>1 DEF Books, TotalIs
    <2>2. OfAll(Rec, Weights(ix.hits)) = UNION {{r} \X (1 .. Len(ix.hits[r]) * Weight(r)) : r \in Rec}
      BY DEF OfAll, Weights
    <2> QED
      BY <2>1, <2>2
  <1>3. ASSUME NEW l \in SameHits
        PROVE  /\ IsInjective(ix.lists[l])
               /\ ToSet(ix.lists[l]) = {r \in Rec : ix.hits[r] # <<>> /\ ListOf(Len(ix.hits[r])) = l}
    BY <1>1 DEF Books, ListsAre, ListsOnce, Having
  <1>4. ASSUME NEW k \in 0 .. MaxRecHits \div Quant, ix.lists[<<"big", k>>] # <<>> PROVE k <= ix.top
    BY <1>1, <1>4 DEF Books, TopIs, TopMost
  <1>5. ASSUME NEW n \in 1 .. LowHitsMax
        PROVE  ix.nlow[n] >= Cardinality({r \in DOMAIN ix.st.rc :
                                              Len(ix.hits[r]) = n /\ ix.st.rc[r].freq =< LowFreq})
    BY <1>1 DEF Books, LowOK, LowSet
  <1>6. ix.total <= MaxTotalHits
    BY <1>1 DEF Books
  <1> QED
    BY <1>2, <1>3, <1>4, <1>5, <1>6 DEF CountersAreRight

\* The books are right and bounded (indCacheAdd, indCacheFlushHits); a limit of 8 hits or less may be passed.
THEOREM CountersKept ==
    ASSUME MaxTotalHits > 8
    PROVE  Spec => []CountersAreRight
  <1>1. IInv => CountersAreRight
    BY CountersInv
  <1> QED
    BY <1>1, IndCacheInv, PTL
=============================================================================
