--------------------------- MODULE NcsLists_proofs ---------------------------
(***************************************************************************)
(* What elements taken out of lists leave behind, how often something is   *)
(* in a list, and how large sets are that correspond to each other.        *)
(***************************************************************************)
EXTENDS NcsLists, FiniteSetTheorems, TLAPS

-----------------------------------------------------------------------------
(* Numbers and finite sets. *)

\* Numbers have a least one.
LEMMA LeastExists ==
    ASSUME NEW T, T \subseteq Nat, T # {}
    PROVE  \E x \in T : \A y \in T : x <= y
  <1> DEFINE less == OpToRel(<, Nat)
  <1>1. less = {ss \in Nat \X Nat : ss[1] < ss[2]}
    BY DEF OpToRel
  <1>2. IsWellFoundedOn(less, Nat)
    BY NatLessThanWellFounded
  <1> HIDE DEF less
  <1>3. PICK x \in T : \A y \in T : ~ (<<y, x>> \in less)
    BY <1>2, WFMin
  <1>4. ASSUME NEW y \in T PROVE x <= y
    <2>1. x \in Nat /\ y \in Nat
      OBVIOUS
    <2>2. <<y, x>> \in Nat \X Nat /\ <<y, x>>[1] = y /\ <<y, x>>[2] = x
      BY <2>1
    <2>3. y < x => <<y, x>> \in less
      BY <1>1, <2>2
    <2> QED
      BY <1>3, <2>1, <2>3
  <1> QED
    BY <1>4

\* Min finds it.
LEMMA MinIsLeast ==
    ASSUME NEW T, T \subseteq Nat, T # {}
    PROVE  Min(T) \in T /\ \A y \in T : Min(T) <= y
  BY LeastExists DEF Min

\* Sets that a function matches one to one are equally large.
LEMMA SameSize ==
    ASSUME NEW S, IsFiniteSet(S), NEW T, NEW f \in [S -> T],
           \A x, y \in S : f[x] = f[y] => x = y,
           \A t \in T : \E x \in S : f[x] = t
    PROVE  IsFiniteSet(T) /\ Cardinality(T) = Cardinality(S)
  <1>1. f \in Bijection(S, T)
    BY DEF Bijection, Injection, Surjection, IsInjective
  <1> QED
    BY <1>1, FS_Bijection DEF ExistsBijection

\* Sets without a common element.
LEMMA DisjointSize ==
    ASSUME NEW S, IsFiniteSet(S), NEW T, IsFiniteSet(T), S \cap T = {}
    PROVE  IsFiniteSet(S \cup T) /\ Cardinality(S \cup T) = Cardinality(S) + Cardinality(T)
  <1>1. Cardinality(S \cup T) = Cardinality(S) + Cardinality(T) - 0
    BY FS_Union, FS_EmptySet
  <1>2. Cardinality(S) \in Nat /\ Cardinality(T) \in Nat
    BY FS_CardinalityType
  <1>3. IsFiniteSet(S \cup T)
    BY FS_Union
  <1> QED
    BY <1>1, <1>2, <1>3

\* Tagging the members of a set keeps their number.
LEMMA Tagged ==
    ASSUME NEW s, NEW A, IsFiniteSet(A)
    PROVE  IsFiniteSet({s} \X A) /\ Cardinality({s} \X A) = Cardinality(A)
  <1> DEFINE f == [i \in A |-> <<s, i>>]
  <1>1. f \in [A -> {s} \X A]
    OBVIOUS
  <1>2. \A x, y \in A : f[x] = f[y] => x = y
    OBVIOUS
  <1>3. \A t \in {s} \X A : \E x \in A : f[x] = t
    OBVIOUS
  <1> HIDE DEF f
  <1> QED
    BY <1>1, <1>2, <1>3, SameSize

\* A function that matches two sets matches the parts that correspond.
Matches(f, S, T) ==
    /\ f \in [S -> T] /\ \A x, y \in S : f[x] = f[y] => x = y
    /\ \A t \in T : \E x \in S : f[x] = t

Parts(f, S, T, U, V) ==
    U \subseteq S /\ V \subseteq T /\ \A x \in S : x \in U <=> f[x] \in V

\* Parts that match are equally large.
LEMMA PartsMatch ==
    ASSUME NEW S, IsFiniteSet(S), NEW T, NEW f, Matches(f, S, T),
           NEW U, NEW V, Parts(f, S, T, U, V)
    PROVE  Cardinality(U) = Cardinality(V)
  <1> DEFINE g == [x \in U |-> f[x]]
  <1>0. /\ f \in [S -> T] /\ (\A x, y \in S : f[x] = f[y] => x = y)
        /\ (\A t \in T : \E x \in S : f[x] = t)
        /\ U \subseteq S /\ V \subseteq T /\ \A x \in S : x \in U <=> f[x] \in V
    BY DEF Matches, Parts
  <1>1. IsFiniteSet(U)
    BY <1>0, FS_Subset
  <1>2. g \in [U -> V]
    BY <1>0
  <1>3. \A x, y \in U : g[x] = g[y] => x = y
    BY <1>0
  <1>4. \A t \in V : \E x \in U : g[x] = t
    BY <1>0
  <1> HIDE DEF g
  <1> QED
    BY <1>1, <1>2, <1>3, <1>4, SameSize

-----------------------------------------------------------------------------
(* Finite sets of numbers in order. *)

\* A finite set of numbers has an order, by induction on its size.
LEMMA InOrderExists ==
    ASSUME NEW A, A \subseteq Nat, IsFiniteSet(A)
    PROVE  \E f \in [1 .. Cardinality(A) -> A] :
              \A i, j \in 1 .. Cardinality(A) : i < j => f[i] < f[j]
  <1> DEFINE Ordered(B) == \E f \in [1 .. Cardinality(B) -> B] :
                              \A i, j \in 1 .. Cardinality(B) : i < j => f[i] < f[j]
             bad == {n \in Nat : \E B \in SUBSET Nat :
                                    IsFiniteSet(B) /\ Cardinality(B) = n /\ ~ Ordered(B)}
  <1>1. bad = {}
    <2> SUFFICES ASSUME bad # {} PROVE FALSE
      OBVIOUS
    <2>1. PICK n \in bad : \A m \in bad : n <= m
      <3>1. bad \subseteq Nat
        OBVIOUS
      <3> HIDE DEF bad
      <3> QED
        BY <3>1, LeastExists
    <2>2. PICK B \in SUBSET Nat : IsFiniteSet(B) /\ Cardinality(B) = n /\ ~ Ordered(B)
      OBVIOUS
    <2>3. n \in Nat
      OBVIOUS
    <2>4. CASE n = 0
      <3>1. B = {}
        BY <2>2, <2>4, FS_EmptySet
      <3>2. [i \in 1 .. 0 |-> 0] \in [1 .. 0 -> B]
        OBVIOUS
      <3>3. \A i, j \in 1 .. 0 : i < j => [x \in 1 .. 0 |-> 0][i] < [x \in 1 .. 0 |-> 0][j]
        OBVIOUS
      <3>4. Ordered(B)
        BY <2>2, <2>4, <3>2, <3>3
      <3> QED
        BY <2>2, <3>4
    <2>5. CASE n # 0
      <3>1. B # {}
        BY <2>2, <2>5, FS_EmptySet
      <3>2. PICK a \in B : \A b \in B : a <= b
        BY <2>2, <3>1, LeastExists
      <3> DEFINE C == B \ {a}
      <3>3. IsFiniteSet(C) /\ Cardinality(C) = n - 1
        BY <2>2, FS_RemoveElement
      <3>4. n - 1 \in Nat /\ ~(n <= n - 1)
        BY <2>3, <2>5
      <3>5. n - 1 \notin bad
        BY <2>1, <3>4
      <3>6. C \in SUBSET Nat
        OBVIOUS
      <3>7. Ordered(C)
        <4> HIDE DEF Ordered, C
        <4> QED
          BY <3>3, <3>4, <3>5, <3>6
      <3>8. PICK g \in [1 .. n - 1 -> C] : \A i, j \in 1 .. n - 1 : i < j => g[i] < g[j]
        BY <3>3, <3>7
      <3> DEFINE f == [i \in 1 .. n |-> IF i = 1 THEN a ELSE g[i - 1]]
      <3>9. \A i \in 1 .. n : i # 1 => i - 1 \in 1 .. n - 1
        BY <2>3
      <3>10. f \in [1 .. n -> B]
        BY <3>8, <3>9
      <3>11. ASSUME NEW i \in 1 .. n, NEW j \in 1 .. n, i < j PROVE f[i] < f[j]
        <4>1. j # 1 /\ f[j] = g[j - 1] /\ j - 1 \in 1 .. n - 1
          BY <2>3, <3>9, <3>11
        <4>2. CASE i = 1
          <5>1. f[i] = a /\ f[j] \in C
            BY <3>8, <4>1, <4>2
          <5>2. a \in Nat /\ f[j] \in Nat /\ a <= f[j] /\ a # f[j]
            BY <2>2, <3>2, <5>1
          <5> HIDE DEF f
          <5> QED
            BY <5>1, <5>2
        <4>3. CASE i # 1
          <5>1. f[i] = g[i - 1] /\ i - 1 \in 1 .. n - 1 /\ i - 1 < j - 1
            BY <2>3, <3>9, <3>11, <4>3
          <5> QED
            BY <3>8, <4>1, <5>1
        <4> QED
          BY <4>2, <4>3
      <3> HIDE DEF f
      <3>12. Ordered(B)
        BY <2>2, <3>10, <3>11
      <3> QED
        BY <2>2, <3>12
    <2> QED
      BY <2>4, <2>5
  <1>2. Cardinality(A) \in Nat /\ A \in SUBSET Nat
    BY FS_CardinalityType
  <1> QED
    BY <1>1, <1>2

\* Which InOrder therefore is: every member once.
LEMMA InOrderFacts ==
    ASSUME NEW A, A \subseteq Nat, IsFiniteSet(A)
    PROVE  /\ InOrder(A) \in [1 .. Cardinality(A) -> A]
           /\ Cardinality(A) \in Nat
           /\ \A i, j \in 1 .. Cardinality(A) : InOrder(A)[i] = InOrder(A)[j] => i = j
           /\ \A a \in A : \E i \in 1 .. Cardinality(A) : InOrder(A)[i] = a
  <1> DEFINE n == Cardinality(A)
             Good(f) == \A i, j \in 1 .. n : i < j => f[i] < f[j]
  <1>1. n \in Nat
    BY FS_CardinalityType
  <1>2. \E f \in [1 .. n -> A] : \A i, j \in DOMAIN f : i < j => f[i] < f[j]
    BY InOrderExists
  <1>3. InOrder(A) = CHOOSE f \in [1 .. n -> A] : \A i, j \in DOMAIN f : i < j => f[i] < f[j]
    BY DEF InOrder
  <1>4. /\ InOrder(A) \in [1 .. n -> A]
        /\ \A i, j \in DOMAIN InOrder(A) : i < j => InOrder(A)[i] < InOrder(A)[j]
    BY <1>2, <1>3
  <1> DEFINE f == InOrder(A)
  <1> HIDE DEF f, n
  <1>5. f \in [1 .. n -> A] /\ \A i, j \in 1 .. n : i < j => f[i] < f[j]
    BY <1>4 DEF f
  <1>6. ASSUME NEW i \in 1 .. n, NEW j \in 1 .. n, f[i] = f[j] PROVE i = j
    <2>1. f[i] \in Nat /\ f[j] \in Nat
      BY <1>5
    <2>2. ~(f[i] < f[j]) /\ ~(f[j] < f[i])
      BY <1>6, <2>1
    <2>3. ~(i < j) /\ ~(j < i)
      BY <1>5, <2>2
    <2> QED
      BY <1>1, <2>3
  <1>7. f \in Injection(1 .. n, A)
    BY <1>5, <1>6 DEF Injection, IsInjective
  <1>8. Cardinality(1 .. n) = n
    <2>1. Cardinality(1 .. n) = IF 1 > n THEN 0 ELSE n - 1 + 1
      BY <1>1, FS_Interval
    <2> QED
      BY <1>1, <2>1
  <1>9. f \in Surjection(1 .. n, A)
    BY <1>7, <1>8, FS_Injection DEF n
  <1> QED
    BY <1>1, <1>5, <1>6, <1>9 DEF f, n, Surjection

-----------------------------------------------------------------------------
(* How often something is in a sequence. *)

\* What is in a sequence can be counted.
LEMMA OccurrencesFinite ==
    ASSUME NEW S, NEW q \in Seq(S), NEW k
    PROVE  IsFiniteSet({i \in DOMAIN q : q[i] = k}) /\ Occurrences(q, k) \in Nat
  <1>1. DOMAIN q = 1 .. Len(q) /\ Len(q) \in Nat
    OBVIOUS
  <1>2. IsFiniteSet(DOMAIN q)
    BY <1>1, FS_Interval
  <1>3. {i \in DOMAIN q : q[i] = k} \subseteq DOMAIN q
    OBVIOUS
  <1>4. IsFiniteSet({i \in DOMAIN q : q[i] = k})
    BY <1>2, <1>3, FS_Subset
  <1> QED
    BY <1>4, FS_CardinalityType DEF Occurrences

\* What is in two sequences, one after the other.
LEMMA OccurrencesConcat ==
    ASSUME NEW S, NEW a \in Seq(S), NEW b \in Seq(S), NEW k
    PROVE  Occurrences(a \o b, k) = Occurrences(a, k) + Occurrences(b, k)
  <1> DEFINE c == a \o b
             m == Len(a)
             n == Len(b)
             D == m + 1 .. m + n
             f == [i \in 1 .. n |-> m + i]
  <1>1. /\ m \in Nat /\ n \in Nat /\ DOMAIN a = 1 .. m /\ DOMAIN b = 1 .. n
        /\ c \in Seq(S) /\ Len(c) = m + n /\ DOMAIN c = 1 .. m + n
        /\ \A i \in 1 .. m : c[i] = a[i]
    OBVIOUS
  <1>2. \A i \in 1 .. n : c[m + i] = b[i]
    <2> SUFFICES ASSUME NEW i \in 1 .. n PROVE c[m + i] = b[i]
      OBVIOUS
    <2>1. m + i \in 1 .. m + n /\ ~(m + i <= m) /\ (m + i) - m = i
      BY <1>1
    <2> QED
      BY <1>1, <2>1
  <1> HIDE DEF c, m, n
  <1>3. f \in [1 .. n -> D] /\ (\A x, y \in 1 .. n : f[x] = f[y] => x = y)
    BY <1>1
  <1>4. \A t \in D : \E x \in 1 .. n : f[x] = t
    <2> SUFFICES ASSUME NEW t \in D PROVE \E x \in 1 .. n : f[x] = t
      OBVIOUS
    <2>1. t - m \in 1 .. n /\ m + (t - m) = t
      BY <1>1
    <2> QED
      BY <2>1
  <1>5. \A x \in 1 .. n : b[x] = c[f[x]]
    BY <1>2
  <1>6. IsFiniteSet(1 .. n)
    BY <1>1, FS_Interval
  <1> HIDE DEF f, D
  <1>7. Cardinality({x \in 1 .. n : b[x] = k}) = Cardinality({t \in D : c[t] = k})
    <2> DEFINE W == {x \in 1 .. n : b[x] = k}
               Z == {t \in D : c[t] = k}
               N == 1 .. n
    <2>1. W \subseteq N /\ Z \subseteq D /\ \A x \in N : x \in W <=> f[x] \in Z
      BY <1>3, <1>5
    <2>2. f \in [N -> D] /\ (\A x, y \in N : f[x] = f[y] => x = y)
          /\ (\A t \in D : \E x \in N : f[x] = t) /\ IsFiniteSet(N)
      BY <1>3, <1>4, <1>6
    <2> HIDE DEF W, Z, N
    <2>3. Matches(f, N, D) /\ Parts(f, N, D, W, Z)
      BY <2>1, <2>2 DEF Matches, Parts
    <2>4. Cardinality(W) = Cardinality(Z)
      BY <2>2, <2>3, PartsMatch
    <2> QED
      BY <2>4 DEF W, Z
  <1> DEFINE U == {i \in 1 .. m : c[i] = k}
             V == {t \in D : c[t] = k}
  <1>8. {i \in 1 .. m : a[i] = k} = U
    BY <1>1
  <1>9. {i \in 1 .. m + n : c[i] = k} = U \cup V /\ U \cap V = {}
    BY <1>1 DEF D
  <1>10. IsFiniteSet(U) /\ IsFiniteSet(V)
    <2>1. U \subseteq 1 .. m /\ V \subseteq m + 1 .. m + n
      BY DEF D
    <2>2. IsFiniteSet(1 .. m) /\ IsFiniteSet(m + 1 .. m + n)
      BY <1>1, FS_Interval
    <2> HIDE DEF U, V
    <2> QED
      BY <2>1, <2>2, FS_Subset
  <1>11. Cardinality(U \cup V) = Cardinality(U) + Cardinality(V)
    <2> HIDE DEF U, V
    <2> QED
      BY <1>9, <1>10, DisjointSize
  <1> QED
    BY <1>1, <1>7, <1>8, <1>9, <1>11 DEF Occurrences, c

\* What is in a sequence of one.
LEMMA OccurrencesOne ==
    ASSUME NEW e, NEW k
    PROVE  Occurrences(<<e>>, k) = IF e = k THEN 1 ELSE 0
  <1>1. DOMAIN <<e>> = {1} /\ <<e>>[1] = e
    OBVIOUS
  <1>2. CASE e = k
    <2>1. {i \in DOMAIN <<e>> : <<e>>[i] = k} = {1}
      BY <1>1, <1>2
    <2> QED
      BY <1>2, <2>1, FS_Singleton DEF Occurrences
  <1>3. CASE e # k
    <2>1. {i \in DOMAIN <<e>> : <<e>>[i] = k} = {}
      BY <1>1, <1>3
    <2> QED
      BY <1>3, <2>1, FS_EmptySet DEF Occurrences
  <1> QED
    BY <1>2, <1>3

\* REQS_REMOVEHEAD takes one request.
LEMMA OccurrencesTail ==
    ASSUME NEW S, NEW q \in Seq(S), q # <<>>, NEW k
    PROVE  /\ Tail(q) \in Seq(S) /\ Head(q) \in S
           /\ Occurrences(q, k) = Occurrences(Tail(q), k) + IF Head(q) = k THEN 1 ELSE 0
  <1>1. Tail(q) \in Seq(S) /\ Head(q) \in S /\ <<Head(q)>> \in Seq(S)
    OBVIOUS
  <1>2. q = <<Head(q)>> \o Tail(q)
    OBVIOUS
  <1> DEFINE h == <<Head(q)>>
             t == Tail(q)
  <1>3. h \in Seq(S) /\ t \in Seq(S) /\ q = h \o t
    BY <1>1, <1>2
  <1> HIDE DEF h, t
  <1>4. Occurrences(q, k) = Occurrences(h, k) + Occurrences(t, k)
    BY <1>3, OccurrencesConcat
  <1>5. Occurrences(t, k) \in Nat
    BY <1>3, OccurrencesFinite
  <1>6. Occurrences(h, k) = IF Head(q) = k THEN 1 ELSE 0
    BY OccurrencesOne DEF h
  <1> QED
    BY <1>1, <1>4, <1>5, <1>6 DEF t

-----------------------------------------------------------------------------
(* Sequences as lists. *)

\* One element more at the end.
LEMMA AppendFacts ==
    ASSUME NEW S, NEW q \in Seq(S), NEW e \in S
    PROVE  /\ Append(q, e) \in Seq(S) /\ Len(Append(q, e)) = Len(q) + 1
           /\ ToSet(Append(q, e)) = ToSet(q) \cup {e}
           /\ IsInjective(q) /\ e \notin ToSet(q) => IsInjective(Append(q, e))
  <1> DEFINE a == Append(q, e)
             n == Len(q)
  <1>1. /\ n \in Nat /\ DOMAIN q = 1 .. n /\ a \in Seq(S) /\ Len(a) = n + 1
        /\ DOMAIN a = 1 .. n + 1 /\ a[n + 1] = e /\ \A i \in 1 .. n : a[i] = q[i]
    OBVIOUS
  <1> HIDE DEF a, n
  <1>2. /\ \A i \in 1 .. n + 1 : i \in 1 .. n \/ i = n + 1
        /\ \A i \in 1 .. n : i \in 1 .. n + 1
        /\ n + 1 \in 1 .. n + 1
    BY <1>1
  <1>3. ToSet(a) = ToSet(q) \cup {e}
    BY <1>1, <1>2 DEF ToSet
  <1>4. ASSUME IsInjective(q), e \notin ToSet(q) PROVE IsInjective(a)
    <2>1. \A i \in 1 .. n : q[i] # e
      BY <1>1, <1>4 DEF ToSet
    <2>2. \A i, j \in 1 .. n : q[i] = q[j] => i = j
      BY <1>1, <1>4 DEF IsInjective
    <2> QED
      BY <1>1, <1>2, <2>1, <2>2 DEF IsInjective
  <1> QED
    BY <1>1, <1>3, <1>4 DEF a, n

\* One element less at the front.
LEMMA TailFacts ==
    ASSUME NEW S, NEW q \in Seq(S), q # <<>>
    PROVE  /\ Tail(q) \in Seq(S) /\ Len(Tail(q)) = Len(q) - 1
           /\ Head(q) \in S /\ Head(q) \in ToSet(q)
           /\ ToSet(Tail(q)) \subseteq ToSet(q)
           /\ IsInjective(q) =>
                /\ IsInjective(Tail(q)) /\ ToSet(Tail(q)) = ToSet(q) \ {Head(q)}
  <1> DEFINE t == Tail(q)
             n == Len(q)
             h == Head(q)
  <1>1. /\ n \in Nat /\ n > 0 /\ DOMAIN q = 1 .. n /\ t \in Seq(S) /\ Len(t) = n - 1
        /\ DOMAIN t = 1 .. n - 1 /\ \A i \in 1 .. n - 1 : t[i] = q[i + 1]
    OBVIOUS
  <1>2. h = q[1] /\ h \in S
    OBVIOUS
  <1> HIDE DEF t, n, h
  <1>3. /\ \A i \in 1 .. n : i = 1 \/ (i - 1 \in 1 .. n - 1 /\ (i - 1) + 1 = i)
        /\ \A i \in 1 .. n - 1 : i + 1 \in 1 .. n /\ i + 1 # 1
        /\ \A i, j \in 1 .. n - 1 : i + 1 = j + 1 => i = j
        /\ 1 \in 1 .. n
    <2>1. n \in Nat /\ n > 0
      BY <1>1
    <2> QED
      BY <2>1
  <1>4. h \in ToSet(q) /\ ToSet(t) \subseteq ToSet(q)
    BY <1>1, <1>2, <1>3 DEF ToSet
  <1>5. ASSUME IsInjective(q) PROVE IsInjective(t) /\ ToSet(t) = ToSet(q) \ {h}
    <2>1. \A i, j \in 1 .. n : q[i] = q[j] => i = j
      BY <1>1, <1>5 DEF IsInjective
    <2>2. IsInjective(t)
      BY <1>1, <1>3, <2>1 DEF IsInjective
    <2>3. \A i \in 1 .. n - 1 : t[i] # h
      BY <1>1, <1>2, <1>3, <2>1
    <2>4. \A i \in 1 .. n : q[i] # h => \E j \in 1 .. n - 1 : t[j] = q[i]
      <3> SUFFICES ASSUME NEW i \in 1 .. n, q[i] # h PROVE \E j \in 1 .. n - 1 : t[j] = q[i]
        OBVIOUS
      <3>1. i - 1 \in 1 .. n - 1 /\ (i - 1) + 1 = i
        BY <1>2, <1>3
      <3> QED
        BY <1>1, <3>1
    <2>5. \A x : x \in ToSet(t) <=> \E i \in 1 .. n - 1 : t[i] = x
      BY <1>1 DEF ToSet
    <2>6. \A x : x \in ToSet(q) <=> \E i \in 1 .. n : q[i] = x
      BY <1>1 DEF ToSet
    <2>7. \A x : x \in ToSet(t) <=> x \in ToSet(q) /\ x # h
      BY <1>4, <2>3, <2>4, <2>5, <2>6
    <2> QED
      BY <2>2, <2>7
  <1> QED
    BY <1>1, <1>2, <1>4, <1>5 DEF t, n, h

-----------------------------------------------------------------------------
(* Elements are taken out of a list. *)

\* What is left is what was there, in order.
LEMMA PickedFacts ==
    ASSUME NEW S, NEW q \in Seq(S), NEW A, A \subseteq DOMAIN q
    PROVE  /\ IsFiniteSet(A) /\ Cardinality(A) \in Nat
           /\ Picked(q, A) \in Seq(S) /\ DOMAIN Picked(q, A) = 1 .. Cardinality(A)
           /\ Matches(InOrder(A), DOMAIN Picked(q, A), A)
           /\ \A j \in DOMAIN Picked(q, A) : Picked(q, A)[j] = q[InOrder(A)[j]]
  <1> DEFINE n == Cardinality(A)
             f == InOrder(A)
             r == Picked(q, A)
  <1>1. DOMAIN q = 1 .. Len(q) /\ Len(q) \in Nat /\ \A i \in DOMAIN q : q[i] \in S
    OBVIOUS
  <1>2. IsFiniteSet(A) /\ A \subseteq Nat
    <2>1. IsFiniteSet(DOMAIN q) /\ DOMAIN q \subseteq Nat
      BY <1>1, FS_Interval
    <2> QED
      BY <2>1, FS_Subset
  <1>3. /\ f \in [1 .. n -> A] /\ n \in Nat
        /\ \A i, j \in 1 .. n : f[i] = f[j] => i = j
        /\ \A a \in A : \E i \in 1 .. n : f[i] = a
    BY <1>2, InOrderFacts
  <1>4. r = [j \in 1 .. n |-> q[f[j]]]
    BY DEF Picked
  <1> HIDE DEF n, f, r
  <1>5. r \in [1 .. n -> S] /\ DOMAIN r = 1 .. n
    BY <1>1, <1>3, <1>4
  <1>6. r \in Seq(S)
    BY <1>3, <1>5
  <1>7. Matches(f, DOMAIN r, A)
    BY <1>3, <1>5 DEF Matches
  <1> QED
    BY <1>2, <1>3, <1>4, <1>5, <1>6, <1>7 DEF n, f, r

\* So it has a property at as many places.
LEMMA PickedParts ==
    ASSUME NEW S, NEW q \in Seq(S), NEW A, A \subseteq DOMAIN q, NEW V, V \subseteq A,
           NEW U, U \subseteq DOMAIN Picked(q, A),
           \A j \in DOMAIN Picked(q, A) : j \in U <=> InOrder(A)[j] \in V
    PROVE  Cardinality(U) = Cardinality(V)
  <1>1. /\ Matches(InOrder(A), DOMAIN Picked(q, A), A) /\ IsFiniteSet(DOMAIN Picked(q, A))
        /\ Parts(InOrder(A), DOMAIN Picked(q, A), A, U, V)
    BY PickedFacts, FS_Interval DEF Parts
  <1> QED
    BY <1>1, PartsMatch

\* Without takes all of the one element, and none of another.
LEMMA WithoutFacts ==
    ASSUME NEW S, NEW q \in Seq(S), NEW x
    PROVE  /\ Without(q, x) \in Seq(S) /\ Occurrences(Without(q, x), x) = 0
           /\ \A y : y # x => Occurrences(Without(q, x), y) = Occurrences(q, y)
           /\ ToSet(Without(q, x)) = ToSet(q) \ {x}
           /\ IsInjective(q) => IsInjective(Without(q, x))
  <1> DEFINE A == {i \in DOMAIN q : q[i] # x}
             f == InOrder(A)
             r == Picked(q, A)
             N == DOMAIN r
  <1>1. A \subseteq DOMAIN q /\ \A i \in DOMAIN q : i \in A <=> q[i] # x
    OBVIOUS
  <1>2. Without(q, x) = r
    BY DEF Without
  <1> HIDE DEF A
  <1>3. /\ r \in Seq(S) /\ f \in [N -> A] /\ \A i, j \in N : f[i] = f[j] => i = j
        /\ \A a \in A : \E j \in N : f[j] = a
        /\ \A j \in N : r[j] = q[f[j]]
    BY <1>1, PickedFacts DEF Matches
  <1>4. ASSUME NEW y, y # x PROVE Occurrences(r, y) = Occurrences(q, y)
    <2> DEFINE U == {j \in N : r[j] = y}
               V == {i \in DOMAIN q : q[i] = y}
    <2>1. U \subseteq N /\ V \subseteq A /\ \A j \in N : j \in U <=> f[j] \in V
      <3> HIDE DEF N, f, r
      <3> QED
        BY <1>1, <1>3, <1>4
    <2>2. Occurrences(r, y) = Cardinality(U) /\ Occurrences(q, y) = Cardinality(V)
      BY DEF Occurrences
    <2> HIDE DEF U, V
    <2>3. Cardinality(U) = Cardinality(V)
      BY <1>1, <2>1, PickedParts
    <2> QED
      BY <2>2, <2>3
  <1> HIDE DEF f, r
  <1>5. {j \in DOMAIN r : r[j] = x} = {}
    BY <1>1, <1>3
  <1>6. Occurrences(r, x) = 0
    BY <1>5, FS_EmptySet DEF Occurrences
  <1>7. ToSet(r) = ToSet(q) \ {x}
    BY <1>1, <1>3 DEF ToSet
  <1>8. IsInjective(q) => IsInjective(r)
    BY <1>1, <1>3 DEF IsInjective
  <1> QED
    BY <1>2, <1>3, <1>4, <1>6, <1>7, <1>8

-----------------------------------------------------------------------------
(* What the members of a table have between them. *)

\* Finitely many members, and finitely much each.
Family(S, f) == IsFiniteSet(S) /\ \A s \in S : IsFiniteSet(f[s])

LEMMA OfAllMembers ==
    ASSUME NEW S, NEW f
    PROVE  \A x : x \in OfAll(S, f) <=> \E s \in S : \E y \in f[s] : x = <<s, y>>
  BY DEF OfAll

LEMMA OfAllFinite ==
    ASSUME NEW S, NEW f, Family(S, f)
    PROVE  IsFiniteSet(OfAll(S, f)) /\ Cardinality(OfAll(S, f)) \in Nat
  <1> DEFINE T == {{s} \X f[s] : s \in S}
             g == [s \in S |-> {s} \X f[s]]
  <1>1. g \in Surjection(S, T)
    BY DEF Surjection
  <1>2. IsFiniteSet(T)
    <2> HIDE DEF g, T
    <2> QED
      BY <1>1, FS_Surjection DEF Family
  <1>3. ASSUME NEW t \in T PROVE IsFiniteSet(t)
    <2>1. PICK s \in S : t = {s} \X f[s]
      OBVIOUS
    <2>2. IsFiniteSet(f[s])
      BY DEF Family
    <2>3. IsFiniteSet({s} \X f[s])
      BY <2>2, Tagged
    <2> QED
      BY <2>1, <2>3
  <1> HIDE DEF T
  <1>4. IsFiniteSet(UNION T)
    BY <1>2, <1>3, FS_UNION
  <1> QED
    BY <1>4, FS_CardinalityType DEF OfAll, T

\* Members that have equally much have equally much between them.
LEMMA OfAllMatch ==
    ASSUME NEW S, NEW f, Family(S, f), NEW g, NEW b, \A s \in S : Matches(b[s], f[s], g[s])
    PROVE  Cardinality(OfAll(S, g)) = Cardinality(OfAll(S, f))
  <1> DEFINE F == OfAll(S, f)
             G == OfAll(S, g)
             h == [x \in F |-> <<x[1], b[x[1]][x[2]]>>]
  <1>1. \A s \in S : /\ \A y \in f[s] : b[s][y] \in g[s]
                     /\ \A y, z \in f[s] : b[s][y] = b[s][z] => y = z
                     /\ \A z \in g[s] : \E y \in f[s] : b[s][y] = z
    BY DEF Matches
  <1>2. /\ \A x : x \in F <=> \E s \in S : \E y \in f[s] : x = <<s, y>>
        /\ \A x : x \in G <=> \E s \in S : \E y \in g[s] : x = <<s, y>>
    BY OfAllMembers
  <1>3. \A s \in S : \A y \in f[s] : <<s, y>> \in F /\ h[<<s, y>>] = <<s, b[s][y]>>
    BY <1>2
  <1> DEFINE D == DOMAIN h
  <1>4. D = F
    OBVIOUS
  <1> HIDE DEF F, G, h
  <1>5. \A x \in F : h[x] \in G
    BY <1>1, <1>2, <1>3
  <1>6. ASSUME NEW x \in F, NEW z \in F, h[x] = h[z] PROVE x = z
    <2>1. PICK s \in S : \E y \in f[s] : x = <<s, y>>
      BY <1>2
    <2>2. PICK y \in f[s] : x = <<s, y>>
      BY <2>1
    <2>3. PICK t \in S : \E w \in f[t] : z = <<t, w>>
      BY <1>2
    <2>4. PICK w \in f[t] : z = <<t, w>>
      BY <2>3
    <2>5. s = t /\ b[s][y] = b[t][w]
      BY <1>3, <1>6, <2>2, <2>4
    <2> QED
      BY <1>1, <2>2, <2>4, <2>5
  <1>7. ASSUME NEW x \in G PROVE \E z \in F : h[z] = x
    <2>1. PICK s \in S : \E y \in g[s] : x = <<s, y>>
      BY <1>2
    <2>2. PICK y \in g[s] : x = <<s, y>>
      BY <2>1
    <2>3. PICK z \in f[s] : b[s][z] = y
      BY <1>1
    <2> QED
      BY <1>3, <2>2, <2>3
  <1>8. h \in [F -> G]
    BY <1>4, <1>5 DEF D, h
  <1>9. IsFiniteSet(F)
    BY OfAllFinite DEF F
  <1>10. Cardinality(G) = Cardinality(F)
    BY <1>6, <1>7, <1>8, <1>9, SameSize
  <1> QED
    BY <1>10 DEF F, G

LEMMA OfAllSame ==
    ASSUME NEW S, NEW f, NEW g, Family(S, f), Family(S, g),
           \A s \in S : Cardinality(g[s]) = Cardinality(f[s])
    PROVE  Cardinality(OfAll(S, g)) = Cardinality(OfAll(S, f))
  <1> DEFINE b == [s \in S |-> CHOOSE h : Matches(h, f[s], g[s])]
  <1>1. ASSUME NEW s \in S PROVE \E h : Matches(h, f[s], g[s])
    <2>1. IsFiniteSet(f[s]) /\ IsFiniteSet(g[s]) /\ Cardinality(f[s]) = Cardinality(g[s])
      BY DEF Family
    <2>2. PICK h : h \in Bijection(f[s], g[s])
      BY <2>1, FS_SameCardinalityBij DEF ExistsBijection
    <2> QED
      BY <2>2 DEF Matches, Bijection, Injection, Surjection, IsInjective
  <1>2. \A s \in S : Matches(b[s], f[s], g[s])
    BY <1>1
  <1> HIDE DEF b
  <1> QED
    BY <1>2, OfAllMatch

\* Members that have what two families have have the sum of it between them.
LEMMA OfAllSum ==
    ASSUME NEW S, NEW f, NEW g, NEW h, Family(S, f), Family(S, g), Family(S, h),
           \A s \in S : Cardinality(h[s]) = Cardinality(f[s]) + Cardinality(g[s])
    PROVE  Cardinality(OfAll(S, h)) = Cardinality(OfAll(S, f)) + Cardinality(OfAll(S, g))
  <1> DEFINE m == [s \in S |-> {0} \X f[s]]
             n == [s \in S |-> {1} \X g[s]]
             u == [s \in S |-> m[s] \cup n[s]]
  <1>1. \A s \in S : /\ IsFiniteSet(m[s]) /\ Cardinality(m[s]) = Cardinality(f[s])
                     /\ IsFiniteSet(n[s]) /\ Cardinality(n[s]) = Cardinality(g[s])
    BY Tagged DEF Family
  <1>2. \A s \in S : m[s] \cap n[s] = {} /\ u[s] = m[s] \cup n[s]
    OBVIOUS
  <1>3. /\ \A s \in S : \A x \in m[s] : x[1] = 0
        /\ \A s \in S : \A x \in n[s] : x[1] = 1
    OBVIOUS
  <1> HIDE DEF m, n, u
  <1>4. ASSUME NEW s \in S PROVE IsFiniteSet(u[s]) /\ Cardinality(u[s]) = Cardinality(h[s])
    <2>1. /\ IsFiniteSet(m[s]) /\ IsFiniteSet(n[s]) /\ m[s] \cap n[s] = {}
          /\ u[s] = m[s] \cup n[s]
      BY <1>1, <1>2
    <2>2. /\ IsFiniteSet(m[s] \cup n[s])
          /\ Cardinality(m[s] \cup n[s]) = Cardinality(m[s]) + Cardinality(n[s])
      BY <2>1, DisjointSize
    <2> QED
      BY <1>1, <2>1, <2>2
  <1>5. Family(S, m) /\ Family(S, n) /\ Family(S, u)
    BY <1>1, <1>4 DEF Family
  <1>6. OfAll(S, u) = OfAll(S, m) \cup OfAll(S, n)
    BY <1>2 DEF OfAll
  <1>7. OfAll(S, m) \cap OfAll(S, n) = {}
    <2> SUFFICES ASSUME NEW x \in OfAll(S, m), x \in OfAll(S, n) PROVE FALSE
      OBVIOUS
    <2>1. PICK s \in S : \E y \in m[s] : x = <<s, y>>
      BY OfAllMembers
    <2>2. PICK y \in m[s] : x = <<s, y>>
      BY <2>1
    <2>3. PICK t \in S : \E z \in n[t] : x = <<t, z>>
      BY OfAllMembers
    <2>4. PICK z \in n[t] : x = <<t, z>>
      BY <2>3
    <2> QED
      BY <1>3, <2>2, <2>4
  <1>8. Cardinality(OfAll(S, u)) = Cardinality(OfAll(S, m)) + Cardinality(OfAll(S, n))
    BY <1>5, <1>6, <1>7, OfAllFinite, DisjointSize
  <1>9. /\ Cardinality(OfAll(S, m)) = Cardinality(OfAll(S, f))
        /\ Cardinality(OfAll(S, n)) = Cardinality(OfAll(S, g))
        /\ Cardinality(OfAll(S, u)) = Cardinality(OfAll(S, h))
    BY <1>1, <1>4, <1>5, OfAllSame
  <1> QED
    BY <1>8, <1>9

\* What all have, and what the others have.
LEMMA OfAllOne ==
    ASSUME NEW S, NEW f, Family(S, f), NEW c \in S
    PROVE  /\ Cardinality(OfAll(S, f)) = Cardinality(OfAll(S \ {c}, f)) + Cardinality(f[c])
           /\ Cardinality(OfAll(S \ {c}, f)) \in Nat /\ Cardinality(f[c]) \in Nat
  <1> DEFINE A == OfAll(S \ {c}, f)
             B == {c} \X f[c]
  <1>1. OfAll(S, f) = A \cup B
    BY DEF OfAll
  <1>2. A \cap B = {}
    BY DEF OfAll
  <1>3. Family(S \ {c}, f) /\ IsFiniteSet(f[c])
    BY FS_RemoveElement DEF Family
  <1>4. IsFiniteSet(A) /\ Cardinality(A) \in Nat
    BY <1>3, OfAllFinite
  <1>5. IsFiniteSet(B) /\ Cardinality(B) = Cardinality(f[c]) /\ Cardinality(f[c]) \in Nat
    BY <1>3, Tagged, FS_CardinalityType
  <1> HIDE DEF A, B
  <1>6. Cardinality(A \cup B) = Cardinality(A) + Cardinality(B)
    BY <1>2, <1>4, <1>5, DisjointSize
  <1> QED
    BY <1>1, <1>4, <1>5, <1>6 DEF A

\* When only one member's changes, that changes of all.
LEMMA OfAllChange ==
    ASSUME NEW S, NEW f, NEW g, Family(S, f), Family(S, g), NEW c \in S,
           \A s \in S \ {c} : g[s] = f[s]
    PROVE  /\ Cardinality(OfAll(S, g)) + Cardinality(f[c]) = Cardinality(OfAll(S, f)) + Cardinality(g[c])
           /\ Cardinality(OfAll(S, f)) \in Nat /\ Cardinality(OfAll(S, g)) \in Nat
           /\ Cardinality(f[c]) \in Nat /\ Cardinality(g[c]) \in Nat
           /\ Cardinality(f[c]) <= Cardinality(OfAll(S, f))
  <1>1. OfAll(S \ {c}, g) = OfAll(S \ {c}, f)
    BY DEF OfAll
  <1>2. /\ Cardinality(OfAll(S, f)) = Cardinality(OfAll(S \ {c}, f)) + Cardinality(f[c])
        /\ Cardinality(OfAll(S, g)) = Cardinality(OfAll(S \ {c}, f)) + Cardinality(g[c])
        /\ Cardinality(OfAll(S \ {c}, f)) \in Nat
        /\ Cardinality(f[c]) \in Nat /\ Cardinality(g[c]) \in Nat
    BY <1>1, OfAllOne
  <1> QED
    BY <1>2

-----------------------------------------------------------------------------
(* Lists that hold every element of a set once. *)

ListsOnce(q, S) == q \in Seq(S) /\ IsInjective(q) /\ ToSet(q) = S

\* Such a list is as long as the set is large.
LEMMA ListsOnceCount ==
    ASSUME NEW S, NEW q, ListsOnce(q, S)
    PROVE  IsFiniteSet(S) /\ Cardinality(S) = Len(q)
  <1>1. Len(q) \in Nat /\ DOMAIN q = 1 .. Len(q) /\ q \in [1 .. Len(q) -> S]
    BY DEF ListsOnce
  <1>2. q \in Injection(1 .. Len(q), S) /\ q \in Surjection(1 .. Len(q), S)
    BY <1>1 DEF ListsOnce, ToSet, IsInjective, Injection, Surjection
  <1>3. ExistsBijection(1 .. Len(q), S)
    BY <1>2 DEF ExistsBijection, Bijection
  <1>4. Cardinality(S) = Len(q)
    BY <1>1, <1>3, FS_CountingElements
  <1>5. IsFiniteSet(1 .. Len(q))
    BY <1>1, FS_Interval
  <1>6. IsFiniteSet(S)
    BY <1>3, <1>5, FS_Bijection
  <1> QED
    BY <1>4, <1>6

\* What the list looks like without the n-th of its elements.
LEMMA CutOut ==
    ASSUME NEW S, NEW q \in Seq(S), NEW n \in 1 .. Len(q)
    PROVE  LET r == RemoveAt(q, n)
           IN  /\ r \in Seq(S) /\ Len(r) = Len(q) - 1
               /\ \A i \in 1 .. Len(q) - 1 : r[i] = IF i < n THEN q[i] ELSE q[i + 1]
  <1> DEFINE u == SubSeq(q, 1, n - 1)
             v == SubSeq(q, n + 1, Len(q))
             r == RemoveAt(q, n)
  <1>1. Len(q) \in Nat /\ n \in Nat /\ 1 <= n /\ n <= Len(q)
    OBVIOUS
  <1>2. u \in Seq(S) /\ Len(u) = n - 1 /\ \A i \in 1 .. n - 1 : u[i] = q[i]
    BY <1>1
  <1>3. v \in Seq(S) /\ Len(v) = Len(q) - n /\ \A i \in 1 .. Len(q) - n : v[i] = q[n + i]
    <2>1. v \in Seq(S)
      BY <1>1
    <2>2. Len(v) = Len(q) - n
      BY <1>1
    <2>3. \A i \in 1 .. Len(q) - n : v[i] = q[n + i]
      <3> SUFFICES ASSUME NEW i \in 1 .. Len(q) - n PROVE v[i] = q[n + i]
        OBVIOUS
      <3>1. v[i] = q[(n + 1) + i - 1]
        BY <1>1
      <3> QED
        BY <1>1, <3>1
    <2> QED
      BY <2>1, <2>2, <2>3
  <1>4. r = u \o v
    BY DEF RemoveAt
  <1> HIDE DEF u, v, r
  <1>5. r \in Seq(S) /\ Len(r) = Len(q) - 1
    BY <1>1, <1>2, <1>3, <1>4
  <1>6. ASSUME NEW i \in 1 .. Len(q) - 1 PROVE r[i] = IF i < n THEN q[i] ELSE q[i + 1]
    <2>1. CASE i < n
      <3>1. i \in 1 .. n - 1
        BY <1>1, <2>1
      <3>2. r[i] = u[i]
        BY <1>2, <1>3, <1>4, <3>1
      <3> QED
        BY <1>2, <2>1, <3>1, <3>2
    <2>2. CASE ~(i < n)
      <3>1. i - (n - 1) \in 1 .. Len(q) - n /\ n + (i - (n - 1)) = i + 1
        BY <1>1, <2>2
      <3>2. r[i] = v[i - (n - 1)]
        BY <1>1, <1>2, <1>3, <1>4, <2>2
      <3>3. v[i - (n - 1)] = q[i + 1]
        BY <1>3, <3>1
      <3> QED
        BY <2>2, <3>2, <3>3
    <2> QED
      BY <2>1, <2>2
  <1> QED
    BY <1>5, <1>6 DEF r

\* An element is unlinked.
LEMMA Unlinked ==
    ASSUME NEW S, NEW q, ListsOnce(q, S), NEW e \in S
    PROVE  ListsOnce(RemoveFirst(q, e), S \ {e}) /\ Len(RemoveFirst(q, e)) = Len(q) - 1
  <1> DEFINE r == RemoveFirst(q, e)
  <1>1. /\ q \in Seq(S) /\ Len(q) \in Nat /\ DOMAIN q = 1 .. Len(q)
        /\ \A i, j \in 1 .. Len(q) : q[i] = q[j] => i = j
        /\ S = {q[i] : i \in 1 .. Len(q)}
    BY DEF ListsOnce, IsInjective, ToSet
  <1>2. PICK n \in 1 .. Len(q) : q[n] = e
    BY <1>1
  <1>3. {i \in 1 .. Len(q) : q[i] = e} = {n} /\ Min({n}) = n
    BY <1>1, <1>2 DEF Min
  <1>4. r = RemoveAt(q, n)
    BY <1>2, <1>3 DEF RemoveFirst, SelectInSeq
  <1>5. Len(q) >= 1
    BY <1>1
  <1> HIDE DEF r
  <1>6. /\ r \in Seq(S) /\ Len(r) = Len(q) - 1 /\ DOMAIN r = 1 .. Len(q) - 1
        /\ \A i \in 1 .. Len(q) - 1 : r[i] = IF i < n THEN q[i] ELSE q[i + 1]
    <2>1. /\ r \in Seq(S) /\ Len(r) = Len(q) - 1
          /\ \A i \in 1 .. Len(q) - 1 : r[i] = IF i < n THEN q[i] ELSE q[i + 1]
      BY <1>1, <1>4, CutOut
    <2>2. DOMAIN r = 1 .. Len(r)
      BY <2>1
    <2> QED
      BY <2>1, <2>2
  <1>7. \A i \in 1 .. Len(q) - 1 : r[i] \in S \ {e}
    <2> SUFFICES ASSUME NEW i \in 1 .. Len(q) - 1 PROVE r[i] \in S \ {e}
      OBVIOUS
    <2> DEFINE a == IF i < n THEN i ELSE i + 1
    <2>1. a \in 1 .. Len(q) /\ a # n
      BY <1>1, <1>2
    <2>2. r[i] = q[a]
      BY <1>6
    <2> QED
      BY <1>1, <1>2, <2>1, <2>2
  <1>8. r \in Seq(S \ {e})
    <2>1. r \in [1 .. Len(r) -> S \ {e}] /\ Len(r) \in Nat
      BY <1>1, <1>6, <1>7
    <2> QED
      BY <2>1
  <1>9. IsInjective(r)
    <2> SUFFICES ASSUME NEW i \in 1 .. Len(q) - 1, NEW j \in 1 .. Len(q) - 1, r[i] = r[j]
                 PROVE  i = j
      BY <1>6 DEF IsInjective
    <2> DEFINE a == IF i < n THEN i ELSE i + 1
               b == IF j < n THEN j ELSE j + 1
    <2>1. a \in 1 .. Len(q) /\ b \in 1 .. Len(q)
      BY <1>1, <1>2
    <2>2. a = b
      <3>1. r[i] = q[a] /\ r[j] = q[b]
        BY <1>6
      <3> QED
        BY <1>1, <2>1, <3>1
    <2> QED
      BY <1>2, <2>2
  <1>10. \A x \in S \ {e} : \E i \in 1 .. Len(q) - 1 : r[i] = x
    <2> SUFFICES ASSUME NEW x \in S \ {e}
                 PROVE  \E i \in 1 .. Len(q) - 1 : r[i] = x
      OBVIOUS
    <2>1. PICK m \in 1 .. Len(q) : q[m] = x /\ m # n
      BY <1>1, <1>2
    <2>2. CASE m < n
      BY <1>2, <1>6, <2>1, <2>2
    <2>3. CASE m > n
      <3>1. m - 1 \in 1 .. Len(q) - 1 /\ ~(m - 1 < n) /\ (m - 1) + 1 = m
        BY <1>1, <1>2, <2>3
      <3> QED
        BY <1>6, <2>1, <3>1
    <2> QED
      BY <1>2, <2>1, <2>2, <2>3
  <1>11. ToSet(r) = S \ {e}
    BY <1>6, <1>7, <1>10 DEF ToSet
  <1> QED
    BY <1>6, <1>8, <1>9, <1>11 DEF ListsOnce, r

\* A new element is put in front.
LEMMA PutInFront ==
    ASSUME NEW S, NEW q, ListsOnce(q, S), NEW e, e \notin S
    PROVE  ListsOnce(<<e>> \o q, S \cup {e}) /\ Len(<<e>> \o q) = Len(q) + 1
  <1> DEFINE r == <<e>> \o q
             T == S \cup {e}
  <1>1. /\ q \in Seq(S) /\ Len(q) \in Nat /\ DOMAIN q = 1 .. Len(q)
        /\ \A i, j \in 1 .. Len(q) : q[i] = q[j] => i = j
        /\ S = {q[i] : i \in 1 .. Len(q)}
    BY DEF ListsOnce, IsInjective, ToSet
  <1>2. q \in Seq(T) /\ <<e>> \in Seq(T) /\ Len(<<e>>) = 1 /\ <<e>>[1] = e
    <2>1. q \in [1 .. Len(q) -> T]
      BY <1>1
    <2>2. q \in Seq(T)
      BY <1>1, <2>1
    <2> QED
      BY <2>2
  <1>3. /\ r \in Seq(T) /\ Len(r) = Len(q) + 1 /\ DOMAIN r = 1 .. Len(q) + 1
        /\ r[1] = e
        /\ \A i \in 2 .. Len(q) + 1 : r[i] = q[i - 1]
    BY <1>1, <1>2
  <1> HIDE DEF r
  <1>4. IsInjective(r)
    <2> SUFFICES ASSUME NEW i \in 1 .. Len(q) + 1, NEW j \in 1 .. Len(q) + 1, r[i] = r[j]
                 PROVE  i = j
      BY <1>3 DEF IsInjective
    <2>1. \A l \in 2 .. Len(q) + 1 : r[l] = q[l - 1] /\ l - 1 \in 1 .. Len(q) /\ r[l] # e
      BY <1>1, <1>3
    <2>2. CASE i = 1 \/ j = 1
      BY <1>1, <1>3, <2>1, <2>2
    <2>3. CASE i # 1 /\ j # 1
      <3>1. i \in 2 .. Len(q) + 1 /\ j \in 2 .. Len(q) + 1
        BY <1>1, <2>3
      <3>2. i - 1 = j - 1
        BY <1>1, <2>1, <3>1
      <3> QED
        BY <3>1, <3>2
    <2> QED
      BY <2>2, <2>3
  <1>5. ToSet(r) = T
    <2>1. \A x \in S : \E i \in 1 .. Len(q) + 1 : r[i] = x
      <3> SUFFICES ASSUME NEW x \in S PROVE \E i \in 1 .. Len(q) + 1 : r[i] = x
        OBVIOUS
      <3>1. PICK m \in 1 .. Len(q) : q[m] = x
        BY <1>1
      <3>2. m + 1 \in 2 .. Len(q) + 1 /\ m + 1 \in 1 .. Len(q) + 1 /\ (m + 1) - 1 = m
        BY <1>1
      <3>3. r[m + 1] = x
        BY <1>3, <3>1, <3>2
      <3> QED
        BY <3>2, <3>3
    <2>2. 1 \in 1 .. Len(q) + 1
      BY <1>1
    <2>3. \A i \in 1 .. Len(q) + 1 : r[i] \in T
      BY <1>3
    <2> QED
      BY <1>3, <2>1, <2>2, <2>3 DEF ToSet
  <1> QED
    BY <1>3, <1>4, <1>5 DEF ListsOnce, r

\* Any order of a finite set is a list that holds it.
LEMMA AnyOrder ==
    ASSUME NEW S, IsFiniteSet(S), NEW q \in SetToSeqs(S)
    PROVE  ListsOnce(q, S) /\ Len(q) = Cardinality(S)
  <1>1. Cardinality(S) \in Nat
    BY FS_CardinalityType
  <1>2. q \in [1 .. Cardinality(S) -> S] /\ IsInjective(q)
    BY DEF SetToSeqs, IsInjective
  <1>3. q \in Seq(S) /\ Len(q) = Cardinality(S)
    BY <1>1, <1>2
  <1>4. q \in Injection(1 .. Cardinality(S), S)
    BY <1>2 DEF Injection
  <1>5. Cardinality(1 .. Cardinality(S)) = Cardinality(S)
    <2>1. Cardinality(1 .. Cardinality(S)) =
            IF 1 > Cardinality(S) THEN 0 ELSE Cardinality(S) - 1 + 1
      BY <1>1, FS_Interval
    <2> QED
      BY <1>1, <2>1
  <1>6. q \in Surjection(1 .. Cardinality(S), S)
    BY <1>4, <1>5, FS_Injection
  <1>7. ToSet(q) = S
    BY <1>2, <1>6 DEF Surjection, ToSet
  <1> QED
    BY <1>2, <1>3, <1>7 DEF ListsOnce
=============================================================================
