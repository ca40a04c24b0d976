-------------------------- MODULE NcsClients_proofs --------------------------
(***************************************************************************)
(* The event loop of ntvcached keeps to the maximum of outstanding         *)
(* requests, lets nobody wait for nothing, and uses the query cache as     *)
(* NcsCache says it may, for any clients, requests and limits.             *)
(***************************************************************************)
EXTENDS NcsClients, NcsLists_proofs

\* A connection, and the buffers going out on it: what answers a request pins
\* the entry it comes from, and an error message pins nothing.
Buffer ==
    {AnswerFrom(e) : e \in Entry} \cup
    [text : {"error", "garbage"}, pin : {"none"}, eoq : {FALSE}]
Connection ==
    [inc : Seq(GoodQuery \cup {BadXML}), tail : Nat, reqs : Seq(GoodQuery), out : Seq(Buffer),
     permanent : BOOLEAN, eof : BOOLEAN, shut : BOOLEAN, marked : BOOLEAN]

-----------------------------------------------------------------------------
(* What a connection has waiting and going out. *)

LEMMA BufferFacts ==
    ASSUME NEW b \in Buffer
    PROVE  /\ b.pin \in Entry \cup {"none"} /\ b.eoq \in BOOLEAN
           /\ (b.pin \in Entry => b.eoq) /\ (b.pin = "none" => ~b.eoq)
  <1>1. CASE b \in {AnswerFrom(e) : e \in Entry}
    <2>1. PICK e \in Entry : b = AnswerFrom(e)
      BY <1>1
    <2>2. b.pin = e /\ b.eoq = TRUE
      BY <2>1 DEF AnswerFrom
    <2> QED
      BY <2>2, KeyAssumption
  <1>2. CASE b \in [text : {"error", "garbage"}, pin : {"none"}, eoq : {FALSE}]
    <2>1. b.pin = "none" /\ b.eoq = FALSE
      BY <1>2
    <2> QED
      BY <2>1, KeyAssumption
  <1> QED
    BY <1>1, <1>2 DEF Buffer

LEMMA AnswerFacts ==
    ASSUME NEW e \in Entry
    PROVE  AnswerFrom(e) \in Buffer /\ AnswerFrom(e).pin = e /\ AnswerFrom(e).eoq = TRUE
  BY DEF Buffer, AnswerFrom

\* Counting what is going out is counting in lists of entries and of ones.
PinsIn(out) == [i \in DOMAIN out |-> out[i].pin]
EndsIn(out) == [i \in DOMAIN out |-> IF out[i].eoq THEN 1 ELSE 0]

LEMMA CountedInLists ==
    ASSUME NEW r, r.out \in Seq(Buffer)
    PROVE  /\ PinsIn(r.out) \in Seq(Entry \cup {"none"}) /\ EndsIn(r.out) \in Seq({0, 1})
           /\ IsFiniteSet(Ending(r)) /\ Cardinality(Ending(r)) = Occurrences(EndsIn(r.out), 1)
           /\ \A e : /\ IsFiniteSet(Sending(r, e))
                     /\ Cardinality(Sending(r, e)) = Occurrences(PinsIn(r.out), e)
  <1>1. /\ PinsIn(r.out) \in Seq(Entry \cup {"none"}) /\ DOMAIN PinsIn(r.out) = DOMAIN r.out
        /\ EndsIn(r.out) \in Seq({0, 1}) /\ DOMAIN EndsIn(r.out) = DOMAIN r.out
    <2>1. /\ DOMAIN r.out = 1 .. Len(r.out) /\ Len(r.out) \in Nat
          /\ \A i \in DOMAIN r.out : r.out[i].pin \in Entry \cup {"none"} /\ r.out[i].eoq \in BOOLEAN
      BY BufferFacts
    <2>2. /\ PinsIn(r.out) \in [1 .. Len(r.out) -> Entry \cup {"none"}]
          /\ EndsIn(r.out) \in [1 .. Len(r.out) -> {0, 1}]
      BY <2>1 DEF PinsIn, EndsIn
    <2> QED
      BY <2>1, <2>2
  <1>2. Ending(r) = {i \in DOMAIN EndsIn(r.out) : EndsIn(r.out)[i] = 1}
    <2>1. \A i \in DOMAIN r.out : r.out[i].eoq \in BOOLEAN
      BY BufferFacts
    <2> QED
      BY <2>1 DEF Ending, EndsIn
  <1>3. ASSUME NEW e PROVE Sending(r, e) = {i \in DOMAIN PinsIn(r.out) : PinsIn(r.out)[i] = e}
    BY DEF Sending, PinsIn
  <1>4. IsFiniteSet(Ending(r)) /\ Cardinality(Ending(r)) = Occurrences(EndsIn(r.out), 1)
    BY <1>1, <1>2, OccurrencesFinite DEF Occurrences
  <1>5. ASSUME NEW e
        PROVE  /\ IsFiniteSet(Sending(r, e))
               /\ Cardinality(Sending(r, e)) = Occurrences(PinsIn(r.out), e)
    <2> DEFINE p == PinsIn(r.out)
    <2>1. p \in Seq(Entry \cup {"none"}) /\ Sending(r, e) = {i \in DOMAIN p : p[i] = e}
      BY <1>1, <1>3
    <2> HIDE DEF p
    <2>2. IsFiniteSet({i \in DOMAIN p : p[i] = e})
      BY <2>1, OccurrencesFinite
    <2> QED
      BY <2>1, <2>2 DEF Occurrences, p
  <1> QED
    BY <1>1, <1>4, <1>5

\* What finite sets a connection has.
LEMMA ConnectionFacts ==
    ASSUME NEW r \in Connection
    PROVE  /\ r.reqs \in Seq(GoodQuery) /\ r.out \in Seq(Buffer)
           /\ IsFiniteSet(DOMAIN r.reqs) /\ Cardinality(DOMAIN r.reqs) = Len(r.reqs)
           /\ Len(r.reqs) \in Nat
           /\ IsFiniteSet(Ending(r)) /\ Cardinality(Ending(r)) \in Nat
           /\ \A e : IsFiniteSet(Sending(r, e)) /\ Cardinality(Sending(r, e)) \in Nat
           /\ \A e \in Entry : Sending(r, e) \subseteq Ending(r)
           /\ \A k : /\ Waiting(r, k) \subseteq DOMAIN r.reqs /\ IsFiniteSet(Waiting(r, k))
                     /\ Cardinality(Waiting(r, k)) \in Nat
  <1>1. r.reqs \in Seq(GoodQuery) /\ r.out \in Seq(Buffer)
    BY DEF Connection
  <1>2. Len(r.reqs) \in Nat /\ DOMAIN r.reqs = 1 .. Len(r.reqs)
    BY <1>1
  <1>3. IsFiniteSet(DOMAIN r.reqs) /\ Cardinality(DOMAIN r.reqs) = Len(r.reqs)
    <2>1. /\ IsFiniteSet(1 .. Len(r.reqs))
          /\ Cardinality(1 .. Len(r.reqs)) = IF 1 > Len(r.reqs) THEN 0 ELSE Len(r.reqs) - 1 + 1
      BY <1>2, FS_Interval
    <2> QED
      BY <1>2, <2>1
  <1>4. /\ IsFiniteSet(Ending(r)) /\ Cardinality(Ending(r)) \in Nat
        /\ \A e : IsFiniteSet(Sending(r, e)) /\ Cardinality(Sending(r, e)) \in Nat
    BY <1>1, CountedInLists, FS_CardinalityType
  <1>5. ASSUME NEW e \in Entry PROVE Sending(r, e) \subseteq Ending(r)
    <2>1. \A i \in DOMAIN r.out : r.out[i] \in Buffer
      BY <1>1
    <2> QED
      BY <2>1, BufferFacts DEF Sending, Ending
  <1>6. ASSUME NEW k
        PROVE  /\ Waiting(r, k) \subseteq DOMAIN r.reqs /\ IsFiniteSet(Waiting(r, k))
               /\ Cardinality(Waiting(r, k)) \in Nat
    <2>1. Waiting(r, k) \subseteq DOMAIN r.reqs
      BY DEF Waiting
    <2> QED
      BY <1>3, <2>1, FS_Subset, FS_CardinalityType
  <1> QED
    BY <1>1, <1>2, <1>3, <1>4, <1>5, <1>6

\* One buffer more, one less, and n answers more.
OneMore(r, s, b) == s.out = Append(r.out, b)
OneLess(r, s, b) == s.out = Tail(r.out) /\ b = Head(r.out)
AnswersMore(r, s, e, n) == s.out = r.out \o [i \in 1 .. n |-> AnswerFrom(e)]

LEMMA AppendLoad ==
    ASSUME NEW r, NEW s, NEW b \in Buffer, r.out \in Seq(Buffer), OneMore(r, s, b)
    PROVE  /\ s.out \in Seq(Buffer) /\ Busy(s)
           /\ Cardinality(Ending(s)) = Cardinality(Ending(r)) + (IF b.eoq THEN 1 ELSE 0)
           /\ \A e : Cardinality(Sending(s, e)) =
                        Cardinality(Sending(r, e)) + (IF b.pin = e THEN 1 ELSE 0)
  <1>1. s.out \in Seq(Buffer) /\ Busy(s)
    BY DEF Busy, OneMore
  <1>2. /\ PinsIn(r.out) \in Seq(Entry \cup {"none"}) /\ EndsIn(r.out) \in Seq({0, 1})
        /\ b.pin \in Entry \cup {"none"} /\ b.eoq \in BOOLEAN
    BY CountedInLists, BufferFacts
  <1>3. /\ PinsIn(s.out) = PinsIn(r.out) \o <<b.pin>>
        /\ EndsIn(s.out) = EndsIn(r.out) \o <<IF b.eoq THEN 1 ELSE 0>>
    <2>1. PinsIn(s.out) = PinsIn(r.out) \o <<b.pin>>
      BY DEF PinsIn, OneMore
    <2>2. EndsIn(s.out) = EndsIn(r.out) \o <<IF b.eoq THEN 1 ELSE 0>>
      <3>1. CASE b.eoq
        BY <3>1 DEF EndsIn, OneMore
      <3>2. CASE ~b.eoq
        BY <3>2 DEF EndsIn, OneMore
      <3> QED
        BY <3>1, <3>2
    <2> QED
      BY <2>1, <2>2
  <1>4. <<b.pin>> \in Seq(Entry \cup {"none"}) /\ <<IF b.eoq THEN 1 ELSE 0>> \in Seq({0, 1})
    BY <1>2
  <1>5. Occurrences(EndsIn(s.out), 1) =
        Occurrences(EndsIn(r.out), 1) + (IF b.eoq THEN 1 ELSE 0)
    <2> DEFINE p == EndsIn(r.out)
               x == IF b.eoq THEN 1 ELSE 0
               q == <<x>>
    <2>1. /\ p \in Seq({0, 1}) /\ q \in Seq({0, 1}) /\ x \in {0, 1}
          /\ EndsIn(s.out) = p \o q
      BY <1>2, <1>3, <1>4
    <2>2. Occurrences(q, 1) = IF x = 1 THEN 1 ELSE 0
      BY OccurrencesOne
    <2>3. x = IF x = 1 THEN 1 ELSE 0
      BY <2>1
    <2> HIDE DEF p, q
    <2>4. Occurrences(p \o q, 1) = Occurrences(p, 1) + Occurrences(q, 1)
      BY <2>1, OccurrencesConcat
    <2>5. Occurrences(p \o q, 1) = Occurrences(p, 1) + x
      BY <2>2, <2>3, <2>4
    <2> QED
      BY <2>1, <2>5 DEF p
  <1>6. ASSUME NEW e
        PROVE  Occurrences(PinsIn(s.out), e) =
               Occurrences(PinsIn(r.out), e) + (IF b.pin = e THEN 1 ELSE 0)
    <2> DEFINE p == PinsIn(r.out)
               q == <<b.pin>>
    <2>1. /\ p \in Seq(Entry \cup {"none"}) /\ q \in Seq(Entry \cup {"none"})
          /\ PinsIn(s.out) = p \o q
      BY <1>2, <1>3, <1>4
    <2>2. Occurrences(q, e) = IF b.pin = e THEN 1 ELSE 0
      BY OccurrencesOne
    <2> HIDE DEF p, q
    <2>3. Occurrences(p \o q, e) = Occurrences(p, e) + Occurrences(q, e)
      BY <2>1, OccurrencesConcat
    <2> QED
      BY <2>1, <2>2, <2>3 DEF p
  <1> QED
    BY <1>1, <1>5, <1>6, CountedInLists

LEMMA TailLoad ==
    ASSUME NEW r, NEW s, r.out \in Seq(Buffer), Busy(r), NEW b, OneLess(r, s, b)
    PROVE  /\ s.out \in Seq(Buffer) /\ b \in Buffer
           /\ Cardinality(Ending(r)) = Cardinality(Ending(s)) + (IF b.eoq THEN 1 ELSE 0)
           /\ \A e : Cardinality(Sending(r, e)) =
                        Cardinality(Sending(s, e)) + (IF b.pin = e THEN 1 ELSE 0)
  <1>1. r.out # <<>> /\ s.out \in Seq(Buffer) /\ b \in Buffer
    BY TailFacts DEF Busy, OneLess
  <1>2. /\ PinsIn(r.out) \in Seq(Entry \cup {"none"}) /\ EndsIn(r.out) \in Seq({0, 1})
        /\ b.pin \in Entry \cup {"none"} /\ b.eoq \in BOOLEAN
    BY <1>1, CountedInLists, BufferFacts
  <1>3. /\ PinsIn(r.out) # <<>> /\ Head(PinsIn(r.out)) = b.pin /\ Tail(PinsIn(r.out)) = PinsIn(s.out)
        /\ EndsIn(r.out) # <<>> /\ Head(EndsIn(r.out)) = (IF b.eoq THEN 1 ELSE 0) /\ Tail(EndsIn(r.out)) = EndsIn(s.out)
    BY <1>1 DEF PinsIn, EndsIn, OneLess
  <1>4. Occurrences(EndsIn(r.out), 1) =
        Occurrences(EndsIn(s.out), 1) + (IF b.eoq THEN 1 ELSE 0)
    <2> DEFINE p == EndsIn(r.out)
    <2>1. /\ p \in Seq({0, 1}) /\ p # <<>> /\ Head(p) = IF b.eoq THEN 1 ELSE 0
          /\ Tail(p) = EndsIn(s.out)
      BY <1>2, <1>3
    <2> HIDE DEF p
    <2>2. Occurrences(p, 1) = Occurrences(Tail(p), 1) + IF Head(p) = 1 THEN 1 ELSE 0
      BY <2>1, OccurrencesTail
    <2> QED
      BY <2>1, <2>2 DEF p
  <1>5. ASSUME NEW e
        PROVE  Occurrences(PinsIn(r.out), e) =
               Occurrences(PinsIn(s.out), e) + (IF b.pin = e THEN 1 ELSE 0)
    <2> DEFINE p == PinsIn(r.out)
    <2>1. /\ p \in Seq(Entry \cup {"none"}) /\ p # <<>> /\ Head(p) = b.pin
          /\ Tail(p) = PinsIn(s.out)
      BY <1>2, <1>3
    <2> HIDE DEF p
    <2>2. Occurrences(p, e) = Occurrences(Tail(p), e) + IF Head(p) = e THEN 1 ELSE 0
      BY <2>1, OccurrencesTail
    <2> QED
      BY <2>1, <2>2 DEF p
  <1> QED
    BY <1>1, <1>4, <1>5, CountedInLists

\* The same thing n times.
Copies(x, n) == [i \in 1 .. n |-> x]

LEMMA OccurrencesSame ==
    ASSUME NEW n \in Nat, NEW x, NEW y
    PROVE  Occurrences(Copies(x, n), y) = IF x = y THEN n ELSE 0
  <1> DEFINE q == Copies(x, n)
  <1>1. CASE x = y
    <2>1. {i \in DOMAIN q : q[i] = y} = 1 .. n
      BY <1>1 DEF Copies
    <2>2. Cardinality(1 .. n) = n
      BY FS_Interval
    <2> QED
      BY <1>1, <2>1, <2>2 DEF Occurrences
  <1>2. CASE x # y
    <2>1. {i \in DOMAIN q : q[i] = y} = {}
      BY <1>2 DEF Copies
    <2> QED
      BY <1>2, <2>1, FS_EmptySet DEF Occurrences
  <1> QED
    BY <1>1, <1>2

LEMMA JoinedLists ==
    ASSUME NEW S, NEW A \in Seq(S), NEW B \in Seq(S), NEW C \in Seq(S), Len(C) = Len(A) + Len(B),
           \A i \in 1 .. Len(A) : C[i] = A[i], \A i \in 1 .. Len(B) : C[Len(A) + i] = B[i]
    PROVE  C = A \o B
  <1> DEFINE D == A \o B
  <1>1. /\ Len(A) \in Nat /\ Len(B) \in Nat /\ D \in Seq(S) /\ Len(D) = Len(A) + Len(B)
        /\ \A i \in 1 .. Len(A) : D[i] = A[i]
        /\ \A i \in 1 .. Len(B) : D[Len(A) + i] = B[i]
    OBVIOUS
  <1> HIDE DEF D
  <1>2. ASSUME NEW i \in 1 .. Len(C) PROVE D[i] = C[i]
    <2>1. CASE i <= Len(A)
      BY <1>1, <2>1
    <2>2. CASE i > Len(A)
      <3>1. i - Len(A) \in 1 .. Len(B) /\ Len(A) + (i - Len(A)) = i
        BY <1>1, <2>2
      <3>2. D[Len(A) + (i - Len(A))] = B[i - Len(A)] /\ C[Len(A) + (i - Len(A))] = B[i - Len(A)]
        BY <1>1, <3>1
      <3> QED
        BY <3>1, <3>2
    <2> QED
      BY <1>1, <2>1, <2>2
  <1>3. C = D
    BY <1>1, <1>2
  <1> QED
    BY <1>3 DEF D

LEMMA FunctionIsList ==
    ASSUME NEW S, NEW n \in Nat, NEW f \in [1 .. n -> S]
    PROVE  f \in Seq(S) /\ Len(f) = n
  OBVIOUS

LEMMA ListsConcat ==
    ASSUME NEW a \in Seq(Buffer), NEW b \in Seq(Buffer)
    PROVE  PinsIn(a \o b) = PinsIn(a) \o PinsIn(b) /\ EndsIn(a \o b) = EndsIn(a) \o EndsIn(b)
  <1> DEFINE m == Len(a)
             n == Len(b)
             c == a \o b
  <1>1. /\ m \in Nat /\ n \in Nat /\ DOMAIN a = 1 .. m /\ DOMAIN b = 1 .. n /\ DOMAIN c = 1 .. m + n
        /\ \A i \in 1 .. m : c[i] = a[i]
        /\ \A i \in 1 .. n : c[m + i] = b[i]
    OBVIOUS
  <1> HIDE DEF m, n, c
  <1>3. PinsIn(c) = PinsIn(a) \o PinsIn(b)
    <2> DEFINE A == PinsIn(a)
               B == PinsIn(b)
               C == PinsIn(c)
               S == {c[i].pin : i \in 1 .. m + n}
    <2>1. C \in [1 .. m + n -> S]
      BY <1>1 DEF PinsIn
    <2>2. /\ \A i \in 1 .. m : i \in 1 .. m + n /\ c[i].pin = a[i].pin
          /\ \A i \in 1 .. n : m + i \in 1 .. m + n /\ c[m + i].pin = b[i].pin
      BY <1>1
    <2>3. A \in [1 .. m -> S] /\ B \in [1 .. n -> S]
      BY <1>1, <2>2 DEF PinsIn
    <2>4. /\ \A i \in 1 .. m : C[i] = A[i]
          /\ \A i \in 1 .. n : C[m + i] = B[i]
      BY <1>1, <2>2 DEF PinsIn
    <2> HIDE DEF A, B, C, S
    <2>4a. A \in Seq(S) /\ B \in Seq(S) /\ C \in Seq(S) /\ Len(A) = m /\ Len(B) = n /\ Len(C) = m + n
      <3>1. A \in Seq(S) /\ Len(A) = m
        BY <1>1, <2>3, FunctionIsList
      <3>2. B \in Seq(S) /\ Len(B) = n
        BY <1>1, <2>3, FunctionIsList
      <3>3. C \in Seq(S) /\ Len(C) = m + n
        <4>1. m + n \in Nat
          BY <1>1
        <4> QED
          BY <2>1, <4>1, FunctionIsList
      <3> QED
        BY <3>1, <3>2, <3>3
    <2>5. C = A \o B
      BY <2>4, <2>4a, JoinedLists
    <2> QED
      BY <2>5 DEF A, B, C
  <1>4. EndsIn(c) = EndsIn(a) \o EndsIn(b)
    <2> DEFINE A == EndsIn(a)
               B == EndsIn(b)
               C == EndsIn(c)
               S == {0, 1}
    <2>1. A \in [1 .. m -> S] /\ B \in [1 .. n -> S] /\ C \in [1 .. m + n -> S]
      BY <1>1 DEF EndsIn
    <2>2. /\ \A i \in 1 .. m : i \in 1 .. m + n /\ c[i].eoq = a[i].eoq
          /\ \A i \in 1 .. n : m + i \in 1 .. m + n /\ c[m + i].eoq = b[i].eoq
      BY <1>1
    <2>4. /\ \A i \in 1 .. m : C[i] = A[i]
          /\ \A i \in 1 .. n : C[m + i] = B[i]
      BY <1>1, <2>2 DEF EndsIn
    <2> HIDE DEF A, B, C, S
    <2>4a. A \in Seq(S) /\ B \in Seq(S) /\ C \in Seq(S) /\ Len(A) = m /\ Len(B) = n /\ Len(C) = m + n
      <3>1. A \in Seq(S) /\ Len(A) = m
        BY <1>1, <2>1, FunctionIsList
      <3>2. B \in Seq(S) /\ Len(B) = n
        BY <1>1, <2>1, FunctionIsList
      <3>3. C \in Seq(S) /\ Len(C) = m + n
        <4>1. m + n \in Nat
          BY <1>1
        <4> QED
          BY <2>1, <4>1, FunctionIsList
      <3> QED
        BY <3>1, <3>2, <3>3
    <2>5. C = A \o B
      BY <2>4, <2>4a, JoinedLists
    <2> QED
      BY <2>5 DEF A, B, C
  <1> QED
    BY <1>3, <1>4 DEF c

\* As many answers go out as have waited (client_newresult).
LEMMA AnswersLoad ==
    ASSUME NEW r, NEW s, NEW e \in Entry, NEW n \in Nat, r.out \in Seq(Buffer),
           AnswersMore(r, s, e, n)
    PROVE  /\ s.out \in Seq(Buffer) /\ (Busy(r) => Busy(s))
           /\ Cardinality(Ending(s)) = Cardinality(Ending(r)) + n
           /\ \A f : Cardinality(Sending(s, f)) =
                        Cardinality(Sending(r, f)) + (IF e = f THEN n ELSE 0)
  <1> DEFINE new == [i \in 1 .. n |-> AnswerFrom(e)]
  <1>0. s.out = r.out \o new
    BY DEF AnswersMore
  <1>1. new \in Seq(Buffer) /\ DOMAIN new = 1 .. n /\ Len(new) = n
    <2>1. new \in [1 .. n -> Buffer]
      BY AnswerFacts
    <2> QED
      BY <2>1
  <1>2. s.out \in Seq(Buffer) /\ (Busy(r) => Busy(s))
    <2>1. r.out \o new \in Seq(Buffer) /\ Len(r.out \o new) = Len(r.out) + n
      BY <1>1
    <2> HIDE DEF new
    <2>2. Len(r.out) \in Nat /\ (r.out # <<>> => Len(r.out) > 0)
      OBVIOUS
    <2>3. s.out = r.out \o new
      BY <1>0
    <2>4. r.out # <<>> => s.out # <<>>
      BY <2>1, <2>2, <2>3
    <2> QED
      BY <2>1, <2>3, <2>4 DEF Busy
  <1>3. /\ PinsIn(r.out) \in Seq(Entry \cup {"none"}) /\ EndsIn(r.out) \in Seq({0, 1})
    BY CountedInLists
  <1> DEFINE p == PinsIn(r.out)
             q == Copies(e, n)
             t == EndsIn(r.out)
             u == Copies(1, n)
  <1>4. q \in Seq(Entry \cup {"none"}) /\ u \in Seq({0, 1})
    BY DEF Copies
  <1>5. PinsIn(s.out) = p \o q
    <2>1. PinsIn(new) = q
      BY <1>1, AnswerFacts DEF PinsIn, Copies
    <2>2. PinsIn(r.out \o new) = PinsIn(r.out) \o PinsIn(new)
      <3> HIDE DEF new
      <3> QED
        BY <1>1, ListsConcat
    <2> QED
      BY <1>0, <2>1, <2>2
  <1>6. EndsIn(s.out) = t \o u
    <2>1. EndsIn(new) = u
      BY <1>1, AnswerFacts DEF EndsIn, Copies
    <2>2. EndsIn(r.out \o new) = EndsIn(r.out) \o EndsIn(new)
      <3> HIDE DEF new
      <3> QED
        BY <1>1, ListsConcat
    <2> QED
      BY <1>0, <2>1, <2>2
  <1>7. Occurrences(u, 1) = n
    <2>1. Occurrences(u, 1) = IF 1 = 1 THEN n ELSE 0
      BY OccurrencesSame
    <2> QED
      BY <2>1
  <1>7b. \A f : Occurrences(q, f) = IF e = f THEN n ELSE 0
    BY OccurrencesSame
  <1> HIDE DEF p, q, t, u
  <1>8. Occurrences(t \o u, 1) = Occurrences(t, 1) + Occurrences(u, 1)
    BY <1>3, <1>4, OccurrencesConcat DEF t
  <1>9. ASSUME NEW f PROVE Occurrences(p \o q, f) = Occurrences(p, f) + Occurrences(q, f)
    BY <1>3, <1>4, OccurrencesConcat DEF p
  <1>10. Cardinality(Ending(s)) = Cardinality(Ending(r)) + n
    BY <1>2, <1>6, <1>7, <1>8, CountedInLists DEF t
  <1>11. ASSUME NEW f
         PROVE  Cardinality(Sending(s, f)) = Cardinality(Sending(r, f)) + (IF e = f THEN n ELSE 0)
    <2>1. /\ Cardinality(Sending(s, f)) = Occurrences(p \o q, f)
          /\ Cardinality(Sending(r, f)) = Occurrences(p, f)
      BY <1>2, <1>5, CountedInLists DEF p
    <2> QED
      BY <1>7b, <1>9, <2>1
  <1> QED
    BY <1>2, <1>10, <1>11

\* A client gets its answers, and waits for others only (client_newresult).
LEMMA GivenFacts ==
    ASSUME NEW r \in Connection, NEW k, NEW e \in Entry
    PROVE  LET s == Given(r, k, e) IN
           /\ s \in Connection /\ s.inc = r.inc /\ (Busy(r) => Busy(s))
           /\ Len(s.reqs) + Cardinality(Waiting(r, k)) = Len(r.reqs)
           /\ Cardinality(Ending(s)) = Cardinality(Ending(r)) + Cardinality(Waiting(r, k))
           /\ \A f : Cardinality(Sending(s, f)) =
                     Cardinality(Sending(r, f)) + (IF e = f THEN Cardinality(Waiting(r, k)) ELSE 0)
           /\ Waiting(s, k) = {}
           /\ \A j : Waiting(s, j) # {} => Waiting(r, j) # {}
  <1> DEFINE s == Given(r, k, e)
             mine == Waiting(r, k)
             rest == DOMAIN r.reqs \ mine
             kept == Picked(r.reqs, rest)
             n == Cardinality(mine)
  <1>1. /\ r.reqs \in Seq(GoodQuery) /\ r.out \in Seq(Buffer)
        /\ mine \subseteq DOMAIN r.reqs /\ IsFiniteSet(mine) /\ n \in Nat
        /\ Cardinality(DOMAIN r.reqs) = Len(r.reqs)
    BY ConnectionFacts
  <1>2. /\ IsFiniteSet(rest) /\ Cardinality(rest) \in Nat
        /\ kept \in Seq(GoodQuery) /\ DOMAIN kept = 1 .. Cardinality(rest)
        /\ Matches(InOrder(rest), DOMAIN kept, rest)
        /\ \A j \in DOMAIN kept : kept[j] = r.reqs[InOrder(rest)[j]]
    <2>1. rest \subseteq DOMAIN r.reqs
      OBVIOUS
    <2> HIDE DEF rest
    <2> QED
      BY <1>1, <2>1, PickedFacts
  <1>3. Cardinality(rest) + n = Len(r.reqs)
    <2>1. rest \cup mine = DOMAIN r.reqs /\ rest \cap mine = {}
      BY <1>1
    <2> HIDE DEF rest, mine
    <2>2. Cardinality(rest \cup mine) = Cardinality(rest) + Cardinality(mine)
      BY <1>1, <1>2, <2>1, DisjointSize
    <2> QED
      BY <1>1, <2>1, <2>2
  <1>4. Len(kept) = Cardinality(rest)
    BY <1>2
  <1>5. \A j \in DOMAIN kept : /\ InOrder(rest)[j] \in DOMAIN r.reqs
                               /\ kept[j] = r.reqs[InOrder(rest)[j]] /\ kept[j].key # k
    <2> SUFFICES ASSUME NEW j \in DOMAIN kept
                 PROVE  /\ InOrder(rest)[j] \in DOMAIN r.reqs
                        /\ kept[j] = r.reqs[InOrder(rest)[j]] /\ kept[j].key # k
      OBVIOUS
    <2>1. InOrder(rest)[j] \in rest
      BY <1>2 DEF Matches
    <2> QED
      BY <1>2, <2>1 DEF Waiting
  <1> HIDE DEF kept, rest
  <1> DEFINE forever == r.permanent /\ \A i \in mine : r.reqs[i].id
             going == r.out \o [i \in 1 .. n |-> AnswerFrom(e)]
  <1>6. s = [r EXCEPT !.reqs = kept, !.out = going, !.permanent = forever] /\ forever \in BOOLEAN
    BY DEF Given, kept, rest
  <1> HIDE DEF s, forever
  <1>6a. s.reqs = kept /\ s.out = going /\ s.inc = r.inc
    BY <1>6 DEF Connection
  <1> HIDE DEF going
  <1>7. /\ s.out \in Seq(Buffer) /\ (Busy(r) => Busy(s))
        /\ Cardinality(Ending(s)) = Cardinality(Ending(r)) + n
        /\ \A f : Cardinality(Sending(s, f)) =
                     Cardinality(Sending(r, f)) + (IF e = f THEN n ELSE 0)
    <2>1. AnswersMore(r, s, e, n)
      BY <1>6a DEF AnswersMore, going
    <2> HIDE DEF n
    <2> QED
      BY <1>1, <2>1, AnswersLoad
  <1>8. s \in Connection
    BY <1>2, <1>6, <1>6a, <1>7 DEF Connection
  <1>9. /\ Waiting(s, k) = {}
        /\ \A j : Waiting(s, j) # {} => Waiting(r, j) # {}
    BY <1>5, <1>6a DEF Waiting
  <1> QED
    BY <1>3, <1>4, <1>6a, <1>7, <1>8, <1>9 DEF s

\* An error goes out, or a buffer nobody has filled (client_grab_reqoutput).
LEMMA GrabbedFacts ==
    ASSUME NEW r \in Connection
    PROVE  LET s == GrabOutput(r) IN
           /\ s \in Connection /\ s.inc = r.inc /\ s.reqs = r.reqs /\ (Busy(r) => Busy(s))
           /\ Ending(s) = Ending(r) /\ \A e \in Entry : Sending(s, e) = Sending(r, e)
  <1> DEFINE s == GrabOutput(r)
  <1>1. CASE s = r
    BY <1>1
  <1>2. CASE s # r
    <2>1. PICK b \in Buffer : s = [r EXCEPT !.out = Append(@, b)] /\ b.pin = "none" /\ b.eoq = FALSE
      <3> DEFINE b == [text |-> IF Busy(r) THEN "garbage" ELSE "error", pin |-> "none", eoq |-> FALSE]
      <3>1. b \in Buffer /\ b.pin = "none" /\ b.eoq = FALSE
        BY DEF Buffer
      <3>2. s = [r EXCEPT !.out = Append(@, b)]
        BY <1>2 DEF GrabOutput
      <3> HIDE DEF b
      <3> QED
        BY <3>1, <3>2
    <2> HIDE DEF s
    <2>1a. r.out \in Seq(Buffer) /\ Append(r.out, b) \in Seq(Buffer)
      BY DEF Connection
    <2>2. /\ r.out \in Seq(Buffer) /\ s \in Connection /\ s.inc = r.inc /\ s.reqs = r.reqs
          /\ s.out = Append(r.out, b)
      BY <2>1, <2>1a DEF Connection
    <2> HIDE DEF s
    <2>3. /\ DOMAIN s.out = 1 .. Len(r.out) + 1 /\ DOMAIN r.out = 1 .. Len(r.out) /\ Len(r.out) \in Nat
          /\ s.out[Len(r.out) + 1] = b /\ \A i \in DOMAIN r.out : s.out[i] = r.out[i]
      BY <2>2
    <2>4. Busy(s)
      BY <2>2 DEF Busy
    <2>5. Ending(s) = Ending(r)
      BY <2>1, <2>3 DEF Ending
    <2>6. ASSUME NEW e \in Entry PROVE Sending(s, e) = Sending(r, e)
      BY <2>1, <2>3, KeyAssumption DEF Sending
    <2> QED
      BY <2>2, <2>4, <2>5, <2>6 DEF s
  <1> QED
    BY <1>1, <1>2

-----------------------------------------------------------------------------
(* What the clients of a set have between them. *)

ReqsOf(cn) == [c \in Client |-> DOMAIN cn[c].reqs]
EndsOf(cn) == [c \in Client |-> Ending(cn[c])]
SendsOf(cn, e) == [c \in Client |-> Sending(cn[c], e)]
WaitsOf(cn, k) == [c \in Client |-> Waiting(cn[c], k)]

Asked(S, cn) == Cardinality(OfAll(S, ReqsOf(cn)))
Answered(S, cn) == Cardinality(OfAll(S, EndsOf(cn)))
Pinned(S, cn, e) == Cardinality(OfAll(S, SendsOf(cn, e)))
Waited(S, cn, k) == Cardinality(OfAll(S, WaitsOf(cn, k)))

Clients(S) == S \subseteq Client /\ IsFiniteSet(S)

LEMMA Families ==
    ASSUME NEW S, Clients(S), NEW cn \in [Client -> Connection]
    PROVE  /\ Family(S, ReqsOf(cn)) /\ Family(S, EndsOf(cn))
           /\ \A e : Family(S, SendsOf(cn, e))
           /\ \A k : Family(S, WaitsOf(cn, k))
           /\ \A c \in S : /\ ReqsOf(cn)[c] = DOMAIN cn[c].reqs /\ EndsOf(cn)[c] = Ending(cn[c])
                           /\ \A e : SendsOf(cn, e)[c] = Sending(cn[c], e)
                           /\ \A k : WaitsOf(cn, k)[c] = Waiting(cn[c], k)
  <1>1. \A c \in S : /\ ReqsOf(cn)[c] = DOMAIN cn[c].reqs /\ EndsOf(cn)[c] = Ending(cn[c])
                     /\ \A e : SendsOf(cn, e)[c] = Sending(cn[c], e)
                     /\ \A k : WaitsOf(cn, k)[c] = Waiting(cn[c], k)
    BY DEF Clients, ReqsOf, EndsOf, SendsOf, WaitsOf
  <1>2. ASSUME NEW c \in S
        PROVE  /\ IsFiniteSet(DOMAIN cn[c].reqs) /\ IsFiniteSet(Ending(cn[c]))
               /\ \A e : IsFiniteSet(Sending(cn[c], e))
               /\ \A k : IsFiniteSet(Waiting(cn[c], k))
    <2>1. cn[c] \in Connection
      BY DEF Clients
    <2> QED
      BY <2>1, ConnectionFacts
  <1> QED
    BY <1>1, <1>2 DEF Family, Clients

LEMMA SmallerPart ==
    ASSUME NEW S, NEW f, NEW g, Family(S, f), Family(S, g), \A s \in S : f[s] \subseteq g[s]
    PROVE  Cardinality(OfAll(S, f)) <= Cardinality(OfAll(S, g))
  <1>1. OfAll(S, f) \subseteq OfAll(S, g)
    BY DEF OfAll
  <1> QED
    BY <1>1, OfAllFinite, FS_Subset

LEMMA LoadNumbers ==
    ASSUME NEW S, Clients(S), NEW cn \in [Client -> Connection]
    PROVE  /\ Asked(S, cn) \in Nat /\ Answered(S, cn) \in Nat
           /\ \A e : Pinned(S, cn, e) \in Nat
           /\ \A e \in Entry : Pinned(S, cn, e) <= Answered(S, cn)
           /\ \A k : Waited(S, cn, k) \in Nat /\ Waited(S, cn, k) <= Asked(S, cn)
  <1>1. Asked(S, cn) \in Nat /\ Answered(S, cn) \in Nat
    BY Families, OfAllFinite DEF Asked, Answered
  <1>2. ASSUME NEW e PROVE Pinned(S, cn, e) \in Nat
    BY Families, OfAllFinite DEF Pinned
  <1>3. ASSUME NEW e \in Entry PROVE Pinned(S, cn, e) <= Answered(S, cn)
    <2>1. ASSUME NEW c \in S PROVE SendsOf(cn, e)[c] \subseteq EndsOf(cn)[c]
      <3>1. cn[c] \in Connection
        BY DEF Clients
      <3>2. Sending(cn[c], e) \subseteq Ending(cn[c])
        BY <3>1, ConnectionFacts
      <3> QED
        BY <3>2, Families
    <2>2. Family(S, SendsOf(cn, e)) /\ Family(S, EndsOf(cn))
      BY Families
    <2> QED
      BY <2>1, <2>2, SmallerPart DEF Pinned, Answered
  <1>4. ASSUME NEW k PROVE Waited(S, cn, k) \in Nat /\ Waited(S, cn, k) <= Asked(S, cn)
    <2>1. ASSUME NEW c \in S PROVE WaitsOf(cn, k)[c] \subseteq ReqsOf(cn)[c]
      <3>1. cn[c] \in Connection
        BY DEF Clients
      <3>2. Waiting(cn[c], k) \subseteq DOMAIN cn[c].reqs
        BY <3>1, ConnectionFacts
      <3> QED
        BY <3>2, Families
    <2>2. Family(S, WaitsOf(cn, k)) /\ Family(S, ReqsOf(cn))
      BY Families
    <2>3. Waited(S, cn, k) \in Nat
      BY <2>2, OfAllFinite DEF Waited
    <2> QED
      BY <2>1, <2>2, <2>3, SmallerPart DEF Waited, Asked
  <1> QED
    BY <1>1, <1>2, <1>3, <1>4

\* One client changes.
LEMMA LoadOne ==
    ASSUME NEW S, Clients(S), NEW cn \in [Client -> Connection], NEW dn \in [Client -> Connection],
           NEW c \in S, \A d \in S \ {c} : dn[d] = cn[d]
    PROVE  /\ Asked(S, dn) + Len(cn[c].reqs) = Asked(S, cn) + Len(dn[c].reqs)
           /\ Answered(S, dn) + Cardinality(Ending(cn[c])) =
              Answered(S, cn) + Cardinality(Ending(dn[c]))
           /\ Cardinality(Ending(cn[c])) <= Answered(S, cn)
           /\ \A e : /\ Pinned(S, dn, e) + Cardinality(Sending(cn[c], e)) =
                        Pinned(S, cn, e) + Cardinality(Sending(dn[c], e))
                     /\ Cardinality(Sending(cn[c], e)) <= Pinned(S, cn, e)
  <1>1. /\ cn[c] \in Connection /\ dn[c] \in Connection
        /\ \A d \in S : cn[d] \in Connection /\ dn[d] \in Connection
    BY DEF Clients
  <1>2. Asked(S, dn) + Len(cn[c].reqs) = Asked(S, cn) + Len(dn[c].reqs)
    <2> DEFINE f == ReqsOf(cn)
               g == ReqsOf(dn)
    <2>1. Family(S, f) /\ Family(S, g) /\ \A d \in S \ {c} : g[d] = f[d]
      BY Families
    <2>2. Cardinality(f[c]) = Len(cn[c].reqs) /\ Cardinality(g[c]) = Len(dn[c].reqs)
      BY <1>1, Families, ConnectionFacts
    <2> HIDE DEF f, g
    <2>3. Cardinality(OfAll(S, g)) + Cardinality(f[c]) = Cardinality(OfAll(S, f)) + Cardinality(g[c])
      BY <2>1, OfAllChange
    <2> QED
      BY <2>2, <2>3 DEF Asked, f, g
  <1>3. /\ Answered(S, dn) + Cardinality(Ending(cn[c])) =
           Answered(S, cn) + Cardinality(Ending(dn[c]))
        /\ Cardinality(Ending(cn[c])) <= Answered(S, cn)
    <2> DEFINE f == EndsOf(cn)
               g == EndsOf(dn)
    <2>1. Family(S, f) /\ Family(S, g) /\ \A d \in S \ {c} : g[d] = f[d]
      BY Families
    <2>2. f[c] = Ending(cn[c]) /\ g[c] = Ending(dn[c])
      BY Families
    <2> HIDE DEF f, g
    <2>3. /\ Cardinality(OfAll(S, g)) + Cardinality(f[c]) = Cardinality(OfAll(S, f)) + Cardinality(g[c])
          /\ Cardinality(f[c]) <= Cardinality(OfAll(S, f))
      BY <2>1, OfAllChange
    <2> QED
      BY <2>2, <2>3 DEF Answered, f, g
  <1>4. ASSUME NEW e
        PROVE  /\ Pinned(S, dn, e) + Cardinality(Sending(cn[c], e)) =
                  Pinned(S, cn, e) + Cardinality(Sending(dn[c], e))
               /\ Cardinality(Sending(cn[c], e)) <= Pinned(S, cn, e)
    <2> DEFINE f == SendsOf(cn, e)
               g == SendsOf(dn, e)
    <2>1. Family(S, f) /\ Family(S, g) /\ \A d \in S \ {c} : g[d] = f[d]
      BY Families
    <2>2. f[c] = Sending(cn[c], e) /\ g[c] = Sending(dn[c], e)
      BY Families
    <2> HIDE DEF f, g
    <2>3. /\ Cardinality(OfAll(S, g)) + Cardinality(f[c]) = Cardinality(OfAll(S, f)) + Cardinality(g[c])
          /\ Cardinality(f[c]) <= Cardinality(OfAll(S, f))
      BY <2>1, OfAllChange
    <2> QED
      BY <2>2, <2>3 DEF Pinned, f, g
  <1> QED
    BY <1>2, <1>3, <1>4

\* Nobody's requests and answers change; what else does is no matter.
SameLoad(r, s) ==
    /\ s.reqs = r.reqs /\ Ending(s) = Ending(r)
    /\ \A e \in Entry : Sending(s, e) = Sending(r, e)

LEMMA LoadSame ==
    ASSUME NEW S, Clients(S), NEW cn \in [Client -> Connection], NEW dn \in [Client -> Connection],
           \A c \in S : SameLoad(cn[c], dn[c])
    PROVE  /\ Asked(S, dn) = Asked(S, cn) /\ Answered(S, dn) = Answered(S, cn)
           /\ \A e \in Entry : Pinned(S, dn, e) = Pinned(S, cn, e)
  <1>1. OfAll(S, ReqsOf(dn)) = OfAll(S, ReqsOf(cn))
    BY Families DEF OfAll, SameLoad
  <1>2. OfAll(S, EndsOf(dn)) = OfAll(S, EndsOf(cn))
    BY Families DEF OfAll, SameLoad
  <1>3. ASSUME NEW e \in Entry PROVE OfAll(S, SendsOf(dn, e)) = OfAll(S, SendsOf(cn, e))
    BY Families DEF OfAll, SameLoad
  <1> QED
    BY <1>1, <1>2, <1>3 DEF Asked, Answered, Pinned

\* A client with nothing makes no difference.
Idle(r) == r.reqs = <<>> /\ Ending(r) = {} /\ \A e \in Entry : Sending(r, e) = {}

LEMMA LoadIdle ==
    ASSUME NEW S, Clients(S), NEW cn \in [Client -> Connection], NEW c \in S, Idle(cn[c])
    PROVE  /\ Asked(S, cn) = Asked(S \ {c}, cn) /\ Answered(S, cn) = Answered(S \ {c}, cn)
           /\ \A e \in Entry : Pinned(S, cn, e) = Pinned(S \ {c}, cn, e)
           /\ Clients(S \ {c})
  <1>1. /\ ReqsOf(cn)[c] = {} /\ EndsOf(cn)[c] = {} /\ \A e \in Entry : SendsOf(cn, e)[c] = {}
    BY Families DEF Idle
  <1>2. OfAll(S, ReqsOf(cn)) = OfAll(S \ {c}, ReqsOf(cn))
    BY <1>1 DEF OfAll
  <1>3. OfAll(S, EndsOf(cn)) = OfAll(S \ {c}, EndsOf(cn))
    BY <1>1 DEF OfAll
  <1>4. ASSUME NEW e \in Entry PROVE OfAll(S, SendsOf(cn, e)) = OfAll(S \ {c}, SendsOf(cn, e))
    BY <1>1 DEF OfAll
  <1>5. Clients(S \ {c})
    BY FS_RemoveElement DEF Clients
  <1> QED
    BY <1>2, <1>3, <1>4, <1>5 DEF Asked, Answered, Pinned

\* Everybody who waits for k gets the answer from e.
AllGiven(S, cn, dn, k, e) == \A c \in S : dn[c] = Given(cn[c], k, e)

LEMMA LoadGiven ==
    ASSUME NEW S, Clients(S), NEW cn \in [Client -> Connection], NEW dn \in [Client -> Connection],
           NEW k, NEW e \in Entry, AllGiven(S, cn, dn, k, e)
    PROVE  /\ Asked(S, dn) + Waited(S, cn, k) = Asked(S, cn)
           /\ Answered(S, dn) = Answered(S, cn) + Waited(S, cn, k)
           /\ \A f \in Entry : Pinned(S, dn, f) =
                  Pinned(S, cn, f) + (IF e = f THEN Waited(S, cn, k) ELSE 0)
  <1>1. ASSUME NEW c \in S
        PROVE  /\ cn[c] \in Connection /\ dn[c] \in Connection
               /\ Len(dn[c].reqs) + Cardinality(Waiting(cn[c], k)) = Len(cn[c].reqs)
               /\ Cardinality(Ending(dn[c])) = Cardinality(Ending(cn[c])) + Cardinality(Waiting(cn[c], k))
               /\ \A f : Cardinality(Sending(dn[c], f)) =
                     Cardinality(Sending(cn[c], f)) + (IF e = f THEN Cardinality(Waiting(cn[c], k)) ELSE 0)
    <2>1. cn[c] \in Connection /\ dn[c] \in Connection /\ dn[c] = Given(cn[c], k, e)
      BY DEF Clients, AllGiven
    <2> QED
      BY <2>1, GivenFacts
  <1> DEFINE w == WaitsOf(cn, k)
  <1>2. Family(S, w) /\ \A c \in S : w[c] = Waiting(cn[c], k)
    BY Families
  <1> HIDE DEF w
  <1>3. Asked(S, dn) + Waited(S, cn, k) = Asked(S, cn)
    <2> DEFINE f == ReqsOf(dn)
               h == ReqsOf(cn)
    <2>1. Family(S, f) /\ Family(S, h)
      BY Families
    <2>2. ASSUME NEW c \in S PROVE Cardinality(h[c]) = Cardinality(f[c]) + Cardinality(w[c])
      <3>1. Cardinality(h[c]) = Len(cn[c].reqs) /\ Cardinality(f[c]) = Len(dn[c].reqs)
        BY <1>1, Families, ConnectionFacts
      <3> QED
        BY <1>1, <1>2, <3>1
    <2> HIDE DEF f, h
    <2>3. Cardinality(OfAll(S, h)) = Cardinality(OfAll(S, f)) + Cardinality(OfAll(S, w))
      BY <1>2, <2>1, <2>2, OfAllSum
    <2> QED
      BY <2>3 DEF Asked, Waited, f, h, w
  <1>4. Answered(S, dn) = Answered(S, cn) + Waited(S, cn, k)
    <2> DEFINE h == EndsOf(dn)
               f == EndsOf(cn)
    <2>1. Family(S, f) /\ Family(S, h)
      BY Families
    <2>2. ASSUME NEW c \in S PROVE Cardinality(h[c]) = Cardinality(f[c]) + Cardinality(w[c])
      BY <1>1, <1>2, Families
    <2> HIDE DEF f, h
    <2>3. Cardinality(OfAll(S, h)) = Cardinality(OfAll(S, f)) + Cardinality(OfAll(S, w))
      BY <1>2, <2>1, <2>2, OfAllSum
    <2> QED
      BY <2>3 DEF Answered, Waited, f, h, w
  <1>5. Pinned(S, dn, e) = Pinned(S, cn, e) + Waited(S, cn, k)
    <2> DEFINE h == SendsOf(dn, e)
               f == SendsOf(cn, e)
    <2>1. Family(S, f) /\ Family(S, h)
      BY Families
    <2>2. ASSUME NEW c \in S PROVE Cardinality(h[c]) = Cardinality(f[c]) + Cardinality(w[c])
      <3>1. Cardinality(Sending(dn[c], e)) =
            Cardinality(Sending(cn[c], e)) + Cardinality(Waiting(cn[c], k))
        BY <1>1
      <3> QED
        BY <1>2, <3>1, Families
    <2> HIDE DEF f, h
    <2>3. Cardinality(OfAll(S, h)) = Cardinality(OfAll(S, f)) + Cardinality(OfAll(S, w))
      BY <1>2, <2>1, <2>2, OfAllSum
    <2> QED
      BY <2>3 DEF Pinned, Waited, f, h, w
  <1>6. ASSUME NEW x \in Entry, x # e PROVE Pinned(S, dn, x) = Pinned(S, cn, x)
    <2> DEFINE h == SendsOf(dn, x)
               f == SendsOf(cn, x)
    <2>1. Family(S, f) /\ Family(S, h)
      BY Families
    <2>2. ASSUME NEW c \in S PROVE Cardinality(h[c]) = Cardinality(f[c])
      <3>1. /\ Cardinality(Sending(dn[c], x)) = Cardinality(Sending(cn[c], x)) + 0
            /\ Cardinality(Sending(cn[c], x)) \in Nat
        BY <1>1, <1>6, ConnectionFacts
      <3> QED
        BY <3>1, Families
    <2> HIDE DEF f, h
    <2>3. Cardinality(OfAll(S, h)) = Cardinality(OfAll(S, f))
      BY <2>1, <2>2, OfAllSame
    <2> QED
      BY <2>3 DEF Pinned, f, h
  <1>7. \A x \in Entry : Pinned(S, cn, x) \in Nat
    BY LoadNumbers
  <1> QED
    BY <1>3, <1>4, <1>5, <1>6, <1>7

-----------------------------------------------------------------------------
(* The event loop: where it is, and what the functions it calls rely on.   *)

Typed ==
    /\ con \in [Client -> Connection]
    /\ queue \in Seq(Key) /\ sent \in [Key -> Nat]
    /\ nRequests \in Nat /\ soq \in Nat

\* A walk is over clients of the list, each once, and who is visited is there.
WalkIsRight ==
    /\ clients \in Seq(Client) /\ IsInjective(clients)
    /\ todo \in Seq(Client) /\ IsInjective(todo) /\ ToSet(todo) \subseteq ToSet(clients)
    /\ phase \in {"register", "check", "refuse", "checked", "write", "close"} => todo # <<>>
    /\ phase \in {"io", "checked", "write"} => from = "io"
    /\ phase \in {"add", "register", "select", "splat", "accept", "backend", "cleanup"} =>
           from = "add"
    /\ from \in {"add", "io"}

\* Who was found writable has something to write until the walk has come by.
WritersAreBusy ==
    /\ phase = "accept" => wr \subseteq {c \in ToSet(clients) : Busy(con[c])}
    /\ phase = "write" => Busy(con[cur])
    /\ from = "io" =>
           \A c \in wr \cap ToSet(todo) : Busy(con[c]) \/ (phase = "close" /\ c = cur)

\* A check has taken queries that are there, the one to be refused last.
CheckIsRight ==
    /\ phase = "check" => soq <= Len(con[cur].inc)
    /\ phase = "refuse" => soq \in 1 .. Len(con[cur].inc) /\ con[cur].inc[soq] \in GoodQuery
    /\ phase \notin {"check", "refuse"} => soq = 0

Control == Typed /\ WalkIsRight /\ WritersAreBusy /\ CheckIsRight

LEMMA Current ==
    ASSUME Typed, WalkIsRight, todo # <<>>
    PROVE  /\ cur \in Client /\ cur \in ToSet(todo) /\ cur \in ToSet(clients)
           /\ con[cur] \in Connection
           /\ Tail(todo) \in Seq(Client) /\ IsInjective(Tail(todo))
           /\ ToSet(Tail(todo)) = ToSet(todo) \ {cur}
           /\ ToSet(Tail(todo)) \subseteq ToSet(clients)
  <1>1. todo \in Seq(Client) /\ IsInjective(todo) /\ ToSet(todo) \subseteq ToSet(clients)
    BY DEF WalkIsRight
  <1>2. /\ cur \in Client /\ cur \in ToSet(todo) /\ Tail(todo) \in Seq(Client)
        /\ IsInjective(Tail(todo)) /\ ToSet(Tail(todo)) = ToSet(todo) \ {cur}
    BY <1>1, TailFacts DEF cur
  <1>3. con[cur] \in Connection
    BY <1>2 DEF Typed
  <1> QED
    BY <1>1, <1>2, <1>3

LEMMA ListedClients ==
    ASSUME WalkIsRight
    PROVE  Clients(ToSet(clients))
  <1>1. clients \in Seq(Client) /\ DOMAIN clients = 1 .. Len(clients) /\ Len(clients) \in Nat
    BY DEF WalkIsRight
  <1>2. ToSet(clients) = {clients[i] : i \in DOMAIN clients} /\ ToSet(clients) \subseteq Client
    BY <1>1 DEF ToSet
  <1>3. clients \in Surjection(1 .. Len(clients), ToSet(clients))
    BY <1>1, <1>2 DEF Surjection
  <1>4. IsFiniteSet(ToSet(clients))
    BY <1>1, <1>3, FS_Surjection, FS_Interval
  <1> QED
    BY <1>2, <1>4 DEF Clients

\* The current client's connection becomes s.
Becomes(s) == con' = [con EXCEPT ![cur] = s]

LEMMA BecomesFacts ==
    ASSUME Typed, cur \in Client, NEW s \in Connection, Becomes(s)
    PROVE  /\ con' \in [Client -> Connection] /\ con'[cur] = s
           /\ \A d \in Client \ {cur} : con'[d] = con[d]
  BY DEF Typed, Becomes

\* A step that leaves what clients wait for and get as it is.
QuietFor(r, s) == SameLoad(r, s) /\ (Busy(r) => Busy(s))
Quiet == con' \in [Client -> Connection] /\ \A c \in Client : QuietFor(con[c], con'[c])

LEMMA SameOut ==
    ASSUME NEW r, NEW s, s.reqs = r.reqs, s.out = r.out
    PROVE  QuietFor(r, s)
  BY DEF QuietFor, SameLoad, Ending, Sending, Busy

LEMMA OneQuiet ==
    ASSUME Typed, cur \in Client, NEW s \in Connection, Becomes(s), QuietFor(con[cur], s)
    PROVE  Quiet
  <1>1. \A c \in Client : QuietFor(con[c], con[c])
    BY SameOut
  <1> QED
    BY <1>1, BecomesFacts DEF Quiet

LEMMA NoneQuiet ==
    ASSUME Typed, con' = con
    PROVE  Quiet
  BY SameOut DEF Quiet, Typed

\* What the functions that read, check and register do to a connection.
LEMMA ReadQuiet ==
    ASSUME Typed, WalkIsRight, NEW b \in Burst, ReadData(b)
    PROVE  Quiet /\ todo # <<>>
  <1>1. todo # <<>>
    BY DEF ReadData, InIO
  <1>2. b.full \in Seq(GoodQuery \cup {BadXML}) /\ b.tail \in Nat
    BY BurstAssumption
  <1>3. cur \in Client /\ con[cur] \in Connection
    BY <1>1, Current
  <1> DEFINE i == con[cur].inc \o b.full
             t == IF b.full = <<>> THEN con[cur].tail + b.tail ELSE b.tail
             s == [con[cur] EXCEPT !.inc = i, !.tail = t]
  <1>4. i \in Seq(GoodQuery \cup {BadXML}) /\ t \in Nat
    BY <1>2, <1>3 DEF Connection
  <1>5. Becomes(s)
    BY <1>3 DEF ReadData, Becomes, Typed
  <1> HIDE DEF i, t
  <1>6. s \in Connection /\ s.reqs = con[cur].reqs /\ s.out = con[cur].out
    BY <1>3, <1>4 DEF Connection
  <1> HIDE DEF s
  <1> QED
    BY <1>1, <1>3, <1>5, <1>6, SameOut, OneQuiet

LEMMA EOFQuiet ==
    ASSUME Typed, WalkIsRight, ReadEOF
    PROVE  Quiet /\ todo # <<>>
  <1>1. todo # <<>>
    BY DEF ReadEOF, InIO
  <1>3. cur \in Client /\ con[cur] \in Connection
    BY <1>1, Current
  <1> DEFINE s == [con[cur] EXCEPT !.eof = TRUE]
  <1>5. Becomes(s)
    BY <1>3 DEF ReadEOF, Becomes, Typed
  <1>6. s \in Connection /\ s.reqs = con[cur].reqs /\ s.out = con[cur].out
    BY <1>3 DEF Connection
  <1> HIDE DEF s
  <1> QED
    BY <1>1, <1>3, <1>5, <1>6, SameOut, OneQuiet

LEMMA RegisterQuiet ==
    ASSUME Typed, WalkIsRight, Register
    PROVE  Quiet /\ todo # <<>>
  <1>1. todo # <<>>
    BY DEF Register, WalkIsRight
  <1>2. CASE Finished(con[cur])
    BY <1>1, <1>2, NoneQuiet DEF Register
  <1>3. CASE ~Finished(con[cur])
    <2>1. cur \in Client /\ con[cur] \in Connection
      BY <1>1, Current
    <2> DEFINE m == /\ nRequests < MaxRequests /\ ~con[cur].shut /\ ~con[cur].eof
                    /\ IncLen(con[cur]) < MaxBufLen
               s == [con[cur] EXCEPT !.marked = m]
    <2>2. Becomes(s)
      BY <1>3, <2>1 DEF Register, Becomes, Typed
    <2>3. m \in BOOLEAN
      OBVIOUS
    <2> HIDE DEF m
    <2>4. s \in Connection /\ s.reqs = con[cur].reqs /\ s.out = con[cur].out
      BY <2>1, <2>3 DEF Connection
    <2> HIDE DEF s
    <2> QED
      BY <1>1, <2>1, <2>2, <2>4, SameOut, OneQuiet
  <1> QED
    BY <1>2, <1>3

\* An error message goes out and nothing more is read.
LEMMA ShutFacts ==
    ASSUME NEW r \in Connection
    PROVE  LET s == [GrabOutput(r) EXCEPT !.shut = TRUE]
           IN  s \in Connection /\ QuietFor(r, s)
  <1> DEFINE g == GrabOutput(r)
             s == [g EXCEPT !.shut = TRUE]
  <1>1. g \in Connection /\ g.reqs = r.reqs /\ QuietFor(r, g)
    BY GrabbedFacts DEF QuietFor, SameLoad
  <1> HIDE DEF g
  <1>2. s \in Connection /\ s.reqs = g.reqs /\ s.out = g.out
    BY <1>1 DEF Connection
  <1>3. QuietFor(g, s)
    BY <1>2, SameOut
  <1> HIDE DEF s
  <1>4. QuietFor(r, s)
    BY <1>1, <1>3 DEF QuietFor, SameLoad
  <1> QED
    BY <1>2, <1>4 DEF s, g

LEMMA BadQueryQuiet ==
    ASSUME Typed, WalkIsRight, TakeBadQuery
    PROVE  Quiet /\ todo # <<>>
  <1>1. todo # <<>>
    BY DEF TakeBadQuery, MoreToTake, WalkIsRight
  <1>2. cur \in Client /\ con[cur] \in Connection
    BY <1>1, Current
  <1> DEFINE s == [GrabOutput(con[cur]) EXCEPT !.shut = TRUE]
  <1>3. Becomes(s)
    BY <1>2 DEF TakeBadQuery, Becomes, Typed
  <1>4. s \in Connection /\ QuietFor(con[cur], s)
    BY <1>2, ShutFacts
  <1> HIDE DEF s
  <1> QED
    BY <1>1, <1>2, <1>3, <1>4, OneQuiet

LEMMA EndCheckQuiet ==
    ASSUME Typed, WalkIsRight, CheckIsRight, EndCheck
    PROVE  Quiet /\ todo # <<>>
  <1>1. todo # <<>> /\ soq <= Len(con[cur].inc) /\ soq \in Nat
    BY DEF EndCheck, WalkIsRight, CheckIsRight, Typed
  <1>2. cur \in Client /\ con[cur] \in Connection
    BY <1>1, Current
  <1> DEFINE i == SubSeq(con[cur].inc, soq + 1, Len(con[cur].inc))
             r == [con[cur] EXCEPT !.inc = i]
             free == nRequests < MaxRequests
             z == [r EXCEPT !.inc = <<>>, !.tail = 0]
             g == [GrabOutput(r) EXCEPT !.shut = TRUE]
             s == IF IncLen(con[cur]) = 0 THEN con[cur]
                  ELSE IF r.eof /\ free THEN z
                  ELSE IF free /\ IncLen(r) >= MaxReqLen THEN g
                  ELSE r
  <1>3. Becomes(s)
    BY <1>2 DEF EndCheck, Becomes, Typed
  <1>4. i \in Seq(GoodQuery \cup {BadXML})
    BY <1>1, <1>2 DEF Connection
  <1> HIDE DEF i
  <1>5. r \in Connection /\ r.reqs = con[cur].reqs /\ r.out = con[cur].out
    BY <1>2, <1>4 DEF Connection
  <1> HIDE DEF r
  <1>6. z \in Connection /\ z.reqs = con[cur].reqs /\ z.out = con[cur].out
    <2>1. <<>> \in Seq(GoodQuery \cup {BadXML})
      OBVIOUS
    <2> QED
      BY <1>5, <2>1 DEF Connection
  <1> HIDE DEF z
  <1>7. QuietFor(con[cur], con[cur]) /\ QuietFor(con[cur], r) /\ QuietFor(con[cur], z)
    BY <1>5, <1>6, SameOut
  <1>8. g \in Connection /\ QuietFor(con[cur], g)
    <2>1. g \in Connection /\ QuietFor(r, g)
      BY <1>5, ShutFacts
    <2> HIDE DEF g
    <2> QED
      BY <1>7, <2>1 DEF QuietFor, SameLoad
  <1> HIDE DEF g
  <1>9. s \in Connection /\ QuietFor(con[cur], s)
    BY <1>2, <1>5, <1>6, <1>7, <1>8
  <1> HIDE DEF s
  <1> QED
    BY <1>1, <1>2, <1>3, <1>9, OneQuiet

-----------------------------------------------------------------------------
(* The cache the clients use is the one NcsCache_proofs is about. *)

P == INSTANCE NcsCache_proofs WITH
    pins <- [e \in Entry |-> PinsOf(e)],
    cleaning <- CASE phase = "cleanup" -> MaxSize
                  [] phase = "splat" -> 0
                  [] OTHER -> -1,
    MaxPins <- MaxRequests

LEMMA CacheAssumptions == P!KeyAssumption /\ P!SizeAssumption
  BY KeyAssumption, LimitsAssumption DEF P!KeyAssumption, P!SizeAssumption

LEMMA SameOperators ==
    /\ P!Answer = Answer
    /\ \A c : P!Cached(c) = Cached(c) /\ P!InTable(c) = InTable(c)
    /\ \A c, e : P!HasResult(c, e) <=> HasResult(c, e)
    /\ \A c, e, n : P!IncUsage(c, e, n) = IncUsage(c, e, n) /\ P!DecUsage(c, e, n) = DecUsage(c, e, n)
  BY DEF Answer, P!Answer, Cached, P!Cached, InTable, P!InTable, HasResult, P!HasResult,
         IncUsage, P!IncUsage, DecUsage, P!DecUsage

LEMMA SameLists ==
    /\ \A q, e : P!RemoveFirst(q, e) = RemoveFirst(q, e)
    /\ \A S : P!SetToSeqs(S) = SetToSeqs(S) /\ P!Cardinality(S) = Cardinality(S)
    /\ \A n : P!Prime(n) = Prime(n)
    /\ \A q : P!Last(q) = Last(q)
  <1>0. \A S : P!Min(S) = Min(S)
    BY Zenon DEF Min, P!Min
  <1>1. ASSUME NEW q, NEW e PROVE P!RemoveFirst(q, e) = RemoveFirst(q, e)
    <2>1. P!SelectInSeq(q, LAMBDA x : x = e) = SelectInSeq(q, LAMBDA x : x = e)
      BY <1>0 DEF SelectInSeq, P!SelectInSeq
    <2> QED
      BY <1>0 DEF RemoveFirst, P!RemoveFirst, SelectInSeq, P!SelectInSeq, RemoveAt, P!RemoveAt
  <1>2. ASSUME NEW S PROVE P!Cardinality(S) = Cardinality(S)
    BY DEF Cardinality, P!Cardinality, IsFiniteSet, P!IsFiniteSet
  <1>2b. ASSUME NEW S PROVE P!SetToSeqs(S) = SetToSeqs(S)
    BY <1>2 DEF SetToSeqs, P!SetToSeqs
  <1>3. ASSUME NEW n PROVE P!Prime(n) = Prime(n)
    BY <1>0 DEF Prime, P!Prime
  <1>4. ASSUME NEW q PROVE P!Last(q) = Last(q)
    BY DEF Last, P!Last
  <1> QED
    BY <1>1, <1>2, <1>2b, <1>3, <1>4

LEMMA SameTableOperators ==
    /\ \A c, k : P!Delete(c, k) = Delete(c, k) /\ P!DropError(c, k) = DropError(c, k)
    /\ \A c, k, a : P!Store(c, k, a) = Store(c, k, a)
    /\ \A c, k : P!LookupAdd(c, k) = LookupAdd(c, k)
  <1>1. \A c, k : P!Delete(c, k) = Delete(c, k)
    BY SameOperators, SameLists DEF Delete, P!Delete
  <1>2. \A c, k : P!DropError(c, k) = DropError(c, k)
    BY <1>1 DEF DropError, P!DropError
  <1>3. \A c, k, a : P!Store(c, k, a) = Store(c, k, a)
    BY DEF Store, P!Store
  <1>4. \A c, k : P!Touch(c, k) = Touch(c, k)
    BY SameLists DEF Touch, P!Touch
  <1>5. \A c, k, e : P!Fresh(c, k, e) = Fresh(c, k, e)
    BY DEF Fresh, P!Fresh, Add, P!Add
  <1>6. ASSUME NEW c PROVE P!Rehashed(c) = Rehashed(c)
    BY SameOperators, SameLists, Zenon DEF Rehashed, P!Rehashed
  <1>7. ASSUME NEW c PROVE P!FreeMemory(c) = FreeMemory(c)
    BY DEF FreeMemory, P!FreeMemory
  <1>8. ASSUME NEW c, NEW k PROVE P!LookupAdd(c, k) = LookupAdd(c, k)
    <2>1. CASE k \in Cached(c)
      BY <1>4, <2>1, SameOperators DEF LookupAdd, P!LookupAdd
    <2>2. CASE k \notin Cached(c)
      <3> DEFINE R == IF c.used >= c.size \div 2 THEN Rehashed(c) ELSE {c}
                 F == FreeMemory(c)
      <3>1. P!LookupAdd(c, k) = {P!Fresh(r, k, e) : r \in R, e \in F}
        <4> DEFINE G(b) == IF c.used >= c.size \div 2 THEN b ELSE {c}
        <4>1. k \notin P!Cached(c) /\ G(P!Rehashed(c)) = R /\ P!FreeMemory(c) = F
          BY <1>6, <1>7, <2>2, SameOperators
        <4>2. P!LookupAdd(c, k) =
                  {P!Fresh(r, k, e) : r \in G(P!Rehashed(c)), e \in P!FreeMemory(c)}
          BY <4>1 DEF P!LookupAdd
        <4> HIDE DEF G
        <4> QED
          BY <4>1, <4>2
      <3>2. LookupAdd(c, k) = {Fresh(r, k, e) : r \in R, e \in F}
        BY <2>2 DEF LookupAdd
      <3> HIDE DEF R, F
      <3> QED
        BY <1>5, <3>1, <3>2
    <2> QED
      BY <2>1, <2>2
  <1> QED
    BY <1>1, <1>2, <1>3, <1>8

\* NcsCache_proofs speaks of the specification the clients are to implement.
LEMMA SameLookup ==
    ASSUME NEW c, NEW k
    PROVE  P!LookupAdd(c, k) = Cache!LookupAdd(c, k)
  <1>1. P!Touch(c, k) = Cache!Touch(c, k)
    BY Zenon DEF P!Touch, P!RemoveFirst, P!SelectInSeq, P!RemoveAt, P!Min, Cache!Touch,
       Cache!RemoveFirst, Cache!SelectInSeq, Cache!RemoveAt, Cache!Min
  <1>2. P!Rehashed(c) = Cache!Rehashed(c)
    BY Zenon DEF P!Rehashed, P!SetToSeqs, P!Cardinality, P!IsFiniteSet, P!Prime, P!Min,
       P!InTable, P!Cached, Cache!Rehashed, Cache!SetToSeqs, Cache!Cardinality, Cache!IsFiniteSet,
       Cache!Prime, Cache!Min, Cache!InTable, Cache!Cached
  <1>3. P!FreeMemory(c) = Cache!FreeMemory(c)
    BY Zenon DEF P!FreeMemory, Cache!FreeMemory
  <1>4. \A r, e : P!Fresh(r, k, e) = Cache!Fresh(r, k, e)
    BY Zenon DEF P!Fresh, P!Add, Cache!Fresh, Cache!Add
  <1>5. P!Cached(c) = Cache!Cached(c)
    BY Zenon DEF P!Cached, Cache!Cached
  <1>6. CASE k \in P!Cached(c)
    BY <1>1, <1>5, <1>6 DEF P!LookupAdd, Cache!LookupAdd
  <1>7. CASE k \notin P!Cached(c)
    <2> DEFINE G(b) == IF c.used >= c.size \div 2 THEN b ELSE {c}
               R == G(P!Rehashed(c))
               F == P!FreeMemory(c)
    <2>1. P!LookupAdd(c, k) = {P!Fresh(r, k, e) : r \in R, e \in F}
      BY <1>7 DEF P!LookupAdd
    <2>2. G(Cache!Rehashed(c)) = R /\ Cache!FreeMemory(c) = F
      BY <1>2, <1>3
    <2>3. Cache!LookupAdd(c, k) =
              {Cache!Fresh(r, k, e) : r \in G(Cache!Rehashed(c)), e \in Cache!FreeMemory(c)}
      BY <1>5, <1>7 DEF Cache!LookupAdd
    <2> HIDE DEF G, R, F
    <2> QED
      BY <1>4, <2>1, <2>2, <2>3
  <1> QED
    BY <1>6, <1>7

LEMMA SameNext == [P!CacheNext]_(P!cvars) => [Cache!CacheNext]_(Cache!cvars)
  <1>1. ASSUME NEW c, NEW k PROVE P!Delete(c, k) = Cache!Delete(c, k)
    BY Zenon DEF P!Delete, P!DecUsage, P!RemoveFirst, P!SelectInSeq, P!RemoveAt, P!Min,
       P!Cached, Cache!Delete, Cache!DecUsage, Cache!RemoveFirst, Cache!SelectInSeq,
       Cache!RemoveAt, Cache!Min, Cache!Cached
  <1>2. ASSUME NEW c, NEW k, NEW answer PROVE P!Store(c, k, answer) = Cache!Store(c, k, answer)
    BY Zenon DEF P!Store, Cache!Store
  <1>3. ASSUME NEW c, NEW e, NEW n
        PROVE  /\ P!IncUsage(c, e, n) = Cache!IncUsage(c, e, n)
               /\ P!DecUsage(c, e, n) = Cache!DecUsage(c, e, n)
               /\ P!HasResult(c, e) <=> Cache!HasResult(c, e)
    BY Zenon DEF P!IncUsage, P!DecUsage, P!HasResult, Cache!IncUsage, Cache!DecUsage,
       Cache!HasResult
  <1>4. ASSUME NEW c, NEW k PROVE P!DropError(c, k) = Cache!DropError(c, k)
    BY <1>1 DEF P!DropError, Cache!DropError
  <1>5. ASSUME NEW k, P!Query(k) PROVE Cache!Query(k)
    BY <1>3, <1>5, SameLookup DEF P!Query, Cache!Query
  <1>6. ASSUME NEW k, P!Forget(k) PROVE Cache!Forget(k)
    BY <1>1, <1>6 DEF P!Forget, Cache!Forget
  <1>7. ASSUME NEW e, P!Unpin(e) PROVE Cache!Unpin(e)
    BY <1>3, <1>7 DEF P!Unpin, Cache!Unpin
  <1>8. ASSUME NEW k, NEW answer, NEW n, P!NewResult(k, answer, n)
        PROVE  Cache!NewResult(k, answer, n)
    <2> DEFINE p == [e \in Entry |-> PinsOf(e)]
    <2>1. PICK c \in P!LookupAdd(cache, k) :
              /\ p[c.tab[k]] + n <= MaxRequests
              /\ cache' = P!DropError(P!IncUsage(P!Store(c, k, answer), c.tab[k], n), k)
              /\ p' = [p EXCEPT ![c.tab[k]] = @ + n]
      BY <1>8 DEF P!NewResult
    <2>2. c \in Cache!LookupAdd(cache, k)
      BY <2>1, SameLookup
    <2>3. cache' = Cache!DropError(Cache!IncUsage(Cache!Store(c, k, answer), c.tab[k], n), k)
      BY <1>2, <1>3, <1>4, <2>1
    <2> QED
      BY <1>8, <2>1, <2>2, <2>3 DEF P!NewResult, Cache!NewResult
  <1>9. ASSUME NEW limit, P!StartCleanup(limit) PROVE Cache!StartCleanup(limit)
    BY <1>9 DEF P!StartCleanup, Cache!StartCleanup
  <1>10. P!Evict => Cache!Evict
    <2>1. P!Last(cache.lru) = Cache!Last(cache.lru)
      BY Zenon DEF P!Last, Cache!Last
    <2> QED
      BY <1>1, <2>1 DEF P!Evict, Cache!Evict
  <1>11. P!EndCleanup => Cache!EndCleanup
    BY Zenon DEF P!EndCleanup, Cache!EndCleanup
  <1>12. P!Answer = Cache!Answer /\ P!cvars = Cache!cvars
    BY Zenon DEF P!Answer, P!cvars, Cache!Answer, Cache!cvars
  <1> QED
    BY <1>5, <1>6, <1>7, <1>8, <1>9, <1>10, <1>11, <1>12 DEF P!CacheNext, P!cvars,
       Cache!CacheNext, Cache!cvars

-----------------------------------------------------------------------------
(* The invariant. *)

\* The answer to k comes from the queue, a server, or subdbs_startreq.
Coming(k) ==
    \/ k \in ToSet(queue) \/ sent[k] > 0
    \/ phase = "refuse" /\ k = con[cur].inc[soq].key /\ k \in Unknown

\* An entry without a result, and a client that waits, will hear of k, and
\* nobody waits for a result that is there.
Served(k) ==
    /\ k \in Cached(cache) => HasResult(cache, cache.tab[k]) \/ Coming(k)
    /\ \A c \in ToSet(clients) : Waiting(con[c], k) # {} =>
           /\ Coming(k) \/ (phase = "close" /\ c = cur)
           /\ k \in Cached(cache) => ~HasResult(cache, cache.tab[k])

CacheIsRight == P!IInv /\ P!ListIsRight(cache)

IInv == Control /\ RequestsAreBounded /\ (\A k \in Key : Served(k)) /\ CacheIsRight

\* What has to be shown of a step.
Good ==
    Control' /\ RequestsAreBounded' /\ (\A k \in Key : Served(k)') /\ [P!CacheNext]_(P!cvars)

\* The numbers the properties speak of.
LEMMA Numbers ==
    /\ Outstanding = Asked(ToSet(clients), con) + Answered(ToSet(clients), con)
    /\ \A e : PinsOf(e) = Pinned(ToSet(clients), con, e)
    /\ \A k : NumWaiting(k) = Waited(ToSet(clients), con, k)
  BY DEF Outstanding, PinsOf, NumWaiting, Asked, Answered, Pinned, Waited, ReqsOf, EndsOf, SendsOf,
         WaitsOf

LEMMA NextNumbers ==
    /\ Outstanding' = Asked(ToSet(clients'), con') + Answered(ToSet(clients'), con')
    /\ \A e : PinsOf(e)' = Pinned(ToSet(clients'), con', e)
  BY DEF Outstanding, PinsOf, Asked, Answered, Pinned, ReqsOf, EndsOf, SendsOf

Pins == [e \in Entry |-> PinsOf(e)]
Cleaning ==
    CASE phase = "cleanup" -> MaxSize
      [] phase = "splat" -> 0
      [] OTHER -> -1

LEMMA PinsFacts ==
    /\ Pins = [e \in Entry |-> Pinned(ToSet(clients), con, e)]
    /\ Pins' = [e \in Entry |-> Pinned(ToSet(clients'), con', e)]
  BY Numbers, NextNumbers DEF Pins

\* A request nobody waits for anew stays served when its result, if any, and
\* the one its answer comes from stay.
LEMMA StaysServed ==
    ASSUME NEW k \in Key, Served(k), Coming(k) => Coming(k)',
           k \in Cached(cache') =>
               k \in Cached(cache) /\ (HasResult(cache', cache'.tab[k]) <=> HasResult(cache, cache.tab[k])),
           \A c \in ToSet(clients') : Waiting(con'[c], k) # {} =>
               /\ c \in ToSet(clients) /\ Waiting(con[c], k) # {}
               /\ phase = "close" /\ c = cur => phase' = "close" /\ c = cur'
    PROVE  Served(k)'
  BY DEF Served

LEMMA QuietStep ==
    ASSUME IInv, Quiet, UNCHANGED <<cache, clients, nRequests, queue, sent>>,
           phase \notin {"refuse", "close"}, phase' # "refuse"
    PROVE  /\ RequestsAreBounded' /\ (\A k \in Key : Served(k)')
           /\ UNCHANGED <<cache, Pins>>
  <1> DEFINE S == ToSet(clients)
  <1>1. /\ Clients(S) /\ ToSet(clients') = S /\ con \in [Client -> Connection]
        /\ con' \in [Client -> Connection]
        /\ \A c \in S : SameLoad(con[c], con'[c])
    <2>1. Clients(S)
      BY ListedClients DEF IInv, Control
    <2> QED
      BY <2>1 DEF IInv, Control, Typed, Quiet, QuietFor, Clients
  <1> HIDE DEF S
  <1>2. /\ Asked(S, con') = Asked(S, con) /\ Answered(S, con') = Answered(S, con)
        /\ \A e \in Entry : Pinned(S, con', e) = Pinned(S, con, e)
    BY <1>1, LoadSame
  <1>3. RequestsAreBounded'
    BY <1>1, <1>2, Numbers, NextNumbers DEF IInv, RequestsAreBounded, S
  <1>4. Pins' = Pins
    BY <1>1, <1>2, PinsFacts DEF S
  <1>5. ASSUME NEW k \in Key PROVE Served(k)'
    <2>1. Served(k) /\ (Coming(k) => Coming(k)')
      BY DEF IInv, Coming
    <2>2. \A c \in S : Waiting(con'[c], k) = Waiting(con[c], k)
      BY <1>1 DEF SameLoad, Waiting
    <2> QED
      BY <1>1, <2>1, <2>2, StaysServed DEF S
  <1> QED
    BY <1>3, <1>4, <1>5

\* Steps of the cache that only begin or end a clean-up, or nothing.
LEMMA QuietCache ==
    ASSUME UNCHANGED <<cache, Pins>>,
           \/ Cleaning' = Cleaning
           \/ Cleaning = -1 /\ Cleaning' \in {0, MaxSize}
           \/ Cleaning \in {0, MaxSize} /\ cache.used <= Cleaning /\ Cleaning' = -1
    PROVE  [P!CacheNext]_(P!cvars)
  <1>0. MaxSize \in Nat
    BY LimitsAssumption
  <1>1. CASE Cleaning' = Cleaning
    BY <1>1 DEF P!cvars, Pins, Cleaning
  <1>2. CASE Cleaning = -1 /\ Cleaning' \in {0, MaxSize}
    <2>1. PICK limit \in {0, MaxSize} : Cleaning' = limit
      BY <1>2
    <2>2. P!StartCleanup(limit)
      BY <1>2, <2>1 DEF P!StartCleanup, Pins, Cleaning
    <2> QED
      BY <2>2 DEF P!CacheNext
  <1>3. CASE Cleaning \in {0, MaxSize} /\ cache.used <= Cleaning /\ Cleaning' = -1
    <2>1. P!EndCleanup
      BY <1>0, <1>3 DEF P!EndCleanup, Pins, Cleaning
    <2> QED
      BY <2>1 DEF P!CacheNext
  <1> QED
    BY <1>1, <1>2, <1>3

-----------------------------------------------------------------------------
(* Steps that only move the loop along, or read, register and complain. *)

LEMMA QuietTyped ==
    ASSUME Typed, Quiet, UNCHANGED <<queue, sent, nRequests>>, soq' \in Nat
    PROVE  Typed'
  BY DEF Typed, Quiet

\* Who was writable still is when the loop goes on with the same client.
LEMMA QuietWriters ==
    ASSUME WalkIsRight, WritersAreBusy, Quiet, UNCHANGED <<todo, from, wr>>,
           phase # "close", phase' \notin {"accept", "write"}
    PROVE  WritersAreBusy'
  <1>1. ToSet(todo) \subseteq Client
    BY DEF WalkIsRight, ToSet
  <1> QED
    BY <1>1 DEF WritersAreBusy, Quiet, QuietFor

\* Whatever the loop calls on the way to where it goes next.
QuietMove ==
    \/ Absorb \/ Register \/ Registered \/ (\E r, w \in SUBSET Client : Select(r, w))
    \/ Interrupted \/ NothingToAccept
    \/ (\E b \in Burst : ReadData(b)) \/ ReadEOF \/ ReadInterrupted \/ ReadError
    \/ Writable \/ TooSlow \/ NotReady \/ Checked \/ EndIO
    \/ TakeBadQuery \/ EndCheck \/ EndBackend
    \/ WriteGarbage \/ ShortWrite \/ WriteError \/ EndCleanup

LEMMA QuietGood ==
    ASSUME IInv, QuietMove
    PROVE  Good
  <1> USE DEF IInv, Control
  <1>0. MaxSize \in Nat
    BY LimitsAssumption
  <1>1. todo # <<>> =>
            /\ cur \in Client /\ cur \in ToSet(todo) /\ con[cur] \in Connection
            /\ Tail(todo) \in Seq(Client) /\ IsInjective(Tail(todo))
            /\ ToSet(Tail(todo)) = ToSet(todo) \ {cur} /\ ToSet(Tail(todo)) \subseteq ToSet(clients)
    BY Current
  <1>2. CASE Absorb
    <2>1. Quiet
      BY <1>2, NoneQuiet DEF Absorb
    <2>2. /\ UNCHANGED <<cache, clients, nRequests, queue, sent>>
          /\ phase \notin {"refuse", "close"} /\ phase' # "refuse"
      BY <1>2 DEF Absorb, WalkIsRight, back
    <2>3. Typed'
      <3>1. soq' \in Nat
        BY <1>2 DEF Absorb, Typed
      <3> QED
        BY <2>1, <2>2, <3>1, QuietTyped
    <2>4. WalkIsRight'
      BY <1>1, <1>2 DEF Absorb, WalkIsRight
    <2>5. WritersAreBusy'
      BY <1>1, <1>2, <2>1 DEF Absorb, WritersAreBusy, WalkIsRight, Quiet, QuietFor, fds, cur
    <2>6. CheckIsRight'
      BY <1>1, <1>2 DEF Absorb, CheckIsRight, WalkIsRight, Typed, Connection, cur
    <2>7. [P!CacheNext]_(P!cvars)
      <3>1. UNCHANGED <<cache, Pins>>
        BY <2>1, <2>2, QuietStep
      <3> QED
        BY <1>0, <1>2, <3>1, QuietCache DEF Absorb, Cleaning
    <2> QED
      BY <2>1, <2>2, <2>3, <2>4, <2>5, <2>6, <2>7, QuietStep DEF Good
  <1>3. CASE Register
    <2>1. Quiet
      BY <1>3, RegisterQuiet
    <2>2. /\ UNCHANGED <<cache, clients, nRequests, queue, sent>>
          /\ phase \notin {"refuse", "close"} /\ phase' # "refuse"
      BY <1>3 DEF Register, WalkIsRight, back
    <2>3. Typed'
      <3>1. soq' \in Nat
        BY <1>3 DEF Register, Typed
      <3> QED
        BY <2>1, <2>2, <3>1, QuietTyped
    <2>4. WalkIsRight'
      BY <1>1, <1>3 DEF Register, WalkIsRight
    <2>5. WritersAreBusy'
      BY <1>1, <1>3, <2>1 DEF Register, WritersAreBusy, WalkIsRight, Quiet, QuietFor, fds, cur
    <2>6. CheckIsRight'
      BY <1>1, <1>3 DEF Register, CheckIsRight, WalkIsRight, Typed, Connection, cur
    <2>7. [P!CacheNext]_(P!cvars)
      <3>1. UNCHANGED <<cache, Pins>>
        BY <2>1, <2>2, QuietStep
      <3> QED
        BY <1>0, <1>3, <3>1, QuietCache DEF Register, Cleaning
    <2> QED
      BY <2>1, <2>2, <2>3, <2>4, <2>5, <2>6, <2>7, QuietStep DEF Good
  <1>4. CASE Registered
    <2>1. Quiet
      BY <1>4, NoneQuiet DEF Registered
    <2>2. /\ UNCHANGED <<cache, clients, nRequests, queue, sent>>
          /\ phase \notin {"refuse", "close"} /\ phase' # "refuse"
      BY <1>4 DEF Registered, WalkIsRight, back
    <2>3. Typed'
      <3>1. soq' \in Nat
        BY <1>4 DEF Registered, Typed
      <3> QED
        BY <2>1, <2>2, <3>1, QuietTyped
    <2>4. WalkIsRight'
      BY <1>1, <1>4 DEF Registered, WalkIsRight
    <2>5. WritersAreBusy'
      BY <1>1, <1>4, <2>1 DEF Registered, WritersAreBusy, WalkIsRight, Quiet, QuietFor, fds, cur
    <2>6. CheckIsRight'
      BY <1>1, <1>4 DEF Registered, CheckIsRight, WalkIsRight, Typed, Connection, cur
    <2>7. [P!CacheNext]_(P!cvars)
      <3>1. UNCHANGED <<cache, Pins>>
        BY <2>1, <2>2, QuietStep
      <3> QED
        BY <1>0, <1>4, <3>1, QuietCache DEF Registered, Cleaning
    <2> QED
      BY <2>1, <2>2, <2>3, <2>4, <2>5, <2>6, <2>7, QuietStep DEF Good
  <1>5. ASSUME NEW r, NEW w, Select(r, w) PROVE Good
    <2>1. Quiet
      BY <1>5, NoneQuiet DEF Select
    <2>2. /\ UNCHANGED <<cache, clients, nRequests, queue, sent>>
          /\ phase \notin {"refuse", "close"} /\ phase' # "refuse"
      BY <1>5 DEF Select, WalkIsRight, back
    <2>3. Typed'
      <3>1. soq' \in Nat
        BY <1>5 DEF Select, Typed
      <3> QED
        BY <2>1, <2>2, <3>1, QuietTyped
    <2>4. WalkIsRight'
      BY <1>1, <1>5 DEF Select, WalkIsRight
    <2>5. WritersAreBusy'
      BY <1>1, <1>5, <2>1 DEF Select, WritersAreBusy, WalkIsRight, Quiet, QuietFor, fds, cur
    <2>6. CheckIsRight'
      BY <1>1, <1>5 DEF Select, CheckIsRight, WalkIsRight, Typed, Connection, cur
    <2>7. [P!CacheNext]_(P!cvars)
      <3>1. UNCHANGED <<cache, Pins>>
        BY <2>1, <2>2, QuietStep
      <3> QED
        BY <1>0, <1>5, <3>1, QuietCache DEF Select, Cleaning
    <2> QED
      BY <2>1, <2>2, <2>3, <2>4, <2>5, <2>6, <2>7, QuietStep DEF Good
  <1>6. CASE Interrupted
    <2>1. Quiet
      BY <1>6, NoneQuiet DEF Interrupted
    <2>2. /\ UNCHANGED <<cache, clients, nRequests, queue, sent>>
          /\ phase \notin {"refuse", "close"} /\ phase' # "refuse"
      BY <1>6 DEF Interrupted, WalkIsRight, back
    <2>3. Typed'
      <3>1. soq' \in Nat
        BY <1>6 DEF Interrupted, Typed
      <3> QED
        BY <2>1, <2>2, <3>1, QuietTyped
    <2>4. WalkIsRight'
      BY <1>1, <1>6 DEF Interrupted, WalkIsRight
    <2>5. WritersAreBusy'
      BY <1>1, <1>6, <2>1 DEF Interrupted, WritersAreBusy, WalkIsRight, Quiet, QuietFor, fds, cur
    <2>6. CheckIsRight'
      BY <1>1, <1>6 DEF Interrupted, CheckIsRight, WalkIsRight, Typed, Connection, cur
    <2>7. [P!CacheNext]_(P!cvars)
      <3>1. UNCHANGED <<cache, Pins>>
        BY <2>1, <2>2, QuietStep
      <3> QED
        BY <1>0, <1>6, <3>1, QuietCache DEF Interrupted, Cleaning
    <2> QED
      BY <2>1, <2>2, <2>3, <2>4, <2>5, <2>6, <2>7, QuietStep DEF Good
  <1>7. CASE NothingToAccept
    <2>1. Quiet
      BY <1>7, NoneQuiet DEF NothingToAccept
    <2>2. /\ UNCHANGED <<cache, clients, nRequests, queue, sent>>
          /\ phase \notin {"refuse", "close"} /\ phase' # "refuse"
      BY <1>7 DEF NothingToAccept, WalkIsRight, back
    <2>3. Typed'
      <3>1. soq' \in Nat
        BY <1>7 DEF NothingToAccept, Typed
      <3> QED
        BY <2>1, <2>2, <3>1, QuietTyped
    <2>4. WalkIsRight'
      BY <1>1, <1>7 DEF NothingToAccept, WalkIsRight
    <2>5. WritersAreBusy'
      BY <1>1, <1>7, <2>1 DEF NothingToAccept, WritersAreBusy, WalkIsRight, Quiet, QuietFor, fds, cur
    <2>6. CheckIsRight'
      BY <1>1, <1>7 DEF NothingToAccept, CheckIsRight, WalkIsRight, Typed, Connection, cur
    <2>7. [P!CacheNext]_(P!cvars)
      <3>1. UNCHANGED <<cache, Pins>>
        BY <2>1, <2>2, QuietStep
      <3> QED
        BY <1>0, <1>7, <3>1, QuietCache DEF NothingToAccept, Cleaning
    <2> QED
      BY <2>1, <2>2, <2>3, <2>4, <2>5, <2>6, <2>7, QuietStep DEF Good
  <1>8. ASSUME NEW b \in Burst, ReadData(b) PROVE Good
    <2>1. Quiet
      BY <1>8, ReadQuiet
    <2>2. /\ UNCHANGED <<cache, clients, nRequests, queue, sent>>
          /\ phase \notin {"refuse", "close"} /\ phase' # "refuse"
      BY <1>8 DEF ReadData, InIO, WalkIsRight, back
    <2>3. Typed'
      <3>1. soq' \in Nat
        BY <1>8 DEF ReadData, InIO, Typed
      <3> QED
        BY <2>1, <2>2, <3>1, QuietTyped
    <2>4. WalkIsRight'
      BY <1>1, <1>8 DEF ReadData, InIO, WalkIsRight
    <2>5. WritersAreBusy'
      BY <1>8, <2>1, <2>2, QuietWriters DEF ReadData, InIO, WalkIsRight, fds
    <2>6. CheckIsRight'
      <3>1. phase = "io" /\ phase' = "check" /\ soq' = soq /\ cur' = cur /\ todo # <<>>
        BY <1>8 DEF ReadData, InIO, cur
      <3>2. Len(con'[cur].inc) \in Nat
        BY <1>1, <2>3, <3>1 DEF Typed, Connection
      <3> QED
        BY <3>1, <3>2 DEF CheckIsRight
    <2>7. [P!CacheNext]_(P!cvars)
      <3>1. UNCHANGED <<cache, Pins>>
        BY <2>1, <2>2, QuietStep
      <3> QED
        BY <1>0, <1>8, <3>1, QuietCache DEF ReadData, InIO, Cleaning
    <2> QED
      BY <2>1, <2>2, <2>3, <2>4, <2>5, <2>6, <2>7, QuietStep DEF Good
  <1>9. CASE ReadEOF
    <2>1. Quiet
      BY <1>9, EOFQuiet
    <2>2. /\ UNCHANGED <<cache, clients, nRequests, queue, sent>>
          /\ phase \notin {"refuse", "close"} /\ phase' # "refuse"
      BY <1>9 DEF ReadEOF, InIO, WalkIsRight, back
    <2>3. Typed'
      <3>1. soq' \in Nat
        BY <1>9 DEF ReadEOF, InIO, Typed
      <3> QED
        BY <2>1, <2>2, <3>1, QuietTyped
    <2>4. WalkIsRight'
      BY <1>1, <1>9 DEF ReadEOF, InIO, WalkIsRight
    <2>5. WritersAreBusy'
      BY <1>9, <2>1, <2>2, QuietWriters DEF ReadEOF, InIO, WalkIsRight, fds
    <2>6. CheckIsRight'
      <3>1. phase = "io" /\ phase' = "check" /\ soq' = soq /\ cur' = cur /\ todo # <<>>
        BY <1>9 DEF ReadEOF, InIO, cur
      <3>2. Len(con'[cur].inc) \in Nat
        BY <1>1, <2>3, <3>1 DEF Typed, Connection
      <3> QED
        BY <3>1, <3>2 DEF CheckIsRight
    <2>7. [P!CacheNext]_(P!cvars)
      <3>1. UNCHANGED <<cache, Pins>>
        BY <2>1, <2>2, QuietStep
      <3> QED
        BY <1>0, <1>9, <3>1, QuietCache DEF ReadEOF, InIO, Cleaning
    <2> QED
      BY <2>1, <2>2, <2>3, <2>4, <2>5, <2>6, <2>7, QuietStep DEF Good
  <1>10. CASE ReadInterrupted
    <2>1. Quiet
      BY <1>10, NoneQuiet DEF ReadInterrupted, InIO
    <2>2. /\ UNCHANGED <<cache, clients, nRequests, queue, sent>>
          /\ phase \notin {"refuse", "close"} /\ phase' # "refuse"
      BY <1>10 DEF ReadInterrupted, InIO, WalkIsRight, back
    <2>3. Typed'
      <3>1. soq' \in Nat
        BY <1>10 DEF ReadInterrupted, InIO, Typed
      <3> QED
        BY <2>1, <2>2, <3>1, QuietTyped
    <2>4. WalkIsRight'
      BY <1>1, <1>10 DEF ReadInterrupted, InIO, WalkIsRight
    <2>5. WritersAreBusy'
      BY <1>1, <1>10, <2>1 DEF ReadInterrupted, InIO, WritersAreBusy, WalkIsRight, Quiet, QuietFor, fds, cur
    <2>6. CheckIsRight'
      BY <1>1, <1>10 DEF ReadInterrupted, InIO, CheckIsRight, WalkIsRight, Typed, Connection, cur
    <2>7. [P!CacheNext]_(P!cvars)
      <3>1. UNCHANGED <<cache, Pins>>
        BY <2>1, <2>2, QuietStep
      <3> QED
        BY <1>0, <1>10, <3>1, QuietCache DEF ReadInterrupted, InIO, Cleaning
    <2> QED
      BY <2>1, <2>2, <2>3, <2>4, <2>5, <2>6, <2>7, QuietStep DEF Good
  <1>11. CASE ReadError
    <2>1. Quiet
      BY <1>11, NoneQuiet DEF ReadError, InIO
    <2>2. /\ UNCHANGED <<cache, clients, nRequests, queue, sent>>
          /\ phase \notin {"refuse", "close"} /\ phase' # "refuse"
      BY <1>11 DEF ReadError, InIO, WalkIsRight, back
    <2>3. Typed'
      <3>1. soq' \in Nat
        BY <1>11 DEF ReadError, InIO, Typed
      <3> QED
        BY <2>1, <2>2, <3>1, QuietTyped
    <2>4. WalkIsRight'
      BY <1>1, <1>11 DEF ReadError, InIO, WalkIsRight
    <2>5. WritersAreBusy'
      BY <1>1, <1>11, <2>1 DEF ReadError, InIO, WritersAreBusy, WalkIsRight, Quiet, QuietFor, fds, cur
    <2>6. CheckIsRight'
      BY <1>1, <1>11 DEF ReadError, InIO, CheckIsRight, WalkIsRight, Typed, Connection, cur
    <2>7. [P!CacheNext]_(P!cvars)
      <3>1. UNCHANGED <<cache, Pins>>
        BY <2>1, <2>2, QuietStep
      <3> QED
        BY <1>0, <1>11, <3>1, QuietCache DEF ReadError, InIO, Cleaning
    <2> QED
      BY <2>1, <2>2, <2>3, <2>4, <2>5, <2>6, <2>7, QuietStep DEF Good
  <1>12. CASE Writable
    <2>1. Quiet
      BY <1>12, NoneQuiet DEF Writable, InIO
    <2>2. /\ UNCHANGED <<cache, clients, nRequests, queue, sent>>
          /\ phase \notin {"refuse", "close"} /\ phase' # "refuse"
      BY <1>12 DEF Writable, InIO, WalkIsRight, back
    <2>3. Typed'
      <3>1. soq' \in Nat
        BY <1>12 DEF Writable, InIO, Typed
      <3> QED
        BY <2>1, <2>2, <3>1, QuietTyped
    <2>4. WalkIsRight'
      BY <1>1, <1>12 DEF Writable, InIO, WalkIsRight
    <2>5. WritersAreBusy'
      BY <1>1, <1>12, <2>1 DEF Writable, InIO, WritersAreBusy, WalkIsRight, Quiet, QuietFor, fds, cur
    <2>6. CheckIsRight'
      BY <1>1, <1>12 DEF Writable, InIO, CheckIsRight, WalkIsRight, Typed, Connection, cur
    <2>7. [P!CacheNext]_(P!cvars)
      <3>1. UNCHANGED <<cache, Pins>>
        BY <2>1, <2>2, QuietStep
      <3> QED
        BY <1>0, <1>12, <3>1, QuietCache DEF Writable, InIO, Cleaning
    <2> QED
      BY <2>1, <2>2, <2>3, <2>4, <2>5, <2>6, <2>7, QuietStep DEF Good
  <1>13. CASE TooSlow
    <2>1. Quiet
      BY <1>13, NoneQuiet DEF TooSlow, InIO
    <2>2. /\ UNCHANGED <<cache, clients, nRequests, queue, sent>>
          /\ phase \notin {"refuse", "close"} /\ phase' # "refuse"
      BY <1>13 DEF TooSlow, InIO, WalkIsRight, back
    <2>3. Typed'
      <3>1. soq' \in Nat
        BY <1>13 DEF TooSlow, InIO, Typed
      <3> QED
        BY <2>1, <2>2, <3>1, QuietTyped
    <2>4. WalkIsRight'
      BY <1>1, <1>13 DEF TooSlow, InIO, WalkIsRight
    <2>5. WritersAreBusy'
      BY <1>1, <1>13, <2>1 DEF TooSlow, InIO, WritersAreBusy, WalkIsRight, Quiet, QuietFor, fds, cur
    <2>6. CheckIsRight'
      BY <1>1, <1>13 DEF TooSlow, InIO, CheckIsRight, WalkIsRight, Typed, Connection, cur
    <2>7. [P!CacheNext]_(P!cvars)
      <3>1. UNCHANGED <<cache, Pins>>
        BY <2>1, <2>2, QuietStep
      <3> QED
        BY <1>0, <1>13, <3>1, QuietCache DEF TooSlow, InIO, Cleaning
    <2> QED
      BY <2>1, <2>2, <2>3, <2>4, <2>5, <2>6, <2>7, QuietStep DEF Good
  <1>14. CASE NotReady
    <2>1. Quiet
      BY <1>14, NoneQuiet DEF NotReady, InIO, NextClient
    <2>2. /\ UNCHANGED <<cache, clients, nRequests, queue, sent>>
          /\ phase \notin {"refuse", "close"} /\ phase' # "refuse"
      BY <1>14 DEF NotReady, InIO, NextClient, WalkIsRight, back
    <2>3. Typed'
      <3>1. soq' \in Nat
        BY <1>14 DEF NotReady, InIO, NextClient, Typed
      <3> QED
        BY <2>1, <2>2, <3>1, QuietTyped
    <2>4. WalkIsRight'
      BY <1>1, <1>14 DEF NotReady, InIO, NextClient, WalkIsRight
    <2>5. WritersAreBusy'
      BY <1>1, <1>14, <2>1 DEF NotReady, InIO, NextClient, WritersAreBusy, WalkIsRight, Quiet, QuietFor, fds, cur
    <2>6. CheckIsRight'
      BY <1>1, <1>14 DEF NotReady, InIO, NextClient, CheckIsRight, WalkIsRight, Typed, Connection, cur
    <2>7. [P!CacheNext]_(P!cvars)
      <3>1. UNCHANGED <<cache, Pins>>
        BY <2>1, <2>2, QuietStep
      <3> QED
        BY <1>0, <1>14, <3>1, QuietCache DEF NotReady, InIO, NextClient, Cleaning
    <2> QED
      BY <2>1, <2>2, <2>3, <2>4, <2>5, <2>6, <2>7, QuietStep DEF Good
  <1>15. CASE Checked
    <2>1. Quiet
      BY <1>15, NoneQuiet DEF Checked, NextClient
    <2>2. /\ UNCHANGED <<cache, clients, nRequests, queue, sent>>
          /\ phase \notin {"refuse", "close"} /\ phase' # "refuse"
      BY <1>15 DEF Checked, NextClient, WalkIsRight, back
    <2>3. Typed'
      <3>1. soq' \in Nat
        BY <1>15 DEF Checked, NextClient, Typed
      <3> QED
        BY <2>1, <2>2, <3>1, QuietTyped
    <2>4. WalkIsRight'
      <3>1. phase = "checked" /\ from = "io" /\ todo # <<>> /\ UNCHANGED <<clients, from>>
        BY <1>15 DEF Checked, WalkIsRight
      <3>2. (phase' = "close" /\ todo' = todo) \/ (phase' = "io" /\ todo' = Tail(todo))
        BY <1>15, <3>1 DEF Checked, NextClient
      <3> QED
        BY <1>1, <3>1, <3>2 DEF WalkIsRight
    <2>5. WritersAreBusy'
      BY <1>1, <1>15, <2>1 DEF Checked, NextClient, WritersAreBusy, WalkIsRight, Quiet, QuietFor, fds, cur
    <2>6. CheckIsRight'
      BY <1>1, <1>15 DEF Checked, NextClient, CheckIsRight, WalkIsRight, Typed, Connection, cur
    <2>7. [P!CacheNext]_(P!cvars)
      <3>1. UNCHANGED <<cache, Pins>>
        BY <2>1, <2>2, QuietStep
      <3> QED
        BY <1>0, <1>15, <3>1, QuietCache DEF Checked, NextClient, Cleaning
    <2> QED
      BY <2>1, <2>2, <2>3, <2>4, <2>5, <2>6, <2>7, QuietStep DEF Good
  <1>16. CASE EndIO
    <2>1. Quiet
      BY <1>16, NoneQuiet DEF EndIO
    <2>2. /\ UNCHANGED <<cache, clients, nRequests, queue, sent>>
          /\ phase \notin {"refuse", "close"} /\ phase' # "refuse"
      BY <1>16 DEF EndIO, WalkIsRight, back
    <2>3. Typed'
      <3>1. soq' \in Nat
        BY <1>16 DEF EndIO, Typed
      <3> QED
        BY <2>1, <2>2, <3>1, QuietTyped
    <2>4. WalkIsRight'
      BY <1>1, <1>16 DEF EndIO, WalkIsRight
    <2>5. WritersAreBusy'
      BY <1>1, <1>16, <2>1 DEF EndIO, WritersAreBusy, WalkIsRight, Quiet, QuietFor, fds, cur
    <2>6. CheckIsRight'
      BY <1>1, <1>16 DEF EndIO, CheckIsRight, WalkIsRight, Typed, Connection, cur
    <2>7. [P!CacheNext]_(P!cvars)
      <3>1. UNCHANGED <<cache, Pins>>
        BY <2>1, <2>2, QuietStep
      <3> QED
        BY <1>0, <1>16, <3>1, QuietCache DEF EndIO, Cleaning
    <2> QED
      BY <2>1, <2>2, <2>3, <2>4, <2>5, <2>6, <2>7, QuietStep DEF Good
  <1>17. CASE TakeBadQuery
    <2>1. Quiet
      BY <1>17, BadQueryQuiet
    <2>2. /\ UNCHANGED <<cache, clients, nRequests, queue, sent>>
          /\ phase \notin {"refuse", "close"} /\ phase' # "refuse"
      BY <1>17 DEF TakeBadQuery, MoreToTake, CheckReturns, WalkIsRight, back
    <2>3. Typed'
      <3>1. soq' \in Nat
        BY <1>17 DEF TakeBadQuery, MoreToTake, CheckReturns, Typed
      <3> QED
        BY <2>1, <2>2, <3>1, QuietTyped
    <2>4. WalkIsRight'
      BY <1>1, <1>17 DEF TakeBadQuery, MoreToTake, CheckReturns, WalkIsRight
    <2>5. WritersAreBusy'
      BY <1>17, <2>1, <2>2, QuietWriters DEF TakeBadQuery, MoreToTake, CheckReturns, WalkIsRight, fds
    <2>6. CheckIsRight'
      BY <1>1, <1>17 DEF TakeBadQuery, MoreToTake, CheckReturns, CheckIsRight, WalkIsRight, Typed, Connection, cur
    <2>7. [P!CacheNext]_(P!cvars)
      <3>1. UNCHANGED <<cache, Pins>>
        BY <2>1, <2>2, QuietStep
      <3> QED
        BY <1>0, <1>17, <3>1, QuietCache DEF TakeBadQuery, MoreToTake, CheckReturns, Cleaning
    <2> QED
      BY <2>1, <2>2, <2>3, <2>4, <2>5, <2>6, <2>7, QuietStep DEF Good
  <1>18. CASE EndCheck
    <2>1. Quiet
      BY <1>18, EndCheckQuiet
    <2>2. /\ UNCHANGED <<cache, clients, nRequests, queue, sent>>
          /\ phase \notin {"refuse", "close"} /\ phase' # "refuse"
      BY <1>18 DEF EndCheck, CheckReturns, WalkIsRight, back
    <2>3. Typed'
      <3>1. soq' \in Nat
        BY <1>18 DEF EndCheck, CheckReturns, Typed
      <3> QED
        BY <2>1, <2>2, <3>1, QuietTyped
    <2>4. WalkIsRight'
      BY <1>1, <1>18 DEF EndCheck, CheckReturns, WalkIsRight
    <2>5. WritersAreBusy'
      BY <1>18, <2>1, <2>2, QuietWriters DEF EndCheck, CheckReturns, WalkIsRight, fds
    <2>6. CheckIsRight'
      BY <1>1, <1>18 DEF EndCheck, CheckReturns, CheckIsRight, WalkIsRight, Typed, Connection, cur
    <2>7. [P!CacheNext]_(P!cvars)
      <3>1. UNCHANGED <<cache, Pins>>
        BY <2>1, <2>2, QuietStep
      <3> QED
        BY <1>0, <1>18, <3>1, QuietCache DEF EndCheck, CheckReturns, Cleaning
    <2> QED
      BY <2>1, <2>2, <2>3, <2>4, <2>5, <2>6, <2>7, QuietStep DEF Good
  <1>19. CASE EndBackend
    <2>1. Quiet
      BY <1>19, NoneQuiet DEF EndBackend
    <2>2. /\ UNCHANGED <<cache, clients, nRequests, queue, sent>>
          /\ phase \notin {"refuse", "close"} /\ phase' # "refuse"
      BY <1>19 DEF EndBackend, WalkIsRight, back
    <2>3. Typed'
      <3>1. soq' \in Nat
        BY <1>19 DEF EndBackend, Typed
      <3> QED
        BY <2>1, <2>2, <3>1, QuietTyped
    <2>4. WalkIsRight'
      BY <1>1, <1>19 DEF EndBackend, WalkIsRight
    <2>5. WritersAreBusy'
      BY <1>1, <1>19, <2>1 DEF EndBackend, WritersAreBusy, WalkIsRight, Quiet, QuietFor, fds, cur
    <2>6. CheckIsRight'
      BY <1>1, <1>19 DEF EndBackend, CheckIsRight, WalkIsRight, Typed, Connection, cur
    <2>7. [P!CacheNext]_(P!cvars)
      <3>1. UNCHANGED <<cache, Pins>>
        BY <2>1, <2>2, QuietStep
      <3> QED
        BY <1>0, <1>19, <3>1, QuietCache DEF EndBackend, Cleaning
    <2> QED
      BY <2>1, <2>2, <2>3, <2>4, <2>5, <2>6, <2>7, QuietStep DEF Good
  <1>20. CASE WriteGarbage
    <2>1. Quiet
      BY <1>20, NoneQuiet DEF WriteGarbage
    <2>2. /\ UNCHANGED <<cache, clients, nRequests, queue, sent>>
          /\ phase \notin {"refuse", "close"} /\ phase' # "refuse"
      BY <1>20 DEF WriteGarbage, WalkIsRight, back
    <2>3. Typed'
      <3>1. soq' \in Nat
        BY <1>20 DEF WriteGarbage, Typed
      <3> QED
        BY <2>1, <2>2, <3>1, QuietTyped
    <2>4. WalkIsRight'
      BY <1>1, <1>20 DEF WriteGarbage, WalkIsRight
    <2>5. WritersAreBusy'
      BY <1>1, <1>20, <2>1 DEF WriteGarbage, WritersAreBusy, WalkIsRight, Quiet, QuietFor, fds, cur
    <2>6. CheckIsRight'
      BY <1>1, <1>20 DEF WriteGarbage, CheckIsRight, WalkIsRight, Typed, Connection, cur
    <2>7. [P!CacheNext]_(P!cvars)
      <3>1. UNCHANGED <<cache, Pins>>
        BY <2>1, <2>2, QuietStep
      <3> QED
        BY <1>0, <1>20, <3>1, QuietCache DEF WriteGarbage, Cleaning
    <2> QED
      BY <2>1, <2>2, <2>3, <2>4, <2>5, <2>6, <2>7, QuietStep DEF Good
  <1>21. CASE ShortWrite
    <2>1. Quiet
      BY <1>21, NoneQuiet DEF ShortWrite, NextClient
    <2>2. /\ UNCHANGED <<cache, clients, nRequests, queue, sent>>
          /\ phase \notin {"refuse", "close"} /\ phase' # "refuse"
      BY <1>21 DEF ShortWrite, NextClient, WalkIsRight, back
    <2>3. Typed'
      <3>1. soq' \in Nat
        BY <1>21 DEF ShortWrite, NextClient, Typed
      <3> QED
        BY <2>1, <2>2, <3>1, QuietTyped
    <2>4. WalkIsRight'
      BY <1>1, <1>21 DEF ShortWrite, NextClient, WalkIsRight
    <2>5. WritersAreBusy'
      BY <1>1, <1>21, <2>1 DEF ShortWrite, NextClient, WritersAreBusy, WalkIsRight, Quiet, QuietFor, fds, cur
    <2>6. CheckIsRight'
      BY <1>1, <1>21 DEF ShortWrite, NextClient, CheckIsRight, WalkIsRight, Typed, Connection, cur
    <2>7. [P!CacheNext]_(P!cvars)
      <3>1. UNCHANGED <<cache, Pins>>
        BY <2>1, <2>2, QuietStep
      <3> QED
        BY <1>0, <1>21, <3>1, QuietCache DEF ShortWrite, NextClient, Cleaning
    <2> QED
      BY <2>1, <2>2, <2>3, <2>4, <2>5, <2>6, <2>7, QuietStep DEF Good
  <1>22. CASE WriteError
    <2>1. Quiet
      BY <1>22, NoneQuiet DEF WriteError
    <2>2. /\ UNCHANGED <<cache, clients, nRequests, queue, sent>>
          /\ phase \notin {"refuse", "close"} /\ phase' # "refuse"
      BY <1>22 DEF WriteError, WalkIsRight, back
    <2>3. Typed'
      <3>1. soq' \in Nat
        BY <1>22 DEF WriteError, Typed
      <3> QED
        BY <2>1, <2>2, <3>1, QuietTyped
    <2>4. WalkIsRight'
      BY <1>1, <1>22 DEF WriteError, WalkIsRight
    <2>5. WritersAreBusy'
      BY <1>1, <1>22, <2>1 DEF WriteError, WritersAreBusy, WalkIsRight, Quiet, QuietFor, fds, cur
    <2>6. CheckIsRight'
      BY <1>1, <1>22 DEF WriteError, CheckIsRight, WalkIsRight, Typed, Connection, cur
    <2>7. [P!CacheNext]_(P!cvars)
      <3>1. UNCHANGED <<cache, Pins>>
        BY <2>1, <2>2, QuietStep
      <3> QED
        BY <1>0, <1>22, <3>1, QuietCache DEF WriteError, Cleaning
    <2> QED
      BY <2>1, <2>2, <2>3, <2>4, <2>5, <2>6, <2>7, QuietStep DEF Good
  <1>23. CASE EndCleanup
    <2>1. Quiet
      BY <1>23, NoneQuiet DEF EndCleanup
    <2>2. /\ UNCHANGED <<cache, clients, nRequests, queue, sent>>
          /\ phase \notin {"refuse", "close"} /\ phase' # "refuse"
      BY <1>23 DEF EndCleanup, WalkIsRight, back
    <2>3. Typed'
      <3>1. soq' \in Nat
        BY <1>23 DEF EndCleanup, Typed
      <3> QED
        BY <2>1, <2>2, <3>1, QuietTyped
    <2>4. WalkIsRight'
      BY <1>1, <1>23 DEF EndCleanup, WalkIsRight
    <2>5. WritersAreBusy'
      BY <1>1, <1>23, <2>1 DEF EndCleanup, WritersAreBusy, WalkIsRight, Quiet, QuietFor, fds, cur
    <2>6. CheckIsRight'
      BY <1>1, <1>23 DEF EndCleanup, CheckIsRight, WalkIsRight, Typed, Connection, cur
    <2>7. [P!CacheNext]_(P!cvars)
      <3>1. UNCHANGED <<cache, Pins>>
        BY <2>1, <2>2, QuietStep
      <3> QED
        BY <1>0, <1>23, <3>1, QuietCache DEF EndCleanup, Cleaning, szlimit
    <2> QED
      BY <2>1, <2>2, <2>3, <2>4, <2>5, <2>6, <2>7, QuietStep DEF Good
  <1> QED
    BY <1>2, <1>3, <1>4, <1>5, <1>6, <1>7, <1>8, <1>9, <1>10, <1>11, <1>12, <1>13, <1>14, <1>15, <1>16, <1>17, <1>18, <1>19, <1>20, <1>21, <1>22, <1>23 DEF QuietMove

-----------------------------------------------------------------------------
(* Steps of the cache. *)

LEMMA CacheFacts ==
    ASSUME IInv
    PROVE  /\ P!IsCache(cache) /\ P!Kept(cache, Pins) /\ P!CleanBut(cache, {})
           /\ Pins \in [Entry -> Nat]
  BY DEF IInv, CacheIsRight, P!IInv, P!Kept, Pins

\* The loop is not in cache_cleanup.
Elsewhere == phase \notin {"cleanup", "splat"} /\ phase' \notin {"cleanup", "splat"}

LEMMA IsQuery ==
    ASSUME NEW k \in Key, NEW c \in LookupAdd(cache, k), Elsewhere,
           \/ /\ HasResult(c, c.tab[k]) /\ Pins[c.tab[k]] < MaxRequests
              /\ cache' = IncUsage(c, c.tab[k], 1) /\ Pins' = [Pins EXCEPT ![c.tab[k]] = @ + 1]
           \/ ~HasResult(c, c.tab[k]) /\ cache' = c /\ Pins' = Pins
    PROVE  [P!CacheNext]_(P!cvars)
  <1>1. c \in P!LookupAdd(cache, k) /\ (P!HasResult(c, c.tab[k]) <=> HasResult(c, c.tab[k]))
        /\ P!IncUsage(c, c.tab[k], 1) = IncUsage(c, c.tab[k], 1)
    BY SameOperators, SameTableOperators
  <1>2. Cleaning = -1 /\ Cleaning' = -1
    BY DEF Cleaning, Elsewhere
  <1>3. P!Query(k)
    <2>1. CASE HasResult(c, c.tab[k])
      BY <1>1, <1>2, <2>1 DEF P!Query, Pins, Cleaning
    <2>2. CASE ~HasResult(c, c.tab[k])
      BY <1>1, <1>2, <2>2 DEF P!Query, Pins, Cleaning
    <2> QED
      BY <2>1, <2>2
  <1> QED
    BY <1>3 DEF P!CacheNext

LEMMA IsUnpin ==
    ASSUME NEW e \in Entry, Pins[e] > 0, cache' = DecUsage(cache, e, 1), Elsewhere,
           Pins' = [Pins EXCEPT ![e] = @ - 1]
    PROVE  [P!CacheNext]_(P!cvars)
  <1>1. P!DecUsage(cache, e, 1) = DecUsage(cache, e, 1)
    BY SameOperators
  <1>2. Cleaning = -1 /\ Cleaning' = -1
    BY DEF Cleaning, Elsewhere
  <1>3. P!Unpin(e)
    BY <1>1, <1>2 DEF P!Unpin, Pins, Cleaning
  <1> QED
    BY <1>3 DEF P!CacheNext

LEMMA IsForget ==
    ASSUME NEW k \in Key, cache' = Delete(cache, k), Elsewhere, Pins' = Pins
    PROVE  [P!CacheNext]_(P!cvars)
  <1>1. P!Delete(cache, k) = Delete(cache, k)
    BY SameTableOperators
  <1>2. Cleaning = -1 /\ Cleaning' = -1
    BY DEF Cleaning, Elsewhere
  <1>3. P!Forget(k)
    BY <1>1, <1>2 DEF P!Forget, Pins, Cleaning
  <1> QED
    BY <1>3 DEF P!CacheNext

LEMMA IsNewResult ==
    ASSUME NEW k \in Key, NEW answer \in Answer, NEW n \in 0 .. MaxRequests,
           NEW c \in LookupAdd(cache, k), Elsewhere,
           Pins[c.tab[k]] + n <= MaxRequests,
           cache' = DropError(IncUsage(Store(c, k, answer), c.tab[k], n), k),
           Pins' = [Pins EXCEPT ![c.tab[k]] = @ + n]
    PROVE  [P!CacheNext]_(P!cvars)
  <1>1. /\ c \in P!LookupAdd(cache, k) /\ answer \in P!Answer
        /\ P!DropError(P!IncUsage(P!Store(c, k, answer), c.tab[k], n), k) = cache'
    BY SameOperators, SameTableOperators
  <1>2. Cleaning = -1 /\ Cleaning' = -1
    BY DEF Cleaning, Elsewhere
  <1>3. P!NewResult(k, answer, n)
    BY <1>1, <1>2 DEF P!NewResult, Pins, Cleaning
  <1> QED
    BY <1>1, <1>3 DEF P!CacheNext

\* The results that are there stay.
LEMMA SameResults ==
    ASSUME cache'.tab = cache.tab, cache'.res = cache.res, cache'.err = cache.err
    PROVE  /\ Cached(cache') = Cached(cache)
           /\ \A e : HasResult(cache', e) <=> HasResult(cache, e)
  BY DEF Cached, HasResult

LEMMA UntouchedMeans ==
    ASSUME NEW k, P!Untouched(cache, cache', k), NEW j \in Cached(cache'), j # k
    PROVE  j \in Cached(cache) /\ (HasResult(cache', cache'.tab[j]) <=> HasResult(cache, cache.tab[j]))
  <1>1. j \in P!Cached(cache') \ {k}
    BY SameOperators
  <1>2. /\ j \in P!Cached(cache)
        /\ P!HasResult(cache', cache'.tab[j]) <=> P!HasResult(cache, cache.tab[j])
    BY <1>1 DEF P!Untouched
  <1> QED
    BY <1>2, SameOperators

-----------------------------------------------------------------------------
(* Queries are taken from the current client: client_req_process. *)

\* What the current client's becoming s does to the numbers.
LEMMA OneChange ==
    ASSUME Control, todo # <<>>, NEW s \in Connection, Becomes(s), clients' = clients,
           NEW S, S = ToSet(clients)
    PROVE  /\ Clients(S) /\ ToSet(clients') = S /\ cur \in S /\ con[cur] \in Connection
           /\ con' \in [Client -> Connection] /\ con'[cur] = s
           /\ \A d \in S \ {cur} : con'[d] = con[d]
           /\ Asked(S, con) \in Nat /\ Answered(S, con) \in Nat
           /\ Asked(S, con') \in Nat /\ Answered(S, con') \in Nat
           /\ Asked(S, con') + Len(con[cur].reqs) = Asked(S, con) + Len(s.reqs)
           /\ Answered(S, con') + Cardinality(Ending(con[cur])) =
              Answered(S, con) + Cardinality(Ending(s))
           /\ Cardinality(Ending(con[cur])) <= Answered(S, con)
           /\ \A e \in Entry :
                  /\ Pinned(S, con, e) \in Nat /\ Pinned(S, con', e) \in Nat
                  /\ Pinned(S, con', e) + Cardinality(Sending(con[cur], e)) =
                     Pinned(S, con, e) + Cardinality(Sending(s, e))
                  /\ Cardinality(Sending(con[cur], e)) <= Pinned(S, con, e)
                  /\ Pinned(S, con, e) <= Answered(S, con)
  <1>1. /\ cur \in Client /\ cur \in S /\ con[cur] \in Connection /\ Clients(S)
        /\ con \in [Client -> Connection]
    BY Current, ListedClients DEF Control, Typed
  <1>2. /\ con' \in [Client -> Connection] /\ con'[cur] = s
        /\ \A d \in Client \ {cur} : con'[d] = con[d]
    BY <1>1, BecomesFacts DEF Control
  <1>3. \A d \in S \ {cur} : con'[d] = con[d]
    BY <1>1, <1>2 DEF Clients
  <1>4. /\ Asked(S, con') + Len(con[cur].reqs) = Asked(S, con) + Len(con'[cur].reqs)
        /\ Answered(S, con') + Cardinality(Ending(con[cur])) =
           Answered(S, con) + Cardinality(Ending(con'[cur]))
        /\ Cardinality(Ending(con[cur])) <= Answered(S, con)
        /\ \A e : /\ Pinned(S, con', e) + Cardinality(Sending(con[cur], e)) =
                     Pinned(S, con, e) + Cardinality(Sending(con'[cur], e))
                  /\ Cardinality(Sending(con[cur], e)) <= Pinned(S, con, e)
    BY <1>1, <1>2, <1>3, LoadOne
  <1>5. /\ Asked(S, con) \in Nat /\ Answered(S, con) \in Nat
        /\ \A e \in Entry : Pinned(S, con, e) \in Nat /\ Pinned(S, con, e) <= Answered(S, con)
    BY <1>1, LoadNumbers
  <1>6. /\ Asked(S, con') \in Nat /\ Answered(S, con') \in Nat
        /\ \A e \in Entry : Pinned(S, con', e) \in Nat
    BY <1>1, <1>2, LoadNumbers
  <1> QED
    BY <1>1, <1>2, <1>3, <1>4, <1>5, <1>6

\* A query has been taken, and the check goes on or has to refuse it first.
LEMMA TakeControl ==
    ASSUME Control, MoreToTake, NextQuery \in GoodQuery, NEW s \in Connection, Becomes(s),
           s.inc = con[cur].inc, Busy(con[cur]) => Busy(s), soq' = soq + 1,
           nRequests' = nRequests + 1, phase' \in {"check", "refuse"}, queue' \in Seq(Key),
           sent' \in [Key -> Nat], UNCHANGED <<clients, from, todo, wr>>
    PROVE  Control'
  <1>1. phase = "check" /\ todo # <<>> /\ soq \in Nat /\ soq < Len(con[cur].inc)
    BY DEF Control, MoreToTake, WalkIsRight, Typed
  <1>2. cur \in Client /\ cur' = cur
    BY <1>1, Current DEF Control, cur
  <1>3. /\ con' \in [Client -> Connection] /\ con'[cur] = s
        /\ \A d \in Client \ {cur} : con'[d] = con[d]
    BY <1>2, BecomesFacts DEF Control
  <1>4. Typed'
    BY <1>1, <1>3 DEF Control, Typed
  <1>5. WalkIsRight'
    BY <1>1 DEF Control, WalkIsRight
  <1>6. WritersAreBusy'
    <2>1. ToSet(todo) \subseteq Client
      BY DEF Control, WalkIsRight, ToSet
    <2> QED
      BY <1>1, <1>2, <1>3, <2>1 DEF Control, WritersAreBusy
  <1>7. CheckIsRight'
    <2>1. Len(con[cur].inc) \in Nat
      BY <1>1, Current DEF Control, Connection
    <2>2. soq + 1 \in 1 .. Len(con[cur].inc)
      BY <1>1, <2>1
    <2> QED
      BY <1>2, <1>3, <2>2 DEF CheckIsRight, NextQuery
  <1> QED
    BY <1>4, <1>5, <1>6, <1>7 DEF Control

LEMMA TakeCachedGood ==
    ASSUME IInv, NEW q \in GoodQuery, TakeCached(q)
    PROVE  Good
  <1> DEFINE S == ToSet(clients)
             k == q.key
             e == cache.tab[k]
             t == Touch(cache, k)
             s == [con[cur] EXCEPT !.out = Append(@, AnswerFrom(e)), !.permanent = @ /\ q.id]
  <1>1. Control /\ MoreToTake /\ phase = "check" /\ todo # <<>> /\ NextQuery \in GoodQuery
    BY DEF IInv, Control, TakeCached, MoreToTake, WalkIsRight
  <1>2. /\ k \in Cached(cache) /\ k \in Key /\ e \in Entry /\ HasResult(cache, e)
        /\ P!IsCache(cache) /\ Pins \in [Entry -> Nat]
    <2>1. k \in Cached(cache) /\ k \in Key /\ HasResult(cache, e)
      BY DEF TakeCached, GoodQuery
    <2>2. P!IsCache(cache) /\ Pins \in [Entry -> Nat]
      BY CacheFacts
    <2> QED
      BY <2>1, <2>2 DEF P!IsCache, Cached
  <1>3. cur \in Client /\ con[cur] \in Connection
    BY <1>1, Current DEF Control
  <1>4. Becomes(s) /\ q.id \in BOOLEAN
    BY <1>3 DEF TakeCached, Becomes, IInv, Control, Typed, GoodQuery
  <1>5. AnswerFrom(e) \in Buffer /\ AnswerFrom(e).pin = e /\ AnswerFrom(e).eoq = TRUE
    BY <1>2, AnswerFacts
  <1>6. s \in Connection /\ s.inc = con[cur].inc /\ s.reqs = con[cur].reqs /\ OneMore(con[cur], s, AnswerFrom(e))
    <2> DEFINE b == AnswerFrom(e)
               o == Append(con[cur].out, b)
               p == con[cur].permanent /\ q.id
    <2>1. o \in Seq(Buffer) /\ p \in BOOLEAN
      BY <1>3, <1>4, <1>5 DEF Connection
    <2>2. s = [con[cur] EXCEPT !.out = o, !.permanent = p]
      OBVIOUS
    <2> HIDE DEF o, p, s
    <2>3. s \in Connection /\ s.inc = con[cur].inc /\ s.reqs = con[cur].reqs /\ s.out = o
      BY <1>3, <2>1, <2>2 DEF Connection
    <2> QED
      BY <2>3 DEF OneMore, o
  <1> HIDE DEF s
  <1>7. /\ Busy(s) /\ Cardinality(Ending(s)) = Cardinality(Ending(con[cur])) + 1
        /\ \A f : Cardinality(Sending(s, f)) =
                     Cardinality(Sending(con[cur], f)) + (IF e = f THEN 1 ELSE 0)
    <2>1. con[cur].out \in Seq(Buffer)
      BY <1>3, ConnectionFacts
    <2> DEFINE b == AnswerFrom(e)
    <2>2. b \in Buffer /\ b.pin = e /\ b.eoq = TRUE /\ OneMore(con[cur], s, b)
      BY <1>5, <1>6
    <2> HIDE DEF b
    <2> QED
      BY <2>1, <2>2, AppendLoad
  <1>8. Control'
    <2>1. /\ soq' = soq + 1 /\ nRequests' = nRequests + 1 /\ phase' \in {"check", "refuse"}
          /\ queue' \in Seq(Key) /\ sent' \in [Key -> Nat] /\ UNCHANGED <<clients, from, todo, wr>>
      BY <1>1 DEF TakeCached, fds, back, Control, Typed
    <2> QED
      BY <1>1, <1>4, <1>6, <1>7, <2>1, TakeControl
  <1>9. clients' = clients /\ nRequests' = nRequests + 1 /\ nRequests \in Nat /\ nRequests < MaxRequests
        /\ MaxRequests \in Nat
    BY <1>1, LimitsAssumption DEF TakeCached, Control, Typed, MoreToTake
  <1>10. /\ Asked(S, con') = Asked(S, con) /\ Answered(S, con') = Answered(S, con) + 1
         /\ \A f \in Entry : Pinned(S, con', f) = Pinned(S, con, f) + (IF e = f THEN 1 ELSE 0)
         /\ Asked(S, con) \in Nat /\ Answered(S, con) \in Nat /\ Pinned(S, con, e) \in Nat
         /\ Pinned(S, con, e) <= Answered(S, con) /\ ToSet(clients') = S
         /\ con'[cur] = s /\ \A d \in S \ {cur} : con'[d] = con[d]
    <2> HIDE DEF e
    <2>1. /\ Len(con[cur].reqs) \in Nat /\ Cardinality(Ending(con[cur])) \in Nat
          /\ \A f \in Entry : Cardinality(Sending(con[cur], f)) \in Nat
      BY <1>3, ConnectionFacts
    <2>2. /\ ToSet(clients') = S /\ con'[cur] = s /\ \A d \in S \ {cur} : con'[d] = con[d]
          /\ Asked(S, con) \in Nat /\ Answered(S, con) \in Nat
          /\ Asked(S, con') \in Nat /\ Answered(S, con') \in Nat
          /\ Asked(S, con') + Len(con[cur].reqs) = Asked(S, con) + Len(s.reqs)
          /\ Answered(S, con') + Cardinality(Ending(con[cur])) =
             Answered(S, con) + Cardinality(Ending(s))
          /\ \A f \in Entry :
                 /\ Pinned(S, con, f) \in Nat /\ Pinned(S, con', f) \in Nat
                 /\ Pinned(S, con', f) + Cardinality(Sending(con[cur], f)) =
                    Pinned(S, con, f) + Cardinality(Sending(s, f))
                 /\ Pinned(S, con, f) <= Answered(S, con)
      BY <1>1, <1>4, <1>6, <1>9, OneChange
    <2>3. ASSUME NEW f \in Entry
          PROVE  Pinned(S, con', f) = Pinned(S, con, f) + (IF e = f THEN 1 ELSE 0)
      <3> DEFINE a == Cardinality(Sending(con[cur], f))
                 b == Cardinality(Sending(s, f))
                 x == Pinned(S, con, f)
                 y == Pinned(S, con', f)
      <3>1. a \in Nat /\ x \in Nat /\ y \in Nat /\ y + a = x + b /\ b = a + (IF e = f THEN 1 ELSE 0)
        BY <1>7, <2>1, <2>2
      <3> HIDE DEF a, b, x, y
      <3>2. y = x + (IF e = f THEN 1 ELSE 0)
        BY <3>1
      <3> QED
        BY <3>2 DEF x, y
    <2>4. Asked(S, con') = Asked(S, con)
      BY <1>6, <2>1, <2>2
    <2>5. Answered(S, con') = Answered(S, con) + 1
      BY <1>7, <2>1, <2>2
    <2>6. Pinned(S, con, e) \in Nat /\ Pinned(S, con, e) <= Answered(S, con)
      BY <1>2, <2>2
    <2> QED
      BY <2>2, <2>3, <2>4, <2>5, <2>6
  <1>11. Outstanding <= nRequests /\ Outstanding = Asked(S, con) + Answered(S, con)
         /\ Outstanding' = Asked(S, con') + Answered(S, con')
    BY <1>10, Numbers, NextNumbers DEF IInv, RequestsAreBounded
  <1>12. RequestsAreBounded'
    <2>1. Outstanding' <= nRequests' /\ nRequests' <= MaxRequests
      BY <1>9, <1>10, <1>11
    <2> QED
      BY <2>1 DEF RequestsAreBounded
  <1>13. Pins[e] < MaxRequests /\ Pins' = [Pins EXCEPT ![e] = @ + 1]
    <2>1. Pins = [f \in Entry |-> Pinned(S, con, f)] /\ Pins' = [f \in Entry |-> Pinned(S, con', f)]
      BY <1>10, PinsFacts
    <2> HIDE DEF S, e
    <2>2. ASSUME NEW f \in Entry PROVE Pinned(S, con', f) = [Pins EXCEPT ![e] = @ + 1][f]
      <3>1. Pinned(S, con, f) \in Nat
        BY <1>2, <2>1
      <3>2. Pinned(S, con', f) = Pinned(S, con, f) + (IF e = f THEN 1 ELSE 0)
        BY <1>10
      <3> QED
        BY <1>2, <2>1, <3>1, <3>2
    <2>3. Pins' = [Pins EXCEPT ![e] = @ + 1]
      BY <1>2, <2>1, <2>2
    <2> QED
      BY <1>2, <1>9, <1>10, <1>11, <2>1, <2>3
  <1>14. /\ t \in LookupAdd(cache, k) /\ t.tab = cache.tab /\ t.res = cache.res /\ t.err = cache.err
         /\ cache' = IncUsage(t, e, 1)
         /\ cache'.tab = cache.tab /\ cache'.res = cache.res /\ cache'.err = cache.err
    <2>1. t \in LookupAdd(cache, k) /\ cache' = IncUsage(t, e, 1)
      BY <1>2 DEF TakeCached, LookupAdd
    <2>2. t.tab = cache.tab /\ t.res = cache.res /\ t.err = cache.err
      BY <1>2 DEF Touch, P!IsCache
    <2>3. cache'.tab = t.tab /\ cache'.res = t.res /\ cache'.err = t.err
      BY <1>2, <2>1 DEF Touch, IncUsage, P!IsCache
    <2> QED
      BY <2>1, <2>2, <2>3
  <1>15. [P!CacheNext]_(P!cvars)
    <2>1. t.tab[k] = e /\ HasResult(t, e) /\ Elsewhere
      BY <1>1, <1>2, <1>14 DEF HasResult, Elsewhere, TakeCached
    <2> HIDE DEF t, e, k
    <2> QED
      BY <1>2, <1>13, <1>14, <2>1, IsQuery
  <1>16. ASSUME NEW j \in Key PROVE Served(j)'
    <2>1. Served(j) /\ (Coming(j) => Coming(j)')
      BY <1>1 DEF IInv, Coming, TakeCached, back
    <2>2. \A c \in S : Waiting(con'[c], j) = Waiting(con[c], j)
      BY <1>6, <1>10 DEF Waiting
    <2>3. Cached(cache') = Cached(cache) /\ \A f : HasResult(cache', f) <=> HasResult(cache, f)
      BY <1>14, SameResults
    <2> QED
      BY <1>1, <1>9, <1>10, <1>14, <2>1, <2>2, <2>3, StaysServed
  <1> QED
    BY <1>8, <1>12, <1>15, <1>16 DEF Good

\* The current client waits for q as well.
Asks(q) == con' = [con EXCEPT ![cur].reqs = Append(@, q)]

LEMMA AskFacts ==
    ASSUME IInv, NEW q \in GoodQuery, MoreToTake, NextQuery = q, Asks(q),
           soq' = soq + 1, nRequests' = nRequests + 1, phase' \in {"check", "refuse"},
           queue' \in Seq(Key), sent' \in [Key -> Nat], UNCHANGED <<clients, from, todo, wr>>
    PROVE  /\ Control' /\ RequestsAreBounded' /\ Pins' = Pins
           /\ con'[cur].inc = con[cur].inc
           /\ \A c \in ToSet(clients) : \A j :
                 Waiting(con'[c], j) # {} => Waiting(con[c], j) # {} \/ (j = q.key /\ c = cur)
  <1> DEFINE S == ToSet(clients)
             s == [con[cur] EXCEPT !.reqs = Append(@, q)]
  <1>1. Control /\ phase = "check" /\ todo # <<>> /\ clients' = clients
    BY DEF IInv, Control, MoreToTake, WalkIsRight
  <1>2. cur \in Client /\ con[cur] \in Connection
    BY <1>1, Current DEF Control
  <1>3. Becomes(s)
    BY <1>2 DEF Asks, Becomes, IInv, Control, Typed
  <1>4. /\ s \in Connection /\ s.inc = con[cur].inc /\ s.out = con[cur].out
        /\ s.reqs = Append(con[cur].reqs, q)
    <2> DEFINE w == Append(con[cur].reqs, q)
    <2>1. w \in Seq(GoodQuery)
      BY <1>2 DEF Connection
    <2>2. s = [con[cur] EXCEPT !.reqs = w]
      OBVIOUS
    <2> HIDE DEF w, s
    <2> QED
      BY <1>2, <2>1, <2>2 DEF Connection, w
  <1> HIDE DEF s
  <1>5. /\ Len(s.reqs) = Len(con[cur].reqs) + 1 /\ Len(con[cur].reqs) \in Nat
        /\ \A i \in DOMAIN s.reqs : s.reqs[i] = q \/ (i \in DOMAIN con[cur].reqs /\ s.reqs[i] = con[cur].reqs[i])
    <2>1. con[cur].reqs \in Seq(GoodQuery)
      BY <1>2 DEF Connection
    <2> QED
      BY <1>4, <2>1
  <1>6. /\ (Busy(con[cur]) => Busy(s)) /\ Ending(s) = Ending(con[cur])
        /\ \A e : Sending(s, e) = Sending(con[cur], e)
    BY <1>4 DEF Busy, Ending, Sending
  <1>7. Control'
    BY <1>1, <1>3, <1>4, <1>6, TakeControl
  <1>8. /\ Asked(S, con') = Asked(S, con) + 1 /\ Answered(S, con') = Answered(S, con)
        /\ Asked(S, con) \in Nat /\ Answered(S, con) \in Nat
        /\ \A e \in Entry : Pinned(S, con', e) = Pinned(S, con, e)
        /\ ToSet(clients') = S /\ con'[cur] = s /\ \A d \in S \ {cur} : con'[d] = con[d]
    <2>1. /\ Cardinality(Ending(con[cur])) \in Nat
          /\ \A e \in Entry : Cardinality(Sending(con[cur], e)) \in Nat
      BY <1>2, ConnectionFacts
    <2>2. /\ ToSet(clients') = S /\ con'[cur] = s /\ \A d \in S \ {cur} : con'[d] = con[d]
          /\ Asked(S, con) \in Nat /\ Answered(S, con) \in Nat
          /\ Asked(S, con') \in Nat /\ Answered(S, con') \in Nat
          /\ Asked(S, con') + Len(con[cur].reqs) = Asked(S, con) + Len(s.reqs)
          /\ Answered(S, con') + Cardinality(Ending(con[cur])) =
             Answered(S, con) + Cardinality(Ending(s))
          /\ \A e \in Entry :
                 /\ Pinned(S, con, e) \in Nat /\ Pinned(S, con', e) \in Nat
                 /\ Pinned(S, con', e) + Cardinality(Sending(con[cur], e)) =
                    Pinned(S, con, e) + Cardinality(Sending(s, e))
      <3>1. s \in Connection
        BY <1>4
      <3> QED
        BY <1>1, <1>3, <3>1, OneChange
    <2>3. ASSUME NEW e \in Entry PROVE Pinned(S, con', e) = Pinned(S, con, e)
      BY <1>6, <2>1, <2>2
    <2>4. Asked(S, con') = Asked(S, con) + 1
      <3> DEFINE a == Len(con[cur].reqs)
                 b == Len(s.reqs)
                 x == Asked(S, con)
                 y == Asked(S, con')
      <3>1. a \in Nat /\ x \in Nat /\ y \in Nat /\ y + a = x + b /\ b = a + 1
        BY <1>5, <2>2
      <3> HIDE DEF a, b, x, y
      <3>2. y = x + 1
        BY <3>1
      <3> QED
        BY <3>2 DEF x, y
    <2>5. Answered(S, con') = Answered(S, con)
      BY <1>6, <2>1, <2>2
    <2> QED
      BY <2>2, <2>3, <2>4, <2>5
  <1>9. RequestsAreBounded'
    <2>1. /\ nRequests \in Nat /\ nRequests < MaxRequests /\ MaxRequests \in Nat
          /\ Asked(S, con) + Answered(S, con) <= nRequests
      BY <1>1, Numbers, LimitsAssumption DEF IInv, RequestsAreBounded, Control, Typed, MoreToTake
    <2>2. Outstanding' = Asked(S, con') + Answered(S, con')
      BY <1>8, NextNumbers
    <2>3. Outstanding' <= nRequests' /\ nRequests' <= MaxRequests
      BY <1>8, <2>1, <2>2
    <2> QED
      BY <2>3 DEF RequestsAreBounded
  <1>10. Pins' = Pins
    BY <1>8, PinsFacts
  <1>11. ASSUME NEW c \in S, NEW j, Waiting(con'[c], j) # {}
         PROVE  Waiting(con[c], j) # {} \/ (j = q.key /\ c = cur)
    <2>1. CASE c # cur
      BY <1>8, <1>11, <2>1
    <2>2. CASE c = cur
      <3>1. PICK i \in DOMAIN s.reqs : s.reqs[i].key = j
        BY <1>8, <1>11, <2>2 DEF Waiting
      <3> QED
        BY <1>5, <2>2, <3>1 DEF Waiting
    <2> QED
      BY <2>1, <2>2
  <1> QED
    BY <1>4, <1>7, <1>8, <1>9, <1>10, <1>11

LEMMA TakeAwaitedGood ==
    ASSUME IInv, NEW q \in GoodQuery, TakeAwaited(q)
    PROVE  Good
  <1> DEFINE k == q.key
             t == Touch(cache, k)
  <1>1. /\ MoreToTake /\ phase = "check" /\ phase' = "check" /\ k \in Cached(cache) /\ k \in Key
        /\ ~HasResult(cache, cache.tab[k]) /\ cache' = t
        /\ UNCHANGED <<clients, from, todo, queue, sent>>
    BY DEF TakeAwaited, MoreToTake, GoodQuery, back
  <1>2. /\ Control' /\ RequestsAreBounded' /\ Pins' = Pins
        /\ \A c \in ToSet(clients) : \A j :
              Waiting(con'[c], j) # {} => Waiting(con[c], j) # {} \/ (j = k /\ c = cur)
    <2>1. /\ NextQuery = q /\ Asks(q) /\ soq' = soq + 1 /\ nRequests' = nRequests + 1
          /\ phase' \in {"check", "refuse"} /\ queue' \in Seq(Key) /\ sent' \in [Key -> Nat]
          /\ UNCHANGED <<clients, from, todo, wr>>
      BY <1>1 DEF TakeAwaited, Asks, fds, back, IInv, Control, Typed
    <2> QED
      BY <1>1, <2>1, AskFacts
  <1>3. /\ t \in LookupAdd(cache, k) /\ t.tab = cache.tab /\ t.res = cache.res /\ t.err = cache.err
    <2>1. t \in LookupAdd(cache, k)
      BY <1>1 DEF LookupAdd
    <2>2. P!IsCache(cache)
      BY CacheFacts
    <2> QED
      BY <2>1, <2>2 DEF Touch, P!IsCache
  <1> HIDE DEF t
  <1>4. Cached(cache') = Cached(cache) /\ \A f : HasResult(cache', f) <=> HasResult(cache, f)
    BY <1>1, <1>3, SameResults
  <1>5. [P!CacheNext]_(P!cvars)
    <2>1. ~HasResult(t, t.tab[k]) /\ Elsewhere
      BY <1>1, <1>3 DEF HasResult, Elsewhere
    <2> HIDE DEF k
    <2> QED
      BY <1>1, <1>2, <1>3, <2>1, IsQuery
  <1>6. ASSUME NEW j \in Key PROVE Served(j)'
    <2>1. Served(j) /\ (Coming(j) => Coming(j)')
      BY <1>1 DEF IInv, Coming
    <2>2. CASE j = k
      <3>1. Coming(j)' /\ ~HasResult(cache', cache'.tab[j])
        BY <1>1, <1>3, <1>4, <2>1, <2>2 DEF Served
      <3> QED
        BY <3>1 DEF Served
    <2>3. CASE j # k
      <3>1. \A c \in ToSet(clients) : Waiting(con'[c], j) # {} => Waiting(con[c], j) # {}
        BY <1>2, <2>3
      <3> QED
        BY <1>1, <1>3, <1>4, <2>1, <3>1, StaysServed
    <2> QED
      BY <2>2, <2>3
  <1> QED
    BY <1>2, <1>5, <1>6 DEF Good

LEMMA TakeNewGood ==
    ASSUME IInv, NEW q \in GoodQuery, TakeNew(q)
    PROVE  Good
  <1> DEFINE k == q.key
  <1>1. /\ MoreToTake /\ phase = "check" /\ phase' \in {"check", "refuse"} /\ k \in Key
        /\ k \notin Cached(cache) /\ cache' \in LookupAdd(cache, k)
        /\ \/ k \in Unknown /\ phase' = "refuse" /\ queue' = queue /\ sent' = sent
           \/ k \notin Unknown /\ phase' = "check" /\ Queued(k)
        /\ soq' = soq + 1 /\ NextQuery = q
        /\ UNCHANGED <<clients, from, todo>>
    BY DEF TakeNew, MoreToTake, back
  <1>2. /\ queue \in Seq(Key) /\ queue' \in Seq(Key) /\ ToSet(queue) \subseteq ToSet(queue')
        /\ sent' \in [Key -> Nat] /\ \A j \in Key : sent[j] > 0 => sent'[j] > 0
        /\ (k \in Unknown \/ k \in ToSet(queue') \/ sent'[k] > 0)
    <2>1. queue \in Seq(Key) /\ sent \in [Key -> Nat]
      BY DEF IInv, Control, Typed
    <2>2. CASE k \in Unknown
      BY <1>1, <2>1, <2>2
    <2>3. CASE k \notin Unknown /\ queue' = queue /\ sent' = [sent EXCEPT ![k] = @ + 1]
      <3> HIDE DEF k
      <3> QED
        BY <1>1, <2>1, <2>3
    <2>4. CASE k \notin Unknown /\ queue' = Append(queue, k) /\ sent' = sent
      <3> HIDE DEF k
      <3>1. ToSet(Append(queue, k)) = ToSet(queue) \cup {k} /\ Append(queue, k) \in Seq(Key)
        BY <1>1, <2>1, AppendFacts
      <3> QED
        BY <1>1, <2>1, <2>4, <3>1
    <2> QED
      BY <1>1, <2>1, <2>2, <2>3, <2>4 DEF Queued
  <1>3. /\ Control' /\ RequestsAreBounded' /\ Pins' = Pins /\ con'[cur].inc = con[cur].inc
        /\ \A c \in ToSet(clients) : \A j :
              Waiting(con'[c], j) # {} => Waiting(con[c], j) # {} \/ (j = k /\ c = cur)
    <2>1. Asks(q) /\ nRequests' = nRequests + 1 /\ wr' = wr
      BY DEF TakeNew, Asks, fds
    <2> QED
      BY <1>1, <1>2, <2>1, AskFacts
  <1>4. /\ P!Untouched(cache, cache', k) /\ ~HasResult(cache', cache'.tab[k])
    <2>1. P!Kept(cache, Pins) /\ cache' \in P!LookupAdd(cache, k) /\ k \notin P!Cached(cache)
      BY <1>1, CacheFacts, SameOperators, SameTableOperators
    <2> HIDE DEF k
    <2>2. P!Untouched(cache, cache', k) /\ ~P!HasResult(cache', cache'.tab[k])
      BY <1>1, <2>1, CacheAssumptions, P!LookupAddAnswers
    <2> QED
      BY <2>2, SameOperators
  <1>5. [P!CacheNext]_(P!cvars)
    <2> DEFINE c == cache'
    <2>1. c \in LookupAdd(cache, k) /\ ~HasResult(c, c.tab[k]) /\ cache' = c /\ Elsewhere
      BY <1>1, <1>4 DEF Elsewhere
    <2> HIDE DEF c, k
    <2> QED
      BY <1>1, <1>3, <2>1, IsQuery
  <1>6. ASSUME NEW j \in Key PROVE Served(j)'
    <2>1. Served(j) /\ (Coming(j) => Coming(j)')
      BY <1>1, <1>2 DEF IInv, Coming
    <2>2. CASE j = k
      <3>1. Coming(j)'
        <4>1. CASE k \in Unknown
          <5>1. con'[cur].inc[soq'].key = k /\ cur' = cur
            BY <1>1, <1>3 DEF NextQuery, cur
          <5> QED
            BY <1>1, <2>2, <4>1, <5>1 DEF Coming
        <4>2. CASE k \notin Unknown
          BY <1>2, <2>2, <4>2 DEF Coming
        <4> QED
          BY <4>1, <4>2
      <3> QED
        BY <1>4, <2>2, <3>1 DEF Served
    <2>3. CASE j # k
      <3>1. \A c \in ToSet(clients) : Waiting(con'[c], j) # {} => Waiting(con[c], j) # {}
        BY <1>3, <2>3
      <3>2. j \in Cached(cache') =>
                j \in Cached(cache) /\ (HasResult(cache', cache'.tab[j]) <=> HasResult(cache, cache.tab[j]))
        <4> HIDE DEF k
        <4> QED
          BY <1>4, <2>3, UntouchedMeans
      <3> QED
        BY <1>1, <2>1, <3>1, <3>2, StaysServed
    <2> QED
      BY <2>2, <2>3
  <1> QED
    BY <1>3, <1>5, <1>6 DEF Good

-----------------------------------------------------------------------------
(* Results: cache_newresult and client_newresult. *)

LEMMA NewResultFacts ==
    ASSUME IInv, NEW k \in Key, NEW answer \in Answer, NewResult(k, answer), Elsewhere,
           UNCHANGED <<clients, nRequests>>
    PROVE  /\ con' \in [Client -> Connection]
           /\ \A c \in ToSet(clients) :
                 /\ (Busy(con[c]) => Busy(con'[c])) /\ con'[c].inc = con[c].inc
                 /\ Waiting(con'[c], k) = {}
                 /\ \A j : Waiting(con'[c], j) # {} => Waiting(con[c], j) # {}
           /\ RequestsAreBounded' /\ [P!CacheNext]_(P!cvars)
           /\ P!Untouched(cache, cache', k)
           /\ k \in Cached(cache') => HasResult(cache', cache'.tab[k])
  <1> DEFINE S == ToSet(clients)
             n == NumWaiting(k)
  <1>1. Clients(S) /\ con \in [Client -> Connection] /\ ToSet(clients') = S
    BY ListedClients DEF IInv, Control, Typed
  <1>2. PICK c \in LookupAdd(cache, k) :
            /\ cache' = DropError(IncUsage(Store(c, k, answer), c.tab[k], n), k)
            /\ con' = [x \in Client |-> IF x \in S THEN Given(con[x], k, c.tab[k]) ELSE con[x]]
    BY DEF NewResult
  <1> DEFINE e == c.tab[k]
  <1>3. e \in Entry
    <2>1. P!Kept(cache, Pins) /\ c \in P!LookupAdd(cache, k)
      BY CacheFacts, SameTableOperators
    <2>2. P!Untouched(cache, c, k) /\ c.tab[k] \in Entry
      BY <2>1, CacheAssumptions, P!LookupAddAnswers
    <2> QED
      BY <2>2
  <1>4. ASSUME NEW x \in S
        PROVE  /\ con'[x] = Given(con[x], k, e) /\ con'[x] \in Connection
               /\ (Busy(con[x]) => Busy(con'[x])) /\ con'[x].inc = con[x].inc
               /\ Waiting(con'[x], k) = {}
               /\ \A j : Waiting(con'[x], j) # {} => Waiting(con[x], j) # {}
    <2>1. x \in Client /\ con[x] \in Connection /\ con'[x] = Given(con[x], k, e)
      BY <1>1, <1>2 DEF Clients
    <2> HIDE DEF e
    <2> QED
      BY <1>3, <2>1, GivenFacts
  <1>5. con' \in [Client -> Connection]
    <2>1. ASSUME NEW x \in Client PROVE con'[x] \in Connection
      BY <1>1, <1>2, <1>4
    <2>2. con' = [x \in Client |-> con'[x]]
      BY <1>2
    <2> QED
      BY <2>1, <2>2
  <1>6. /\ Asked(S, con') + n = Asked(S, con) /\ Answered(S, con') = Answered(S, con) + n
        /\ \A f \in Entry : Pinned(S, con', f) = Pinned(S, con, f) + (IF e = f THEN n ELSE 0)
        /\ n \in Nat /\ n <= Asked(S, con)
        /\ Asked(S, con) \in Nat /\ Asked(S, con') \in Nat /\ Answered(S, con) \in Nat
        /\ \A f \in Entry : Pinned(S, con, f) \in Nat /\ Pinned(S, con, f) <= Answered(S, con)
    <2>1. n = Waited(S, con, k)
      BY Numbers
    <2>2. /\ Asked(S, con') + Waited(S, con, k) = Asked(S, con)
          /\ Answered(S, con') = Answered(S, con) + Waited(S, con, k)
          /\ \A f \in Entry : Pinned(S, con', f) =
                 Pinned(S, con, f) + (IF e = f THEN Waited(S, con, k) ELSE 0)
      <3>1. Clients(S) /\ con \in [Client -> Connection] /\ e \in Entry
        BY <1>1, <1>3
      <3>2. AllGiven(S, con, con', k, e)
        BY <1>4 DEF AllGiven
      <3> HIDE DEF e, S
      <3> QED
        BY <1>5, <3>1, <3>2, LoadGiven
    <2>3. /\ Asked(S, con) \in Nat /\ Answered(S, con) \in Nat
          /\ \A f \in Entry : Pinned(S, con, f) \in Nat /\ Pinned(S, con, f) <= Answered(S, con)
          /\ Waited(S, con, k) \in Nat /\ Waited(S, con, k) <= Asked(S, con)
      BY <1>1, LoadNumbers
    <2>4. Asked(S, con') \in Nat
      BY <1>1, <1>5, LoadNumbers
    <2> HIDE DEF n, e, S
    <2> QED
      BY <2>1, <2>2, <2>3, <2>4
  <1> HIDE DEF n
  <1>7. /\ Asked(S, con) + Answered(S, con) <= nRequests /\ nRequests <= MaxRequests
        /\ nRequests \in Nat /\ MaxRequests \in Nat
    BY Numbers, LimitsAssumption DEF IInv, RequestsAreBounded, Control, Typed
  <1>8. RequestsAreBounded'
    <2>1. Outstanding' = Asked(S, con') + Answered(S, con')
      BY <1>1, NextNumbers
    <2>2. Outstanding' = Asked(S, con) + Answered(S, con)
      <3> DEFINE a == Asked(S, con)
                 b == Asked(S, con')
                 x == Answered(S, con)
                 y == Answered(S, con')
      <3>1. /\ a \in Nat /\ b \in Nat /\ x \in Nat /\ n \in Nat /\ b + n = a /\ y = x + n
            /\ Outstanding' = b + y
        BY <1>6, <2>1
      <3> HIDE DEF a, b, x, y
      <3>2. Outstanding' = a + x
        BY <3>1
      <3> QED
        BY <3>2 DEF a, x
    <2> QED
      BY <1>7, <2>2 DEF RequestsAreBounded
  <1>9. /\ n \in 0 .. MaxRequests /\ Pins[e] + n <= MaxRequests
        /\ Pins' = [Pins EXCEPT ![e] = @ + n]
    <2>1. /\ Pins = [f \in Entry |-> Pinned(S, con, f)]
          /\ Pins' = [f \in Entry |-> Pinned(S, con', f)]
      BY <1>1, PinsFacts
    <2> HIDE DEF S, e
    <2>2. ASSUME NEW f \in Entry PROVE Pinned(S, con', f) = [Pins EXCEPT ![e] = @ + n][f]
      <3>1. Pinned(S, con, f) \in Nat /\ n \in Nat
        BY <1>6
      <3>2. Pinned(S, con', f) = Pinned(S, con, f) + (IF e = f THEN n ELSE 0)
        BY <1>6
      <3> QED
        BY <1>3, <2>1, <3>1, <3>2
    <2>3. Pins' = [Pins EXCEPT ![e] = @ + n]
      BY <1>3, <2>1, <2>2
    <2>4. Pins[e] \in Nat /\ Pins[e] <= Answered(S, con)
      BY <1>3, <1>6, <2>1
    <2>5. n \in 0 .. MaxRequests /\ Pins[e] + n <= MaxRequests
      <3>1. /\ Asked(S, con) \in Nat /\ Answered(S, con) \in Nat /\ n \in Nat /\ n <= Asked(S, con)
        BY <1>6
      <3> QED
        BY <1>7, <2>4, <3>1
    <2> QED
      BY <2>3, <2>5
  <1>10. [P!CacheNext]_(P!cvars)
    <2> HIDE DEF S
    <2> QED
      BY <1>2, <1>9, IsNewResult
  <1>11. P!Untouched(cache, cache', k) /\ (k \in Cached(cache') => HasResult(cache', cache'.tab[k]))
    <2>1. /\ P!Kept(cache, Pins) /\ P!CleanBut(cache, {}) /\ c \in P!LookupAdd(cache, k)
          /\ answer \in P!Answer /\ n \in Nat
          /\ cache' = P!DropError(P!IncUsage(P!Store(c, k, answer), c.tab[k], n), k)
      BY <1>2, <1>6, CacheFacts, SameOperators, SameTableOperators
    <2>2. LET d == P!DropError(P!IncUsage(P!Store(c, k, answer), c.tab[k], n), k)
          IN  /\ P!Untouched(cache, d, k) /\ (k \in P!Cached(d) => P!HasResult(d, d.tab[k]))
              /\ answer = "error" => k \notin P!Cached(d)
      BY <2>1, CacheAssumptions, P!NewResultAnswers
    <2>3. P!Untouched(cache, cache', k) /\ (k \in P!Cached(cache') => P!HasResult(cache', cache'.tab[k]))
      BY <2>1, <2>2
    <2> QED
      BY <2>3, SameOperators
  <1> QED
    BY <1>4, <1>5, <1>8, <1>10, <1>11

\* The others hear of nothing new.
LEMMA NewResultServed ==
    ASSUME IInv, NEW k \in Key, clients' = clients, phase # "close",
           P!Untouched(cache, cache', k),
           k \in Cached(cache') => HasResult(cache', cache'.tab[k]),
           \A c \in ToSet(clients) :
               /\ Waiting(con'[c], k) = {}
               /\ \A j : Waiting(con'[c], j) # {} => Waiting(con[c], j) # {},
           \A j \in Key \ {k} : Coming(j) => Coming(j)'
    PROVE  \A j \in Key : Served(j)'
  <1>1. Served(k)'
    BY DEF Served
  <1>2. ASSUME NEW j \in Key, j # k PROVE Served(j)'
    <2>1. Served(j) /\ (Coming(j) => Coming(j)')
      BY <1>2 DEF IInv
    <2>2. j \in Cached(cache') =>
              j \in Cached(cache) /\ (HasResult(cache', cache'.tab[j]) <=> HasResult(cache, cache.tab[j]))
      BY <1>2, UntouchedMeans
    <2> QED
      BY <2>1, <2>2, StaysServed
  <1> QED
    BY <1>1, <1>2

LEMMA RefuseGood ==
    ASSUME IInv, Refuse
    PROVE  Good
  <1>1. /\ phase = "refuse" /\ phase' = "check" /\ todo # <<>> /\ con[cur].inc[soq] \in GoodQuery
        /\ soq \in 1 .. Len(con[cur].inc) /\ cur' = cur
        /\ UNCHANGED <<clients, nRequests, from, todo, soq, wr, queue, sent>>
    BY DEF Refuse, IInv, Control, CheckIsRight, WalkIsRight, fds, back, cur
  <1>1a. PICK k \in Key : k = con[cur].inc[soq].key
    BY <1>1 DEF GoodQuery
  <1>2. NewResult(k, "error") /\ "error" \in Answer /\ Elsewhere
    BY <1>1, <1>1a DEF Refuse, Answer, Elsewhere
  <1>3. /\ con' \in [Client -> Connection]
        /\ \A c \in ToSet(clients) :
              /\ (Busy(con[c]) => Busy(con'[c])) /\ con'[c].inc = con[c].inc
              /\ Waiting(con'[c], k) = {}
              /\ \A j : Waiting(con'[c], j) # {} => Waiting(con[c], j) # {}
        /\ RequestsAreBounded' /\ [P!CacheNext]_(P!cvars)
        /\ P!Untouched(cache, cache', k)
        /\ k \in Cached(cache') => HasResult(cache', cache'.tab[k])
    BY <1>1, <1>2, NewResultFacts
  <1>4. \A j \in Key \ {k} : Coming(j) => Coming(j)'
    BY <1>1, <1>1a DEF Coming
  <1>5. \A j \in Key : Served(j)'
    BY <1>1, <1>2, <1>3, <1>4, NewResultServed
  <1>6. cur \in ToSet(clients) /\ ToSet(todo) \subseteq ToSet(clients)
    BY <1>1, Current DEF IInv, Control, WalkIsRight
  <1>7. Typed'
    BY <1>1, <1>3 DEF IInv, Control, Typed
  <1>8. WalkIsRight'
    BY <1>1 DEF IInv, Control, WalkIsRight
  <1>9. WritersAreBusy'
    BY <1>1, <1>3, <1>6 DEF IInv, Control, WritersAreBusy
  <1>10. CheckIsRight'
    <2>1. con'[cur].inc = con[cur].inc /\ Len(con[cur].inc) \in Nat
      <3>1. con[cur] \in Connection
        BY <1>1, Current DEF IInv, Control
      <3> QED
        BY <1>3, <1>6, <3>1 DEF Connection
    <2> QED
      BY <1>1, <2>1 DEF CheckIsRight
  <1> QED
    BY <1>3, <1>5, <1>7, <1>8, <1>9, <1>10 DEF Good, Control

LEMMA ServerAnswersGood ==
    ASSUME IInv, NEW k \in Key, NEW answer \in Answer, ServerAnswers(k, answer)
    PROVE  Good
  <1>1. /\ phase = "backend" /\ phase' = "backend" /\ NewResult(k, answer) /\ Elsewhere
        /\ sent[k] > 0 /\ sent' = [sent EXCEPT ![k] = @ - 1]
        /\ UNCHANGED <<clients, nRequests, from, todo, soq, wr, queue>>
    BY DEF ServerAnswers, Elsewhere, fds
  <1>2. sent \in [Key -> Nat]
    BY DEF IInv, Control, Typed
  <1>3. /\ con' \in [Client -> Connection]
        /\ \A c \in ToSet(clients) :
              /\ (Busy(con[c]) => Busy(con'[c])) /\ con'[c].inc = con[c].inc
              /\ Waiting(con'[c], k) = {}
              /\ \A j : Waiting(con'[c], j) # {} => Waiting(con[c], j) # {}
        /\ RequestsAreBounded' /\ [P!CacheNext]_(P!cvars)
        /\ P!Untouched(cache, cache', k)
        /\ k \in Cached(cache') => HasResult(cache', cache'.tab[k])
    BY <1>1, NewResultFacts
  <1>4. \A j \in Key \ {k} : Coming(j) => Coming(j)'
    BY <1>1, <1>2 DEF Coming
  <1>5. \A j \in Key : Served(j)'
    BY <1>1, <1>3, <1>4, NewResultServed
  <1>6. sent' \in [Key -> Nat]
    BY <1>1, <1>2
  <1>7. Typed'
    BY <1>1, <1>3, <1>6 DEF IInv, Control, Typed
  <1>8. WalkIsRight'
    BY <1>1 DEF IInv, Control, WalkIsRight
  <1>9. WritersAreBusy'
    BY <1>1 DEF IInv, Control, WritersAreBusy, WalkIsRight
  <1>10. CheckIsRight'
    BY <1>1 DEF IInv, Control, CheckIsRight
  <1> QED
    BY <1>3, <1>5, <1>7, <1>8, <1>9, <1>10 DEF Good, Control

-----------------------------------------------------------------------------
(* A buffer goes: client_writable and client_close. *)

\* The entry it pins and its place among the requests are given back.
GivenBack(b) ==
    /\ cache' = IF b.pin = "none" THEN cache ELSE DecUsage(cache, b.pin, 1)
    /\ nRequests' = IF b.eoq THEN nRequests - 1 ELSE nRequests

LEMMA BufferGone ==
    ASSUME IInv, todo # <<>>, Busy(con[cur]), NEW s \in Connection, Becomes(s),
           s.reqs = con[cur].reqs, NEW b, OneLess(con[cur], s, b), GivenBack(b),
           Elsewhere, clients' = clients
    PROVE  /\ nRequests' \in Nat /\ RequestsAreBounded' /\ [P!CacheNext]_(P!cvars)
           /\ \A k \in Cached(cache') :
                 k \in Cached(cache) /\ (HasResult(cache', cache'.tab[k]) <=> HasResult(cache, cache.tab[k]))
           /\ \A c \in ToSet(clients) : \A k : Waiting(con'[c], k) = Waiting(con[c], k)
  <1> DEFINE S == ToSet(clients)
  <1>0. Control /\ nRequests \in Nat /\ MaxRequests \in Nat /\ nRequests <= MaxRequests
        /\ Asked(S, con) + Answered(S, con) <= nRequests
    BY Numbers, LimitsAssumption DEF IInv, Control, Typed, RequestsAreBounded
  <1>1. con[cur] \in Connection /\ con[cur].out \in Seq(Buffer)
    BY <1>0, Current, ConnectionFacts DEF Control
  <1>2. /\ b \in Buffer
        /\ Cardinality(Ending(con[cur])) = Cardinality(Ending(s)) + (IF b.eoq THEN 1 ELSE 0)
        /\ \A e : Cardinality(Sending(con[cur], e)) =
                     Cardinality(Sending(s, e)) + (IF b.pin = e THEN 1 ELSE 0)
    <2>1. s.out \in Seq(Buffer)
      BY DEF Connection
    <2> QED
      BY <1>1, <2>1, TailLoad
  <1>3. /\ b.pin \in Entry \cup {"none"} /\ b.eoq \in BOOLEAN
        /\ (b.pin \in Entry => b.eoq) /\ (b.pin = "none" => ~b.eoq) /\ "none" \notin Entry
    BY <1>2, BufferFacts, KeyAssumption
  <1>4. /\ Cardinality(Ending(s)) \in Nat /\ \A e \in Entry : Cardinality(Sending(s, e)) \in Nat
        /\ Len(s.reqs) \in Nat
    BY ConnectionFacts
  <1>5. /\ ToSet(clients') = S /\ con'[cur] = s /\ \A d \in S \ {cur} : con'[d] = con[d]
        /\ Asked(S, con) \in Nat /\ Answered(S, con) \in Nat
        /\ Asked(S, con') \in Nat /\ Answered(S, con') \in Nat
        /\ Asked(S, con') + Len(con[cur].reqs) = Asked(S, con) + Len(s.reqs)
        /\ Answered(S, con') + Cardinality(Ending(con[cur])) =
           Answered(S, con) + Cardinality(Ending(s))
        /\ Cardinality(Ending(con[cur])) <= Answered(S, con)
        /\ \A e \in Entry :
               /\ Pinned(S, con, e) \in Nat /\ Pinned(S, con', e) \in Nat
               /\ Pinned(S, con', e) + Cardinality(Sending(con[cur], e)) =
                  Pinned(S, con, e) + Cardinality(Sending(s, e))
    BY <1>0, OneChange
  <1>6. Asked(S, con') = Asked(S, con)
    BY <1>4, <1>5
  <1>7. Answered(S, con) = Answered(S, con') + (IF b.eoq THEN 1 ELSE 0)
    <2> DEFINE u == Cardinality(Ending(con[cur]))
               v == Cardinality(Ending(s))
               x == Answered(S, con)
               y == Answered(S, con')
    <2>1. v \in Nat /\ x \in Nat /\ y \in Nat /\ y + u = x + v /\ u = v + (IF b.eoq THEN 1 ELSE 0)
      BY <1>2, <1>4, <1>5
    <2> HIDE DEF u, v, x, y
    <2>2. x = y + (IF b.eoq THEN 1 ELSE 0)
      BY <2>1
    <2> QED
      BY <2>2 DEF x, y
  <1>8. ASSUME NEW e \in Entry
        PROVE  Pinned(S, con, e) = Pinned(S, con', e) + (IF b.pin = e THEN 1 ELSE 0)
    <2> DEFINE u == Cardinality(Sending(con[cur], e))
               v == Cardinality(Sending(s, e))
               x == Pinned(S, con, e)
               y == Pinned(S, con', e)
    <2>1. v \in Nat /\ x \in Nat /\ y \in Nat /\ y + u = x + v /\ u = v + (IF b.pin = e THEN 1 ELSE 0)
      BY <1>2, <1>4, <1>5
    <2> HIDE DEF u, v, x, y
    <2>2. x = y + (IF b.pin = e THEN 1 ELSE 0)
      BY <2>1
    <2> QED
      BY <2>2 DEF x, y
  <1>9. nRequests' \in Nat /\ nRequests' <= MaxRequests
        /\ Asked(S, con') + Answered(S, con') <= nRequests'
    <2>1. /\ Asked(S, con) \in Nat /\ Answered(S, con) \in Nat /\ Answered(S, con') \in Nat
      BY <1>5
    <2>2. CASE b.eoq
      <3>1. nRequests' = nRequests - 1 /\ Answered(S, con) = Answered(S, con') + 1
        BY <1>7, <2>2 DEF GivenBack
      <3> QED
        BY <1>0, <1>6, <2>1, <3>1
    <2>3. CASE ~b.eoq
      <3>1. nRequests' = nRequests /\ Answered(S, con) = Answered(S, con') + 0
        BY <1>7, <2>3 DEF GivenBack
      <3> QED
        BY <1>0, <1>6, <2>1, <3>1
    <2> QED
      BY <1>3, <2>2, <2>3
  <1>10. RequestsAreBounded'
    <2>1. Outstanding' = Asked(S, con') + Answered(S, con')
      BY <1>5, NextNumbers
    <2> QED
      BY <1>9, <2>1 DEF RequestsAreBounded
  <1>11. /\ Pins = [e \in Entry |-> Pinned(S, con, e)] /\ Pins' = [e \in Entry |-> Pinned(S, con', e)]
         /\ Pins \in [Entry -> Nat] /\ P!Kept(cache, Pins)
    BY <1>5, PinsFacts, CacheFacts
  <1>12. CASE b.pin = "none"
    <2>1. cache' = cache
      BY <1>12 DEF GivenBack
    <2>2. \A e \in Entry : Pinned(S, con', e) = Pinned(S, con, e)
      <3> SUFFICES ASSUME NEW e \in Entry PROVE Pinned(S, con', e) = Pinned(S, con, e)
        OBVIOUS
      <3>1. Pinned(S, con, e) = Pinned(S, con', e) + 0 /\ Pinned(S, con', e) \in Nat
        BY <1>3, <1>5, <1>8, <1>12
      <3> QED
        BY <3>1
    <2>3. Pins' = Pins
      BY <1>11, <2>2
    <2>4. Cleaning' = Cleaning
      BY DEF Elsewhere, Cleaning
    <2>5. [P!CacheNext]_(P!cvars)
      BY <2>1, <2>3, <2>4, QuietCache
    <2>6. \A c \in S : \A k : Waiting(con'[c], k) = Waiting(con[c], k)
      BY <1>5 DEF Waiting
    <2> QED
      BY <1>9, <1>10, <2>1, <2>5, <2>6
  <1>13. CASE b.pin \in Entry
    <2> DEFINE e == b.pin
    <2>1. cache' = DecUsage(cache, e, 1)
      BY <1>3, <1>13 DEF GivenBack
    <2>2. Pins[e] > 0 /\ Pins' = [Pins EXCEPT ![e] = @ - 1]
      <3> HIDE DEF S
      <3>1. Pins[e] = Pinned(S, con', e) + 1 /\ Pinned(S, con', e) \in Nat
        BY <1>5, <1>8, <1>11, <1>13
      <3>2. ASSUME NEW f \in Entry PROVE Pinned(S, con', f) = [Pins EXCEPT ![e] = @ - 1][f]
        <4>1. CASE f = e
          BY <1>11, <3>1, <4>1
        <4>2. CASE f # e
          <5>1. Pinned(S, con, f) = Pinned(S, con', f) + 0 /\ Pinned(S, con', f) \in Nat
            BY <1>5, <1>8, <4>2
          <5> QED
            BY <1>11, <4>2, <5>1
        <4> QED
          BY <4>1, <4>2
      <3>3. Pins[e] > 0
        BY <3>1
      <3>4. DOMAIN [Pins EXCEPT ![e] = @ - 1] = Entry /\ DOMAIN Pins' = Entry
        BY <1>11
      <3> QED
        BY <1>11, <3>2, <3>3, <3>4
    <2>3. [P!CacheNext]_(P!cvars)
      <3> HIDE DEF e
      <3> QED
        BY <1>13, <2>1, <2>2, IsUnpin DEF e
    <2>4. \A k \in Cached(cache') :
              k \in Cached(cache) /\ (HasResult(cache', cache'.tab[k]) <=> HasResult(cache, cache.tab[k]))
      <3> HIDE DEF e
      <3>1. LET d == P!DecUsage(cache, e, 1)
            IN  P!Cached(d) = P!Cached(cache) /\ \A k : P!Untouched(cache, d, k)
        BY <1>11, <1>13, <2>2, CacheAssumptions, P!UnpinAnswers DEF e
      <3>2. \A k : P!Untouched(cache, cache', k)
        BY <2>1, <3>1, SameOperators
      <3>3. P!Untouched(cache, cache', "none") /\ "none" \notin Cached(cache')
        BY <3>2, KeyAssumption DEF Cached
      <3> QED
        BY <3>3, UntouchedMeans
    <2>5. \A c \in S : \A k : Waiting(con'[c], k) = Waiting(con[c], k)
      BY <1>5 DEF Waiting
    <2> QED
      BY <1>9, <1>10, <2>3, <2>4, <2>5
  <1> QED
    BY <1>3, <1>12, <1>13

LEMMA WithoutHead ==
    ASSUME Typed, cur \in Client, con[cur] \in Connection, Busy(con[cur]),
           NEW s, s = [con[cur] EXCEPT !.out = Tail(@)]
    PROVE  /\ s \in Connection /\ s.reqs = con[cur].reqs /\ s.inc = con[cur].inc
           /\ OneLess(con[cur], s, Head(con[cur].out))
  <1> DEFINE o == Tail(con[cur].out)
  <1>1. o \in Seq(Buffer)
    BY DEF Connection, Busy
  <1>2. s = [con[cur] EXCEPT !.out = o]
    OBVIOUS
  <1> HIDE DEF o
  <1>3. s \in Connection /\ s.reqs = con[cur].reqs /\ s.inc = con[cur].inc /\ s.out = o
    BY <1>1, <1>2 DEF Connection
  <1> QED
    BY <1>3 DEF OneLess, o

LEMMA WriteBufferGood ==
    ASSUME IInv, WriteBuffer
    PROVE  Good
  <1> DEFINE b == Head(con[cur].out)
             s == [con[cur] EXCEPT !.out = Tail(@)]
  <1>1. /\ Control /\ phase = "write" /\ todo # <<>> /\ Busy(con[cur]) /\ from = "io" /\ soq = 0
        /\ UNCHANGED <<clients, from, soq, wr, queue, sent>>
        /\ GivenBack(b) /\ Becomes(s)
        /\ \/ Busy(s) /\ phase' = "write" /\ todo' = todo
           \/ ~Busy(s) /\ phase' = "close" /\ todo' = todo
           \/ ~Busy(s) /\ phase' = "io" /\ todo' = Tail(todo)
    BY DEF WriteBuffer, IInv, Control, WalkIsRight, WritersAreBusy, CheckIsRight, fds, back,
           GivenBack, Becomes, NextClient
  <1>2. /\ cur \in Client /\ cur \in ToSet(todo) /\ con[cur] \in Connection
        /\ Tail(todo) \in Seq(Client) /\ IsInjective(Tail(todo))
        /\ ToSet(Tail(todo)) = ToSet(todo) \ {cur} /\ ToSet(Tail(todo)) \subseteq ToSet(clients)
    BY <1>1, Current DEF Control
  <1>2a. ToSet(todo) \subseteq Client
    BY <1>1 DEF Control, WalkIsRight, ToSet
  <1>3. /\ s \in Connection /\ s.reqs = con[cur].reqs /\ s.inc = con[cur].inc
        /\ OneLess(con[cur], s, b)
    BY <1>1, <1>2, WithoutHead DEF Control
  <1> HIDE DEF b, s
  <1>4. /\ nRequests' \in Nat /\ RequestsAreBounded' /\ [P!CacheNext]_(P!cvars)
        /\ \A k \in Cached(cache') :
              k \in Cached(cache) /\ (HasResult(cache', cache'.tab[k]) <=> HasResult(cache, cache.tab[k]))
        /\ \A c \in ToSet(clients) : \A k : Waiting(con'[c], k) = Waiting(con[c], k)
    <2>1. Elsewhere
      BY <1>1 DEF Elsewhere
    <2> QED
      BY <1>1, <1>3, <2>1, BufferGone
  <1>5. /\ con' \in [Client -> Connection] /\ con'[cur] = s
        /\ \A d \in Client \ {cur} : con'[d] = con[d]
    BY <1>1, <1>2, <1>3, BecomesFacts DEF Control
  <1>6. Typed'
    BY <1>1, <1>4, <1>5 DEF Control, Typed
  <1>7. WalkIsRight'
    BY <1>1, <1>2 DEF Control, WalkIsRight
  <1>8. WritersAreBusy'
    BY <1>1, <1>2, <1>2a, <1>5 DEF Control, WritersAreBusy, cur
  <1>9. CheckIsRight'
    BY <1>1 DEF CheckIsRight
  <1>10. ASSUME NEW k \in Key PROVE Served(k)'
    <2>1. Served(k) /\ (Coming(k) => Coming(k)')
      BY <1>1 DEF IInv, Coming
    <2> QED
      BY <1>1, <1>4, <2>1, StaysServed
  <1> QED
    BY <1>4, <1>6, <1>7, <1>8, <1>9, <1>10 DEF Good, Control

LEMMA CloseOutputGood ==
    ASSUME IInv, CloseOutput
    PROVE  Good
  <1> DEFINE b == Head(con[cur].out)
             s == [con[cur] EXCEPT !.out = Tail(@)]
  <1>1. Control /\ phase = "close" /\ todo # <<>> /\ Busy(con[cur]) /\ soq = 0
    BY DEF CloseOutput, IInv, Control, WalkIsRight, CheckIsRight
  <1>2. cur \in Client /\ con[cur] \in Connection /\ ToSet(todo) \subseteq Client
    BY <1>1, Current DEF Control, WalkIsRight, ToSet
  <1>2a. /\ UNCHANGED <<clients, phase, todo, from, soq, wr, queue, sent>> /\ cur' = cur
         /\ GivenBack(b) /\ Becomes(s) /\ clients' = clients
    BY <1>2 DEF CloseOutput, fds, back, GivenBack, Becomes, cur, IInv, Control, Typed
  <1>3. /\ s \in Connection /\ s.reqs = con[cur].reqs /\ s.inc = con[cur].inc
        /\ OneLess(con[cur], s, b)
    BY <1>1, <1>2, WithoutHead DEF Control
  <1> HIDE DEF b, s
  <1>4. /\ nRequests' \in Nat /\ RequestsAreBounded' /\ [P!CacheNext]_(P!cvars)
        /\ \A k \in Cached(cache') :
              k \in Cached(cache) /\ (HasResult(cache', cache'.tab[k]) <=> HasResult(cache, cache.tab[k]))
        /\ \A c \in ToSet(clients) : \A k : Waiting(con'[c], k) = Waiting(con[c], k)
    <2>1. Elsewhere
      BY <1>1, <1>2a DEF Elsewhere
    <2> QED
      BY <1>1, <1>2a, <1>3, <2>1, BufferGone
  <1>5. /\ con' \in [Client -> Connection] /\ con'[cur] = s
        /\ \A d \in Client \ {cur} : con'[d] = con[d]
    BY <1>1, <1>2, <1>2a, <1>3, BecomesFacts DEF Control
  <1>6. Typed'
    BY <1>1, <1>2a, <1>4, <1>5 DEF Control, Typed
  <1>7. WalkIsRight'
    BY <1>1, <1>2a DEF Control, WalkIsRight
  <1>8. WritersAreBusy'
    BY <1>1, <1>2, <1>2a, <1>5 DEF Control, WritersAreBusy
  <1>9. CheckIsRight'
    BY <1>1, <1>2a DEF CheckIsRight
  <1>10. ASSUME NEW k \in Key PROVE Served(k)'
    <2>1. Served(k) /\ (Coming(k) => Coming(k)')
      BY <1>1, <1>2a DEF IInv, Coming
    <2> QED
      BY <1>1, <1>2a, <1>4, <2>1, StaysServed
  <1> QED
    BY <1>4, <1>6, <1>7, <1>8, <1>9, <1>10 DEF Good, Control

\* A client that goes takes back its requests one by one.
LEMMA CloseRequestGood ==
    ASSUME IInv, CloseRequest
    PROVE  Good
  <1> DEFINE S == ToSet(clients)
             s == [con[cur] EXCEPT !.reqs = Tail(@)]
  <1>1. Control /\ phase = "close" /\ todo # <<>> /\ con[cur].reqs # <<>> /\ soq = 0
    BY DEF CloseRequest, IInv, Control, WalkIsRight, CheckIsRight
  <1>2. cur \in Client /\ con[cur] \in Connection
    BY <1>1, Current DEF Control
  <1>3. ToSet(todo) \subseteq Client /\ queue \in Seq(Key) /\ "none" \notin Key
    BY <1>1, KeyAssumption DEF Control, WalkIsRight, Typed, ToSet
  <1>3a. PICK k \in Key : k = Head(con[cur].reqs).key
    <2>1. con[cur].reqs \in Seq(GoodQuery) /\ con[cur].reqs # <<>>
      BY <1>1, <1>2 DEF Connection
    <2>2. Head(con[cur].reqs) \in GoodQuery
      BY <2>1
    <2> QED
      BY <2>2 DEF GoodQuery
  <1>4. /\ UNCHANGED <<clients, nRequests, phase, from, todo, soq, wr, sent>> /\ cur' = cur
        /\ Becomes(s) /\ clients' = clients
        /\ \/ /\ ~OthersInterested(k) /\ k \in ToSet(queue)
              /\ queue' = Without(queue, k) /\ cache' = Delete(cache, k)
           \/ UNCHANGED <<queue, cache>>
    BY <1>2, <1>3a DEF CloseRequest, fds, Becomes, cur, IInv, Control, Typed
  <1>5. /\ s \in Connection /\ s.inc = con[cur].inc /\ s.out = con[cur].out
        /\ s.reqs = Tail(con[cur].reqs)
    <2> DEFINE w == Tail(con[cur].reqs)
    <2>1. w \in Seq(GoodQuery)
      BY <1>1, <1>2 DEF Connection
    <2>2. s = [con[cur] EXCEPT !.reqs = w]
      OBVIOUS
    <2> HIDE DEF w, s
    <2> QED
      BY <1>2, <2>1, <2>2 DEF Connection, w
  <1> HIDE DEF s
  <1>6. /\ Len(s.reqs) = Len(con[cur].reqs) - 1 /\ Len(con[cur].reqs) \in Nat
        /\ \A i \in DOMAIN s.reqs : i + 1 \in DOMAIN con[cur].reqs /\ s.reqs[i] = con[cur].reqs[i + 1]
    <2>1. con[cur].reqs \in Seq(GoodQuery) /\ con[cur].reqs # <<>>
      BY <1>1, <1>2 DEF Connection
    <2> QED
      BY <1>5, <2>1
  <1>7. Ending(s) = Ending(con[cur]) /\ \A e : Sending(s, e) = Sending(con[cur], e)
    BY <1>5 DEF Ending, Sending
  <1>8. /\ ToSet(clients') = S /\ con'[cur] = s /\ \A d \in S \ {cur} : con'[d] = con[d]
        /\ Asked(S, con') <= Asked(S, con) /\ Answered(S, con') = Answered(S, con)
        /\ \A e \in Entry : Pinned(S, con', e) = Pinned(S, con, e)
        /\ Asked(S, con) \in Nat /\ Asked(S, con') \in Nat /\ Answered(S, con) \in Nat
    <2>1. /\ Cardinality(Ending(con[cur])) \in Nat
          /\ \A e \in Entry : Cardinality(Sending(con[cur], e)) \in Nat
      BY <1>2, ConnectionFacts
    <2>2. /\ ToSet(clients') = S /\ con'[cur] = s /\ \A d \in S \ {cur} : con'[d] = con[d]
          /\ Asked(S, con) \in Nat /\ Answered(S, con) \in Nat
          /\ Asked(S, con') \in Nat /\ Answered(S, con') \in Nat
          /\ Asked(S, con') + Len(con[cur].reqs) = Asked(S, con) + Len(s.reqs)
          /\ Answered(S, con') + Cardinality(Ending(con[cur])) =
             Answered(S, con) + Cardinality(Ending(s))
          /\ \A e \in Entry :
                 /\ Pinned(S, con, e) \in Nat /\ Pinned(S, con', e) \in Nat
                 /\ Pinned(S, con', e) + Cardinality(Sending(con[cur], e)) =
                    Pinned(S, con, e) + Cardinality(Sending(s, e))
      <3>1. s \in Connection /\ Becomes(s) /\ clients' = clients
        BY <1>4, <1>5
      <3> QED
        BY <1>1, <3>1, OneChange
    <2>3. ASSUME NEW e \in Entry PROVE Pinned(S, con', e) = Pinned(S, con, e)
      BY <1>7, <2>1, <2>2
    <2>4. Asked(S, con') <= Asked(S, con)
      <3> DEFINE a == Len(con[cur].reqs)
                 b == Len(s.reqs)
                 x == Asked(S, con)
                 y == Asked(S, con')
      <3>1. a \in Nat /\ x \in Nat /\ y \in Nat /\ y + a = x + b /\ b = a - 1
        BY <1>6, <2>2
      <3> HIDE DEF a, b, x, y
      <3>2. y <= x
        BY <3>1
      <3> QED
        BY <3>2 DEF x, y
    <2>5. Answered(S, con') = Answered(S, con)
      BY <1>7, <2>1, <2>2
    <2> QED
      BY <2>2, <2>3, <2>4, <2>5
  <1>9. RequestsAreBounded'
    <2>1. /\ nRequests' = nRequests /\ nRequests \in Nat /\ nRequests <= MaxRequests
          /\ Asked(S, con) + Answered(S, con) <= nRequests
      BY <1>1, <1>4, Numbers DEF IInv, RequestsAreBounded, Control, Typed
    <2>2. Outstanding' = Asked(S, con') + Answered(S, con')
      BY <1>8, NextNumbers
    <2>3. Outstanding' <= nRequests' /\ nRequests' <= MaxRequests
      BY <1>8, <2>1, <2>2
    <2> QED
      BY <2>3 DEF RequestsAreBounded
  <1>10. Pins' = Pins
    BY <1>8, PinsFacts
  <1>11. \A c \in S : \A j : Waiting(con'[c], j) # {} => Waiting(con[c], j) # {}
    <2> SUFFICES ASSUME NEW c \in S, NEW j, Waiting(con'[c], j) # {} PROVE Waiting(con[c], j) # {}
      OBVIOUS
    <2>1. CASE c # cur
      BY <1>8, <2>1
    <2>2. CASE c = cur
      <3>1. PICK i \in DOMAIN s.reqs : s.reqs[i].key = j
        BY <1>8, <2>2 DEF Waiting
      <3> QED
        BY <1>6, <2>2, <3>1 DEF Waiting
    <2> QED
      BY <2>1, <2>2
  <1>12. Elsewhere /\ Cleaning' = Cleaning
    BY <1>1, <1>4 DEF Elsewhere, Cleaning
  <1>13. queue' \in Seq(Key) /\ [P!CacheNext]_(P!cvars) /\ \A j \in Key : Served(j)'
    <2>1. CASE UNCHANGED <<queue, cache>>
      <3>1. [P!CacheNext]_(P!cvars)
        BY <1>10, <1>12, <2>1, QuietCache
      <3>2. ASSUME NEW j \in Key PROVE Served(j)'
        <4>1. Served(j) /\ (Coming(j) => Coming(j)')
          BY <1>1, <1>4, <2>1 DEF IInv, Coming
        <4> QED
          BY <1>1, <1>4, <1>8, <1>11, <2>1, <4>1, StaysServed
      <3> QED
        BY <1>3, <2>1, <3>1, <3>2
    <2>2. CASE /\ ~OthersInterested(k) /\ k \in ToSet(queue)
               /\ queue' = Without(queue, k) /\ cache' = Delete(cache, k)
      <3>1. queue' \in Seq(Key) /\ ToSet(queue') = ToSet(queue) \ {k}
        BY <1>3, <2>2, WithoutFacts
      <3>2. [P!CacheNext]_(P!cvars)
        BY <1>6, <1>10, <1>12, <2>2, IsForget
      <3>3. P!Untouched(cache, cache', k) /\ k \notin Cached(cache')
        <4>1. P!Kept(cache, Pins)
          BY CacheFacts
        <4>2. P!Untouched(cache, P!Delete(cache, k), k) /\ k \notin P!Cached(P!Delete(cache, k))
          BY <4>1, CacheAssumptions, P!DeleteAnswers
        <4>3. cache' = P!Delete(cache, k)
          BY <2>2, SameTableOperators
        <4> QED
          BY <4>2, <4>3, SameOperators
      <3>4. Served(k)'
        <4>1. ASSUME NEW c \in S, Waiting(con'[c], k) # {} PROVE c = cur
          BY <1>11, <2>2, <4>1 DEF OthersInterested
        <4>2. phase' = "close" /\ cur' = cur /\ ToSet(clients') = S
          BY <1>1, <1>4, <1>8
        <4> QED
          BY <3>3, <4>1, <4>2 DEF Served
      <3>5. ASSUME NEW j \in Key, j # k PROVE Served(j)'
        <4>1. Served(j) /\ (Coming(j) => Coming(j)')
          BY <1>1, <1>4, <3>1, <3>5 DEF IInv, Coming
        <4>2. j \in Cached(cache') =>
                j \in Cached(cache) /\ (HasResult(cache', cache'.tab[j]) <=> HasResult(cache, cache.tab[j]))
          BY <3>3, <3>5, UntouchedMeans
        <4> QED
          BY <1>1, <1>4, <1>8, <1>11, <4>1, <4>2, StaysServed
      <3> QED
        BY <3>1, <3>2, <3>4, <3>5
    <2> QED
      BY <1>4, <2>1, <2>2
  <1>14. /\ con' \in [Client -> Connection] /\ \A d \in Client \ {cur} : con'[d] = con[d]
    BY <1>1, <1>2, <1>4, <1>5, BecomesFacts DEF Control
  <1>15. Typed'
    BY <1>1, <1>4, <1>13, <1>14 DEF Control, Typed
  <1>16. WalkIsRight'
    BY <1>1, <1>4 DEF Control, WalkIsRight
  <1>17. WritersAreBusy'
    BY <1>1, <1>3, <1>4, <1>14 DEF Control, WritersAreBusy
  <1>18. CheckIsRight'
    BY <1>1, <1>4 DEF CheckIsRight
  <1> QED
    BY <1>9, <1>13, <1>15, <1>16, <1>17, <1>18 DEF Good, Control

-----------------------------------------------------------------------------
(* Clients come and go: client_new and the end of client_close. *)

LEMMA NewFacts == NewConnection \in Connection /\ Idle(NewConnection)
  <1>1. NewConnection \in Connection
    <2>1. \A T : <<>> \in Seq(T)
      OBVIOUS
    <2> QED
      BY <2>1 DEF NewConnection, Connection
  <1>2. NewConnection.reqs = <<>> /\ NewConnection.out = <<>>
    BY DEF NewConnection
  <1> QED
    BY <1>1, <1>2 DEF Idle, Ending, Sending

LEMMA CloseDoneGood ==
    ASSUME IInv, CloseDone
    PROVE  Good
  <1> DEFINE S == ToSet(clients)
             T == S \ {cur}
  <1>1. Control /\ phase = "close" /\ todo # <<>> /\ con[cur].reqs = <<>> /\ ~Busy(con[cur]) /\ soq = 0
    BY DEF CloseDone, IInv, Control, WalkIsRight, CheckIsRight
  <1>2. /\ cur \in Client /\ cur \in S /\ con[cur] \in Connection
        /\ Tail(todo) \in Seq(Client) /\ IsInjective(Tail(todo))
        /\ ToSet(Tail(todo)) = ToSet(todo) \ {cur} /\ ToSet(Tail(todo)) \subseteq S
    BY <1>1, Current DEF Control
  <1>3. /\ clients' = Without(clients, cur) /\ Becomes(NewConnection)
        /\ todo' = Tail(todo) /\ phase' = from
        /\ UNCHANGED <<cache, nRequests, from, soq, wr, queue, sent>>
    BY DEF CloseDone, Becomes, NextClient, fds, back
  <1>4. clients' \in Seq(Client) /\ ToSet(clients') = T /\ IsInjective(clients')
    <2>1. clients \in Seq(Client) /\ IsInjective(clients)
      BY <1>1 DEF Control, WalkIsRight
    <2> DEFINE x == cur
    <2> HIDE DEF x
    <2>2. /\ Without(clients, x) \in Seq(Client) /\ ToSet(Without(clients, x)) = ToSet(clients) \ {x}
          /\ IsInjective(Without(clients, x))
      BY <2>1, WithoutFacts
    <2> QED
      BY <1>3, <2>2 DEF x
  <1>5. /\ con' \in [Client -> Connection] /\ \A d \in Client \ {cur} : con'[d] = con[d]
    BY <1>1, <1>2, <1>3, NewFacts, BecomesFacts DEF Control
  <1>6. Clients(S) /\ con \in [Client -> Connection]
    BY <1>1, ListedClients DEF Control, Typed
  <1>7. Idle(con[cur])
    BY <1>1 DEF Idle, Ending, Sending, Busy
  <1>8. /\ Asked(S, con) = Asked(T, con) /\ Answered(S, con) = Answered(T, con)
        /\ \A e \in Entry : Pinned(S, con, e) = Pinned(T, con, e)
        /\ Clients(T)
    BY <1>2, <1>6, <1>7, LoadIdle
  <1>9. /\ Asked(T, con') = Asked(T, con) /\ Answered(T, con') = Answered(T, con)
        /\ \A e \in Entry : Pinned(T, con', e) = Pinned(T, con, e)
    <2>1. \A d \in T : SameLoad(con[d], con'[d])
      BY <1>5, <1>6 DEF Clients, SameLoad
    <2> HIDE DEF T
    <2> QED
      BY <1>5, <1>6, <1>8, <2>1, LoadSame
  <1>10. RequestsAreBounded'
    BY <1>3, <1>4, <1>8, <1>9, Numbers, NextNumbers DEF IInv, RequestsAreBounded
  <1>11. Pins' = Pins
    BY <1>4, <1>8, <1>9, PinsFacts
  <1>12. [P!CacheNext]_(P!cvars)
    <2>1. Cleaning' = Cleaning
      BY <1>1, <1>3 DEF Cleaning, Control, WalkIsRight
    <2> QED
      BY <1>3, <1>11, <2>1, QuietCache
  <1>13. ASSUME NEW k \in Key PROVE Served(k)'
    <2>1. Served(k) /\ (Coming(k) => Coming(k)')
      BY <1>1, <1>3 DEF IInv, Coming
    <2>2. \A d \in T : d \in S /\ d # cur /\ con'[d] = con[d]
      BY <1>5, <1>6 DEF Clients
    <2> QED
      BY <1>3, <1>4, <2>1, <2>2, StaysServed
  <1>14. Typed'
    BY <1>1, <1>3, <1>5 DEF Control, Typed
  <1>15. WalkIsRight'
    <2>1. ToSet(todo') \subseteq ToSet(clients')
      BY <1>2, <1>3, <1>4
    <2> QED
      BY <1>1, <1>2, <1>3, <1>4, <2>1 DEF Control, WalkIsRight
  <1>16. WritersAreBusy'
    <2>1. ToSet(todo') = ToSet(todo) \ {cur} /\ ToSet(todo') \subseteq Client
      BY <1>2, <1>3, <1>6 DEF Clients
    <2>2. \A c \in ToSet(todo') : con'[c] = con[c] /\ c # cur
      BY <1>5, <2>1
    <2> QED
      BY <1>1, <1>3, <2>1, <2>2 DEF Control, WritersAreBusy, WalkIsRight
  <1>17. CheckIsRight'
    BY <1>1, <1>3 DEF Control, WalkIsRight, CheckIsRight
  <1> QED
    BY <1>10, <1>12, <1>13, <1>14, <1>15, <1>16, <1>17 DEF Good, Control

LEMMA AcceptGood ==
    ASSUME IInv, NEW c \in Client, Accept(c)
    PROVE  Good
  <1> DEFINE S == ToSet(clients)
             T == S \cup {c}
             r == NewConnection
             g == [GrabOutput(r) EXCEPT !.shut = TRUE]
             s == IF Len(clients') > MaxClients THEN g ELSE r
  <1>1. Control /\ phase = "accept" /\ c \notin S /\ soq = 0
    BY DEF Accept, IInv, Control, CheckIsRight
  <1>2. /\ clients' = <<c>> \o clients /\ con' = [con EXCEPT ![c] = s]
        /\ phase' = "io" /\ from' = "io" /\ todo' = clients'
        /\ UNCHANGED <<cache, nRequests, soq, wr, queue, sent>>
    BY DEF Accept, fds, back
  <1>3. s \in Connection /\ Idle(s)
    <2>1. r \in Connection /\ Idle(r)
      BY NewFacts
    <2> HIDE DEF r
    <2>2. g \in Connection /\ QuietFor(r, g)
      BY <2>1, ShutFacts
    <2> HIDE DEF g
    <2>3. Idle(g)
      BY <2>1, <2>2 DEF QuietFor, SameLoad, Idle
    <2> QED
      BY <2>1, <2>2, <2>3
  <1> HIDE DEF s
  <1>4. con \in [Client -> Connection] /\ Clients(S)
    BY <1>1, ListedClients DEF Control, Typed
  <1>5. con' \in [Client -> Connection] /\ con'[c] = s /\ \A d \in Client \ {c} : con'[d] = con[d]
    BY <1>2, <1>3, <1>4
  <1>6. clients' \in Seq(Client) /\ IsInjective(clients') /\ ToSet(clients') = T
    <2>1. clients \in Seq(Client) /\ IsInjective(clients)
      BY <1>1 DEF Control, WalkIsRight
    <2>2. /\ clients' \in Seq(Client) /\ Len(clients') = Len(clients) + 1 /\ Len(clients) \in Nat
          /\ DOMAIN clients = 1 .. Len(clients) /\ DOMAIN clients' = 1 .. Len(clients) + 1
          /\ clients'[1] = c /\ \A i \in 1 .. Len(clients) : clients'[i + 1] = clients[i]
      BY <1>2, <2>1
    <2>3. \A i \in DOMAIN clients' :
              i = 1 \/ (i - 1 \in DOMAIN clients /\ clients'[i] = clients[i - 1] /\ i - 1 + 1 = i)
      <3> SUFFICES ASSUME NEW i \in DOMAIN clients', i # 1
                   PROVE  i - 1 \in DOMAIN clients /\ clients'[i] = clients[i - 1] /\ i - 1 + 1 = i
        OBVIOUS
      <3>1. i - 1 \in 1 .. Len(clients) /\ i - 1 + 1 = i
        BY <2>2
      <3>2. clients'[(i - 1) + 1] = clients[i - 1]
        BY <2>2, <3>1
      <3> QED
        BY <2>2, <3>1, <3>2
    <2>4. ToSet(clients') = T
      <3>1. ASSUME NEW x \in S PROVE x \in ToSet(clients')
        <4>1. PICK i \in DOMAIN clients : clients[i] = x
          BY DEF ToSet
        <4>2. i + 1 \in DOMAIN clients' /\ clients'[i + 1] = x
          BY <2>2, <4>1
        <4> QED
          BY <4>2 DEF ToSet
      <3>2. c \in ToSet(clients')
        BY <2>2 DEF ToSet
      <3>3. ASSUME NEW x \in ToSet(clients') PROVE x \in T
        <4>1. PICK i \in DOMAIN clients' : clients'[i] = x
          BY DEF ToSet
        <4> QED
          BY <2>2, <2>3, <4>1 DEF ToSet
      <3> QED
        BY <3>1, <3>2, <3>3
    <2>5. IsInjective(clients')
      <3>1. \A i \in DOMAIN clients : clients[i] # c
        BY <1>1 DEF ToSet
      <3>2. ASSUME NEW i \in DOMAIN clients', NEW j \in DOMAIN clients', clients'[i] = clients'[j]
            PROVE  i = j
        <4>1. CASE i = 1 \/ j = 1
          BY <2>2, <2>3, <3>1, <3>2, <4>1
        <4>2. CASE i # 1 /\ j # 1
          <5>1. /\ i - 1 \in DOMAIN clients /\ j - 1 \in DOMAIN clients
                /\ clients[i - 1] = clients[j - 1] /\ i - 1 + 1 = i /\ j - 1 + 1 = j
            BY <2>3, <3>2, <4>2
          <5>2. i - 1 = j - 1
            BY <2>1, <5>1 DEF IsInjective
          <5> QED
            BY <5>1, <5>2
        <4> QED
          BY <4>1, <4>2
      <3> QED
        BY <3>2 DEF IsInjective
    <2> QED
      BY <2>2, <2>4, <2>5
  <1>7. Clients(T) /\ T \ {c} = S
    <2>1. IsFiniteSet(T)
      BY <1>4, FS_AddElement DEF Clients
    <2> QED
      BY <1>1, <1>4, <2>1 DEF Clients
  <1>8. /\ Asked(T, con') = Asked(S, con') /\ Answered(T, con') = Answered(S, con')
        /\ \A e \in Entry : Pinned(T, con', e) = Pinned(S, con', e)
    <2>1. c \in T /\ Idle(con'[c])
      BY <1>3, <1>5
    <2>2. /\ Asked(T, con') = Asked(T \ {c}, con') /\ Answered(T, con') = Answered(T \ {c}, con')
          /\ \A e \in Entry : Pinned(T, con', e) = Pinned(T \ {c}, con', e)
      <3> HIDE DEF T
      <3> QED
        BY <1>5, <1>7, <2>1, LoadIdle
    <2> QED
      BY <1>7, <2>2
  <1>9. /\ Asked(S, con') = Asked(S, con) /\ Answered(S, con') = Answered(S, con)
        /\ \A e \in Entry : Pinned(S, con', e) = Pinned(S, con, e)
        /\ \A d \in S : con'[d] = con[d]
    <2>1. \A d \in S : con'[d] = con[d]
      BY <1>1, <1>4, <1>5 DEF Clients
    <2>2. \A d \in S : SameLoad(con[d], con'[d])
      BY <2>1 DEF SameLoad
    <2> HIDE DEF S
    <2> QED
      BY <1>4, <1>5, <2>1, <2>2, LoadSame
  <1>10. RequestsAreBounded'
    BY <1>2, <1>6, <1>8, <1>9, Numbers, NextNumbers DEF IInv, RequestsAreBounded
  <1>11. Pins' = Pins
    BY <1>6, <1>8, <1>9, PinsFacts
  <1>12. [P!CacheNext]_(P!cvars)
    <2>1. Cleaning' = Cleaning
      BY <1>1, <1>2 DEF Cleaning
    <2> QED
      BY <1>2, <1>11, <2>1, QuietCache
  <1>13. ASSUME NEW k \in Key PROVE Served(k)'
    <2>1. Served(k) /\ (Coming(k) => Coming(k)')
      BY <1>1, <1>2 DEF IInv, Coming
    <2>2. Waiting(con'[c], k) = {}
      BY <1>3, <1>5 DEF Idle, Waiting
    <2> QED
      BY <1>1, <1>2, <1>6, <1>9, <2>1, <2>2, StaysServed
  <1>14. Typed'
    BY <1>1, <1>2, <1>5 DEF Control, Typed
  <1>15. WalkIsRight'
    BY <1>2, <1>6 DEF WalkIsRight
  <1>16. WritersAreBusy'
    BY <1>1, <1>2, <1>9 DEF Control, WritersAreBusy
  <1>17. CheckIsRight'
    BY <1>1, <1>2 DEF CheckIsRight
  <1> QED
    BY <1>10, <1>12, <1>13, <1>14, <1>15, <1>16, <1>17 DEF Good, Control

-----------------------------------------------------------------------------
(* The servers' turn, and cache_cleanup. *)

LEMMA DispatchGood ==
    ASSUME IInv, Dispatch
    PROVE  Good
  <1>1. /\ Control /\ phase = "backend" /\ phase' = "backend" /\ queue \in Seq(Key) /\ queue # <<>>
        /\ sent \in [Key -> Nat] /\ queue' = Tail(queue)
        /\ sent' = [sent EXCEPT ![Head(queue)] = @ + 1]
        /\ UNCHANGED <<cache, clients, con, nRequests, from, todo, soq, wr>>
    BY DEF Dispatch, IInv, Control, Typed, fds
  <1>2. queue' \in Seq(Key) /\ Head(queue) \in Key /\ ToSet(queue) \subseteq ToSet(queue') \cup {Head(queue)}
    <2>1. queue' \in Seq(Key) /\ Head(queue) \in Key
      BY <1>1
    <2>2. ASSUME NEW k \in ToSet(queue), k # Head(queue) PROVE k \in ToSet(queue')
      <3>1. PICK i \in DOMAIN queue : queue[i] = k
        BY DEF ToSet
      <3>2. i - 1 \in DOMAIN queue' /\ queue'[i - 1] = k
        BY <1>1, <2>2, <3>1
      <3> QED
        BY <3>2 DEF ToSet
    <2> QED
      BY <2>1, <2>2
  <1>3. sent' \in [Key -> Nat] /\ sent'[Head(queue)] > 0 /\ \A k \in Key : sent[k] > 0 => sent'[k] > 0
    BY <1>1, <1>2
  <1>4. Control'
    <2>1. Typed'
      BY <1>1, <1>2, <1>3 DEF Control, Typed
    <2>2. WalkIsRight'
      BY <1>1 DEF Control, WalkIsRight
    <2>3. WritersAreBusy'
      BY <1>1 DEF Control, WritersAreBusy, WalkIsRight
    <2>4. CheckIsRight'
      BY <1>1 DEF Control, CheckIsRight
    <2> QED
      BY <2>1, <2>2, <2>3, <2>4 DEF Control
  <1>5. RequestsAreBounded' /\ Pins' = Pins
    BY <1>1, Numbers, NextNumbers, PinsFacts DEF IInv, RequestsAreBounded
  <1>6. [P!CacheNext]_(P!cvars)
    <2>1. Cleaning' = Cleaning
      BY <1>1 DEF Cleaning
    <2> QED
      BY <1>1, <1>5, <2>1, QuietCache
  <1>7. ASSUME NEW k \in Key PROVE Served(k)'
    <2>1. Served(k) /\ (Coming(k) => Coming(k)')
      BY <1>1, <1>2, <1>3 DEF IInv, Coming
    <2> QED
      BY <1>1, <2>1, StaysServed
  <1> QED
    BY <1>4, <1>5, <1>6, <1>7 DEF Good

LEMMA GiveBackGood ==
    ASSUME IInv, NEW k \in Key, GiveBack(k)
    PROVE  Good
  <1>1. /\ Control /\ phase = "backend" /\ phase' = "backend" /\ queue \in Seq(Key)
        /\ sent \in [Key -> Nat] /\ sent[k] > 0 /\ queue' = <<k>> \o queue
        /\ sent' = [sent EXCEPT ![k] = @ - 1]
        /\ UNCHANGED <<cache, clients, con, nRequests, from, todo, soq, wr>>
    BY DEF GiveBack, IInv, Control, Typed, fds
  <1>2. queue' \in Seq(Key) /\ ToSet(queue) \subseteq ToSet(queue') /\ k \in ToSet(queue')
    <2> DEFINE one == <<k>>
               q == queue
    <2>1. /\ one \in Seq(Key) /\ q \in Seq(Key) /\ one \o q \in Seq(Key)
          /\ Len(one) = 1 /\ one[1] = k /\ Len(q) \in Nat
          /\ DOMAIN (one \o q) = 1 .. 1 + Len(q) /\ DOMAIN q = 1 .. Len(q)
      BY <1>1
    <2>2. (one \o q)[1] = k /\ \A i \in 1 .. Len(q) : (one \o q)[1 + i] = q[i] /\ 1 + i \in 1 .. 1 + Len(q)
      BY <2>1
    <2>3. queue' = one \o q
      BY <1>1
    <2> HIDE DEF one, q
    <2>4. 1 \in 1 .. 1 + Len(q)
      BY <2>1
    <2>5. ToSet(q) \subseteq ToSet(one \o q) /\ k \in ToSet(one \o q)
      BY <2>1, <2>2, <2>4 DEF ToSet
    <2> QED
      BY <2>1, <2>3, <2>5 DEF q
  <1>3. sent' \in [Key -> Nat] /\ \A j \in Key \ {k} : sent'[j] = sent[j]
    BY <1>1
  <1>4. Control'
    <2>1. Typed'
      BY <1>1, <1>2, <1>3 DEF Control, Typed
    <2>2. WalkIsRight'
      BY <1>1 DEF Control, WalkIsRight
    <2>3. WritersAreBusy'
      BY <1>1 DEF Control, WritersAreBusy, WalkIsRight
    <2>4. CheckIsRight'
      BY <1>1 DEF Control, CheckIsRight
    <2> QED
      BY <2>1, <2>2, <2>3, <2>4 DEF Control
  <1>5. RequestsAreBounded' /\ Pins' = Pins
    BY <1>1, Numbers, NextNumbers, PinsFacts DEF IInv, RequestsAreBounded
  <1>6. [P!CacheNext]_(P!cvars)
    <2>1. Cleaning' = Cleaning
      BY <1>1 DEF Cleaning
    <2> QED
      BY <1>1, <1>5, <2>1, QuietCache
  <1>7. ASSUME NEW j \in Key PROVE Served(j)'
    <2>1. Served(j) /\ (Coming(j) => Coming(j)')
      BY <1>1, <1>2, <1>3 DEF IInv, Coming
    <2> QED
      BY <1>1, <2>1, StaysServed
  <1> QED
    BY <1>4, <1>5, <1>6, <1>7 DEF Good

LEMMA EvictGood ==
    ASSUME IInv, Evict
    PROVE  Good
  <1> DEFINE k == cache.key[Last(cache.lru)]
  <1>1. /\ Control /\ phase \in {"cleanup", "splat"} /\ phase' = phase /\ cache.used > szlimit
        /\ cache' = Delete(cache, k)
        /\ UNCHANGED <<clients, con, nRequests, from, todo, soq, wr, queue, sent>>
    BY DEF Evict, IInv, Control, fds, back
  <1>2. Cleaning \in Nat /\ Cleaning = szlimit /\ Cleaning' = Cleaning
    BY <1>1, LimitsAssumption DEF Cleaning, szlimit
  <1>3. Control'
    <2>1. Typed'
      BY <1>1 DEF Control, Typed
    <2>2. WalkIsRight'
      BY <1>1 DEF Control, WalkIsRight
    <2>3. WritersAreBusy'
      BY <1>1 DEF Control, WritersAreBusy, WalkIsRight
    <2>4. CheckIsRight'
      BY <1>1 DEF Control, CheckIsRight
    <2> QED
      BY <2>1, <2>2, <2>3, <2>4 DEF Control
  <1>4. RequestsAreBounded' /\ Pins' = Pins
    BY <1>1, Numbers, NextNumbers, PinsFacts DEF IInv, RequestsAreBounded
  <1>5. [P!CacheNext]_(P!cvars)
    <2>1. cache.used = Len(cache.lru)
      BY DEF IInv, CacheIsRight, P!ListIsRight
    <2>2. cache.lru # <<>>
      <3>1. Len(<<>>) = 0
        OBVIOUS
      <3> QED
        BY <1>1, <1>2, <2>1, <3>1
    <2>3. cache' = P!Delete(cache, cache.key[P!Last(cache.lru)])
      BY <1>1, SameLists, SameTableOperators
    <2>4. P!Evict
      BY <1>1, <1>2, <1>4, <2>2, <2>3 DEF P!Evict, Pins, Cleaning
    <2> QED
      BY <2>4 DEF P!CacheNext
  <1>6. P!Untouched(cache, cache', k) /\ k \notin Cached(cache')
    <2>1. P!Kept(cache, Pins)
      BY CacheFacts
    <2> HIDE DEF k
    <2>2. P!Untouched(cache, P!Delete(cache, k), k) /\ k \notin P!Cached(P!Delete(cache, k))
      BY <2>1, CacheAssumptions, P!DeleteAnswers
    <2>3. cache' = P!Delete(cache, k)
      BY <1>1, SameTableOperators
    <2> QED
      BY <2>2, <2>3, SameOperators
  <1> HIDE DEF k
  <1>7. ASSUME NEW j \in Key PROVE Served(j)'
    <2>1. Served(j) /\ (Coming(j) => Coming(j)')
      BY <1>1 DEF IInv, Coming
    <2>2. j \in Cached(cache') =>
              j \in Cached(cache) /\ (HasResult(cache', cache'.tab[j]) <=> HasResult(cache, cache.tab[j]))
      BY <1>6, UntouchedMeans
    <2> QED
      BY <1>1, <2>1, <2>2, StaysServed
  <1> QED
    BY <1>3, <1>4, <1>5, <1>7 DEF Good

LEMMA StutterGood ==
    ASSUME IInv, UNCHANGED vars
    PROVE  Good
  <1>1. UNCHANGED <<cache, clients, con, nRequests, phase, from, todo, soq, wr, queue, sent>>
    BY DEF vars
  <1>2. Control'
    <2>1. Typed'
      BY <1>1 DEF IInv, Control, Typed
    <2>2. WalkIsRight'
      BY <1>1 DEF IInv, Control, WalkIsRight
    <2>3. WritersAreBusy'
      BY <1>1 DEF IInv, Control, WritersAreBusy, cur
    <2>4. CheckIsRight'
      BY <1>1 DEF IInv, Control, CheckIsRight, cur
    <2> QED
      BY <2>1, <2>2, <2>3, <2>4 DEF Control
  <1>3. RequestsAreBounded' /\ Pins' = Pins
    BY <1>1, Numbers, NextNumbers, PinsFacts DEF IInv, RequestsAreBounded
  <1>4. [P!CacheNext]_(P!cvars)
    <2>1. Cleaning' = Cleaning
      BY <1>1 DEF Cleaning
    <2> QED
      BY <1>1, <1>3, <2>1, QuietCache
  <1>5. ASSUME NEW k \in Key PROVE Served(k)'
    <2>1. cur' = cur /\ Served(k) /\ (Coming(k) => Coming(k)')
      BY <1>1 DEF IInv, Coming, cur
    <2> QED
      BY <1>1, <2>1, StaysServed
  <1> QED
    BY <1>2, <1>3, <1>4, <1>5 DEF Good

-----------------------------------------------------------------------------
(* The invariant is inductive. *)

LEMMA StepGood ==
    ASSUME IInv, [ClientsNext]_vars
    PROVE  Good
  <1>1. CASE QuietMove
    BY <1>1, QuietGood
  <1>2. CASE \E c \in Client : Accept(c)
    BY <1>2, AcceptGood
  <1>3. CASE \E q \in GoodQuery : TakeCached(q) \/ TakeAwaited(q) \/ TakeNew(q)
    BY <1>3, TakeCachedGood, TakeAwaitedGood, TakeNewGood
  <1>4. CASE Refuse
    BY <1>4, RefuseGood
  <1>5. CASE WriteBuffer
    BY <1>5, WriteBufferGood
  <1>6. CASE CloseRequest
    BY <1>6, CloseRequestGood
  <1>7. CASE CloseOutput
    BY <1>7, CloseOutputGood
  <1>8. CASE CloseDone
    BY <1>8, CloseDoneGood
  <1>9. CASE Dispatch
    BY <1>9, DispatchGood
  <1>10. CASE \E k \in Key : GiveBack(k) \/ \E answer \in Answer : ServerAnswers(k, answer)
    BY <1>10, GiveBackGood, ServerAnswersGood
  <1>11. CASE Evict
    BY <1>11, EvictGood
  <1>12. CASE Exited \/ UNCHANGED vars
    BY <1>12, StutterGood DEF Exited
  <1> QED
    BY <1>1, <1>2, <1>3, <1>4, <1>5, <1>6, <1>7, <1>8, <1>9, <1>10, <1>11, <1>12
    DEF ClientsNext, Walk, IO, Check, Write, Close, Servers, Cleanup, QuietMove

LEMMA NextIInv == IInv /\ [ClientsNext]_vars => IInv'
  <1> SUFFICES ASSUME IInv, [ClientsNext]_vars PROVE IInv'
    OBVIOUS
  <1>1. Good
    BY StepGood
  <1>2. P!IInv /\ P!ListIsRight(cache) /\ [P!CacheNext]_(P!cvars)
    BY <1>1 DEF Good, IInv, CacheIsRight
  <1>3. P!IInv'
    BY <1>2, CacheAssumptions, P!NextIInv
  <1>4. P!ListIsRight(cache')
    BY <1>2, CacheAssumptions, P!ListStep
  <1>5. P!ListIsRight(cache)'
    BY <1>4
  <1> QED
    BY <1>1, <1>3, <1>5 DEF Good, IInv, CacheIsRight

LEMMA InitCache == ClientsInit => Cache!CacheInit /\ P!CacheInit /\ Outstanding = 0
  <1> SUFFICES ASSUME ClientsInit PROVE Cache!CacheInit /\ P!CacheInit /\ Outstanding = 0
    OBVIOUS
  <1>1. cache = EmptyCache /\ clients = <<>> /\ phase = "add"
    BY DEF ClientsInit
  <1>2. ToSet(clients) = {}
    BY <1>1 DEF ToSet
  <1>3. \A f : OfAll(ToSet(clients), f) = {}
    BY <1>2 DEF OfAll
  <1>4. \A e : PinsOf(e) = 0
    BY <1>3, FS_EmptySet DEF PinsOf
  <1>5. Outstanding = 0
    <2>1. Asked(ToSet(clients), con) = 0 /\ Answered(ToSet(clients), con) = 0
      BY <1>3, FS_EmptySet DEF Asked, Answered
    <2> QED
      BY <2>1, Numbers
  <1>6. Pins = [e \in Entry |-> 0] /\ Cleaning = -1
    BY <1>1, <1>4 DEF Pins, Cleaning
  <1>7. P!EmptyCache = EmptyCache
    BY SameLists DEF P!EmptyCache, EmptyCache
  <1>8. Cache!EmptyCache = EmptyCache
    <2>1. \A n : Cache!Prime(n) = Prime(n)
      BY Zenon DEF Cache!Prime, Cache!Min, Prime, Min
    <2> QED
      BY <2>1 DEF Cache!EmptyCache, EmptyCache
  <1> QED
    BY <1>1, <1>5, <1>6, <1>7, <1>8 DEF P!CacheInit, Cache!CacheInit, Pins, Cleaning

LEMMA InitIInv == ClientsInit => IInv
  <1> SUFFICES ASSUME ClientsInit PROVE IInv
    OBVIOUS
  <1>1. /\ clients = <<>> /\ con = [c \in Client |-> NewConnection] /\ nRequests = 0
        /\ phase = "add" /\ from = "add" /\ todo = <<>> /\ soq = 0 /\ queue = <<>>
        /\ sent = [k \in Key |-> 0] /\ cache = EmptyCache /\ wr = {}
    BY DEF ClientsInit
  <1>2. Typed
    <2>1. con \in [Client -> Connection] /\ sent \in [Key -> Nat]
      BY <1>1, NewFacts
    <2>2. queue \in Seq(Key)
      BY <1>1
    <2> QED
      BY <1>1, <2>1, <2>2 DEF Typed
  <1>3. WalkIsRight
    <2>1. <<>> \in Seq(Client) /\ IsInjective(<<>>)
      BY DEF IsInjective
    <2> QED
      BY <1>1, <2>1 DEF WalkIsRight
  <1>4. WritersAreBusy /\ CheckIsRight
    BY <1>1 DEF WritersAreBusy, CheckIsRight
  <1>5. RequestsAreBounded
    BY <1>1, InitCache, LimitsAssumption DEF RequestsAreBounded
  <1>6. ToSet(clients) = {} /\ Cached(cache) = {}
    BY <1>1 DEF ToSet, Cached, EmptyCache
  <1>7. \A k \in Key : Served(k)
    BY <1>6 DEF Served
  <1>8. CacheIsRight
    <2>1. P!CacheInit
      BY InitCache
    <2>2. P!IInv
      BY <2>1, CacheAssumptions, P!InitIInv
    <2>3. P!ListIsRight(cache)
      BY <2>1, CacheAssumptions, P!InitList
    <2> QED
      BY <2>2, <2>3 DEF CacheIsRight
  <1> QED
    BY <1>2, <1>3, <1>4, <1>5, <1>7, <1>8 DEF IInv, Control

\* What a client waits for is a request.
LEMMA WaitedKey ==
    ASSUME IInv, NEW c \in ToSet(clients), NEW i \in DOMAIN con[c].reqs
    PROVE  con[c].reqs[i].key \in Key
  <1>1. con[c] \in Connection
    BY ListedClients DEF IInv, Control, Typed, Clients
  <1>2. con[c].reqs[i] \in GoodQuery
    BY <1>1 DEF Connection
  <1> QED
    BY <1>2 DEF GoodQuery

-----------------------------------------------------------------------------
(* The theorems. *)

\* The loop is always where its functions may be, with lists and counts that
\* fit, and with a cache in order.
THEOREM ClientsInvariance == ClientsSpec => []IInv
  BY InitIInv, NextIInv, PTL DEF ClientsSpec

\* client_checkrequestcomplete takes no query beyond maxoutstandingqueries, and
\* g_nRequests counts every request that waits or is being answered, whatever
\* clients, servers and errors do in between.
THEOREM RequestsBounded == ClientsSpec => []RequestsAreBounded
  <1>1. IInv => RequestsAreBounded
    BY DEF IInv
  <1> QED
    BY <1>1, ClientsInvariance, PTL

\* client_req_process and client_close: what a client waits for is queued or at
\* a server, though the client that asked first has gone or the cache has
\* dropped the entry.
THEOREM WaitersServed == ClientsSpec => []EveryWaiterIsServed
  <1>1. IInv => EveryWaiterIsServed
    <2> SUFFICES ASSUME IInv, NEW c \in ToSet(clients), NEW i \in DOMAIN con[c].reqs,
                        NEW k, k = con[c].reqs[i].key
                 PROVE  \/ k \in ToSet(queue) \/ sent[k] > 0
                        \/ phase = "close" /\ c = cur
                        \/ phase = "refuse" /\ k \in Unknown
      BY DEF EveryWaiterIsServed
    <2>1. k \in Key
      BY WaitedKey
    <2>2. Served(k) /\ Waiting(con[c], k) # {}
      BY <2>1 DEF IInv, Waiting
    <2> QED
      BY <2>2 DEF Served, Coming
  <1> QED
    BY <1>1, ClientsInvariance, PTL

\* cache_newresult and client_newresult: a result that is there has been given
\* to everybody who waited for it.
THEOREM WaitersMissNothing == ClientsSpec => []NoWaiterMissesAResult
  <1>1. IInv => NoWaiterMissesAResult
    <2> SUFFICES ASSUME IInv, NEW c \in ToSet(clients), NEW i \in DOMAIN con[c].reqs,
                        NEW k, k = con[c].reqs[i].key
                 PROVE  k \in Cached(cache) => ~HasResult(cache, cache.tab[k])
      BY DEF NoWaiterMissesAResult
    <2>1. k \in Key
      BY WaitedKey
    <2>2. Served(k) /\ Waiting(con[c], k) # {}
      BY <2>1 DEF IInv, Waiting
    <2> QED
      BY <2>2 DEF Served
  <1> QED
    BY <1>1, ClientsInvariance, PTL

\* client_addcpi, client_writable and client_close: the usage of an entry is
\* what the table and the answers going out from it make it.
THEOREM PinsExact == ClientsSpec => []PinsMatchUsage
  <1>1. IInv => PinsMatchUsage
    <2> SUFFICES ASSUME IInv PROVE PinsMatchUsage
      OBVIOUS
    <2>1. P!CountsAreRight(cache, Pins)
      BY CacheFacts DEF P!Kept
    <2>2. P!InTable(cache) = Cache!InTable(cache)
      BY Zenon DEF P!InTable, P!Cached, Cache!InTable, Cache!Cached
    <2> QED
      BY <2>1, <2>2 DEF P!CountsAreRight, PinsMatchUsage, Cache!UsageIsExact, Pins
  <1> QED
    BY <1>1, ClientsInvariance, PTL

\* The clients use the cache as NcsCache says they may: what NcsCache_proofs
\* proves of a cache used so holds of the cache of the running program.
THEOREM CacheIsImplemented == ClientsSpec => CacheIsUsedAsSpecified
  <1>1. ClientsInit => Cache!CacheInit
    BY InitCache
  <1>2. IInv /\ [ClientsNext]_vars => [Cache!CacheNext]_(Cache!cvars)
    <2> SUFFICES ASSUME IInv, [ClientsNext]_vars PROVE [Cache!CacheNext]_(Cache!cvars)
      OBVIOUS
    <2>1. [P!CacheNext]_(P!cvars)
      BY StepGood DEF Good
    <2> QED
      BY <2>1, SameNext
  <1> QED
    BY <1>1, <1>2, ClientsInvariance, PTL DEF ClientsSpec, CacheIsUsedAsSpecified, Cache!CacheSpec
=============================================================================
