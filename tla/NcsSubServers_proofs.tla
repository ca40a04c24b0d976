------------------------ MODULE NcsSubServers_proofs ------------------------
(***************************************************************************)
(* The servers behind ntvcached keep every request: whatever is handed     *)
(* out, answered, given up and tried again, the collection's counts are    *)
(* exact, every query at a server is listened for, and the collection does *)
(* what NcsBackend promises, for any requests, servers and slots.          *)
(***************************************************************************)
EXTENDS NcsSubServers, NcsLists_proofs

States == {"closed", "syn", "made", "failed", "open", "broken"}

\* A collection is a record with these fields, each of its type.
IsPool(p) ==
    /\ p = [queue |-> p.queue, oq |-> p.oq, sending |-> p.sending, noq |-> p.noq,
            tnoq |-> p.tnoq, tmoq |-> p.tmoq, receiving |-> p.receiving, dead |-> p.dead,
            tried |-> p.tried, sock |-> p.sock, inbox |-> p.inbox, failures |-> p.failures]
    /\ p.queue \in Seq(Key)
    /\ DOMAIN p.oq = Server
    /\ \A s \in Server : p.oq[s] \in [Slots(s) -> Key \cup {"none"}]
    /\ p.sending \in [Server -> Seq(Nat)]
    /\ p.inbox \in [Server -> Seq(Nat)]
    /\ p.noq \in [Server -> Nat]
    /\ p.sock \in [Server -> States]
    /\ p.receiving \subseteq Server
    /\ p.dead \in Seq(Server)

\* noq, total_noq and total_moq count what they are there to count.
CountsOK(p) ==
    /\ \A s \in Server : p.noq[s] = Cardinality(Active(p, s))
    /\ p.tnoq = Cardinality(Busy(p))
    /\ p.tmoq = Cardinality(SlotsOf(Server \ ToSet(p.dead)))

\* Slots on the sending list and those whose answers have come hold queries,
\* and no slot is both: no query is answered twice, or before it is out.
SlotsOK(p) ==
    \A s \in Server :
        /\ ToSet(p.sending[s]) \subseteq Active(p, s)
        /\ ToSet(p.inbox[s]) \subseteq Active(p, s)
        /\ ToSet(p.sending[s]) \cap ToSet(p.inbox[s]) = {}
        /\ IsInjective(p.inbox[s])

\* A server with queries is listened to, and one given up has none.
WatchedOK(p) ==
    /\ \A s \in Server : s \in p.receiving <=> p.noq[s] > 0
    /\ \A s \in ToSet(p.dead) : p.noq[s] = 0 /\ p.sock[s] = "closed"
    /\ IsInjective(p.dead)

\* All but those of the servers in S that have queries have a connection.
ConnectedBut(p, S) == \A s \in p.receiving \ S : p.sock[s] # "closed"

Whole(p, S) ==
    IsPool(p) /\ CountsOK(p) /\ SlotsOK(p) /\ WatchedOK(p) /\ ConnectedBut(p, S)

\* What select named in this pass is still there to be read and written.
PassOK ==
    /\ phase \in {"before", "clients", "io"}
    /\ toRead \subseteq pool.receiving
    /\ toWrite \subseteq {s \in Server : pool.sending[s] # <<>>}
    /\ phase = "before" => toRead = {} /\ toWrite = {}

\* The inductive invariant.
IInv == Whole(pool, {}) /\ PassOK

-----------------------------------------------------------------------------
(* Slots. *)

\* A server has moq slots, numbered from 0.
LEMMA SlotsFacts ==
    ASSUME NEW s \in Server
    PROVE  /\ Moq[s] \in Nat \ {0}
           /\ IsFiniteSet(Slots(s)) /\ Cardinality(Slots(s)) = Moq[s] /\ Slots(s) \subseteq Nat
  <1>1. Moq[s] \in Nat \ {0}
    BY TableAssumption
  <1>2. 0 \in Int /\ Moq[s] - 1 \in Int
    BY <1>1
  <1>3. /\ IsFiniteSet(0 .. Moq[s] - 1)
        /\ Cardinality(0 .. Moq[s] - 1) = IF 0 > Moq[s] - 1 THEN 0 ELSE Moq[s] - 1 - 0 + 1
    BY <1>2, FS_Interval
  <1>4. Cardinality(0 .. Moq[s] - 1) = Moq[s]
    BY <1>1, <1>3
  <1> QED
    BY <1>1, <1>3, <1>4 DEF Slots

\* A slot belongs to one server.
LEMMA SlotsOfMembers ==
    ASSUME NEW S
    PROVE  \A x : x \in SlotsOf(S) <=> \E s \in S : \E i \in Slots(s) : x = <<s, i>>
  BY DEF SlotsOf

\* One server more has its slots more.
LEMMA SlotsOfUnion ==
    ASSUME NEW S, NEW s
    PROVE  SlotsOf(S \cup {s}) = SlotsOf(S) \cup ({s} \X Slots(s))
  BY DEF SlotsOf

\* All the servers together have finitely many slots.
LEMMA SlotsFinite == IsFiniteSet(SlotsOf(Server))
  <1> DEFINE first(n) == {Table[i] : i \in 1 .. n}
             T == {n \in 0 .. Len(Table) : ~ IsFiniteSet(SlotsOf(first(n)))}
  <1>1. Len(Table) \in Nat /\ DOMAIN Table = 1 .. Len(Table) /\ Table \in [1 .. Len(Table) -> Server]
    BY TableAssumption
  <1>2. T = {}
    <2> SUFFICES ASSUME T # {} PROVE FALSE
      OBVIOUS
    <2>1. PICK n \in T : \A m \in T : n <= m
      <3>1. T \subseteq Nat
        BY <1>1
      <3> HIDE DEF T
      <3> QED
        BY <3>1, LeastExists
    <2>2. CASE n = 0
      <3>1. SlotsOf(first(0)) = {}
        BY DEF SlotsOf
      <3> QED
        BY <2>1, <2>2, <3>1, FS_EmptySet
    <2>3. CASE n # 0
      <3>1. n \in Nat /\ n - 1 \in 0 .. Len(Table) /\ ~(n <= n - 1) /\ n \in 1 .. Len(Table)
        BY <1>1, <2>3
      <3>2. IsFiniteSet(SlotsOf(first(n - 1)))
        BY <2>1, <3>1
      <3>3. first(n) = first(n - 1) \cup {Table[n]}
        <4>1. 1 .. n = (1 .. n - 1) \cup {n}
          BY <3>1
        <4> QED
          BY <4>1
      <3>4. IsFiniteSet({Table[n]} \X Slots(Table[n]))
        BY <1>1, <3>1, SlotsFacts, Tagged
      <3> HIDE DEF first
      <3>5. SlotsOf(first(n)) = SlotsOf(first(n - 1)) \cup ({Table[n]} \X Slots(Table[n]))
        BY <3>3, SlotsOfUnion
      <3> DEFINE before == SlotsOf(first(n - 1))
                 more == {Table[n]} \X Slots(Table[n])
      <3>6. IsFiniteSet(before) /\ IsFiniteSet(more)
        BY <3>2, <3>4
      <3> HIDE DEF before, more
      <3>7. IsFiniteSet(before \cup more)
        BY <3>6, FS_Union
      <3>8. IsFiniteSet(SlotsOf(first(n)))
        BY <3>5, <3>7 DEF before, more
      <3> QED
        BY <3>8
    <2> QED
      BY <2>2, <2>3
  <1>3. Len(Table) \in 0 .. Len(Table)
    BY <1>1
  <1>4. first(Len(Table)) = Server
    BY <1>1 DEF Server, ToSet
  <1> HIDE DEF first
  <1> QED
    BY <1>2, <1>3, <1>4

\* What servers have between them, one server more or less.
LEMMA SlotsOfOne ==
    ASSUME NEW S, S \subseteq Server, NEW s \in Server, s \notin S
    PROVE  /\ IsFiniteSet(SlotsOf(S))
           /\ Cardinality(SlotsOf(S \cup {s})) = Cardinality(SlotsOf(S)) + Moq[s]
  <1>1. SlotsOf(S) \subseteq SlotsOf(Server)
    BY DEF SlotsOf
  <1>2. IsFiniteSet(SlotsOf(S))
    BY <1>1, SlotsFinite, FS_Subset
  <1>3. IsFiniteSet({s} \X Slots(s)) /\ Cardinality({s} \X Slots(s)) = Moq[s]
    BY SlotsFacts, Tagged
  <1>4. SlotsOf(S) \cap ({s} \X Slots(s)) = {}
    BY DEF SlotsOf
  <1> QED
    BY <1>2, <1>3, <1>4, SlotsOfUnion, DisjointSize

-----------------------------------------------------------------------------
(* What is in the slots. *)

\* The slots with one of the requests in K; those of one server, whose slots
\* are w; those of the other servers.
Holding(oq, K) == {x \in SlotsOf(Server) : oq[x[1]][x[2]] \in K}
Here(w, s, K) == {i \in Slots(s) : w[i] \in K}
Elsewhere(oq, s, K) == {x \in Holding(oq, K) : x[1] # s}

\* What is in the slots is at this server or elsewhere.
LEMMA HoldingSplit ==
    ASSUME NEW oq, NEW s \in Server, NEW K
    PROVE  /\ Cardinality(Holding(oq, K)) =
                 Cardinality(Elsewhere(oq, s, K)) + Cardinality(Here(oq[s], s, K))
           /\ Cardinality(Elsewhere(oq, s, K)) \in Nat
           /\ IsFiniteSet(Here(oq[s], s, K)) /\ Cardinality(Here(oq[s], s, K)) \in Nat
  <1> DEFINE H == Here(oq[s], s, K)
             E == Elsewhere(oq, s, K)
             T == {s} \X H
  <1>1. IsFiniteSet(H)
    <2>1. H \subseteq Slots(s)
      BY DEF Here
    <2> QED
      BY <2>1, SlotsFacts, FS_Subset
  <1>2. IsFiniteSet(E)
    <2>1. E \subseteq SlotsOf(Server)
      BY DEF Elsewhere, Holding
    <2> QED
      BY <2>1, SlotsFinite, FS_Subset
  <1>3. IsFiniteSet(T) /\ Cardinality(T) = Cardinality(H)
    <2> HIDE DEF H
    <2> QED
      BY <1>1, Tagged
  <1>4. T \subseteq Holding(oq, K)
    <2> SUFFICES ASSUME NEW x \in T PROVE x \in Holding(oq, K)
      OBVIOUS
    <2>1. x[1] = s /\ x[2] \in H /\ x = <<s, x[2]>>
      OBVIOUS
    <2>2. x[2] \in Slots(s) /\ oq[s][x[2]] \in K
      BY <2>1 DEF Here
    <2>3. x \in SlotsOf(Server)
      BY <2>1, <2>2, SlotsOfMembers
    <2> HIDE DEF T
    <2> QED
      BY <2>1, <2>2, <2>3 DEF Holding
  <1>5. ASSUME NEW x \in Holding(oq, K), x[1] = s PROVE x \in T
    <2>1. x \in SlotsOf(Server) /\ oq[x[1]][x[2]] \in K
      BY DEF Holding
    <2>2. PICK t \in Server : \E j \in Slots(t) : x = <<t, j>>
      BY <2>1, SlotsOfMembers
    <2>3. PICK i \in Slots(t) : x = <<t, i>>
      BY <2>2
    <2>4. t = s /\ i \in H
      BY <1>5, <2>1, <2>3 DEF Here
    <2> HIDE DEF H
    <2> QED
      BY <2>3, <2>4
  <1>6. \A x \in T : x[1] = s
    OBVIOUS
  <1> HIDE DEF T, H
  <1>7. Holding(oq, K) = E \cup T /\ E \cap T = {}
    BY <1>4, <1>5, <1>6 DEF Elsewhere
  <1> HIDE DEF E
  <1>8. Cardinality(E) \in Nat /\ Cardinality(H) \in Nat
    BY <1>1, <1>2, FS_CardinalityType
  <1> QED
    BY <1>1, <1>2, <1>3, <1>7, <1>8, DisjointSize DEF E, H

\* When only the slots of one server change, what changes there changes of all.
SameBut(s, o, r) == \A t \in Server \ {s} : r[t] = o[t]

\* Elsewhere nothing changes, so the sums do as the server's own.
LEMMA HoldingChange ==
    ASSUME NEW s \in Server, NEW o, NEW r, SameBut(s, o, r), NEW K
    PROVE  /\ Cardinality(Holding(o, K)) \in Nat
           /\ Cardinality(Here(o[s], s, K)) \in Nat
           /\ Cardinality(Here(r[s], s, K)) \in Nat
           /\ Cardinality(Holding(r, K)) = Cardinality(Holding(o, K))
                 - Cardinality(Here(o[s], s, K)) + Cardinality(Here(r[s], s, K))
  <1>1. Elsewhere(o, s, K) = Elsewhere(r, s, K)
    <2>1. \A x \in SlotsOf(Server) : x[1] \in Server
      BY SlotsOfMembers
    <2> QED
      BY <2>1 DEF Elsewhere, Holding, SameBut
  <1> DEFINE e == Cardinality(Elsewhere(o, s, K))
             a == Cardinality(Here(o[s], s, K))
             b == Cardinality(Here(r[s], s, K))
  <1>2. /\ Cardinality(Holding(o, K)) = e + a
        /\ Cardinality(Holding(r, K)) = e + b
        /\ e \in Nat /\ a \in Nat /\ b \in Nat
    BY <1>1, HoldingSplit
  <1> HIDE DEF e, a, b
  <1>3. e + b = (e + a) - a + b /\ e + a \in Nat
    BY <1>2
  <1> QED
    BY <1>2, <1>3 DEF a, b

\* A slot takes a request, or loses it.
SlotsBut(s, i, w, v) == \A j \in Slots(s) \ {i} : v[j] = w[j]

\* One slot more holds one of K.
LEMMA HerePut ==
    ASSUME NEW s \in Server, NEW i \in Slots(s), NEW w, NEW v, SlotsBut(s, i, w, v),
           NEW K, w[i] \notin K, v[i] \in K
    PROVE  Cardinality(Here(v, s, K)) = Cardinality(Here(w, s, K)) + 1
  <1>1. Here(v, s, K) = Here(w, s, K) \cup {i} /\ i \notin Here(w, s, K)
    BY DEF Here, SlotsBut
  <1>2. Here(w, s, K) \subseteq Slots(s)
    BY DEF Here
  <1>3. IsFiniteSet(Here(w, s, K))
    BY <1>2, SlotsFacts, FS_Subset
  <1> QED
    BY <1>1, <1>3, FS_AddElement

\* Slots hold requests or nothing, as the model says it.
LEMMA HoldingAre ==
    ASSUME NEW p, IsPool(p)
    PROVE  /\ Busy(p) = Holding(p.oq, Key)
           /\ \A s \in Server : Active(p, s) = Here(p.oq[s], s, Key)
           /\ \A k : Count(p, k) = Occurrences(p.queue, k) + Cardinality(Holding(p.oq, {k}))
           /\ \A s \in Server : Active(p, s) \subseteq Slots(s)
           /\ \A s \in Server : IsFiniteSet(Active(p, s))
  <1>1. \A s \in Server : \A i \in Slots(s) : p.oq[s][i] \in Key \cup {"none"}
    BY DEF IsPool
  <1>2. \A s \in Server : \A i \in Slots(s) : p.oq[s][i] # "none" <=> p.oq[s][i] \in Key
    BY <1>1, KeyAssumption
  <1>3. \A x \in SlotsOf(Server) : p.oq[x[1]][x[2]] # "none" <=> p.oq[x[1]][x[2]] \in Key
    BY <1>2, SlotsOfMembers
  <1>4. Busy(p) = Holding(p.oq, Key)
    BY <1>3 DEF Busy, Holding
  <1>5. \A s \in Server : Active(p, s) = Here(p.oq[s], s, Key)
    BY <1>2 DEF Active, Here
  <1>6. ASSUME NEW k
        PROVE  Count(p, k) = Occurrences(p.queue, k) + Cardinality(Holding(p.oq, {k}))
    <2>1. {x \in SlotsOf(Server) : p.oq[x[1]][x[2]] = k} = Holding(p.oq, {k})
      BY DEF Holding
    <2> QED
      BY <2>1 DEF Count
  <1>7. \A s \in Server : Active(p, s) \subseteq Slots(s)
    BY DEF Active
  <1>8. \A s \in Server : IsFiniteSet(Active(p, s))
    BY <1>7, SlotsFacts, FS_Subset
  <1> QED
    BY <1>4, <1>5, <1>6, <1>7, <1>8

-----------------------------------------------------------------------------
(* A server is given up. *)

\* The collection as a record of all its fields: what an operation returns.
AsRecord(p) ==
    [queue |-> p.queue, oq |-> p.oq, sending |-> p.sending, noq |-> p.noq,
     tnoq |-> p.tnoq, tmoq |-> p.tmoq, receiving |-> p.receiving, dead |-> p.dead,
     tried |-> p.tried, sock |-> p.sock, inbox |-> p.inbox, failures |-> p.failures]

\* The queries of the given server, from its last slot to its first.
Back(p, s) ==
    LET slots == Reverse(InOrder(Active(p, s)))
    IN  [j \in DOMAIN slots |-> p.oq[s][slots[j]]]

\* d is p without the server s: what subserver_possibly_dead makes of its fields.
GivenUp(p, s, d) ==
    /\ d = AsRecord(d)
    /\ d.queue = Back(p, s) \o p.queue
    /\ d.oq = [p.oq EXCEPT ![s] = NoQueries(s)]
    /\ d.sending = [p.sending EXCEPT ![s] = <<>>]
    /\ d.inbox = [p.inbox EXCEPT ![s] = <<>>]
    /\ d.receiving = p.receiving \ {s}
    /\ d.tmoq = p.tmoq - Moq[s] /\ d.tnoq = p.tnoq - p.noq[s]
    /\ d.noq = [p.noq EXCEPT ![s] = 0]
    /\ d.sock = [p.sock EXCEPT ![s] = "closed"]
    /\ d.dead = Append(p.dead, s)

\* PossiblyDead is field by field what GivenUp says.
LEMMA PossiblyDeadFields ==
    ASSUME NEW p, IsPool(p), NEW s
    PROVE  GivenUp(p, s, PossiblyDead(p, s))
  <1>1. p = AsRecord(p)
    BY DEF IsPool, AsRecord
  <1>2. PICK back : back = Back(p, s)
    OBVIOUS
  <1>3. PICK none : none = NoQueries(s)
    OBVIOUS
  <1>4. PICK m : m = Moq[s]
    OBVIOUS
  <1>5. PICK d : d = PossiblyDead(p, s)
    OBVIOUS
  <1>6. d = [p EXCEPT !.queue = back \o @,
                      !.oq[s] = none, !.sending[s] = <<>>, !.receiving = @ \ {s},
                      !.tmoq = @ - m, !.tnoq = @ - p.noq[s], !.noq[s] = 0,
                      !.sock[s] = "closed", !.inbox[s] = <<>>, !.dead = Append(@, s)]
    BY <1>2, <1>3, <1>4, <1>5, Zenon DEF PossiblyDead, Back
  <1>7. /\ d = AsRecord(d)
        /\ d.queue = back \o p.queue
        /\ d.oq = [p.oq EXCEPT ![s] = none]
        /\ d.sending = [p.sending EXCEPT ![s] = <<>>]
        /\ d.inbox = [p.inbox EXCEPT ![s] = <<>>]
        /\ d.receiving = p.receiving \ {s}
        /\ d.tmoq = p.tmoq - m /\ d.tnoq = p.tnoq - p.noq[s]
        /\ d.noq = [p.noq EXCEPT ![s] = 0]
        /\ d.sock = [p.sock EXCEPT ![s] = "closed"]
        /\ d.dead = Append(p.dead, s)
    BY <1>1, <1>6 DEF AsRecord
  <1>8. GivenUp(p, s, d)
    BY <1>2, <1>3, <1>4, <1>7, Zenon DEF GivenUp
  <1> QED
    BY <1>5, <1>8, Zenon

\* Each query of the server is among them once.
LEMMA BackFacts ==
    ASSUME NEW p, IsPool(p), NEW s \in Server
    PROVE  /\ Back(p, s) \in Seq(Key)
           /\ \A k \in Key : Occurrences(Back(p, s), k) = Cardinality(Here(p.oq[s], s, {k}))
  <1> DEFINE A == Active(p, s)
             n == Cardinality(A)
             g == InOrder(A)
             h == Reverse(g)
             b == Back(p, s)
  <1>1. A \subseteq Nat /\ IsFiniteSet(A) /\ A \subseteq Slots(s)
    BY HoldingAre, SlotsFacts
  <1>2. /\ g \in [1 .. n -> A] /\ n \in Nat
        /\ \A i, j \in 1 .. n : g[i] = g[j] => i = j
        /\ \A a \in A : \E i \in 1 .. n : g[i] = a
    <2> HIDE DEF A
    <2> QED
      BY <1>1, InOrderFacts
  <1>3. \A i \in A : p.oq[s][i] \in Key
    BY <1>1 DEF IsPool, Active
  <1>4. \A k \in Key : \A i \in Slots(s) : i \in Here(p.oq[s], s, {k}) <=> i \in A /\ p.oq[s][i] = k
    BY KeyAssumption DEF Here, Active
  <1> HIDE DEF A, n, g
  <1>5. Len(g) = n
    BY <1>2
  <1>6. h = [i \in 1 .. n |-> g[(n - i) + 1]]
    BY <1>5 DEF Reverse
  <1>7. \A i \in 1 .. n : (n - i) + 1 \in 1 .. n
    BY <1>2
  <1>8. h \in [1 .. n -> A] /\ DOMAIN h = 1 .. n
    BY <1>2, <1>6, <1>7
  <1>9. \A i, j \in 1 .. n : h[i] = h[j] => i = j
    <2> SUFFICES ASSUME NEW i \in 1 .. n, NEW j \in 1 .. n, h[i] = h[j] PROVE i = j
      OBVIOUS
    <2>1. g[(n - i) + 1] = g[(n - j) + 1]
      BY <1>6
    <2>2. (n - i) + 1 = (n - j) + 1
      BY <1>2, <1>7, <2>1
    <2> QED
      BY <1>2, <2>2
  <1>10. \A a \in A : \E i \in 1 .. n : h[i] = a
    <2> SUFFICES ASSUME NEW a \in A PROVE \E i \in 1 .. n : h[i] = a
      OBVIOUS
    <2>1. PICK j \in 1 .. n : g[j] = a
      BY <1>2
    <2>2. (n - j) + 1 \in 1 .. n /\ (n - ((n - j) + 1)) + 1 = j
      BY <1>2
    <2> QED
      BY <1>6, <2>1, <2>2
  <1>11. b = [j \in 1 .. n |-> p.oq[s][h[j]]]
    BY <1>8 DEF Back, A, g, h
  <1> HIDE DEF h, b
  <1>12. b \in [1 .. n -> Key]
    BY <1>3, <1>8, <1>11
  <1>13. b \in Seq(Key) /\ DOMAIN b = 1 .. n
    BY <1>2, <1>12
  <1>14. ASSUME NEW k \in Key
         PROVE  Occurrences(b, k) = Cardinality(Here(p.oq[s], s, {k}))
    <2> DEFINE U == {i \in DOMAIN b : b[i] = k}
               V == Here(p.oq[s], s, {k})
               N == 1 .. n
    <2>1. U \subseteq N /\ V \subseteq A
      BY <1>1, <1>4, <1>13 DEF Here
    <2>2. \A i \in N : i \in U <=> h[i] \in V
      <3> SUFFICES ASSUME NEW i \in N PROVE i \in U <=> h[i] \in V
        OBVIOUS
      <3>1. h[i] \in A /\ h[i] \in Slots(s) /\ b[i] = p.oq[s][h[i]]
        BY <1>1, <1>8, <1>11
      <3> QED
        BY <1>4, <1>13, <3>1
    <2>3. IsFiniteSet(N)
      BY <1>2, FS_Interval
    <2>4. /\ h \in [N -> A]
          /\ \A i, j \in N : h[i] = h[j] => i = j
          /\ \A a \in A : \E i \in N : h[i] = a
      BY <1>8, <1>9, <1>10
    <2> HIDE DEF U, V, N
    <2>5. Matches(h, N, A) /\ Parts(h, N, A, U, V)
      BY <2>1, <2>2, <2>4 DEF Matches, Parts
    <2>6. Cardinality(U) = Cardinality(V)
      BY <2>3, <2>5, PartsMatch
    <2> QED
      BY <2>6 DEF Occurrences, U, V
  <1> QED
    BY <1>13, <1>14 DEF b

\* Nothing is in the slots of a server that was given up.
LEMMA NothingHere ==
    ASSUME NEW s \in Server, NEW K, "none" \notin K
    PROVE  Here(NoQueries(s), s, K) = {} /\ Cardinality(Here(NoQueries(s), s, K)) = 0
  <1>1. Here(NoQueries(s), s, K) = {}
    BY DEF Here, NoQueries
  <1> QED
    BY <1>1, FS_EmptySet

\* subserver_possibly_dead
LEMMA GivenUpWhole ==
    ASSUME NEW p, NEW s \in Server, Whole(p, {s}), s \notin ToSet(p.dead),
           NEW d, GivenUp(p, s, d)
    PROVE  /\ Whole(d, {})
           /\ \A k \in Key : Count(d, k) = Count(p, k)
           /\ Len(d.queue) >= Len(p.queue)
           /\ d.receiving = p.receiving \ {s}
           /\ \A t \in Server \ {s} : d.sending[t] = p.sending[t]
  <1>0. IsPool(p)
    BY DEF Whole
  <1>1. /\ d = AsRecord(d)
        /\ d.queue = Back(p, s) \o p.queue
        /\ d.oq = [p.oq EXCEPT ![s] = NoQueries(s)]
        /\ d.sending = [p.sending EXCEPT ![s] = <<>>]
        /\ d.inbox = [p.inbox EXCEPT ![s] = <<>>]
        /\ d.receiving = p.receiving \ {s}
        /\ d.tmoq = p.tmoq - Moq[s] /\ d.tnoq = p.tnoq - p.noq[s]
        /\ d.noq = [p.noq EXCEPT ![s] = 0]
        /\ d.sock = [p.sock EXCEPT ![s] = "closed"]
        /\ d.dead = Append(p.dead, s)
    BY DEF GivenUp
  <1>2. /\ p.queue \in Seq(Key) /\ DOMAIN p.oq = Server
        /\ \A t \in Server : p.oq[t] \in [Slots(t) -> Key \cup {"none"}]
        /\ p.sending \in [Server -> Seq(Nat)] /\ p.inbox \in [Server -> Seq(Nat)]
        /\ p.noq \in [Server -> Nat] /\ p.sock \in [Server -> States]
        /\ p.receiving \subseteq Server /\ p.dead \in Seq(Server)
    BY <1>0 DEF IsPool
  <1>3. /\ Back(p, s) \in Seq(Key)
        /\ \A k \in Key : Occurrences(Back(p, s), k) = Cardinality(Here(p.oq[s], s, {k}))
    BY <1>0, BackFacts
  <1>4. d.queue \in Seq(Key) /\ Len(d.queue) >= Len(p.queue)
    <2> DEFINE b == Back(p, s)
    <2>1. b \in Seq(Key) /\ p.queue \in Seq(Key) /\ d.queue = b \o p.queue
      BY <1>1, <1>2, <1>3
    <2> HIDE DEF b
    <2> QED
      BY <2>1
  <1>5. /\ d.oq[s] = NoQueries(s) /\ \A t \in Server \ {s} : d.oq[t] = p.oq[t]
        /\ DOMAIN d.oq = Server
    BY <1>1, <1>2
  <1>6. \A t \in Server : d.oq[t] \in [Slots(t) -> Key \cup {"none"}]
    <2>1. NoQueries(s) \in [Slots(s) -> Key \cup {"none"}]
      BY DEF NoQueries
    <2> QED
      BY <1>2, <1>5, <2>1
  <1>7. /\ d.sending \in [Server -> Seq(Nat)] /\ d.inbox \in [Server -> Seq(Nat)]
        /\ d.sending[s] = <<>> /\ d.inbox[s] = <<>>
        /\ \A t \in Server \ {s} : d.sending[t] = p.sending[t] /\ d.inbox[t] = p.inbox[t]
    <2>1. <<>> \in Seq(Nat)
      OBVIOUS
    <2> QED
      BY <1>1, <1>2, <2>1
  <1>8. d.noq \in [Server -> Nat] /\ d.noq[s] = 0 /\ \A t \in Server \ {s} : d.noq[t] = p.noq[t]
    BY <1>1, <1>2
  <1>9. /\ d.sock \in [Server -> States] /\ d.sock[s] = "closed"
        /\ \A t \in Server \ {s} : d.sock[t] = p.sock[t]
    BY <1>1, <1>2 DEF States
  <1>10. d.receiving \subseteq Server /\ d.dead \in Seq(Server) /\ ToSet(d.dead) = ToSet(p.dead) \cup {s}
    <2>1. /\ Len(p.dead) \in Nat /\ DOMAIN p.dead = 1 .. Len(p.dead)
          /\ DOMAIN d.dead = 1 .. Len(p.dead) + 1 /\ d.dead \in Seq(Server)
          /\ d.dead[Len(p.dead) + 1] = s
          /\ \A i \in 1 .. Len(p.dead) : d.dead[i] = p.dead[i]
      BY <1>1, <1>2
    <2>2. /\ \A i \in 1 .. Len(p.dead) + 1 : i \in 1 .. Len(p.dead) \/ i = Len(p.dead) + 1
          /\ \A i \in 1 .. Len(p.dead) : i \in 1 .. Len(p.dead) + 1
          /\ Len(p.dead) + 1 \in 1 .. Len(p.dead) + 1
      BY <2>1
    <2>3. ToSet(d.dead) = {d.dead[i] : i \in 1 .. Len(p.dead) + 1}
      BY <2>1 DEF ToSet
    <2>4. ToSet(p.dead) = {p.dead[i] : i \in 1 .. Len(p.dead)}
      BY <2>1 DEF ToSet
    <2>5. ToSet(d.dead) = ToSet(p.dead) \cup {s}
      BY <2>1, <2>2, <2>3, <2>4
    <2> QED
      BY <1>1, <1>2, <2>1, <2>5
  <1>11. IsPool(d)
    BY <1>1, <1>4, <1>5, <1>6, <1>7, <1>8, <1>9, <1>10 DEF IsPool, AsRecord
  <1>12. IsInjective(d.dead)
    <2>1. Len(p.dead) \in Nat /\ DOMAIN p.dead = 1 .. Len(p.dead)
      BY <1>2
    <2>2. \A i, j \in 1 .. Len(p.dead) : p.dead[i] = p.dead[j] => i = j
      BY <2>1 DEF Whole, WatchedOK, IsInjective
    <2>3. \A i \in 1 .. Len(p.dead) : p.dead[i] # s
      BY <2>1 DEF ToSet
    <2>4. /\ DOMAIN d.dead = 1 .. Len(p.dead) + 1
          /\ d.dead[Len(p.dead) + 1] = s
          /\ \A i \in 1 .. Len(p.dead) : d.dead[i] = p.dead[i]
      BY <1>1, <1>2
    <2>5. \A i \in 1 .. Len(p.dead) + 1 : i \in 1 .. Len(p.dead) \/ i = Len(p.dead) + 1
      BY <2>1
    <2> QED
      BY <2>2, <2>3, <2>4, <2>5 DEF IsInjective
  <1>13. WatchedOK(d)
    <2>1. \A t \in Server : t \in d.receiving <=> d.noq[t] > 0
      BY <1>1, <1>2, <1>8 DEF Whole, WatchedOK
    <2>2. \A t \in ToSet(d.dead) : d.noq[t] = 0 /\ d.sock[t] = "closed"
      <3>1. ToSet(p.dead) \subseteq Server
        BY <1>2 DEF ToSet
      <3> QED
        BY <1>8, <1>9, <1>10, <3>1 DEF Whole, WatchedOK
    <2> QED
      BY <1>12, <2>1, <2>2 DEF WatchedOK
  <1>14. ConnectedBut(d, {})
    BY <1>1, <1>2, <1>9 DEF Whole, ConnectedBut
  <1>15. SlotsOK(d)
    <2> SUFFICES ASSUME NEW t \in Server
                 PROVE  /\ ToSet(d.sending[t]) \subseteq Active(d, t)
                        /\ ToSet(d.inbox[t]) \subseteq Active(d, t)
                        /\ ToSet(d.sending[t]) \cap ToSet(d.inbox[t]) = {}
                        /\ IsInjective(d.inbox[t])
      BY DEF SlotsOK
    <2>1. CASE t = s
      <3>1. ToSet(<<>>) = {} /\ IsInjective(<<>>)
        BY DEF ToSet, IsInjective
      <3> QED
        BY <1>7, <2>1, <3>1
    <2>2. CASE t # s
      <3>1. Active(d, t) = Active(p, t)
        BY <1>5, <2>2 DEF Active
      <3> QED
        BY <1>7, <2>2, <3>1 DEF Whole, SlotsOK
    <2> QED
      BY <2>1, <2>2
  <1>16. CountsOK(d)
    <2>1. \A t \in Server : d.noq[t] = Cardinality(Active(d, t))
      <3> SUFFICES ASSUME NEW t \in Server PROVE d.noq[t] = Cardinality(Active(d, t))
        OBVIOUS
      <3>1. CASE t = s
        <4>1. Active(d, s) = {}
          BY <1>5 DEF Active, NoQueries
        <4> QED
          BY <1>8, <3>1, <4>1, FS_EmptySet
      <3>2. CASE t # s
        <4>1. Active(d, t) = Active(p, t)
          BY <1>5, <3>2 DEF Active
        <4> QED
          BY <1>8, <3>2, <4>1 DEF Whole, CountsOK
      <3> QED
        BY <3>1, <3>2
    <2>2. d.tnoq = Cardinality(Busy(d))
      <3>0. SameBut(s, p.oq, d.oq)
        BY <1>5 DEF SameBut
      <3>1. /\ Cardinality(Holding(p.oq, Key)) \in Nat
            /\ Cardinality(Here(p.oq[s], s, Key)) \in Nat
            /\ Cardinality(Holding(d.oq, Key)) = Cardinality(Holding(p.oq, Key))
                  - Cardinality(Here(p.oq[s], s, Key)) + Cardinality(Here(d.oq[s], s, Key))
        BY <3>0, HoldingChange
      <3>2. Cardinality(Here(d.oq[s], s, Key)) = 0
        BY <1>5, NothingHere, KeyAssumption
      <3>3. p.tnoq = Cardinality(Holding(p.oq, Key)) /\ p.noq[s] = Cardinality(Here(p.oq[s], s, Key))
        BY <1>0, HoldingAre DEF Whole, CountsOK
      <3>4. Busy(d) = Holding(d.oq, Key)
        BY <1>11, HoldingAre
      <3> QED
        BY <1>1, <3>1, <3>2, <3>3, <3>4
    <2>3. d.tmoq = Cardinality(SlotsOf(Server \ ToSet(d.dead)))
      <3> DEFINE S == Server \ ToSet(d.dead)
      <3>1. s \notin S /\ S \subseteq Server /\ S \cup {s} = Server \ ToSet(p.dead)
        BY <1>10
      <3> HIDE DEF S
      <3>2. IsFiniteSet(SlotsOf(S)) /\ Cardinality(SlotsOf(S \cup {s})) = Cardinality(SlotsOf(S)) + Moq[s]
        BY <3>1, SlotsOfOne
      <3>3. Cardinality(SlotsOf(S)) \in Nat /\ Moq[s] \in Nat
        BY <3>2, FS_CardinalityType, SlotsFacts
      <3>4. p.tmoq = Cardinality(SlotsOf(S)) + Moq[s]
        BY <3>1, <3>2 DEF Whole, CountsOK
      <3>5. d.tmoq = Cardinality(SlotsOf(S))
        BY <1>1, <3>3, <3>4
      <3> QED
        BY <3>5 DEF S
    <2> QED
      BY <2>1, <2>2, <2>3 DEF CountsOK
  <1>17. ASSUME NEW k \in Key PROVE Count(d, k) = Count(p, k)
    <2>1. Occurrences(d.queue, k) = Cardinality(Here(p.oq[s], s, {k})) + Occurrences(p.queue, k)
      <3> DEFINE b == Back(p, s)
                 q == p.queue
      <3>1. b \in Seq(Key) /\ q \in Seq(Key)
        BY <1>2, <1>3
      <3> HIDE DEF b, q
      <3>2. Occurrences(b \o q, k) = Occurrences(b, k) + Occurrences(q, k)
        BY <3>1, OccurrencesConcat
      <3> QED
        BY <1>1, <1>3, <3>2 DEF b, q
    <2>0. SameBut(s, p.oq, d.oq)
      BY <1>5 DEF SameBut
    <2>2. /\ Cardinality(Holding(p.oq, {k})) \in Nat
          /\ Cardinality(Here(p.oq[s], s, {k})) \in Nat
          /\ Cardinality(Holding(d.oq, {k})) = Cardinality(Holding(p.oq, {k}))
                - Cardinality(Here(p.oq[s], s, {k})) + Cardinality(Here(d.oq[s], s, {k}))
      BY <2>0, HoldingChange
    <2>3. Cardinality(Here(d.oq[s], s, {k})) = 0
      BY <1>5, NothingHere, KeyAssumption
    <2>4. /\ Count(d, k) = Occurrences(d.queue, k) + Cardinality(Holding(d.oq, {k}))
          /\ Count(p, k) = Occurrences(p.queue, k) + Cardinality(Holding(p.oq, {k}))
      BY <1>0, <1>11, HoldingAre
    <2>5. Occurrences(p.queue, k) \in Nat
      BY <1>2, OccurrencesFinite
    <2> QED
      BY <2>1, <2>2, <2>3, <2>4, <2>5
  <1> QED
    BY <1>1, <1>4, <1>7, <1>11, <1>13, <1>14, <1>15, <1>16, <1>17 DEF Whole

\* The same of the operator of the model.
LEMMA PossiblyDeadWhole ==
    ASSUME NEW p, NEW s \in Server, Whole(p, {s}), s \notin ToSet(p.dead)
    PROVE  /\ Whole(PossiblyDead(p, s), {})
           /\ \A k \in Key : Count(PossiblyDead(p, s), k) = Count(p, k)
           /\ Len(PossiblyDead(p, s).queue) >= Len(p.queue)
           /\ PossiblyDead(p, s).receiving = p.receiving \ {s}
           /\ \A t \in Server \ {s} : PossiblyDead(p, s).sending[t] = p.sending[t]
  <1>1. IsPool(p)
    BY DEF Whole
  <1>2. GivenUp(p, s, PossiblyDead(p, s))
    BY <1>1, PossiblyDeadFields, Zenon
  <1> QED
    BY <1>2, GivenUpWhole

-----------------------------------------------------------------------------
(* A server gets a request. *)

\* q is p with the first request in the slot i of s: what
\* subserver_send_work_to_server makes of its fields before it connects.
Given(p, s, i, q) ==
    /\ q = AsRecord(q)
    /\ q.queue = Tail(p.queue)
    /\ q.oq = [p.oq EXCEPT ![s] = [p.oq[s] EXCEPT ![i] = Head(p.queue)]]
    /\ q.sending = [p.sending EXCEPT ![s] = Append(p.sending[s], i)]
    /\ q.noq = [p.noq EXCEPT ![s] = p.noq[s] + 1]
    /\ q.tnoq = p.tnoq + 1 /\ q.tmoq = p.tmoq
    /\ q.receiving = Listening(p, s)
    /\ q.dead = p.dead /\ q.sock = p.sock /\ q.inbox = p.inbox

\* SendWork is field by field what Given says, and then connects.
LEMMA SendWorkFields ==
    ASSUME NEW p, IsPool(p), NEW s
    PROVE  \E q : /\ Given(p, s, Min(Slots(s) \ Active(p, s)), q)
                  /\ SendWork(p, s) = IF p.sock[s] = "closed" THEN Connect(q, s) ELSE {q}
  <1>1. p = AsRecord(p)
    BY DEF IsPool, AsRecord
  <1>2. PICK i : i = Min(Slots(s) \ Active(p, s))
    OBVIOUS
  <1>3. PICK h : h = Head(p.queue)
    OBVIOUS
  <1>4. PICK all : all = Listening(p, s)
    OBVIOUS
  <1>5. PICK q : q = [p EXCEPT !.queue = Tail(@), !.oq[s][i] = h, !.sending[s] = Append(@, i),
                               !.noq[s] = @ + 1, !.tnoq = @ + 1,
                               !.receiving = all]
    OBVIOUS
  <1>6. SendWork(p, s) = IF p.sock[s] = "closed" THEN Connect(q, s) ELSE {q}
    <2>1. q = [p EXCEPT !.queue = Tail(@), !.oq[s][Min(Slots(s) \ Active(p, s))] = Head(p.queue),
                        !.sending[s] = Append(@, Min(Slots(s) \ Active(p, s))),
                        !.noq[s] = @ + 1, !.tnoq = @ + 1, !.receiving = Listening(p, s)]
      BY <1>2, <1>3, <1>4, <1>5, Zenon
    <2>2. CASE p.sock[s] = "closed"
      BY <2>1, <2>2 DEF SendWork
    <2>3. CASE p.sock[s] # "closed"
      BY <2>1, <2>3, Zenon DEF SendWork
    <2> QED
      BY <2>2, <2>3
  <1>7. /\ q = AsRecord(q)
        /\ q.queue = Tail(p.queue)
        /\ q.oq = [p.oq EXCEPT ![s] = [p.oq[s] EXCEPT ![i] = h]]
        /\ q.sending = [p.sending EXCEPT ![s] = Append(p.sending[s], i)]
        /\ q.noq = [p.noq EXCEPT ![s] = p.noq[s] + 1]
        /\ q.tnoq = p.tnoq + 1 /\ q.tmoq = p.tmoq
        /\ q.receiving = all
        /\ q.dead = p.dead /\ q.sock = p.sock /\ q.inbox = p.inbox
    BY <1>1, <1>5 DEF AsRecord
  <1>8. Given(p, s, i, q)
    BY <1>3, <1>4, <1>7, Zenon DEF Given
  <1> QED
    BY <1>2, <1>6, <1>8, Zenon

\* A request goes from the queue to a free slot: the server may lack a
\* connection, and nothing else is wrong.
LEMMA GivenWhole ==
    ASSUME NEW p, NEW s \in Server, Whole(p, {}), p.queue # <<>>, s \notin ToSet(p.dead),
           NEW i \in Slots(s) \ Active(p, s), NEW q, Given(p, s, i, q)
    PROVE  /\ Whole(q, {s}) /\ (p.sock[s] # "closed" => Whole(q, {}))
           /\ \A k \in Key : Count(q, k) = Count(p, k)
           /\ Len(q.queue) = Len(p.queue) - 1
           /\ q.dead = p.dead /\ q.sock = p.sock
  <1>0. IsPool(p)
    BY DEF Whole
  <1>1. /\ q = AsRecord(q)
        /\ q.queue = Tail(p.queue)
        /\ q.oq = [p.oq EXCEPT ![s] = [p.oq[s] EXCEPT ![i] = Head(p.queue)]]
        /\ q.sending = [p.sending EXCEPT ![s] = Append(p.sending[s], i)]
        /\ q.noq = [p.noq EXCEPT ![s] = p.noq[s] + 1]
        /\ q.tnoq = p.tnoq + 1 /\ q.tmoq = p.tmoq
        /\ q.receiving = Listening(p, s)
        /\ q.dead = p.dead /\ q.sock = p.sock /\ q.inbox = p.inbox
    BY DEF Given
  <1>2. /\ p.queue \in Seq(Key) /\ DOMAIN p.oq = Server
        /\ \A t \in Server : p.oq[t] \in [Slots(t) -> Key \cup {"none"}]
        /\ p.sending \in [Server -> Seq(Nat)] /\ p.inbox \in [Server -> Seq(Nat)]
        /\ p.noq \in [Server -> Nat] /\ p.sock \in [Server -> States]
        /\ p.receiving \subseteq Server /\ p.dead \in Seq(Server)
    BY <1>0 DEF IsPool
  <1> DEFINE h == Head(p.queue)
             w == p.oq[s]
             v == q.oq[s]
  <1>3. h \in Key /\ q.queue \in Seq(Key) /\ Len(q.queue) = Len(p.queue) - 1
    BY <1>1, <1>2, TailFacts
  <1>4. i \in Slots(s) /\ i \in Nat /\ w[i] = "none"
    BY SlotsFacts DEF Active
  <1>5. SameBut(s, p.oq, q.oq) /\ DOMAIN q.oq = Server
    BY <1>1, <1>2 DEF SameBut
  <1>6. v[i] = h /\ (\A j \in Slots(s) \ {i} : v[j] = w[j]) /\ v \in [Slots(s) -> Key \cup {"none"}]
    <2>1. v = [w EXCEPT ![i] = h]
      BY <1>1, <1>2
    <2>2. w \in [Slots(s) -> Key \cup {"none"}]
      BY <1>2
    <2> HIDE DEF v, w, h
    <2> QED
      BY <1>3, <1>4, <2>1, <2>2
  <1> HIDE DEF h, w, v
  <1>60. SlotsBut(s, i, w, v)
    BY <1>6 DEF SlotsBut
  <1>7. \A t \in Server : q.oq[t] \in [Slots(t) -> Key \cup {"none"}]
    BY <1>2, <1>5, <1>6 DEF SameBut, v
  <1>8. Active(q, s) = Active(p, s) \cup {i}
    BY <1>3, <1>4, <1>6, KeyAssumption DEF Active, v, w
  <1>9. \A t \in Server \ {s} : Active(q, t) = Active(p, t)
    BY <1>5 DEF Active, SameBut
  <1>10. /\ q.sending \in [Server -> Seq(Nat)]
         /\ ToSet(q.sending[s]) = ToSet(p.sending[s]) \cup {i}
         /\ \A t \in Server \ {s} : q.sending[t] = p.sending[t]
    <2> DEFINE u == p.sending[s]
    <2>1. u \in Seq(Nat)
      BY <1>2
    <2>2. q.sending = [p.sending EXCEPT ![s] = Append(u, i)]
      BY <1>1
    <2> HIDE DEF u
    <2>3. Append(u, i) \in Seq(Nat) /\ ToSet(Append(u, i)) = ToSet(u) \cup {i}
      BY <1>4, <2>1, AppendFacts
    <2> QED
      BY <1>2, <2>2, <2>3 DEF u
  <1>11. /\ q.noq \in [Server -> Nat] /\ q.noq[s] = p.noq[s] + 1
         /\ \A t \in Server \ {s} : q.noq[t] = p.noq[t]
    BY <1>1, <1>2
  <1>12. q.receiving = p.receiving \cup {s}
    <2>1. CASE p.noq[s] = 0
      <3>1. Active(p, s) = {}
        BY <1>0, <2>1, HoldingAre, FS_EmptySet DEF Whole, CountsOK
      <3>2. ToSet(p.sending[s]) = {}
        BY <3>1 DEF Whole, SlotsOK
      <3>3. p.sending[s] = <<>>
        <4>1. p.sending[s] # <<>> => Head(p.sending[s]) \in ToSet(p.sending[s])
          BY <1>2, TailFacts
        <4> QED
          BY <3>2, <4>1
      <3> QED
        BY <1>1, <2>1, <3>3 DEF Listening
    <2>2. CASE p.noq[s] # 0
      <3>1. s \in p.receiving
        BY <1>2, <2>2 DEF Whole, WatchedOK
      <3> QED
        BY <1>1, <2>2, <3>1 DEF Listening
    <2> QED
      BY <2>1, <2>2
  <1>13. IsPool(q)
    <2>1. q.receiving \subseteq Server /\ q.dead \in Seq(Server) /\ q.sock \in [Server -> States]
          /\ q.inbox \in [Server -> Seq(Nat)]
      BY <1>1, <1>2, <1>12
    <2> QED
      BY <1>1, <1>3, <1>5, <1>7, <1>10, <1>11, <2>1 DEF IsPool, AsRecord
  <1>14. WatchedOK(q)
    <2>1. \A t \in Server : t \in q.receiving <=> q.noq[t] > 0
      BY <1>2, <1>11, <1>12 DEF Whole, WatchedOK
    <2>2. \A t \in ToSet(q.dead) : q.noq[t] = 0 /\ q.sock[t] = "closed"
      <3>1. ToSet(p.dead) \subseteq Server
        BY <1>2 DEF ToSet
      <3> QED
        BY <1>1, <1>11, <3>1 DEF Whole, WatchedOK
    <2> QED
      BY <1>1, <2>1, <2>2 DEF Whole, WatchedOK
  <1>15. ConnectedBut(q, {s}) /\ (p.sock[s] # "closed" => ConnectedBut(q, {}))
    BY <1>1, <1>12 DEF Whole, ConnectedBut
  <1>16. SlotsOK(q)
    <2> SUFFICES ASSUME NEW t \in Server
                 PROVE  /\ ToSet(q.sending[t]) \subseteq Active(q, t)
                        /\ ToSet(q.inbox[t]) \subseteq Active(q, t)
                        /\ ToSet(q.sending[t]) \cap ToSet(q.inbox[t]) = {}
                        /\ IsInjective(q.inbox[t])
      BY DEF SlotsOK
    <2>1. /\ ToSet(p.sending[t]) \subseteq Active(p, t)
          /\ ToSet(p.inbox[t]) \subseteq Active(p, t)
          /\ ToSet(p.sending[t]) \cap ToSet(p.inbox[t]) = {}
          /\ IsInjective(p.inbox[t])
      BY DEF Whole, SlotsOK
    <2>2. CASE t = s
      BY <1>1, <1>8, <1>10, <2>1, <2>2
    <2>3. CASE t # s
      BY <1>1, <1>9, <1>10, <2>1, <2>3
    <2> QED
      BY <2>2, <2>3
  <1>17. CountsOK(q)
    <2>1. \A t \in Server : q.noq[t] = Cardinality(Active(q, t))
      <3>1. Cardinality(Active(q, s)) = Cardinality(Active(p, s)) + 1
        BY <1>0, <1>8, HoldingAre, FS_AddElement
      <3> QED
        BY <1>9, <1>11, <3>1 DEF Whole, CountsOK
    <2>2. q.tnoq = Cardinality(Busy(q))
      <3>1. /\ Cardinality(Holding(p.oq, Key)) \in Nat
            /\ Cardinality(Here(w, s, Key)) \in Nat
            /\ Cardinality(Holding(q.oq, Key)) = Cardinality(Holding(p.oq, Key))
                  - Cardinality(Here(w, s, Key)) + Cardinality(Here(v, s, Key))
        BY <1>5, HoldingChange DEF v, w
      <3>2. Cardinality(Here(v, s, Key)) = Cardinality(Here(w, s, Key)) + 1
        BY <1>3, <1>4, <1>6, <1>60, HerePut, KeyAssumption
      <3>3. p.tnoq = Cardinality(Holding(p.oq, Key))
        BY <1>0, HoldingAre DEF Whole, CountsOK
      <3>4. Busy(q) = Holding(q.oq, Key)
        BY <1>13, HoldingAre
      <3> QED
        BY <1>1, <3>1, <3>2, <3>3, <3>4
    <2> QED
      BY <1>1, <2>1, <2>2 DEF Whole, CountsOK
  <1>18. ASSUME NEW k \in Key PROVE Count(q, k) = Count(p, k)
    <2>1. Occurrences(p.queue, k) = Occurrences(q.queue, k) + IF h = k THEN 1 ELSE 0
      BY <1>1, <1>2, OccurrencesTail DEF h
    <2> DEFINE K == {k}
    <2>2. K = {k} /\ "none" \notin K
      BY KeyAssumption
    <2> HIDE DEF K
    <2>3. /\ Cardinality(Holding(p.oq, K)) \in Nat
          /\ Cardinality(Here(w, s, K)) \in Nat
          /\ Cardinality(Holding(q.oq, K)) = Cardinality(Holding(p.oq, K))
                - Cardinality(Here(w, s, K)) + Cardinality(Here(v, s, K))
      BY <1>5, HoldingChange DEF v, w
    <2>4. Cardinality(Here(v, s, K)) = Cardinality(Here(w, s, K)) + IF h = k THEN 1 ELSE 0
      <3>1. CASE h = k
        <4>1. v[i] \in K /\ w[i] \notin K
          BY <1>4, <1>6, <2>2, <3>1
        <4>2. Cardinality(Here(v, s, K)) = Cardinality(Here(w, s, K)) + 1
          BY <1>4, <1>60, <4>1, HerePut
        <4> QED
          BY <3>1, <4>2
      <3>2. CASE h # k
        <4>1. Here(v, s, K) = Here(w, s, K)
          BY <1>4, <1>6, <2>2, <3>2 DEF Here
        <4> QED
          BY <2>3, <3>2, <4>1
      <3> QED
        BY <3>1, <3>2
    <2>5. /\ Count(q, k) = Occurrences(q.queue, k) + Cardinality(Holding(q.oq, K))
          /\ Count(p, k) = Occurrences(p.queue, k) + Cardinality(Holding(p.oq, K))
      BY <1>0, <1>13, <2>2, HoldingAre
    <2>6. Occurrences(q.queue, k) \in Nat
      BY <1>3, OccurrencesFinite
    <2> QED
      BY <2>1, <2>3, <2>4, <2>5, <2>6
  <1> QED
    BY <1>1, <1>3, <1>13, <1>14, <1>15, <1>16, <1>17, <1>18 DEF Whole

-----------------------------------------------------------------------------
(* What a server's connection is changes nothing else. *)

Alike(p, r) ==
    /\ r = AsRecord(r)
    /\ r.queue = p.queue /\ r.oq = p.oq /\ r.sending = p.sending /\ r.inbox = p.inbox
    /\ r.noq = p.noq /\ r.tnoq = p.tnoq /\ r.tmoq = p.tmoq
    /\ r.receiving = p.receiving /\ r.dead = p.dead

\* The invariant depends on these fields and on who has a connection, the
\* requests on these fields alone.
LEMMA AlikeWhole ==
    ASSUME NEW p, NEW S, Whole(p, S), NEW r, Alike(p, r), r.sock \in [Server -> States],
           \A t \in ToSet(p.dead) : r.sock[t] = "closed", NEW T, ConnectedBut(r, T)
    PROVE  Whole(r, T) /\ \A k : Count(r, k) = Count(p, k)
  <1>1. IsPool(p) /\ CountsOK(p) /\ SlotsOK(p) /\ WatchedOK(p)
    BY DEF Whole
  <1>2. /\ r = AsRecord(r)
        /\ r.queue = p.queue /\ r.oq = p.oq /\ r.sending = p.sending /\ r.inbox = p.inbox
        /\ r.noq = p.noq /\ r.tnoq = p.tnoq /\ r.tmoq = p.tmoq
        /\ r.receiving = p.receiving /\ r.dead = p.dead
    BY DEF Alike
  <1>3. IsPool(r)
    BY <1>1, <1>2 DEF IsPool, AsRecord
  <1>4. (\A s : Active(r, s) = Active(p, s)) /\ Busy(r) = Busy(p)
    BY <1>2 DEF Active, Busy
  <1>5. CountsOK(r)
    BY <1>1, <1>2, <1>4 DEF CountsOK
  <1>6. SlotsOK(r)
    BY <1>1, <1>2, <1>4 DEF SlotsOK
  <1>7. WatchedOK(r)
    BY <1>1, <1>2 DEF WatchedOK
  <1>8. \A k : Count(r, k) = Count(p, k)
    BY <1>2 DEF Count
  <1> QED
    BY <1>3, <1>5, <1>6, <1>7, <1>8 DEF Whole

\* A connection that is there, or being made, is all a server may lack.
LEMMA SockWhole ==
    ASSUME NEW p, NEW s \in Server, Whole(p, {s}), s \notin ToSet(p.dead),
           NEW c \in States \ {"closed"}, NEW r, Alike(p, r), r.sock = [p.sock EXCEPT ![s] = c]
    PROVE  Whole(r, {}) /\ \A k : Count(r, k) = Count(p, k)
  <1>1. p.sock \in [Server -> States] /\ p.receiving \subseteq Server /\ p.dead \in Seq(Server)
    BY DEF Whole, IsPool
  <1>2. r.sock \in [Server -> States]
    BY <1>1
  <1>3. \A t \in ToSet(p.dead) : r.sock[t] = "closed"
    <2>1. ToSet(p.dead) \subseteq Server
      BY <1>1 DEF ToSet
    <2>2. \A t \in ToSet(p.dead) : p.sock[t] = "closed" /\ t # s
      BY DEF Whole, WatchedOK
    <2> QED
      BY <1>1, <2>1, <2>2
  <1>4. ConnectedBut(r, {})
    BY <1>1 DEF Whole, ConnectedBut, Alike
  <1> QED
    BY <1>2, <1>3, <1>4, AlikeWhole

\* More servers without a connection are allowed.
LEMMA WholeBut ==
    ASSUME NEW p, Whole(p, {}), NEW S
    PROVE  Whole(p, S)
  BY DEF Whole, ConnectedBut

-----------------------------------------------------------------------------
(* Connecting to a server, and sending it work. *)

\* A server with queries, or with one that has to be sent, was not given up.
LEMMA NotDead ==
    ASSUME NEW p, Whole(p, {}), NEW s \in Server
    PROVE  /\ s \in p.receiving => s \notin ToSet(p.dead)
           /\ p.sending[s] # <<>> => s \in p.receiving
           /\ p.sock[s] # "closed" => s \notin ToSet(p.dead)
  <1>1. s \in p.receiving => s \notin ToSet(p.dead)
    BY DEF Whole, WatchedOK
  <1>2. ASSUME p.sending[s] # <<>> PROVE s \in p.receiving
    <2> DEFINE a == p.sending[s]
    <2>1. a \in Seq(Nat) /\ a # <<>>
      BY <1>2 DEF Whole, IsPool
    <2> HIDE DEF a
    <2>2. Head(a) \in ToSet(a)
      BY <2>1, TailFacts
    <2>3. Active(p, s) # {}
      BY <2>2 DEF Whole, SlotsOK, a
    <2>4. p.noq[s] = Cardinality(Active(p, s)) /\ IsFiniteSet(Active(p, s)) /\ p.noq[s] \in Nat
      BY HoldingAre DEF Whole, CountsOK, IsPool
    <2>5. p.noq[s] > 0
      BY <2>3, <2>4, FS_EmptySet
    <2> QED
      BY <2>5 DEF Whole, WatchedOK
  <1>3. p.sock[s] # "closed" => s \notin ToSet(p.dead)
    BY DEF Whole, WatchedOK
  <1> QED
    BY <1>1, <1>2, <1>3

\* subserver_connect: the server gets its connection, or is given up.
LEMMA ConnectWhole ==
    ASSUME NEW p, NEW s \in Server, Whole(p, {s}), s \notin ToSet(p.dead), NEW r \in Connect(p, s)
    PROVE  /\ Whole(r, {}) /\ \A k \in Key : Count(r, k) = Count(p, k)
           /\ Len(r.queue) >= Len(p.queue)
           /\ p.receiving \ {s} \subseteq r.receiving
           /\ \A t \in Server \ {s} : r.sending[t] = p.sending[t]
  <1>0. IsPool(p) /\ p = AsRecord(p) /\ Len(p.queue) \in Nat
    BY DEF Whole, IsPool, AsRecord
  <1>1. ASSUME NEW c \in {"syn", "open"}, r = [p EXCEPT !.sock[s] = c]
        PROVE  /\ Whole(r, {}) /\ \A k \in Key : Count(r, k) = Count(p, k)
               /\ Len(r.queue) >= Len(p.queue)
               /\ p.receiving \ {s} \subseteq r.receiving
               /\ \A t \in Server \ {s} : r.sending[t] = p.sending[t]
    <2>1. Alike(p, r) /\ r.sock = [p.sock EXCEPT ![s] = c]
      BY <1>0, <1>1 DEF AsRecord, Alike
    <2>2. c \in States \ {"closed"}
      BY DEF States
    <2>3. Whole(r, {}) /\ \A k : Count(r, k) = Count(p, k)
      BY <2>1, <2>2, SockWhole
    <2> QED
      BY <1>0, <2>1, <2>3 DEF Alike
  <1>2. ASSUME NEW q, q = [p EXCEPT !.failures = @ + 1], r = PossiblyDead(q, s)
        PROVE  /\ Whole(r, {}) /\ \A k \in Key : Count(r, k) = Count(p, k)
               /\ Len(r.queue) >= Len(p.queue)
               /\ p.receiving \ {s} \subseteq r.receiving
               /\ \A t \in Server \ {s} : r.sending[t] = p.sending[t]
    <2>1. Alike(p, q) /\ q.sock = p.sock
      BY <1>0, <1>2 DEF AsRecord, Alike
    <2>2. Whole(q, {s}) /\ \A k : Count(q, k) = Count(p, k)
      <3>1. /\ q.sock \in [Server -> States]
            /\ \A t \in ToSet(p.dead) : q.sock[t] = "closed"
            /\ ConnectedBut(q, {s})
        BY <2>1 DEF Whole, IsPool, WatchedOK, ConnectedBut, Alike
      <3> QED
        BY <2>1, <3>1, AlikeWhole
    <2>3. /\ q.dead = p.dead /\ q.queue = p.queue /\ s \notin ToSet(q.dead)
          /\ q.receiving = p.receiving /\ q.sending = p.sending
      BY <2>1 DEF Alike
    <2>4. /\ Whole(r, {}) /\ \A k \in Key : Count(r, k) = Count(q, k)
          /\ Len(r.queue) >= Len(q.queue)
          /\ r.receiving = q.receiving \ {s}
          /\ \A t \in Server \ {s} : r.sending[t] = q.sending[t]
      <3>1. r = PossiblyDead(q, s)
        BY <1>2
      <3> QED
        BY <2>2, <2>3, <3>1, PossiblyDeadWhole
    <2> QED
      BY <2>2, <2>3, <2>4
  <1>3. \/ \E c \in {"syn", "open"} : r = [p EXCEPT !.sock[s] = c]
        \/ r = PossiblyDead([p EXCEPT !.failures = @ + 1], s)
    BY DEF Connect
  <1> QED
    BY <1>1, <1>2, <1>3

\* Servers that are listened to still are, and those with something to send
\* still have it.
Adds(p, r) ==
    /\ p.receiving \subseteq r.receiving
    /\ \A t \in Server : p.sending[t] # <<>> => r.sending[t] # <<>>

\* subserver_send_work_to_server
LEMMA SendWorkWhole ==
    ASSUME NEW p, NEW s \in Server, Whole(p, {}), p.queue # <<>>, s \notin ToSet(p.dead),
           p.noq[s] # Moq[s], NEW r \in SendWork(p, s)
    PROVE  /\ Whole(r, {}) /\ \A k \in Key : Count(r, k) = Count(p, k)
           /\ Len(r.queue) >= Len(p.queue) - 1
           /\ Adds(p, r)
  <1> DEFINE F == Slots(s) \ Active(p, s)
  <1>0. IsPool(p)
    BY DEF Whole
  <1>1. F # {}
    <2>1. Active(p, s) \subseteq Slots(s)
      BY DEF Active
    <2>2. p.noq[s] = Cardinality(Active(p, s))
      BY DEF Whole, CountsOK
    <2>3. Cardinality(Slots(s)) = Moq[s]
      BY SlotsFacts
    <2>4. F = {} => Active(p, s) = Slots(s)
      BY <2>1
    <2> HIDE DEF F
    <2> QED
      BY <2>2, <2>3, <2>4
  <1>2. Min(F) \in F
    <2>1. F \subseteq Nat
      BY SlotsFacts
    <2> QED
      BY <1>1, <2>1, MinIsLeast
  <1>3. PICK q : /\ Given(p, s, Min(F), q)
                 /\ SendWork(p, s) = IF p.sock[s] = "closed" THEN Connect(q, s) ELSE {q}
    BY <1>0, SendWorkFields
  <1>4. /\ Whole(q, {s}) /\ (p.sock[s] # "closed" => Whole(q, {}))
        /\ \A k \in Key : Count(q, k) = Count(p, k)
        /\ Len(q.queue) = Len(p.queue) - 1
        /\ q.dead = p.dead /\ q.sock = p.sock
    <2> HIDE DEF F
    <2>1. Min(F) \in Slots(s) \ Active(p, s)
      BY <1>2 DEF F
    <2> QED
      BY <1>3, <2>1, GivenWhole
  <1>5. /\ p.receiving \subseteq q.receiving /\ q.sending[s] # <<>>
        /\ \A t \in Server \ {s} : q.sending[t] = p.sending[t]
    <2> HIDE DEF F
    <2>1. q.receiving = Listening(p, s) /\ q.sending = [p.sending EXCEPT ![s] = Append(p.sending[s], Min(F))]
      BY <1>3 DEF Given
    <2>2. p.sending \in [Server -> Seq(Nat)] /\ p.sending[s] \in Seq(Nat)
      BY <1>0 DEF IsPool
    <2>3. Append(p.sending[s], Min(F)) # <<>>
      BY <2>2
    <2> QED
      BY <2>1, <2>2, <2>3 DEF Listening
  <1>6. CASE p.sock[s] = "closed"
    <2>1. r \in Connect(q, s)
      BY <1>3, <1>6
    <2>2. /\ Whole(r, {}) /\ \A k \in Key : Count(r, k) = Count(q, k)
          /\ Len(r.queue) >= Len(q.queue)
          /\ q.receiving \ {s} \subseteq r.receiving
          /\ \A t \in Server \ {s} : r.sending[t] = q.sending[t]
      BY <1>4, <2>1, ConnectWhole
    <2>3. s \notin p.receiving /\ p.sending[s] = <<>>
      <3>1. s \notin p.receiving
        BY <1>6 DEF Whole, ConnectedBut
      <3> QED
        BY <3>1, NotDead
    <2>4. Adds(p, r)
      BY <1>5, <2>2, <2>3 DEF Adds
    <2> QED
      BY <1>4, <2>2, <2>4
  <1>7. CASE p.sock[s] # "closed"
    <2>1. r = q
      BY <1>3, <1>7
    <2>2. Len(q.queue) \in Nat
      BY <1>4 DEF Whole, IsPool
    <2>3. Adds(p, q)
      BY <1>5 DEF Adds
    <2> QED
      BY <1>4, <1>7, <2>1, <2>2, <2>3
  <1> QED
    BY <1>6, <1>7

-----------------------------------------------------------------------------
(* Work is handed out: subserver_dishoutwork. *)

\* r is whole, and has the requests of p.
Keeps(p, r) == Whole(r, {}) /\ \A k \in Key : Count(r, k) = Count(p, k)

\* So it is after work was handed out, which leaves all that servers had there.
Hands(p, r) == Keeps(p, r) /\ Adds(p, r)

LEMMA HandsTwice ==
    ASSUME NEW p, NEW q, NEW r, Hands(p, q), Hands(q, r)
    PROVE  Hands(p, r)
  BY DEF Hands, Keeps, Adds

\* Its loop after i turns, at a server of the table and never with more to
\* hand out than there is in the queue.
Handing(p, i, x) ==
    /\ x = [p |-> x.p, at |-> x.at, left |-> x.left]
    /\ x.at \in 1 .. i + 1
    /\ x.left \in Nat /\ x.left <= Len(x.p.queue)
    /\ Hands(p, x.p)

\* One turn of the loop keeps what Handing says.
LEMMA TurnHands ==
    ASSUME NEW p, NEW i \in 1 .. Len(Table), NEW x, Handing(p, i - 1, x), NEW y \in Turn(x)
    PROVE  Handing(p, i, y)
  <1> DEFINE s == Table[x.at]
  <1>1. Len(Table) \in Nat /\ i \in Nat
    BY TableAssumption
  <1>2. /\ x = [p |-> x.p, at |-> x.at, left |-> x.left]
        /\ x.at \in 1 .. i /\ x.left \in Nat /\ x.left <= Len(x.p.queue)
        /\ Whole(x.p, {}) /\ Hands(p, x.p)
    BY <1>1 DEF Handing, Hands, Keeps
  <1>3. s \in Server
    <2>1. x.at \in 1 .. Len(Table)
      BY <1>1, <1>2
    <2> QED
      BY <2>1, TableAssumption
  <1>4. Handing(p, i, x)
    BY <1>1, <1>2 DEF Handing
  <1>5. CASE y = x
    BY <1>4, <1>5
  <1>6. CASE y = [x EXCEPT !.at = @ + 1]
    <2>1. y = [p |-> x.p, at |-> x.at + 1, left |-> x.left]
      BY <1>2, <1>6
    <2>2. x.at + 1 \in 1 .. i + 1
      BY <1>1, <1>2
    <2>3. y.p = x.p /\ y.at = x.at + 1 /\ y.left = x.left /\ y = [p |-> y.p, at |-> y.at, left |-> y.left]
      BY <2>1
    <2> QED
      BY <1>2, <2>2, <2>3 DEF Handing
  <1>7. ASSUME NEW q \in SendWork(x.p, s), x.left # 0, x.p.noq[s] # Moq[s], s \notin ToSet(x.p.dead),
               y = [p |-> q, at |-> x.at, left |-> x.left - 1]
        PROVE  Handing(p, i, y)
    <2> DEFINE u == x.p
    <2>1. /\ Whole(u, {}) /\ u.noq[s] # Moq[s] /\ s \notin ToSet(u.dead) /\ q \in SendWork(u, s)
          /\ u.queue \in Seq(Key) /\ Len(u.queue) \in Nat
      BY <1>2, <1>7 DEF Whole, IsPool
    <2>2. u.queue # <<>>
      BY <1>2, <1>7
    <2> HIDE DEF u, s
    <2>3. Whole(q, {}) /\ Hands(u, q) /\ Len(q.queue) >= Len(u.queue) - 1
      BY <1>3, <2>1, <2>2, SendWorkWhole DEF Hands, Keeps
    <2>4. Len(q.queue) \in Nat
      BY <2>3 DEF Whole, IsPool
    <2>5. x.left - 1 \in Nat /\ x.left - 1 <= Len(q.queue)
      BY <1>2, <1>7, <2>1, <2>3, <2>4 DEF u
    <2>6. y.p = q /\ y.at = x.at /\ y.left = x.left - 1 /\ y = [p |-> y.p, at |-> y.at, left |-> y.left]
      BY <1>7
    <2>7. x.at \in 1 .. i + 1
      BY <1>1, <1>2
    <2>8. Hands(p, q)
      BY <1>2, <2>3, HandsTwice DEF u
    <2> QED
      BY <2>5, <2>6, <2>7, <2>8 DEF Handing
  <1>8. \/ y = x
        \/ y = [x EXCEPT !.at = @ + 1]
        \/ /\ x.left # 0 /\ x.p.noq[s] # Moq[s] /\ s \notin ToSet(x.p.dead)
           /\ \E q \in SendWork(x.p, s) : y = [p |-> q, at |-> x.at, left |-> x.left - 1]
    BY DEF Turn
  <1> QED
    BY <1>5, <1>6, <1>7, <1>8

\* There are never more queries at servers than slots of those not given up.
LEMMA RoomIsCounted ==
    ASSUME NEW p, Whole(p, {})
    PROVE  p.tnoq \in Nat /\ p.tmoq \in Nat /\ p.tnoq <= p.tmoq
  <1> DEFINE S == Server \ ToSet(p.dead)
  <1>1. \A s \in ToSet(p.dead) : s \in Server /\ Active(p, s) = {}
    <2> SUFFICES ASSUME NEW s \in ToSet(p.dead) PROVE s \in Server /\ Active(p, s) = {}
      OBVIOUS
    <2>1. s \in Server
      BY DEF Whole, IsPool, ToSet
    <2>2. Cardinality(Active(p, s)) = 0
      BY <2>1 DEF Whole, WatchedOK, CountsOK
    <2>3. IsFiniteSet(Active(p, s))
      BY <2>1, HoldingAre DEF Whole
    <2> QED
      BY <2>1, <2>2, <2>3, FS_EmptySet
  <1>2. Busy(p) \subseteq SlotsOf(S)
    <2> SUFFICES ASSUME NEW x \in Busy(p) PROVE x \in SlotsOf(S)
      OBVIOUS
    <2>1. x \in SlotsOf(Server) /\ p.oq[x[1]][x[2]] # "none"
      BY DEF Busy
    <2>2. PICK s \in Server : \E j \in Slots(s) : x = <<s, j>>
      BY <2>1, SlotsOfMembers
    <2>3. PICK j \in Slots(s) : x = <<s, j>>
      BY <2>2
    <2>4. j \in Active(p, s)
      BY <2>1, <2>3 DEF Active
    <2>5. s \in S
      BY <1>1, <2>4
    <2> HIDE DEF S
    <2> QED
      BY <2>3, <2>5, SlotsOfMembers
  <1>3. IsFiniteSet(SlotsOf(S))
    <2>1. SlotsOf(S) \subseteq SlotsOf(Server)
      BY DEF SlotsOf
    <2> QED
      BY <2>1, SlotsFinite, FS_Subset
  <1> HIDE DEF S
  <1>4. /\ IsFiniteSet(Busy(p)) /\ Cardinality(Busy(p)) <= Cardinality(SlotsOf(S))
        /\ Cardinality(Busy(p)) \in Nat /\ Cardinality(SlotsOf(S)) \in Nat
    BY <1>2, <1>3, FS_Subset, FS_CardinalityType
  <1>5. p.tnoq = Cardinality(Busy(p)) /\ p.tmoq = Cardinality(SlotsOf(S))
    BY DEF Whole, CountsOK, S
  <1> QED
    BY <1>4, <1>5

\* What any number of turns make of a collection, as HandedOut defines it.
After(start, n) ==
    CHOOSE g : g = [i \in 0 .. n |-> IF i = 0 THEN {start} ELSE UNION {Turn(x) : x \in g[i - 1]}]

\* It is defined: n turns are n - 1 turns and one more.
LEMMA AfterExists ==
    ASSUME NEW start, NEW n \in Nat
    PROVE  After(start, n) =
             [i \in 0 .. n |-> IF i = 0 THEN {start}
                                        ELSE UNION {Turn(x) : x \in After(start, n)[i - 1]}]
  <1> DEFINE More(X) == UNION {Turn(x) : x \in X}
             Is(g, m) == g = [i \in 0 .. m |-> IF i = 0 THEN {start} ELSE More(g[i - 1])]
             bad == {m \in Nat : ~ \E g : Is(g, m)}
  <1>1. bad = {}
    <2> SUFFICES ASSUME bad # {} PROVE FALSE
      OBVIOUS
    <2>1. PICK m \in bad : \A k \in bad : m <= k
      <3>1. bad \subseteq Nat
        OBVIOUS
      <3> HIDE DEF bad
      <3> QED
        BY <3>1, LeastExists
    <2>2. m \in Nat /\ ~ \E g : Is(g, m)
      OBVIOUS
    <2>3. CASE m = 0
      <3> DEFINE g == [i \in 0 .. 0 |-> {start}]
      <3> HIDE DEF More
      <3>1. \A i \in 0 .. 0 : i = 0
        OBVIOUS
      <3>2. g = [i \in 0 .. 0 |-> IF i = 0 THEN {start} ELSE More(g[i - 1])]
        BY <3>1
      <3> QED
        BY <2>2, <2>3, <3>2
    <2>4. CASE m # 0
      <3>1. m - 1 \in Nat /\ ~(m <= m - 1)
        BY <2>2, <2>4
      <3>2. m - 1 \notin bad
        BY <2>1, <3>1
      <3> HIDE DEF More
      <3>3. PICK f : f = [i \in 0 .. m - 1 |-> IF i = 0 THEN {start} ELSE More(f[i - 1])]
        BY <3>1, <3>2
      <3> DEFINE g == [i \in 0 .. m |-> IF i = m THEN More(f[m - 1]) ELSE f[i]]
      <3>4. \A i \in 0 .. m - 1 : g[i] = f[i]
        BY <2>2
      <3>5. g[m] = More(f[m - 1])
        BY <2>2
      <3>6. ASSUME NEW i \in 0 .. m
            PROVE  g[i] = IF i = 0 THEN {start} ELSE More(g[i - 1])
        <4> HIDE DEF g
        <4>1. CASE i = m
          <5>1. m - 1 \in 0 .. m - 1
            BY <3>1
          <5> QED
            BY <2>4, <3>4, <3>5, <4>1, <5>1
        <4>2. CASE i # m
          <5>1. i \in 0 .. m - 1 /\ (i # 0 => i - 1 \in 0 .. m - 1)
            BY <2>2, <4>2
          <5>2. f[i] = IF i = 0 THEN {start} ELSE More(f[i - 1])
            BY <3>3, <5>1
          <5> QED
            BY <3>4, <5>1, <5>2
        <4> QED
          BY <4>1, <4>2
      <3>7. g = [i \in 0 .. m |-> g[i]]
        OBVIOUS
      <3> HIDE DEF g
      <3>8. Is(g, m)
        BY <3>6, <3>7
      <3> QED
        BY <2>2, <3>8
    <2> QED
      BY <2>3, <2>4
  <1>2. \E g : Is(g, n)
    BY <1>1
  <1>3. After(start, n) = CHOOSE g : Is(g, n)
    BY DEF After
  <1>4. Is(After(start, n), n)
    <2> HIDE DEF Is
    <2> QED
      BY <1>2, <1>3
  <1> QED
    BY <1>4

\* HandedOut in terms of After.
LEMMA HandedOutIs ==
    ASSUME NEW p
    PROVE  LET start == [p |-> p, at |-> 1, left |-> Min({p.tmoq - p.tnoq, Len(p.queue)})]
           IN  HandedOut(p) = {x.p : x \in After(start, Len(Table))[Len(Table)]}
  BY DEF HandedOut, After

\* The loop as a whole, by the first turn after which something would be wrong.
LEMMA HandedOutHands ==
    ASSUME NEW p, Whole(p, {}), NEW r \in HandedOut(p)
    PROVE  Hands(p, r)
  <1> DEFINE n == Len(Table)
             start == [p |-> p, at |-> 1, left |-> Min({p.tmoq - p.tnoq, Len(p.queue)})]
             after == After(start, n)
  <1>1. n \in Nat
    BY TableAssumption
  <1>2. Handing(p, 0, start)
    <2> DEFINE T == {p.tmoq - p.tnoq, Len(p.queue)}
               l == Min(T)
    <2>1. p.tmoq - p.tnoq \in Nat /\ Len(p.queue) \in Nat
      <3>1. p.tnoq \in Nat /\ p.tmoq \in Nat /\ p.tnoq <= p.tmoq
        BY RoomIsCounted
      <3>2. p.queue \in Seq(Key)
        BY DEF Whole, IsPool
      <3> QED
        BY <3>1, <3>2
    <2>2. T \subseteq Nat /\ T # {} /\ Len(p.queue) \in T
      BY <2>1
    <2> HIDE DEF T
    <2>3. l \in Nat /\ l <= Len(p.queue)
      BY <2>2, MinIsLeast
    <2>4. start = [p |-> p, at |-> 1, left |-> l]
      BY DEF T
    <2> HIDE DEF l, start
    <2>5. start.p = p /\ start.at = 1 /\ start.left = l
          /\ start = [p |-> start.p, at |-> start.at, left |-> start.left]
      BY <2>4
    <2> QED
      BY <2>3, <2>5 DEF Handing, Hands, Keeps, Adds
  <1>3. HandedOut(p) = {x.p : x \in after[n]}
    BY HandedOutIs, Zenon
  <1> HIDE DEF start
  <1>4. after = [i \in 0 .. n |-> IF i = 0 THEN {start} ELSE UNION {Turn(x) : x \in after[i - 1]}]
    BY <1>1, AfterExists
  <1> HIDE DEF after, n
  <1>5. after[0] = {start} /\ \A i \in 1 .. n : after[i] = UNION {Turn(x) : x \in after[i - 1]}
    <2>1. 0 \in 0 .. n /\ \A i \in 1 .. n : i \in 0 .. n /\ i # 0
      BY <1>1
    <2> QED
      BY <1>4, <2>1
  <1> DEFINE bad == {i \in 0 .. n : \E x \in after[i] : ~ Handing(p, i, x)}
  <1>6. bad = {}
    <2> SUFFICES ASSUME bad # {} PROVE FALSE
      OBVIOUS
    <2>1. PICK i \in bad : \A k \in bad : i <= k
      <3>1. bad \subseteq Nat
        OBVIOUS
      <3> HIDE DEF bad
      <3> QED
        BY <3>1, LeastExists
    <2>2. i \in 0 .. n
      OBVIOUS
    <2>3. PICK y \in after[i] : ~ Handing(p, i, y)
      OBVIOUS
    <2>4. CASE i = 0
      <3>1. y = start
        BY <1>5, <2>3, <2>4
      <3> QED
        BY <1>2, <2>3, <2>4, <3>1
    <2>5. CASE i # 0
      <3>1. i \in 1 .. n /\ i - 1 \in 0 .. n /\ ~(i <= i - 1)
        BY <1>1, <2>2, <2>5
      <3>2. \A x \in after[i - 1] : Handing(p, i - 1, x)
        BY <2>1, <3>1
      <3>3. PICK x \in after[i - 1] : y \in Turn(x)
        BY <1>5, <2>3, <3>1
      <3>4. Handing(p, i, y)
        BY <3>1, <3>2, <3>3, TurnHands DEF n
      <3> QED
        BY <2>3, <3>4
    <2> QED
      BY <2>4, <2>5
  <1>7. \A x \in after[n] : Handing(p, n, x)
    BY <1>1, <1>6
  <1> QED
    BY <1>3, <1>7 DEF Handing

\* The first of the servers given up is one that work is handed to again.
Revived(p, s, q) ==
    /\ q = AsRecord(q)
    /\ q.queue = p.queue /\ q.oq = p.oq /\ q.sending = p.sending /\ q.inbox = p.inbox
    /\ q.noq = p.noq /\ q.tnoq = p.tnoq /\ q.tmoq = p.tmoq + Moq[s]
    /\ q.receiving = p.receiving /\ q.dead = Tail(p.dead) /\ q.sock = p.sock

\* Its slots count again; it has no query yet.
LEMMA RevivedWhole ==
    ASSUME NEW p, Whole(p, {}), p.dead # <<>>, NEW s, s = Head(p.dead), NEW q, Revived(p, s, q)
    PROVE  /\ Hands(p, q) /\ q.queue = p.queue
           /\ s \in Server /\ s \notin ToSet(q.dead) /\ q.noq[s] # Moq[s]
  <1>1. IsPool(p) /\ CountsOK(p) /\ SlotsOK(p) /\ WatchedOK(p) /\ ConnectedBut(p, {})
    BY DEF Whole
  <1>2. /\ q = AsRecord(q)
        /\ q.queue = p.queue /\ q.oq = p.oq /\ q.sending = p.sending /\ q.inbox = p.inbox
        /\ q.noq = p.noq /\ q.tnoq = p.tnoq /\ q.tmoq = p.tmoq + Moq[s]
        /\ q.receiving = p.receiving /\ q.dead = Tail(p.dead) /\ q.sock = p.sock
    BY DEF Revived
  <1> DEFINE dead == p.dead
  <1>3. dead \in Seq(Server) /\ dead # <<>> /\ IsInjective(dead) /\ s = Head(dead)
    BY <1>1 DEF IsPool, WatchedOK
  <1> HIDE DEF dead
  <1>4. /\ Tail(dead) \in Seq(Server) /\ s \in Server /\ s \in ToSet(dead)
        /\ IsInjective(Tail(dead)) /\ ToSet(Tail(dead)) = ToSet(dead) \ {s}
    BY <1>3, TailFacts
  <1>5. /\ q.dead \in Seq(Server) /\ IsInjective(q.dead) /\ ToSet(q.dead) = ToSet(p.dead) \ {s}
        /\ s \in ToSet(p.dead)
    BY <1>2, <1>4 DEF dead
  <1>6. IsPool(q)
    BY <1>1, <1>2, <1>5 DEF IsPool, AsRecord
  <1>7. (\A t : Active(q, t) = Active(p, t)) /\ Busy(q) = Busy(p)
    BY <1>2 DEF Active, Busy
  <1>8. q.tmoq = Cardinality(SlotsOf(Server \ ToSet(q.dead)))
    <2> DEFINE S == Server \ ToSet(p.dead)
    <2>1. s \notin S /\ S \subseteq Server /\ S \cup {s} = Server \ ToSet(q.dead)
      BY <1>4, <1>5
    <2>2. p.tmoq = Cardinality(SlotsOf(S))
      BY <1>1 DEF CountsOK
    <2> HIDE DEF S
    <2>3. Cardinality(SlotsOf(S \cup {s})) = Cardinality(SlotsOf(S)) + Moq[s]
      BY <1>4, <2>1, SlotsOfOne
    <2> QED
      BY <1>2, <2>1, <2>2, <2>3
  <1>9. CountsOK(q)
    BY <1>1, <1>2, <1>7, <1>8 DEF CountsOK
  <1>10. SlotsOK(q)
    BY <1>1, <1>2, <1>7 DEF SlotsOK
  <1>11. WatchedOK(q)
    BY <1>1, <1>2, <1>5 DEF WatchedOK
  <1>12. ConnectedBut(q, {})
    BY <1>1, <1>2 DEF ConnectedBut
  <1>13. \A k : Count(q, k) = Count(p, k)
    BY <1>2 DEF Count
  <1>14. q.noq[s] # Moq[s]
    <2>1. p.noq[s] = 0
      BY <1>1, <1>5 DEF WatchedOK
    <2> QED
      BY <1>2, <1>4, <2>1, SlotsFacts
  <1> QED
    BY <1>2, <1>4, <1>5, <1>6, <1>9, <1>10, <1>11, <1>12, <1>13, <1>14
    DEF Hands, Adds, Keeps, Whole

\* The end of subserver_dishoutwork.
LEMMA RetriedHands ==
    ASSUME NEW p, Whole(p, {}), NEW r \in Retried(p)
    PROVE  Hands(p, r)
  <1>1. CASE p.queue = <<>> \/ p.dead = <<>> \/ p.tried
    BY <1>1 DEF Retried, Hands, Keeps, Adds
  <1>2. CASE ~ (p.queue = <<>> \/ p.dead = <<>> \/ p.tried)
    <2>1. PICK s : s = Head(p.dead)
      OBVIOUS
    <2>2. PICK q : q = [p EXCEPT !.dead = Tail(@), !.tried = TRUE, !.tmoq = @ + Moq[s]]
      OBVIOUS
    <2>3. r \in SendWork(q, s)
      BY <1>2, <2>1, <2>2 DEF Retried
    <2>4. Revived(p, s, q)
      <3>1. p = AsRecord(p)
        BY DEF Whole, IsPool, AsRecord
      <3> QED
        BY <2>2, <3>1 DEF AsRecord, Revived
    <2>5. /\ Hands(p, q) /\ q.queue = p.queue
          /\ s \in Server /\ s \notin ToSet(q.dead) /\ q.noq[s] # Moq[s]
      BY <1>2, <2>1, <2>4, RevivedWhole
    <2>6. Hands(q, r)
      <3>1. Whole(q, {}) /\ q.queue # <<>>
        BY <1>2, <2>5 DEF Hands, Keeps
      <3> QED
        BY <2>3, <2>5, <3>1, SendWorkWhole DEF Hands, Keeps
    <2> QED
      BY <2>5, <2>6, HandsTwice
  <1> QED
    BY <1>1, <1>2

\* subserver_dishoutwork
LEMMA DishOutWorkHands ==
    ASSUME NEW p, Whole(p, {}), NEW r \in DishOutWork(p)
    PROVE  Hands(p, r)
  <1>1. CASE p.queue = <<>>
    BY <1>1 DEF DishOutWork, Hands, Keeps, Adds
  <1>2. CASE p.queue # <<>>
    <2>1. PICK q \in HandedOut(p) : r \in Retried(q)
      BY <1>2 DEF DishOutWork
    <2>2. Hands(p, q)
      BY HandedOutHands
    <2>3. Hands(q, r)
      BY <2>1, <2>2, RetriedHands DEF Hands, Keeps
    <2> QED
      BY <2>2, <2>3, HandsTwice
  <1> QED
    BY <1>1, <1>2

-----------------------------------------------------------------------------
(* Requests come, are answered and are dropped. *)

\* Requests can be counted, in the queue and altogether.
LEMMA CountIsNat ==
    ASSUME NEW p, Whole(p, {}), NEW k
    PROVE  Count(p, k) \in Nat /\ Occurrences(p.queue, k) \in Nat /\ Occurrences(p.queue, k) <= Count(p, k)
  <1>1. IsPool(p) /\ p.queue \in Seq(Key)
    BY DEF Whole, IsPool
  <1> DEFINE K == {k}
  <1>2. IsFiniteSet(Holding(p.oq, K))
    <2>1. Holding(p.oq, K) \subseteq SlotsOf(Server)
      BY DEF Holding
    <2> QED
      BY <2>1, SlotsFinite, FS_Subset
  <1>3. Cardinality(Holding(p.oq, K)) \in Nat
    BY <1>2, FS_CardinalityType
  <1>4. Occurrences(p.queue, k) \in Nat
    BY <1>1, OccurrencesFinite
  <1>5. Count(p, k) = Occurrences(p.queue, k) + Cardinality(Holding(p.oq, K))
    BY <1>1, HoldingAre
  <1> QED
    BY <1>3, <1>4, <1>5

\* A server with two answers waiting has more than one query: reading one
\* of them leaves it on the list that is read from.
LEMMA TwoOrMore ==
    ASSUME NEW b \in Seq(Nat), IsInjective(b), NEW A, IsFiniteSet(A), ToSet(b) \subseteq A
    PROVE  Len(b) > 1 => Cardinality(A) # 1
  <1>1. ASSUME Len(b) > 1, Cardinality(A) = 1 PROVE FALSE
    <2>1. 1 \in DOMAIN b /\ 2 \in DOMAIN b
      BY <1>1
    <2>2. b[1] \in A /\ b[2] \in A /\ b[1] # b[2]
      BY <2>1 DEF ToSet, IsInjective
    <2> QED
      BY <1>1, <2>2, FS_Singleton
  <1> QED
    BY <1>1

\* q is p without the query in the slot i of s, whose answer was read.
Extracted(p, s, i, q) ==
    /\ i = Head(p.inbox[s])
    /\ q = AsRecord(q)
    /\ q.queue = p.queue /\ q.sending = p.sending
    /\ q.oq = [p.oq EXCEPT ![s] = [p.oq[s] EXCEPT ![i] = "none"]]
    /\ q.inbox = [p.inbox EXCEPT ![s] = Tail(p.inbox[s])]
    /\ q.noq = [p.noq EXCEPT ![s] = p.noq[s] - 1]
    /\ q.tnoq = p.tnoq - 1 /\ q.tmoq = p.tmoq
    /\ q.receiving = IF p.noq[s] = 1 THEN p.receiving \ {s} ELSE p.receiving
    /\ q.dead = p.dead /\ q.sock = p.sock

\* Extract is field by field what Extracted says.
LEMMA ExtractFields ==
    ASSUME NEW p, IsPool(p), NEW s
    PROVE  Extracted(p, s, Head(p.inbox[s]), Extract(p, s))
  <1>1. p = AsRecord(p)
    BY DEF IsPool, AsRecord
  <1>2. PICK i : i = Head(p.inbox[s])
    OBVIOUS
  <1>3. PICK q : q = [p EXCEPT !.oq[s][i] = "none", !.noq[s] = @ - 1, !.tnoq = @ - 1,
                               !.inbox[s] = Tail(@),
                               !.receiving = IF p.noq[s] = 1 THEN @ \ {s} ELSE @]
    OBVIOUS
  <1>4. Extract(p, s) = q
    BY <1>2, <1>3 DEF Extract
  <1>5. Extracted(p, s, i, q)
    BY <1>1, <1>2, <1>3 DEF AsRecord, Extracted
  <1> QED
    BY <1>2, <1>4, <1>5, Zenon

\* An answer is read: the counts go down, and the server is listened to as
\* long as it has another query.
LEMMA ExtractedWhole ==
    ASSUME NEW p, NEW s \in Server, Whole(p, {}), p.inbox[s] # <<>>,
           NEW i, NEW q, Extracted(p, s, i, q)
    PROVE  /\ Whole(q, {}) /\ p.oq[s][i] \in Key
           /\ \A k \in Key : Count(p, k) = Count(q, k) + IF p.oq[s][i] = k THEN 1 ELSE 0
           /\ q.sending = p.sending
           /\ p.receiving \ {s} \subseteq q.receiving
           /\ Len(p.inbox[s]) > 1 => p.receiving \subseteq q.receiving
  <1>0. IsPool(p)
    BY DEF Whole
  <1>1. /\ i = Head(p.inbox[s]) /\ q = AsRecord(q)
        /\ q.queue = p.queue /\ q.sending = p.sending
        /\ q.oq = [p.oq EXCEPT ![s] = [p.oq[s] EXCEPT ![i] = "none"]]
        /\ q.inbox = [p.inbox EXCEPT ![s] = Tail(p.inbox[s])]
        /\ q.noq = [p.noq EXCEPT ![s] = p.noq[s] - 1]
        /\ q.tnoq = p.tnoq - 1 /\ q.tmoq = p.tmoq
        /\ q.receiving = IF p.noq[s] = 1 THEN p.receiving \ {s} ELSE p.receiving
        /\ q.dead = p.dead /\ q.sock = p.sock
    BY DEF Extracted
  <1>2. /\ p.queue \in Seq(Key) /\ DOMAIN p.oq = Server
        /\ \A t \in Server : p.oq[t] \in [Slots(t) -> Key \cup {"none"}]
        /\ p.sending \in [Server -> Seq(Nat)] /\ p.inbox \in [Server -> Seq(Nat)]
        /\ p.noq \in [Server -> Nat] /\ p.sock \in [Server -> States]
        /\ p.receiving \subseteq Server /\ p.dead \in Seq(Server)
    BY <1>0 DEF IsPool
  <1>3. /\ ToSet(p.sending[s]) \subseteq Active(p, s)
        /\ ToSet(p.inbox[s]) \subseteq Active(p, s)
        /\ ToSet(p.sending[s]) \cap ToSet(p.inbox[s]) = {}
        /\ IsInjective(p.inbox[s])
    BY DEF Whole, SlotsOK
  <1> DEFINE b == p.inbox[s]
             w == p.oq[s]
             v == q.oq[s]
  <1>4. /\ b \in Seq(Nat) /\ b # <<>> /\ IsInjective(b) /\ i = Head(b)
        /\ q.inbox = [p.inbox EXCEPT ![s] = Tail(b)]
    BY <1>1, <1>2, <1>3
  <1> HIDE DEF b
  <1>5. /\ Tail(b) \in Seq(Nat) /\ Len(Tail(b)) = Len(b) - 1 /\ i \in ToSet(b)
        /\ IsInjective(Tail(b)) /\ ToSet(Tail(b)) = ToSet(b) \ {i}
    BY <1>4, TailFacts
  <1>6. i \in Active(p, s) /\ i \in Slots(s) /\ w[i] # "none" /\ w[i] \in Key
    <2>1. i \in Active(p, s)
      BY <1>3, <1>5 DEF b
    <2>2. i \in Slots(s) /\ w[i] # "none"
      BY <2>1 DEF Active
    <2> QED
      BY <1>2, <2>1, <2>2
  <1>7. SameBut(s, p.oq, q.oq) /\ DOMAIN q.oq = Server
    BY <1>1, <1>2 DEF SameBut
  <1>8. v[i] = "none" /\ (\A j \in Slots(s) \ {i} : v[j] = w[j]) /\ v \in [Slots(s) -> Key \cup {"none"}]
    <2>1. v = [w EXCEPT ![i] = "none"]
      BY <1>1, <1>2
    <2>2. w \in [Slots(s) -> Key \cup {"none"}]
      BY <1>2
    <2> HIDE DEF v, w
    <2> QED
      BY <1>6, <2>1, <2>2
  <1>9. SlotsBut(s, i, v, w)
    BY <1>8 DEF SlotsBut
  <1> HIDE DEF v, w
  <1>10. \A t \in Server : q.oq[t] \in [Slots(t) -> Key \cup {"none"}]
    BY <1>2, <1>7, <1>8 DEF SameBut, v
  <1>11. Active(q, s) = Active(p, s) \ {i}
    BY <1>6, <1>8 DEF Active, v, w
  <1>12. \A t \in Server \ {s} : Active(q, t) = Active(p, t)
    BY <1>7 DEF Active, SameBut
  <1>13. /\ q.inbox \in [Server -> Seq(Nat)] /\ q.inbox[s] = Tail(b)
         /\ \A t \in Server \ {s} : q.inbox[t] = p.inbox[t]
    BY <1>2, <1>4, <1>5
  <1>14. p.noq[s] = Cardinality(Active(p, s)) /\ IsFiniteSet(Active(p, s)) /\ p.noq[s] > 0
    <2>1. p.noq[s] = Cardinality(Active(p, s)) /\ IsFiniteSet(Active(p, s))
      BY <1>0, HoldingAre DEF Whole, CountsOK
    <2>2. p.noq[s] # 0
      BY <1>6, <2>1, FS_EmptySet
    <2>3. p.noq[s] \in Nat
      BY <1>2
    <2> QED
      BY <2>1, <2>2, <2>3
  <1>15. /\ q.noq \in [Server -> Nat] /\ q.noq[s] = p.noq[s] - 1
         /\ \A t \in Server \ {s} : q.noq[t] = p.noq[t]
    BY <1>1, <1>2, <1>14
  <1>16. Cardinality(Active(q, s)) = q.noq[s]
    <2> DEFINE A == Active(p, s)
    <2>1. IsFiniteSet(A) /\ i \in A /\ Active(q, s) = A \ {i} /\ q.noq[s] = Cardinality(A) - 1
      BY <1>6, <1>11, <1>14, <1>15
    <2> HIDE DEF A
    <2> QED
      BY <2>1, FS_RemoveElement
  <1>17. IsPool(q)
    <2>1. q.receiving \subseteq Server /\ q.dead \in Seq(Server) /\ q.sock \in [Server -> States]
          /\ q.sending \in [Server -> Seq(Nat)] /\ q.queue \in Seq(Key)
      BY <1>1, <1>2
    <2> QED
      BY <1>1, <1>7, <1>10, <1>13, <1>15, <2>1 DEF IsPool, AsRecord
  <1>18. s \in p.receiving /\ s \notin ToSet(p.dead)
    BY <1>2, <1>14 DEF Whole, WatchedOK
  <1>19. WatchedOK(q)
    <2>1. \A t \in Server : t \in q.receiving <=> q.noq[t] > 0
      <3> SUFFICES ASSUME NEW t \in Server PROVE t \in q.receiving <=> q.noq[t] > 0
        OBVIOUS
      <3>1. CASE t = s
        <4>1. p.noq[s] \in Nat
          BY <1>2
        <4> QED
          BY <1>1, <1>14, <1>15, <1>18, <3>1, <4>1
      <3>2. CASE t # s
        <4>1. t \in p.receiving <=> p.noq[t] > 0
          BY DEF Whole, WatchedOK
        <4> QED
          BY <1>1, <1>15, <3>2, <4>1
      <3> QED
        BY <3>1, <3>2
    <2>2. \A t \in ToSet(q.dead) : q.noq[t] = 0 /\ q.sock[t] = "closed"
      <3>1. ToSet(p.dead) \subseteq Server
        BY <1>2 DEF ToSet
      <3> QED
        BY <1>1, <1>15, <1>18, <3>1 DEF Whole, WatchedOK
    <2> QED
      BY <1>1, <2>1, <2>2 DEF Whole, WatchedOK
  <1>20. ConnectedBut(q, {})
    BY <1>1 DEF Whole, ConnectedBut
  <1>21. SlotsOK(q)
    <2> SUFFICES ASSUME NEW t \in Server
                 PROVE  /\ ToSet(q.sending[t]) \subseteq Active(q, t)
                        /\ ToSet(q.inbox[t]) \subseteq Active(q, t)
                        /\ ToSet(q.sending[t]) \cap ToSet(q.inbox[t]) = {}
                        /\ IsInjective(q.inbox[t])
      BY DEF SlotsOK
    <2>1. CASE t = s
      <3>1. /\ ToSet(b) \subseteq Active(p, s)
            /\ ToSet(p.sending[s]) \cap ToSet(b) = {}
        BY <1>3 DEF b
      <3> QED
        BY <1>1, <1>3, <1>5, <1>11, <1>13, <2>1, <3>1
    <2>2. CASE t # s
      <3>1. Active(q, t) = Active(p, t) /\ q.inbox[t] = p.inbox[t] /\ q.sending[t] = p.sending[t]
        BY <1>1, <1>12, <1>13, <2>2
      <3> QED
        BY <3>1 DEF Whole, SlotsOK
    <2> QED
      BY <2>1, <2>2
  <1>22. CountsOK(q)
    <2>1. \A t \in Server : q.noq[t] = Cardinality(Active(q, t))
      BY <1>12, <1>15, <1>16 DEF Whole, CountsOK
    <2>2. q.tnoq = Cardinality(Busy(q))
      <3>1. /\ Cardinality(Holding(p.oq, Key)) \in Nat
            /\ Cardinality(Here(v, s, Key)) \in Nat
            /\ Cardinality(Holding(q.oq, Key)) = Cardinality(Holding(p.oq, Key))
                  - Cardinality(Here(w, s, Key)) + Cardinality(Here(v, s, Key))
        BY <1>7, HoldingChange DEF v, w
      <3>2. Cardinality(Here(w, s, Key)) = Cardinality(Here(v, s, Key)) + 1
        BY <1>6, <1>8, <1>9, HerePut, KeyAssumption
      <3>3. p.tnoq = Cardinality(Holding(p.oq, Key))
        BY <1>0, HoldingAre DEF Whole, CountsOK
      <3>4. Busy(q) = Holding(q.oq, Key)
        BY <1>17, HoldingAre
      <3> QED
        BY <1>1, <3>1, <3>2, <3>3, <3>4
    <2> QED
      BY <1>1, <2>1, <2>2 DEF Whole, CountsOK
  <1>23. ASSUME NEW k \in Key
         PROVE  Count(p, k) = Count(q, k) + IF w[i] = k THEN 1 ELSE 0
    <2> DEFINE K == {k}
    <2>1. K = {k} /\ "none" \notin K
      BY KeyAssumption
    <2> HIDE DEF K
    <2>2. /\ Cardinality(Holding(p.oq, K)) \in Nat
          /\ Cardinality(Here(v, s, K)) \in Nat
          /\ Cardinality(Holding(q.oq, K)) = Cardinality(Holding(p.oq, K))
                - Cardinality(Here(w, s, K)) + Cardinality(Here(v, s, K))
      BY <1>7, HoldingChange DEF v, w
    <2>3. Cardinality(Here(w, s, K)) = Cardinality(Here(v, s, K)) + IF w[i] = k THEN 1 ELSE 0
      <3>1. CASE w[i] = k
        <4>1. w[i] \in K /\ v[i] \notin K
          BY <1>8, <2>1, <3>1
        <4>2. Cardinality(Here(w, s, K)) = Cardinality(Here(v, s, K)) + 1
          BY <1>6, <1>9, <4>1, HerePut
        <4> QED
          BY <3>1, <4>2
      <3>2. CASE w[i] # k
        <4>1. Here(v, s, K) = Here(w, s, K)
          BY <1>6, <1>8, <2>1, <3>2 DEF Here
        <4> QED
          BY <2>2, <3>2, <4>1
      <3> QED
        BY <3>1, <3>2
    <2>4. /\ Count(q, k) = Occurrences(q.queue, k) + Cardinality(Holding(q.oq, K))
          /\ Count(p, k) = Occurrences(p.queue, k) + Cardinality(Holding(p.oq, K))
      BY <1>0, <1>17, <2>1, HoldingAre
    <2>5. Occurrences(p.queue, k) \in Nat
      BY <1>2, OccurrencesFinite
    <2> QED
      BY <1>1, <2>2, <2>3, <2>4, <2>5
  <1>24. Len(b) > 1 => p.noq[s] # 1
    <2>1. ToSet(b) \subseteq Active(p, s)
      BY <1>3 DEF b
    <2> DEFINE A == Active(p, s)
    <2>2. IsFiniteSet(A) /\ p.noq[s] = Cardinality(A) /\ ToSet(b) \subseteq A
      BY <1>14, <2>1
    <2> HIDE DEF A
    <2> QED
      BY <1>4, <2>2, TwoOrMore
  <1>25. /\ p.receiving \ {s} \subseteq q.receiving
         /\ Len(b) > 1 => p.receiving \subseteq q.receiving
    BY <1>1, <1>24
  <1> QED
    BY <1>1, <1>6, <1>17, <1>19, <1>20, <1>21, <1>22, <1>23, <1>25 DEF Whole, b, w

\* One turn of subserver_extract_results answers one request.
LEMMA ExtractWhole ==
    ASSUME NEW p, NEW s \in Server, Whole(p, {}), p.inbox[s] # <<>>
    PROVE  /\ Whole(Extract(p, s), {})
           /\ \E k \in Key : /\ k = p.oq[s][Head(p.inbox[s])]
                            /\ Count(p, k) = Count(Extract(p, s), k) + 1
                            /\ \A l \in Key \ {k} : Count(p, l) = Count(Extract(p, s), l)
           /\ Extract(p, s).sending = p.sending
           /\ p.receiving \ {s} \subseteq Extract(p, s).receiving
           /\ Len(p.inbox[s]) > 1 => p.receiving \subseteq Extract(p, s).receiving
  <1>1. PICK i : i = Head(p.inbox[s])
    OBVIOUS
  <1>2. PICK q : q = Extract(p, s)
    OBVIOUS
  <1>3. Extracted(p, s, i, q)
    <2>1. IsPool(p)
      BY DEF Whole
    <2> QED
      BY <1>1, <1>2, <2>1, ExtractFields, Zenon
  <1>4. /\ Whole(q, {}) /\ p.oq[s][i] \in Key
        /\ \A k \in Key : Count(p, k) = Count(q, k) + IF p.oq[s][i] = k THEN 1 ELSE 0
        /\ q.sending = p.sending
        /\ p.receiving \ {s} \subseteq q.receiving
        /\ Len(p.inbox[s]) > 1 => p.receiving \subseteq q.receiving
    BY <1>3, ExtractedWhole
  <1>5. PICK k \in Key : k = p.oq[s][i]
    BY <1>4
  <1>6. Count(p, k) = Count(q, k) + 1
    BY <1>4, <1>5
  <1>7. \A l \in Key : Count(q, l) \in Nat
    BY <1>4, CountIsNat
  <1>8. \A l \in Key \ {k} : Count(p, l) = Count(q, l)
    <2> SUFFICES ASSUME NEW l \in Key \ {k} PROVE Count(p, l) = Count(q, l)
      OBVIOUS
    <2>1. Count(p, l) = Count(q, l) + 0 /\ Count(q, l) \in Nat
      BY <1>4, <1>5, <1>7
    <2> QED
      BY <2>1
  <1> QED
    BY <1>1, <1>2, <1>4, <1>5, <1>6, <1>8, Zenon

\* Only the queue changes.
Queued(p, q) ==
    /\ q = AsRecord(q) /\ q.queue \in Seq(Key)
    /\ q.oq = p.oq /\ q.sending = p.sending /\ q.inbox = p.inbox
    /\ q.noq = p.noq /\ q.tnoq = p.tnoq /\ q.tmoq = p.tmoq
    /\ q.receiving = p.receiving /\ q.dead = p.dead /\ q.sock = p.sock

\* So do the requests change as the queue does.
LEMMA QueuedWhole ==
    ASSUME NEW p, Whole(p, {}), NEW q, Queued(p, q)
    PROVE  /\ Whole(q, {})
           /\ \A k \in Key : Count(q, k) =
                 Count(p, k) - Occurrences(p.queue, k) + Occurrences(q.queue, k)
  <1>1. IsPool(p) /\ CountsOK(p) /\ SlotsOK(p) /\ WatchedOK(p) /\ ConnectedBut(p, {})
    BY DEF Whole
  <1>2. /\ q = AsRecord(q) /\ q.queue \in Seq(Key)
        /\ q.oq = p.oq /\ q.sending = p.sending /\ q.inbox = p.inbox
        /\ q.noq = p.noq /\ q.tnoq = p.tnoq /\ q.tmoq = p.tmoq
        /\ q.receiving = p.receiving /\ q.dead = p.dead /\ q.sock = p.sock
    BY DEF Queued
  <1>3. IsPool(q)
    BY <1>1, <1>2 DEF IsPool, AsRecord
  <1>4. (\A s : Active(q, s) = Active(p, s)) /\ Busy(q) = Busy(p)
    BY <1>2 DEF Active, Busy
  <1>5. CountsOK(q) /\ SlotsOK(q)
    BY <1>1, <1>2, <1>4 DEF CountsOK, SlotsOK
  <1>6. WatchedOK(q) /\ ConnectedBut(q, {})
    BY <1>1, <1>2 DEF WatchedOK, ConnectedBut
  <1>7. Whole(q, {})
    BY <1>3, <1>5, <1>6 DEF Whole
  <1>8. ASSUME NEW k \in Key
        PROVE  Count(q, k) = Count(p, k) - Occurrences(p.queue, k) + Occurrences(q.queue, k)
    <2> DEFINE n == Cardinality(Holding(p.oq, {k}))
    <2>1. /\ Count(p, k) = Occurrences(p.queue, k) + n
          /\ Count(q, k) = Occurrences(q.queue, k) + n
      BY <1>1, <1>2, <1>3, HoldingAre
    <2> HIDE DEF n
    <2>2. Occurrences(p.queue, k) \in Nat /\ Occurrences(q.queue, k) \in Nat
      BY <1>7, CountIsNat
    <2>3. Count(p, k) \in Nat /\ Occurrences(p.queue, k) <= Count(p, k)
      BY CountIsNat
    <2>4. n \in Nat
      <3>1. Holding(p.oq, {k}) \subseteq SlotsOf(Server)
        BY DEF Holding
      <3> QED
        BY <3>1, SlotsFinite, FS_Subset, FS_CardinalityType DEF n
    <2> QED
      BY <2>1, <2>2, <2>4
  <1> QED
    BY <1>7, <1>8

\* A request at the end of the queue is one request more.
LEMMA StartedWhole ==
    ASSUME NEW p, Whole(p, {}), NEW k \in Key, NEW q, q = [p EXCEPT !.queue = Append(@, k)]
    PROVE  /\ Whole(q, {}) /\ Count(q, k) = Count(p, k) + 1
           /\ \A l \in Key \ {k} : Count(q, l) = Count(p, l)
  <1>1. p.queue \in Seq(Key) /\ p = AsRecord(p)
    BY DEF Whole, IsPool, AsRecord
  <1>2. q.queue = Append(p.queue, k) /\ Queued(p, q)
    <2>1. PICK a : a = Append(p.queue, k)
      OBVIOUS
    <2>2. a \in Seq(Key)
      BY <1>1, <2>1
    <2>3. q.queue = a /\ q = AsRecord(q)
          /\ q.oq = p.oq /\ q.sending = p.sending /\ q.inbox = p.inbox
          /\ q.noq = p.noq /\ q.tnoq = p.tnoq /\ q.tmoq = p.tmoq
          /\ q.receiving = p.receiving /\ q.dead = p.dead /\ q.sock = p.sock
      BY <1>1, <2>1 DEF AsRecord
    <2> QED
      BY <2>1, <2>2, <2>3 DEF Queued
  <1>3. /\ Whole(q, {})
        /\ \A l \in Key : Count(q, l) = Count(p, l) - Occurrences(p.queue, l) + Occurrences(q.queue, l)
    BY <1>2, QueuedWhole
  <1>4. \A l \in Key : Occurrences(q.queue, l) = Occurrences(p.queue, l) + Occurrences(<<k>>, l)
    <2> DEFINE a == p.queue
               e == <<k>>
    <2>1. a \in Seq(Key) /\ e \in Seq(Key) /\ q.queue = a \o e
      BY <1>1, <1>2
    <2> HIDE DEF a, e
    <2>2. \A l : Occurrences(a \o e, l) = Occurrences(a, l) + Occurrences(e, l)
      BY <2>1, OccurrencesConcat
    <2> QED
      BY <2>1, <2>2 DEF a, e
  <1>5. \A l \in Key : Occurrences(<<k>>, l) = IF k = l THEN 1 ELSE 0
    BY OccurrencesOne
  <1>6. \A l \in Key : Occurrences(p.queue, l) \in Nat /\ Count(p, l) \in Nat
    BY CountIsNat
  <1>7. ASSUME NEW l \in Key PROVE Count(q, l) = Count(p, l) + IF k = l THEN 1 ELSE 0
    <2>1. /\ Occurrences(p.queue, l) \in Nat /\ Count(p, l) \in Nat
          /\ Count(q, l) = Count(p, l) - Occurrences(p.queue, l) + Occurrences(q.queue, l)
          /\ Occurrences(q.queue, l) = Occurrences(p.queue, l) + IF k = l THEN 1 ELSE 0
      BY <1>3, <1>4, <1>5, <1>6
    <2> QED
      BY <2>1
  <1>8. \A l \in Key \ {k} : Count(q, l) = Count(p, l)
    <2> SUFFICES ASSUME NEW l \in Key \ {k} PROVE Count(q, l) = Count(p, l)
      OBVIOUS
    <2>1. Count(q, l) = Count(p, l) + 0 /\ Count(p, l) \in Nat
      BY <1>6, <1>7
    <2> QED
      BY <2>1
  <1> QED
    BY <1>3, <1>7, <1>8

\* Requests that are withdrawn are those that are in the queue.
LEMMA DeletedWhole ==
    ASSUME NEW p, Whole(p, {}), NEW k \in Key, k \in ToSet(p.queue),
           NEW r, NEW q, q = [p EXCEPT !.queue = r],
           r \in Seq(Key), Occurrences(r, k) = 0,
           \A l \in Key \ {k} : Occurrences(r, l) = Occurrences(p.queue, l)
    PROVE  /\ Whole(q, {})
           /\ \E n \in 1 .. Count(p, k) : Count(q, k) = Count(p, k) - n
           /\ \A l \in Key \ {k} : Count(q, l) = Count(p, l)
  <1>1. p.queue \in Seq(Key) /\ p = AsRecord(p)
    BY DEF Whole, IsPool, AsRecord
  <1>2. q.queue = r /\ Queued(p, q)
    BY <1>1 DEF AsRecord, Queued
  <1>3. /\ Whole(q, {})
        /\ \A l \in Key : Count(q, l) = Count(p, l) - Occurrences(p.queue, l) + Occurrences(r, l)
    <2>1. /\ Whole(q, {})
          /\ \A l \in Key :
                Count(q, l) = Count(p, l) - Occurrences(p.queue, l) + Occurrences(q.queue, l)
      BY <1>2, QueuedWhole, Zenon
    <2> QED
      BY <1>2, <2>1, Zenon
  <1>4. \A l \in Key : /\ Occurrences(p.queue, l) \in Nat /\ Count(p, l) \in Nat
                       /\ Occurrences(p.queue, l) <= Count(p, l)
    BY CountIsNat
  <1>5. Occurrences(p.queue, k) # 0
    <2>1. IsFiniteSet({i \in DOMAIN p.queue : p.queue[i] = k})
      BY <1>1, OccurrencesFinite
    <2>2. {i \in DOMAIN p.queue : p.queue[i] = k} # {}
      BY DEF ToSet
    <2> QED
      BY <2>1, <2>2, FS_EmptySet DEF Occurrences
  <1>6. \E n \in 1 .. Count(p, k) : Count(q, k) = Count(p, k) - n
    <2>1. Occurrences(p.queue, k) \in 1 .. Count(p, k)
      BY <1>4, <1>5
    <2>2. Count(q, k) = Count(p, k) - Occurrences(p.queue, k)
      BY <1>3, <1>4
    <2> QED
      BY <2>1, <2>2
  <1>7. \A l \in Key \ {k} : Count(q, l) = Count(p, l)
    <2> SUFFICES ASSUME NEW l \in Key \ {k} PROVE Count(q, l) = Count(p, l)
      OBVIOUS
    <2>1. /\ Count(q, l) = Count(p, l) - Occurrences(p.queue, l) + Occurrences(p.queue, l)
          /\ Count(p, l) \in Nat /\ Occurrences(p.queue, l) \in Nat
      BY <1>3, <1>4
    <2> QED
      BY <2>1
  <1> QED
    BY <1>3, <1>6, <1>7

-----------------------------------------------------------------------------
(* Queries go out and answers come. *)

\* Only the slots to be sent or read change.
Passed(p, q) ==
    /\ q = AsRecord(q) /\ q.queue = p.queue /\ q.oq = p.oq
    /\ q.noq = p.noq /\ q.tnoq = p.tnoq /\ q.tmoq = p.tmoq
    /\ q.receiving = p.receiving /\ q.dead = p.dead /\ q.sock = p.sock

\* Such a collection is whole when its slots are.
LEMMA PassedWhole ==
    ASSUME NEW p, Whole(p, {}), NEW q, Passed(p, q), SlotsOK(q),
           q.sending \in [Server -> Seq(Nat)], q.inbox \in [Server -> Seq(Nat)]
    PROVE  Keeps(p, q)
  <1>1. IsPool(p) /\ CountsOK(p) /\ WatchedOK(p) /\ ConnectedBut(p, {})
    BY DEF Whole
  <1>2. /\ q = AsRecord(q) /\ q.queue = p.queue /\ q.oq = p.oq
        /\ q.noq = p.noq /\ q.tnoq = p.tnoq /\ q.tmoq = p.tmoq
        /\ q.receiving = p.receiving /\ q.dead = p.dead /\ q.sock = p.sock
    BY DEF Passed
  <1>3. IsPool(q)
    BY <1>1, <1>2 DEF IsPool, AsRecord
  <1>4. (\A s : Active(q, s) = Active(p, s)) /\ Busy(q) = Busy(p)
    BY <1>2 DEF Active, Busy
  <1>5. CountsOK(q)
    BY <1>1, <1>2, <1>4 DEF CountsOK
  <1>6. WatchedOK(q) /\ ConnectedBut(q, {})
    BY <1>1, <1>2 DEF WatchedOK, ConnectedBut
  <1>7. \A k : Count(q, k) = Count(p, k)
    BY <1>2 DEF Count
  <1> QED
    BY <1>3, <1>5, <1>6, <1>7 DEF Whole, Keeps

\* A query has gone out.
LEMMA SentWhole ==
    ASSUME NEW p, Whole(p, {}), NEW s \in Server, p.sending[s] # <<>>,
           NEW q, q = [p EXCEPT !.sending[s] = Tail(@)]
    PROVE  Keeps(p, q) /\ q.receiving = p.receiving /\ \A t \in Server \ {s} : q.sending[t] = p.sending[t]
  <1>1. p = AsRecord(p) /\ p.sending \in [Server -> Seq(Nat)] /\ p.inbox \in [Server -> Seq(Nat)]
    BY DEF Whole, IsPool, AsRecord
  <1>2. /\ Passed(p, q) /\ q.sending = [p.sending EXCEPT ![s] = Tail(p.sending[s])] /\ q.inbox = p.inbox
        /\ q.oq = p.oq /\ q.receiving = p.receiving
    BY <1>1 DEF AsRecord, Passed
  <1> DEFINE a == p.sending[s]
  <1>3. a \in Seq(Nat) /\ a # <<>> /\ q.sending = [p.sending EXCEPT ![s] = Tail(a)]
    BY <1>1, <1>2
  <1> HIDE DEF a
  <1>4. Tail(a) \in Seq(Nat) /\ ToSet(Tail(a)) \subseteq ToSet(a)
    BY <1>3, TailFacts
  <1>5. /\ q.sending \in [Server -> Seq(Nat)] /\ ToSet(q.sending[s]) \subseteq ToSet(p.sending[s])
        /\ \A t \in Server \ {s} : q.sending[t] = p.sending[t]
    BY <1>1, <1>3, <1>4 DEF a
  <1>6. \A t : Active(q, t) = Active(p, t)
    BY <1>2 DEF Active
  <1>7. SlotsOK(q)
    BY <1>2, <1>5, <1>6 DEF Whole, SlotsOK
  <1> QED
    BY <1>1, <1>2, <1>5, <1>7, PassedWhole

\* An answer to the query in slot i comes.
Answered(p, s, i, q) ==
    /\ i \in Active(p, s) /\ i \notin ToSet(p.sending[s]) /\ i \notin ToSet(p.inbox[s])
    /\ q = [p EXCEPT !.inbox[s] = Append(@, i)]

\* Its slot was out and has no answer yet, so nothing is answered twice.
LEMMA AnsweredWhole ==
    ASSUME NEW p, Whole(p, {}), NEW s \in Server, NEW i \in Slots(s), NEW q, Answered(p, s, i, q)
    PROVE  Keeps(p, q) /\ q.receiving = p.receiving /\ q.sending = p.sending
  <1>0. /\ i \in Active(p, s) /\ i \notin ToSet(p.sending[s]) /\ i \notin ToSet(p.inbox[s])
        /\ q = [p EXCEPT !.inbox[s] = Append(@, i)]
    BY DEF Answered
  <1>1. p = AsRecord(p) /\ p.sending \in [Server -> Seq(Nat)] /\ p.inbox \in [Server -> Seq(Nat)]
    BY DEF Whole, IsPool, AsRecord
  <1>2. /\ Passed(p, q) /\ q.inbox = [p.inbox EXCEPT ![s] = Append(p.inbox[s], i)]
        /\ q.sending = p.sending /\ q.oq = p.oq /\ q.receiving = p.receiving
    BY <1>0, <1>1 DEF AsRecord, Passed
  <1> DEFINE b == p.inbox[s]
  <1>3. b \in Seq(Nat) /\ i \notin ToSet(b) /\ q.inbox = [p.inbox EXCEPT ![s] = Append(b, i)] /\ i \in Nat
    BY <1>0, <1>1, <1>2, SlotsFacts
  <1>4. IsInjective(b)
    BY DEF Whole, SlotsOK
  <1> HIDE DEF b
  <1>5. Append(b, i) \in Seq(Nat) /\ ToSet(Append(b, i)) = ToSet(b) \cup {i} /\ IsInjective(Append(b, i))
    BY <1>3, <1>4, AppendFacts
  <1>6. /\ q.inbox \in [Server -> Seq(Nat)] /\ ToSet(q.inbox[s]) = ToSet(p.inbox[s]) \cup {i}
        /\ IsInjective(q.inbox[s]) /\ \A t \in Server \ {s} : q.inbox[t] = p.inbox[t]
    BY <1>1, <1>3, <1>5 DEF b
  <1>7. \A t : Active(q, t) = Active(p, t)
    BY <1>2 DEF Active
  <1>8. SlotsOK(q)
    <2> SUFFICES ASSUME NEW t \in Server
                 PROVE  /\ ToSet(q.sending[t]) \subseteq Active(q, t)
                        /\ ToSet(q.inbox[t]) \subseteq Active(q, t)
                        /\ ToSet(q.sending[t]) \cap ToSet(q.inbox[t]) = {}
                        /\ IsInjective(q.inbox[t])
      BY DEF SlotsOK
    <2>1. /\ ToSet(p.sending[t]) \subseteq Active(p, t)
          /\ ToSet(p.inbox[t]) \subseteq Active(p, t)
          /\ ToSet(p.sending[t]) \cap ToSet(p.inbox[t]) = {}
          /\ IsInjective(p.inbox[t])
      BY DEF Whole, SlotsOK
    <2>2. CASE t = s
      <3>1. i \in Active(q, s) /\ Active(q, s) = Active(p, s) /\ q.sending[s] = p.sending[s]
        BY <1>0, <1>2, <1>7
      <3> QED
        BY <1>0, <1>6, <2>1, <2>2, <3>1
    <2>3. CASE t # s
      BY <1>2, <1>6, <1>7, <2>1, <2>3
    <2> QED
      BY <2>2, <2>3
  <1> QED
    BY <1>1, <1>2, <1>6, <1>8, PassedWhole

-----------------------------------------------------------------------------
(* The steps. *)

\* Only select's lists refer to the collection besides the collection itself.
LEMMA Invariant ==
    /\ IInv <=> Whole(pool, {}) /\ PassOK
    /\ IInv' <=> Whole(pool', {}) /\ PassOK'
  BY DEF IInv

\* subserver_newcollection, subserver_new and subserver_done: nothing is
\* asked yet, and every slot is free.
LEMMA InitHolds ==
    ASSUME SubServersInit
    PROVE  IInv /\ \A k \in Key : Count(pool, k) = 0
  <1>1. pool = Pool /\ phase = "before" /\ toRead = {} /\ toWrite = {}
    BY DEF SubServersInit
  <1> DEFINE none == [s \in Server |-> NoQueries(s)]
             all == Cardinality(SlotsOf(Server))
  <1>2. pool = [queue |-> <<>>, oq |-> none, sending |-> [s \in Server |-> <<>>],
                noq |-> [s \in Server |-> 0], tnoq |-> 0, tmoq |-> all, receiving |-> {},
                dead |-> <<>>, tried |-> FALSE, sock |-> [s \in Server |-> "closed"],
                inbox |-> [s \in Server |-> <<>>], failures |-> 0]
    BY <1>1 DEF Pool
  <1>3. none = [s \in Server |-> NoQueries(s)]
    OBVIOUS
  <1> HIDE DEF none, all
  <1>4. /\ pool = AsRecord(pool) /\ pool.queue = <<>> /\ pool.oq = none
        /\ pool.sending = [s \in Server |-> <<>>] /\ pool.inbox = [s \in Server |-> <<>>]
        /\ pool.noq = [s \in Server |-> 0] /\ pool.tnoq = 0 /\ pool.tmoq = all
        /\ pool.receiving = {} /\ pool.dead = <<>> /\ pool.sock = [s \in Server |-> "closed"]
    BY <1>2 DEF AsRecord
  <1>5. \A s \in Server : pool.oq[s] = NoQueries(s)
    BY <1>3, <1>4
  <1>6. \A s \in Server : NoQueries(s) \in [Slots(s) -> Key \cup {"none"}]
    BY DEF NoQueries
  <1>7. <<>> \in Seq(Nat) /\ <<>> \in Seq(Key) /\ <<>> \in Seq(Server) /\ "closed" \in States
    BY DEF States
  <1>8. ToSet(<<>>) = {} /\ IsInjective(<<>>)
    BY DEF ToSet, IsInjective
  <1>9. IsPool(pool)
    <2>1. DOMAIN pool.oq = Server
      BY <1>3, <1>4
    <2>2. /\ pool.sending \in [Server -> Seq(Nat)] /\ pool.inbox \in [Server -> Seq(Nat)]
          /\ pool.noq \in [Server -> Nat] /\ pool.sock \in [Server -> States]
      BY <1>4, <1>7
    <2>3. \A s \in Server : pool.oq[s] \in [Slots(s) -> Key \cup {"none"}]
      BY <1>5, <1>6
    <2>4. pool.queue \in Seq(Key) /\ pool.dead \in Seq(Server) /\ pool.receiving \subseteq Server
      BY <1>4, <1>7
    <2>5. pool = AsRecord(pool)
      BY <1>4
    <2> QED
      BY <2>1, <2>2, <2>3, <2>4, <2>5 DEF IsPool, AsRecord
  <1>10. \A s \in Server : \A i \in Slots(s) : pool.oq[s][i] = "none"
    BY <1>5 DEF NoQueries
  <1>11. \A x \in SlotsOf(Server) : pool.oq[x[1]][x[2]] = "none"
    <2> SUFFICES ASSUME NEW x \in SlotsOf(Server) PROVE pool.oq[x[1]][x[2]] = "none"
      OBVIOUS
    <2>1. PICK s \in Server : \E i \in Slots(s) : x = <<s, i>>
      BY SlotsOfMembers
    <2>2. PICK i \in Slots(s) : x = <<s, i>>
      BY <2>1
    <2> QED
      BY <1>10, <2>2
  <1>12. (\A s \in Server : Active(pool, s) = {}) /\ Busy(pool) = {}
    BY <1>10, <1>11 DEF Active, Busy
  <1>13. CountsOK(pool)
    <2>1. \A s \in Server : pool.noq[s] = Cardinality(Active(pool, s))
      BY <1>4, <1>12, FS_EmptySet
    <2>2. pool.tnoq = Cardinality(Busy(pool))
      BY <1>4, <1>12, FS_EmptySet
    <2>3. Server \ ToSet(pool.dead) = Server
      BY <1>4, <1>8
    <2>4. pool.tmoq = Cardinality(SlotsOf(Server \ ToSet(pool.dead)))
      BY <1>4, <2>3 DEF all
    <2> QED
      BY <2>1, <2>2, <2>4 DEF CountsOK
  <1>14. SlotsOK(pool)
    BY <1>4, <1>8, <1>12 DEF SlotsOK
  <1>15. WatchedOK(pool) /\ ConnectedBut(pool, {})
    <2>1. ToSet(pool.dead) = {} /\ IsInjective(pool.dead)
      BY <1>4, <1>8
    <2>2. \A s \in Server : s \in pool.receiving <=> pool.noq[s] > 0
      BY <1>4
    <2> QED
      BY <1>4, <2>1, <2>2 DEF WatchedOK, ConnectedBut
  <1>16. ASSUME NEW k \in Key PROVE Count(pool, k) = 0
    <2>1. {i \in DOMAIN pool.queue : pool.queue[i] = k} = {}
      BY <1>4
    <2>2. {x \in SlotsOf(Server) : pool.oq[x[1]][x[2]] = k} = {}
      BY <1>11, KeyAssumption
    <2>3. Cardinality({}) = 0
      BY FS_EmptySet
    <2>4. Occurrences(pool.queue, k) = 0
      BY <2>1, <2>3, Zenon DEF Occurrences
    <2>5. Count(pool, k) = 0 + 0
      BY <2>2, <2>3, <2>4, Zenon DEF Count
    <2> QED
      BY <2>5
  <1>17. PassOK
    BY <1>1 DEF PassOK
  <1> QED
    BY <1>9, <1>13, <1>14, <1>15, <1>16, <1>17, Invariant DEF Whole

\* Nothing is asked of the servers, and nothing is answered.
Unasked == \A k \in Key : Count(pool', k) = Count(pool, k)

\* subserver_startreq
LEMMA StartReqStep ==
    ASSUME IInv, NEW k \in Key, StartReq(k)
    PROVE  /\ IInv' /\ Count(pool', k) = Count(pool, k) + 1
           /\ \A l \in Key \ {k} : Count(pool', l) = Count(pool, l)
  <1>1. PICK p : p = [pool EXCEPT !.queue = Append(@, k)]
    OBVIOUS
  <1>2. Whole(pool, {}) /\ PassOK
    BY Invariant
  <1>3. /\ Whole(p, {}) /\ Count(p, k) = Count(pool, k) + 1
        /\ \A l \in Key \ {k} : Count(p, l) = Count(pool, l)
    BY <1>1, <1>2, StartedWhole
  <1>4. pool' = p \/ pool' \in DishOutWork(p)
    BY <1>1 DEF StartReq
  <1>5. Hands(p, pool')
    BY <1>3, <1>4, DishOutWorkHands DEF Hands, Keeps, Adds
  <1>6. PassOK'
    <2>1. pool = AsRecord(pool)
      BY <1>2 DEF Whole, IsPool, AsRecord
    <2>2. p.receiving = pool.receiving /\ p.sending = pool.sending
      BY <1>1, <2>1 DEF AsRecord
    <2> QED
      BY <1>2, <1>5, <2>2 DEF PassOK, StartReq, Hands, Adds
  <1> QED
    BY <1>3, <1>5, <1>6, Invariant DEF Hands, Keeps

\* subserver_deletereq
LEMMA DeleteReqStep ==
    ASSUME IInv, NEW k \in Key, DeleteReq(k)
    PROVE  /\ IInv' /\ \E n \in 1 .. Count(pool, k) : Count(pool', k) = Count(pool, k) - n
           /\ \A l \in Key \ {k} : Count(pool', l) = Count(pool, l)
  <1>1. Whole(pool, {}) /\ PassOK /\ pool.queue \in Seq(Key)
    BY Invariant DEF Whole, IsPool
  <1>2. PICK r : r = Without(pool.queue, k)
    OBVIOUS
  <1>3. /\ r \in Seq(Key) /\ Occurrences(r, k) = 0
        /\ \A l \in Key \ {k} : Occurrences(r, l) = Occurrences(pool.queue, l)
    BY <1>1, <1>2, WithoutFacts
  <1>4. pool' = [pool EXCEPT !.queue = r] /\ k \in ToSet(pool.queue)
    BY <1>2, Zenon DEF DeleteReq
  <1>5. /\ Whole(pool', {})
        /\ \E n \in 1 .. Count(pool, k) : Count(pool', k) = Count(pool, k) - n
        /\ \A l \in Key \ {k} : Count(pool', l) = Count(pool, l)
    BY <1>1, <1>3, <1>4, DeletedWhole
  <1>6. PassOK'
    <2>1. pool = AsRecord(pool)
      BY <1>1 DEF Whole, IsPool, AsRecord
    <2>2. pool'.receiving = pool.receiving /\ pool'.sending = pool.sending
      BY <1>4, <2>1 DEF AsRecord
    <2> QED
      BY <1>1, <2>2 DEF PassOK, DeleteReq
  <1> QED
    BY <1>5, <1>6, Invariant

\* select names servers that are there to be read and written.
LEMMA SelectStep ==
    ASSUME IInv, Select
    PROVE  IInv' /\ Unasked
  <1>1. Whole(pool, {}) /\ PassOK /\ pool' = pool
    BY Invariant DEF Select
  <1>2. PassOK'
    BY <1>1 DEF PassOK, Select, Readable, Writable
  <1> QED
    BY <1>1, <1>2, Invariant DEF Unasked

\* subserver_readable: one request is answered, or the server is given up.
\* Either way the lists of select still name servers of this pass.
LEMMA ReadStep ==
    ASSUME IInv, NEW s \in Server, Read(s)
    PROVE  /\ IInv'
           /\ \/ Unasked /\ call' = NoCall
              \/ \E k \in Key : /\ call' = Call("cache_newresult", k)
                                /\ Count(pool, k) = Count(pool', k) + 1
                                /\ \A l \in Key \ {k} : Count(pool, l) = Count(pool', l)
  <1>1. Whole(pool, {}) /\ PassOK /\ s \in toRead /\ s \in pool.receiving
    BY Invariant DEF Read, PassOK
  <1>2. CASE pool.inbox[s] # <<>> /\ pool' = Extract(pool, s)
             /\ call' = Call("cache_newresult", pool.oq[s][Head(pool.inbox[s])])
             /\ (toRead' = toRead \ {s} \/ (Len(pool.inbox[s]) > 1 /\ UNCHANGED toRead))
             /\ UNCHANGED toWrite
    <2>1. /\ Whole(pool', {})
          /\ \E k \in Key : /\ k = pool.oq[s][Head(pool.inbox[s])]
                            /\ Count(pool, k) = Count(pool', k) + 1
                            /\ \A l \in Key \ {k} : Count(pool, l) = Count(pool', l)
          /\ pool'.sending = pool.sending
          /\ pool.receiving \ {s} \subseteq pool'.receiving
          /\ Len(pool.inbox[s]) > 1 => pool.receiving \subseteq pool'.receiving
      BY <1>1, <1>2, ExtractWhole
    <2>2. PassOK'
      BY <1>1, <1>2, <2>1 DEF PassOK, Read
    <2> QED
      BY <1>2, <2>1, <2>2, Invariant
  <1>3. CASE pool' = PossiblyDead(pool, s) /\ call' = NoCall /\ toRead' = toRead \ {s} /\ toWrite' = toWrite \ {s}
    <2>1. Whole(pool, {s}) /\ s \notin ToSet(pool.dead)
      BY <1>1, WholeBut, NotDead
    <2>2. /\ Whole(pool', {}) /\ \A k \in Key : Count(pool', k) = Count(pool, k)
          /\ pool'.receiving = pool.receiving \ {s}
          /\ \A t \in Server \ {s} : pool'.sending[t] = pool.sending[t]
      BY <1>3, <2>1, PossiblyDeadWhole
    <2>3. PassOK'
      BY <1>1, <1>3, <2>2 DEF PassOK, Read
    <2> QED
      BY <1>3, <2>2, <2>3, Invariant DEF Unasked
  <1> QED
    BY <1>2, <1>3 DEF Read

\* subserver_writable
LEMMA WriteStep ==
    ASSUME IInv, NEW s \in Server, Write(s)
    PROVE  IInv' /\ Unasked
  <1>1. /\ Whole(pool, {}) /\ PassOK /\ s \in toWrite /\ pool.sending[s] # <<>> /\ s \notin ToSet(pool.dead)
        /\ toRead = {} /\ toRead' = {} /\ toWrite' = toWrite \ {s} /\ phase' = "io"
    <2>1. /\ Whole(pool, {}) /\ PassOK /\ s \in toWrite
          /\ toRead = {} /\ toRead' = {} /\ toWrite' = toWrite \ {s} /\ phase' = "io"
      BY Invariant DEF Write
    <2>2. pool.sending[s] # <<>>
      BY <2>1 DEF PassOK
    <2> QED
      BY <2>1, <2>2, NotDead
  <1>2. ASSUME Whole(pool', {}), Unasked, \A t \in Server \ {s} : pool'.sending[t] = pool.sending[t]
        PROVE  IInv' /\ Unasked
    <2>1. PassOK'
      BY <1>1, <1>2 DEF PassOK
    <2> QED
      BY <1>2, <2>1, Invariant
  <1>3. CASE pool.sock[s] = "made" /\ pool' = [pool EXCEPT !.sock[s] = "open"]
    <2>1. Alike(pool, pool') /\ pool'.sock = [pool.sock EXCEPT ![s] = "open"]
      <3>1. pool = AsRecord(pool)
        BY <1>1 DEF Whole, IsPool, AsRecord
      <3> QED
        BY <1>3, <3>1 DEF AsRecord, Alike
    <2>2. Whole(pool, {s}) /\ "open" \in States \ {"closed"}
      BY <1>1, WholeBut DEF States
    <2>3. Whole(pool', {}) /\ \A k : Count(pool', k) = Count(pool, k)
      BY <1>1, <2>1, <2>2, SockWhole
    <2>4. pool'.sending = pool.sending
      BY <2>1 DEF Alike
    <2> QED
      BY <1>2, <2>3, <2>4 DEF Unasked
  <1>4. CASE pool' = PossiblyDead(pool, s)
    <2>1. Whole(pool, {s})
      BY <1>1, WholeBut
    <2>2. /\ Whole(pool', {}) /\ \A k \in Key : Count(pool', k) = Count(pool, k)
          /\ \A t \in Server \ {s} : pool'.sending[t] = pool.sending[t]
      BY <1>1, <1>4, <2>1, PossiblyDeadWhole
    <2> QED
      BY <1>2, <2>2 DEF Unasked
  <1>5. CASE pool' = [pool EXCEPT !.sending[s] = Tail(@)]
    <2>1. Keeps(pool, pool') /\ \A t \in Server \ {s} : pool'.sending[t] = pool.sending[t]
      BY <1>1, <1>5, SentWhole
    <2> QED
      BY <1>2, <2>1 DEF Unasked, Keeps
  <1>6. CASE pool' = pool
    BY <1>1, <1>2, <1>6 DEF Unasked
  <1> QED
    BY <1>3, <1>4, <1>5, <1>6 DEF Write

\* subserver_io hands out work when it has read and written.
LEMMA EndIOStep ==
    ASSUME IInv, EndIO
    PROVE  IInv' /\ Unasked
  <1>1. Whole(pool, {}) /\ PassOK /\ pool' \in DishOutWork(pool)
    BY Invariant DEF EndIO
  <1>2. Keeps(pool, pool')
    BY <1>1, DishOutWorkHands DEF Hands
  <1>3. PassOK'
    BY DEF PassOK, EndIO
  <1> QED
    BY <1>2, <1>3, Invariant DEF Unasked, Keeps

\* A server answers.
LEMMA AnswerStep ==
    ASSUME IInv, NEW s \in Server, NEW i \in Slots(s), Answer(s, i)
    PROVE  IInv' /\ Unasked
  <1>1. /\ Whole(pool, {}) /\ PassOK
        /\ pool.sending[s] \in Seq(Nat) /\ pool.inbox[s] \in Seq(Nat)
    BY Invariant DEF Whole, IsPool
  <1>2. i \in Active(pool, s) /\ i \notin ToSet(pool.sending[s]) /\ i \notin ToSet(pool.inbox[s])
    <2>1. i \in Active(pool, s) /\ i \notin ToSet(pool.sending[s] \o pool.inbox[s])
      BY DEF Answer
    <2>2. \A a, b \in Seq(Nat) : ToSet(a) \subseteq ToSet(a \o b) /\ ToSet(b) \subseteq ToSet(a \o b)
      <3> SUFFICES ASSUME NEW a \in Seq(Nat), NEW b \in Seq(Nat)
                   PROVE  ToSet(a) \subseteq ToSet(a \o b) /\ ToSet(b) \subseteq ToSet(a \o b)
        OBVIOUS
      <3> DEFINE c == a \o b
      <3>1. /\ DOMAIN a = 1 .. Len(a) /\ DOMAIN b = 1 .. Len(b) /\ DOMAIN c = 1 .. Len(a) + Len(b)
            /\ Len(a) \in Nat /\ Len(b) \in Nat /\ \A j \in 1 .. Len(a) : c[j] = a[j]
        OBVIOUS
      <3>2. \A j \in 1 .. Len(b) : c[Len(a) + j] = b[j] /\ Len(a) + j \in 1 .. Len(a) + Len(b)
        <4> SUFFICES ASSUME NEW j \in 1 .. Len(b)
                     PROVE  c[Len(a) + j] = b[j] /\ Len(a) + j \in 1 .. Len(a) + Len(b)
          OBVIOUS
        <4>1. Len(a) + j \in 1 .. Len(a) + Len(b) /\ ~(Len(a) + j <= Len(a)) /\ (Len(a) + j) - Len(a) = j
          BY <3>1
        <4> QED
          BY <3>1, <4>1
      <3> HIDE DEF c
      <3>3. \A j \in 1 .. Len(a) : j \in 1 .. Len(a) + Len(b)
        BY <3>1
      <3>4. ToSet(a) \subseteq ToSet(c) /\ ToSet(b) \subseteq ToSet(c)
        BY <3>1, <3>2, <3>3 DEF ToSet
      <3> QED
        BY <3>4 DEF c
    <2> QED
      BY <1>1, <2>1, <2>2
  <1>3. Answered(pool, s, i, pool')
    BY <1>2 DEF Answer, Answered
  <1>4. Keeps(pool, pool') /\ pool'.receiving = pool.receiving /\ pool'.sending = pool.sending
    BY <1>1, <1>3, AnsweredWhole
  <1>5. PassOK'
    BY <1>1, <1>4 DEF PassOK, Answer, Unseen
  <1> QED
    BY <1>4, <1>5, Invariant DEF Keeps, Unasked

\* A connection that is there, or being made, becomes another that is.
LEMMA SockStep ==
    ASSUME IInv, NEW s \in Server, pool.sock[s] # "closed", NEW c \in States \ {"closed"},
           Alike(pool, pool'), pool'.sock = [pool.sock EXCEPT ![s] = c],
           UNCHANGED <<phase, toRead, toWrite>>
    PROVE  IInv' /\ Unasked
  <1>1. Whole(pool, {}) /\ PassOK
    BY Invariant
  <1>2. Whole(pool, {s}) /\ s \notin ToSet(pool.dead)
    BY <1>1, WholeBut, NotDead
  <1>3. Whole(pool', {}) /\ \A k : Count(pool', k) = Count(pool, k)
    BY <1>2, SockWhole
  <1>4. pool'.receiving = pool.receiving /\ pool'.sending = pool.sending
    BY DEF Alike
  <1>5. PassOK'
    BY <1>1, <1>4 DEF PassOK
  <1> QED
    BY <1>3, <1>5, Invariant DEF Unasked

\* A connect ends, well or badly: subserver_writable will find out.
LEMMA ConnectEndsStep ==
    ASSUME IInv, NEW s \in Server, ConnectEnds(s)
    PROVE  IInv' /\ Unasked
  <1>1. pool = AsRecord(pool)
    BY Invariant DEF Whole, IsPool, AsRecord
  <1>2. pool.sock[s] # "closed" /\ UNCHANGED <<phase, toRead, toWrite>>
    BY DEF ConnectEnds, Unseen
  <1>3. PICK c \in States \ {"closed"} :
            \/ pool' = [pool EXCEPT !.sock[s] = c]
            \/ pool' = [pool EXCEPT !.sock[s] = c, !.failures = @ + 1]
    <2>1. {"made", "failed"} \subseteq States \ {"closed"}
      BY DEF States
    <2> QED
      BY <2>1 DEF ConnectEnds, Unseen
  <1>4. Alike(pool, pool') /\ pool'.sock = [pool.sock EXCEPT ![s] = c]
    BY <1>1, <1>3 DEF AsRecord, Alike
  <1> QED
    BY <1>2, <1>4, SockStep

\* A server goes.
LEMMA BreaksStep ==
    ASSUME IInv, NEW s \in Server, Breaks(s)
    PROVE  IInv' /\ Unasked
  <1>1. pool = AsRecord(pool)
    BY Invariant DEF Whole, IsPool, AsRecord
  <1>2. pool.sock[s] # "closed" /\ UNCHANGED <<phase, toRead, toWrite>>
    BY DEF Breaks, Unseen
  <1>3. "broken" \in States \ {"closed"}
    BY DEF States
  <1>4. pool' = [pool EXCEPT !.sock[s] = "broken", !.failures = @ + 1]
    BY DEF Breaks
  <1>5. Alike(pool, pool') /\ pool'.sock = [pool.sock EXCEPT ![s] = "broken"]
    BY <1>1, <1>4 DEF AsRecord, Alike
  <1> QED
    BY <1>2, <1>3, <1>5, SockStep

\* Time passes.
LEMMA TickStep ==
    ASSUME IInv, Tick
    PROVE  IInv' /\ Unasked
  <1>1. Whole(pool, {}) /\ PassOK /\ pool = AsRecord(pool)
    BY Invariant DEF Whole, IsPool, AsRecord
  <1>2. pool' = [pool EXCEPT !.tried = FALSE]
    BY DEF Tick
  <1>3. Alike(pool, pool') /\ pool'.sock = pool.sock
    BY <1>1, <1>2 DEF AsRecord, Alike
  <1>4. /\ pool'.sock \in [Server -> States]
        /\ \A t \in ToSet(pool.dead) : pool'.sock[t] = "closed"
        /\ ConnectedBut(pool', {})
    BY <1>1, <1>3 DEF Whole, IsPool, WatchedOK, ConnectedBut, Alike
  <1>5. Whole(pool', {}) /\ \A k : Count(pool', k) = Count(pool, k)
    BY <1>1, <1>3, <1>4, AlikeWhole
  <1>6. pool'.receiving = pool.receiving /\ pool'.sending = pool.sending
    BY <1>3 DEF Alike
  <1>7. PassOK'
    BY <1>1, <1>6 DEF PassOK, Tick, Unseen
  <1> QED
    BY <1>5, <1>7, Invariant DEF Unasked

-----------------------------------------------------------------------------
(* The theorems. *)

\* A step keeps the invariant, and is one NcsBackend allows: a request comes,
\* one is answered, those of a kind that are not at a server yet are dropped,
\* each by the call that is there for it, or nothing pending changes.
Served ==
    \/ Unasked /\ call' \in {call, NoCall}
    \/ \E k \in Key :
          /\ \A l \in Key \ {k} : Count(pool', l) = Count(pool, l)
          /\ \/ /\ call' = Call("subserver_startreq", k)
                /\ Count(pool', k) = Count(pool, k) + 1
             \/ /\ call' = Call("cache_newresult", k)
                /\ Count(pool, k) = Count(pool', k) + 1
             \/ /\ call' = Call("subserver_deletereq", k)
                /\ \E n \in 1 .. Count(pool, k) : Count(pool', k) = Count(pool, k) - n

\* Every action does one of these, and keeps the invariant.
LEMMA StepHolds ==
    ASSUME IInv, [SubServersNext]_vars
    PROVE  IInv' /\ Served
  <1>1. CASE UNCHANGED vars
    BY <1>1 DEF vars, IInv, PassOK, Served, Unasked
  <1>2. ASSUME NEW k \in Key, StartReq(k) PROVE IInv' /\ Served
    BY <1>2, StartReqStep DEF Served, StartReq
  <1>3. ASSUME NEW k \in Key, DeleteReq(k) PROVE IInv' /\ Served
    BY <1>3, DeleteReqStep DEF Served, DeleteReq
  <1>4. CASE Select
    BY <1>4, SelectStep DEF Served, Select
  <1>5. ASSUME NEW s \in Server, Read(s) PROVE IInv' /\ Served
    BY <1>5, ReadStep DEF Served
  <1>6. ASSUME NEW s \in Server, Write(s) PROVE IInv' /\ Served
    BY <1>6, WriteStep DEF Served, Write
  <1>7. CASE EndIO
    BY <1>7, EndIOStep DEF Served, EndIO
  <1>8. ASSUME NEW s \in Server, NEW i \in Slots(s), Answer(s, i) PROVE IInv' /\ Served
    BY <1>8, AnswerStep DEF Served, Answer, Unseen
  <1>9. ASSUME NEW s \in Server, ConnectEnds(s) PROVE IInv' /\ Served
    BY <1>9, ConnectEndsStep DEF Served, ConnectEnds, Unseen
  <1>10. ASSUME NEW s \in Server, Breaks(s) PROVE IInv' /\ Served
    BY <1>10, BreaksStep DEF Served, Breaks, Unseen
  <1>11. CASE Tick
    BY <1>11, TickStep DEF Served, Tick, Unseen
  <1> QED
    BY <1>1, <1>2, <1>3, <1>4, <1>5, <1>6, <1>7, <1>8, <1>9, <1>10, <1>11
    DEF SubServersNext, IO, World

\* However requests, answers, failures and retries of servers follow each
\* other, the collection is whole between two steps of the program.
THEOREM SubServersInvariance == SubServersSpec => []IInv
  <1>1. SubServersInit => IInv
    BY InitHolds
  <1>2. IInv /\ [SubServersNext]_vars => IInv'
    BY StepHolds
  <1> QED
    BY <1>1, <1>2, PTL DEF SubServersSpec

\* subserver_dishoutwork reckons with noq, total_noq and total_moq: they count
\* exactly the queries at servers and the slots of those not given up, however
\* servers are given up, tried again and answer.
THEOREM CountsExact == SubServersSpec => []CountsAreExact
  <1>1. IInv => CountsAreExact
    BY DEF IInv, Whole, CountsOK, CountsAreExact
  <1> QED
    BY <1>1, SubServersInvariance, PTL

\* subserver_addselectfds looks only at receiving: no server with a query is missing
\* there, or has no connection, and a server given up has neither.
THEOREM QueriesWatched == SubServersSpec => []QueriesAreWatched
  <1>1. IInv => QueriesAreWatched
    BY DEF IInv, Whole, WatchedOK, ConnectedBut, QueriesAreWatched
  <1> QED
    BY <1>1, SubServersInvariance, PTL

\* The servers do what NcsBackend promises ntvcached: between the calls that
\* start, answer and delete requests, none is lost or doubled, however servers
\* are given up and tried again, and each call of cache_newresult answers one.
THEOREM BackendIsImplemented == SubServersSpec => RequestsAreServed
  <1>1. SubServersInit => Backend!BackendInit
    BY InitHolds DEF SubServersInit, Backend!BackendInit, Backend!NoCall, NoCall, Call
  <1>2. ASSUME IInv, [SubServersNext]_vars
        PROVE  [Backend!BackendNext]_<<[k \in Key |-> Count(pool, k)], call>>
    <2> DEFINE now == [k \in Key |-> Count(pool, k)]
               then == [k \in Key |-> Count(pool', k)]
    <2>1. \A k \in Key : Count(pool, k) \in Nat /\ Count(pool', k) \in Nat
      BY <1>2, StepHolds, Invariant, CountIsNat
    <2>2. CASE Unasked /\ call' \in {call, NoCall}
      <3>1. then = now
        BY <2>2 DEF Unasked
      <3>2. CASE call' = call
        BY <3>1, <3>2
      <3>3. CASE call' = NoCall
        BY <3>1, <3>3 DEF Backend!BackendNext, Backend!Inside, Backend!NoCall, NoCall, Call
      <3> QED
        BY <2>2, <3>2, <3>3
    <2>3. ASSUME NEW k \in Key, \A l \in Key \ {k} : Count(pool', l) = Count(pool, l)
          PROVE  then = [now EXCEPT ![k] = Count(pool', k)]
      BY <2>3
    <2>4. ASSUME NEW k \in Key, then = [now EXCEPT ![k] = Count(pool', k)],
                 call' = Call("subserver_startreq", k), Count(pool', k) = Count(pool, k) + 1
          PROVE  Backend!Start(k)
      BY <2>4 DEF Backend!Start, Call
    <2>5. ASSUME NEW k \in Key, then = [now EXCEPT ![k] = Count(pool', k)],
                 call' = Call("cache_newresult", k), Count(pool, k) = Count(pool', k) + 1
          PROVE  Backend!Deliver(k)
      <3>1. now[k] = Count(pool, k) /\ Count(pool, k) > 0 /\ Count(pool', k) = now[k] - 1
        BY <2>1, <2>5
      <3>2. then = [now EXCEPT ![k] = now[k] - 1]
        BY <2>5, <3>1
      <3>3. now[k] > 0
        BY <3>1
      <3> QED
        BY <2>5, <3>2, <3>3 DEF Backend!Deliver, Call
    <2>6. ASSUME NEW k \in Key, then = [now EXCEPT ![k] = Count(pool', k)],
                 call' = Call("subserver_deletereq", k),
                 \E n \in 1 .. Count(pool, k) : Count(pool', k) = Count(pool, k) - n
          PROVE  Backend!Withdraw(k)
      BY <2>1, <2>6 DEF Backend!Withdraw, Call
    <2> QED
      BY <1>2, <2>2, <2>3, <2>4, <2>5, <2>6, StepHolds DEF Served, Backend!BackendNext
  <1> QED
    BY <1>1, <1>2, SubServersInvariance, PTL
    DEF SubServersSpec, RequestsAreServed, Backend!BackendSpec
=============================================================================
