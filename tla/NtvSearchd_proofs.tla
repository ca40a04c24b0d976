------------------------- MODULE NtvSearchd_proofs -------------------------
(***************************************************************************)
(* The threads of ntvsearchd share connections and request buffers without *)
(* treading on each other, and use the work queue as NtvWorkQueue says,    *)
(* for any number of threads, buffers and connections.                     *)
(*                                                                         *)
(* The first part is about the work queue alone: it never loses a wakeup   *)
(* and never hands a worker an empty queue, for any number of threads and  *)
(* any limit.  The second part is about the server built around it.        *)
(***************************************************************************)
EXTENDS NtvSearchd, FiniteSetTheorems, TLAPS

(* The work queue *)

\* Why a connector may be left asleep: the queue is still over its limit, so
\* some worker has yet to bring it back there.
CountedOnlyOverLimit == nthrottled > 0 => nwork > MaxWork

\* The inductive invariant.
IInv ==
    /\ TypeOK
    /\ ClaimsAreBacked
    /\ WakeupsMatchSleepers
    /\ CountedOnlyOverLimit
    /\ QueueIsBounded

-----------------------------------------------------------------------------
\* How a set of threads changes size when one thread joins or leaves it.
LEMMA CountJoin ==
    ASSUME NEW S, IsFiniteSet(S), NEW A, A \subseteq S, NEW x \in S
    PROVE  /\ Cardinality(A) \in Nat
           /\ Cardinality(A \cup {x}) =
                 IF x \in A THEN Cardinality(A) ELSE Cardinality(A) + 1
  <1>1. IsFiniteSet(A)
    BY FS_Subset
  <1> QED
    BY <1>1, FS_AddElement, FS_CardinalityType

LEMMA CountLeave ==
    ASSUME NEW S, IsFiniteSet(S), NEW A, A \subseteq S, NEW x \in A
    PROVE  /\ Cardinality(A) \in Nat \ {0}
           /\ Cardinality(A \ {x}) = Cardinality(A) - 1
  <1>1. IsFiniteSet(A)
    BY FS_Subset
  <1>2. Cardinality(A) \in Nat /\ Cardinality(A) # 0
    BY <1>1, FS_CardinalityType, FS_EmptySet
  <1> QED
    BY <1>1, <1>2, FS_RemoveElement

\* The counts the invariant speaks of are numbers.
LEMMA CountsAreNat ==
    /\ Cardinality(Asleep) \in Nat
    /\ Cardinality(Busy) \in Nat
    /\ Cardinality(Claimed) \in Nat
    /\ Asleep # {} => Cardinality(Asleep) > 0
  <1>1. IsFiniteSet(Asleep) /\ IsFiniteSet(Busy) /\ IsFiniteSet(Claimed)
    BY ThreadsAreFinite, FS_Subset DEF Asleep, Busy, Claimed
  <1> QED
    BY <1>1, FS_CardinalityType, FS_EmptySet

\* The test at the head of work_addtoq's loop, made by a connector that is
\* not asleep: it goes to sleep counted, or leaves.
LEMMA TestLimitCounts ==
    ASSUME TypeOK, NEW c \in Connector, cpc[c] # "asleep",
           NEW n \in Nat, TestLimit(c, n)
    PROVE  /\ cpc' \in [Connector -> {"idle", "asleep", "awake"}]
           /\ \/ /\ n > MaxWork
                 /\ nthrottled' = nthrottled + 1
                 /\ Cardinality(Asleep') = Cardinality(Asleep) + 1
                 /\ Busy' = Busy \cup {c}
              \/ /\ n <= MaxWork
                 /\ nthrottled' = nthrottled
                 /\ Asleep' = Asleep
                 /\ Busy' = Busy \ {c}
  <1>1. Asleep \subseteq Connector /\ c \notin Asleep
    BY DEF Asleep
  <1>2. CASE n > MaxWork
    <2>1. cpc' = [cpc EXCEPT ![c] = "asleep"] /\ nthrottled' = nthrottled + 1
      BY <1>2 DEF TestLimit
    <2>2. Asleep' = Asleep \cup {c} /\ Busy' = Busy \cup {c}
      BY <2>1 DEF Asleep, Busy, TypeOK
    <2>3. Cardinality(Asleep') = Cardinality(Asleep) + 1
      BY <1>1, <2>2, CountJoin, ThreadsAreFinite
    <2> QED
      BY <1>2, <2>1, <2>2, <2>3 DEF TypeOK
  <1>3. CASE ~(n > MaxWork)
    <2>1. cpc' = [cpc EXCEPT ![c] = "idle"] /\ nthrottled' = nthrottled
      BY <1>3 DEF TestLimit
    <2>2. Asleep' = Asleep /\ Busy' = Busy \ {c}
      BY <1>1, <2>1 DEF Asleep, Busy, TypeOK
    <2> QED
      BY <1>3, <2>1, <2>2, MaxWorkAssumption DEF TypeOK
  <1> QED
    BY <1>2, <1>3

-----------------------------------------------------------------------------
LEMMA InitIInv == Init => IInv
  <1> SUFFICES ASSUME Init PROVE IInv
    OBVIOUS
  <1>1. Asleep = {} /\ Busy = {} /\ Claimed = {}
    BY DEF Init, Asleep, Busy, Claimed
  <1> QED
    BY <1>1, FS_EmptySet, MaxWorkAssumption
    DEF Init, IInv, TypeOK, ClaimsAreBacked, WakeupsMatchSleepers,
        CountedOnlyOverLimit, QueueIsBounded

LEMMA AddToQIInv ==
    ASSUME IInv, NEW c \in Connector, NEW r \in Request, AddToQ(c, r)
    PROVE  IInv'
  <1> USE DEF IInv
  <1>1. /\ TestLimit(c, nwork + 1) /\ nwork + 1 \in Nat
        /\ cpc[c] = "idle" /\ cpc[c] # "asleep"
    BY DEF AddToQ, TypeOK
  <1>2. /\ queue' \in Seq(Request) /\ Len(queue') = Len(queue) + 1
        /\ nwork' = nwork + 1 /\ semWork' = semWork + 1
        /\ semThrottled' = semThrottled /\ wpc' = wpc /\ inHand' = inHand
        /\ Len(queue) \in Nat
    BY DEF AddToQ, TypeOK
  <1>3. Claimed' = Claimed
    BY <1>2 DEF Claimed
  <1>4. Cardinality(Busy \cup {c}) = Cardinality(Busy) + 1
    BY <1>1, CountJoin, ThreadsAreFinite DEF Busy
  <1>5. Busy \ {c} = Busy
    BY <1>1 DEF Busy
  <1>6. TypeOK'
    <2>1. /\ cpc' \in [Connector -> {"idle", "asleep", "awake"}]
          /\ nthrottled' = nthrottled + 1 \/ nthrottled' = nthrottled
      BY <1>1, TestLimitCounts
    <2>2. nthrottled' \in Nat
      BY <2>1 DEF TypeOK
    <2> QED
      BY <1>1, <1>2, <2>1, <2>2 DEF TypeOK
  <1>7. ClaimsAreBacked'
    BY <1>2, <1>3, CountsAreNat DEF ClaimsAreBacked, TypeOK
  <1>8. WakeupsMatchSleepers'
    BY <1>1, <1>2, TestLimitCounts, CountsAreNat DEF WakeupsMatchSleepers, TypeOK
  <1>9. CountedOnlyOverLimit'
    BY <1>1, <1>2, TestLimitCounts, MaxWorkAssumption DEF CountedOnlyOverLimit, TypeOK
  <1>10. QueueIsBounded'
    <2>1. \/ Cardinality(Busy') = Cardinality(Busy) + 1
          \/ nwork + 1 <= MaxWork /\ Busy' = Busy
      BY <1>1, <1>4, <1>5, TestLimitCounts
    <2> QED
      BY <2>1, <1>2, CountsAreNat, MaxWorkAssumption
      DEF QueueIsBounded, ClaimsAreBacked, TypeOK
  <1> QED
    BY <1>6, <1>7, <1>8, <1>9, <1>10

LEMMA WakeIInv ==
    ASSUME IInv, NEW c \in Connector, Wake(c)
    PROVE  IInv'
  <1> USE DEF IInv
  <1>1. /\ Asleep' = Asleep \ {c} /\ c \in Asleep /\ Busy' = Busy
        /\ Claimed' = Claimed
    BY DEF Wake, TypeOK, Asleep, Busy, Claimed
  <1>2. Cardinality(Asleep') = Cardinality(Asleep) - 1
    BY <1>1, CountLeave, ThreadsAreFinite DEF Asleep
  <1>3. TypeOK'
    BY DEF Wake, TypeOK
  <1> QED
    BY <1>1, <1>2, <1>3, CountsAreNat
    DEF Wake, TypeOK, ClaimsAreBacked, WakeupsMatchSleepers, CountedOnlyOverLimit,
        QueueIsBounded

LEMMA RecheckIInv ==
    ASSUME IInv, NEW c \in Connector, Recheck(c)
    PROVE  IInv'
  <1> USE DEF IInv
  <1>1. TestLimit(c, nwork) /\ nwork \in Nat /\ cpc[c] = "awake"
    BY DEF Recheck, TypeOK
  <1>2. /\ UNCHANGED <<queue, nwork, semWork, semThrottled, wpc, inHand>>
        /\ Claimed' = Claimed
    BY DEF Recheck, Claimed
  <1>3. TypeOK'
    BY <1>1, <1>2, TestLimitCounts DEF TypeOK
  <1>4. Busy \cup {c} = Busy
    BY <1>1 DEF Busy
  <1>5. Cardinality(Busy \ {c}) \in Nat
    BY ThreadsAreFinite, FS_Subset, FS_CardinalityType DEF Busy
  <1>6. QueueIsBounded'
    <2>1. \/ nwork > MaxWork /\ Busy' = Busy
          \/ nwork <= MaxWork /\ Busy' = Busy \ {c}
      BY <1>1, <1>4, TestLimitCounts
    <2>2. Len(queue) = nwork /\ nwork \in Nat /\ queue' = queue
      BY <1>1, <1>2 DEF ClaimsAreBacked
    <2>3. CASE Busy' = Busy
      BY <2>2, <2>3 DEF QueueIsBounded
    <2>4. CASE nwork <= MaxWork /\ Busy' = Busy \ {c}
      BY <2>2, <2>4, <1>5, MaxWorkAssumption DEF QueueIsBounded
    <2> QED
      BY <2>1, <2>3, <2>4
  <1>7. WakeupsMatchSleepers' /\ CountedOnlyOverLimit'
    BY <1>1, <1>2, TestLimitCounts, CountsAreNat, MaxWorkAssumption
    DEF WakeupsMatchSleepers, CountedOnlyOverLimit, TypeOK
  <1> QED
    BY <1>2, <1>3, <1>6, <1>7 DEF ClaimsAreBacked

LEMMA ClaimIInv ==
    ASSUME IInv, NEW w \in Worker, Claim(w)
    PROVE  IInv'
  <1> USE DEF IInv
  <1>1. /\ Claimed' = Claimed \cup {w} /\ w \notin Claimed
        /\ Asleep' = Asleep /\ Busy' = Busy
    BY DEF Claim, TypeOK, Claimed, Asleep, Busy
  <1>2. Cardinality(Claimed') = Cardinality(Claimed) + 1
    BY <1>1, CountJoin, ThreadsAreFinite DEF Claimed
  <1>3. TypeOK'
    BY DEF Claim, TypeOK
  <1> QED
    BY <1>1, <1>2, <1>3, CountsAreNat
    DEF Claim, TypeOK, ClaimsAreBacked, WakeupsMatchSleepers, CountedOnlyOverLimit,
        QueueIsBounded

LEMMA RemoveHeadIInv ==
    ASSUME IInv, NEW w \in Worker, RemoveHead(w)
    PROVE  IInv'
  <1> USE DEF IInv
  <1>1. /\ Claimed' = Claimed \ {w} /\ w \in Claimed
        /\ Asleep' = Asleep /\ Busy' = Busy
    BY DEF RemoveHead, TypeOK, Claimed, Asleep, Busy
  <1>2. Cardinality(Claimed') = Cardinality(Claimed) - 1
    BY <1>1, CountLeave, ThreadsAreFinite DEF Claimed
  <1>3. /\ queue' \in Seq(Request) /\ Len(queue') = Len(queue) - 1
        /\ Len(queue) \in Nat \ {0} /\ Head(queue) \in Request
        /\ nwork' = nwork - 1 /\ semWork' = semWork
    BY DEF RemoveHead, TypeOK
  <1>4. ClaimsAreBacked'
    <2>1. nwork = Len(queue) /\ semWork + Cardinality(Claimed) = Len(queue)
      BY DEF ClaimsAreBacked
    <2>2. nwork' = Len(queue')
      BY <2>1, <1>3
    <2>3. semWork' + Cardinality(Claimed') = Len(queue')
      BY <2>1, <1>2, <1>3, CountsAreNat DEF TypeOK
    <2> QED
      BY <2>2, <2>3 DEF ClaimsAreBacked
  <1>5. /\ nthrottled' \in Nat /\ semThrottled' \in Nat
        /\ nthrottled' + semThrottled' = nthrottled + semThrottled
        /\ nthrottled' > 0 => nwork' > MaxWork
    <2>1. nwork \in Nat \ {0}
      BY <1>3 DEF ClaimsAreBacked
    <2>2. CASE nwork - 1 = MaxWork
      BY <2>2 DEF RemoveHead, WakeThrottled, TypeOK
    <2>3. CASE nwork - 1 # MaxWork
      BY <2>1, <2>3, <1>3, MaxWorkAssumption
      DEF RemoveHead, CountedOnlyOverLimit, TypeOK
    <2> QED
      BY <2>2, <2>3
  <1>6. TypeOK'
    <2>1. nwork' \in Nat
      BY <1>3 DEF ClaimsAreBacked
    <2>2. inHand' \in [Worker -> Request \cup {"none"}]
      BY <1>3 DEF RemoveHead, TypeOK
    <2> QED
      BY <2>1, <2>2, <1>3, <1>5 DEF RemoveHead, TypeOK
  <1>7. WakeupsMatchSleepers' /\ CountedOnlyOverLimit'
    BY <1>1, <1>5 DEF WakeupsMatchSleepers, CountedOnlyOverLimit
  <1>8. QueueIsBounded'
    BY <1>1, <1>3, CountsAreNat, MaxWorkAssumption DEF QueueIsBounded
  <1> QED
    BY <1>4, <1>6, <1>7, <1>8

LEMMA FinishIInv ==
    ASSUME IInv, NEW w \in Worker, Finish(w)
    PROVE  IInv'
  <1>1. Claimed' = Claimed /\ Asleep' = Asleep /\ Busy' = Busy
    BY DEF IInv, Finish, TypeOK, Claimed, Asleep, Busy
  <1> QED
    BY <1>1
    DEF IInv, Finish, TypeOK, ClaimsAreBacked, WakeupsMatchSleepers,
        CountedOnlyOverLimit, QueueIsBounded

LEMMA NextIInv == IInv /\ [Next]_qvars => IInv'
  <1> SUFFICES ASSUME IInv, [Next]_qvars PROVE IInv'
    OBVIOUS
  <1>1. ASSUME NEW c \in Connector, NEW r \in Unused, AddToQ(c, r)
        PROVE  IInv'
    <2>1. r \in Request
      BY DEF Unused
    <2> QED
      BY <1>1, <2>1, AddToQIInv
  <1>2. CASE UNCHANGED qvars
    BY <1>2
    DEF qvars, IInv, TypeOK, ClaimsAreBacked, WakeupsMatchSleepers,
        CountedOnlyOverLimit, QueueIsBounded, Claimed, Asleep, Busy
  <1> QED
    BY <1>1, <1>2, WakeIInv, RecheckIInv, ClaimIInv, RemoveHeadIInv, FinishIInv
    DEF Next

\* What work_addtoq and thrd_worker keep at every step.
THEOREM Invariance == Spec => []IInv
  BY InitIInv, NextIInv, PTL DEF Spec

-----------------------------------------------------------------------------
\* The variables of the work queue keep their types: in particular neither
\* g_work_nwork nor g_work_nthrottledthreads goes below zero.
THEOREM TypeCorrect == Spec => []TypeOK
  <1>1. IInv => TypeOK
    BY DEF IInv
  <1> QED
    BY <1>1, Invariance, PTL

\* A worker that got through SEM_WAIT(&sem_work) finds a request on the queue.
THEOREM ClaimsCorrect == Spec => []ClaimsAreBacked
  <1>1. IInv => ClaimsAreBacked
    BY DEF IInv
  <1> QED
    BY <1>1, Invariance, PTL

\* A connector asleep in work_addtoq with no post on its way sleeps because
\* the queue is over its limit.
THEOREM ThrottleCorrect == Spec => []NoLostWakeup
  <1>1. IInv => NoLostWakeup
    BY CountsAreNat, MaxWorkAssumption
    DEF IInv, TypeOK, WakeupsMatchSleepers, CountedOnlyOverLimit, NoLostWakeup
  <1> QED
    BY <1>1, Invariance, PTL

\* The queue exceeds g_work_maxwork by at most one request per connector that
\* is inside work_addtoq.
THEOREM BoundCorrect == Spec => []QueueIsBounded
  <1>1. IInv => QueueIsBounded
    BY DEF IInv
  <1> QED
    BY <1>1, Invariance, PTL

-----------------------------------------------------------------------------
(* The server around the queue *)

\* The connectors that have a request buffer to themselves, and the workers.
Carrying == {c \in Connector : cat[c] \in {"queue", "refuse", "write", "put"}}
Searching == {w \in Worker : wat[w] # "wait"}

\* Those among them whose request has not been answered.
Asking == {c \in Connector : cat[c] \in {"queue", "refuse", "write"}}
Answering == {w \in Worker : wat[w] \in {"search", "wantcore", "core", "answer", "write"}}
Unanswered(r) ==
    \/ r \in Queued
    \/ \E c \in Asking : req[c] = r
    \/ \E w \in Answering : inHand[w] = r

\* The two kinds of user a connection has.
Servers(k) == {c \in Connector : conn[c] = k}
Readers(k) == {r \in Request : rrwOf[r] = k}

Distinct(s) == \A i, j \in 1..Len(s) : s[i] = s[j] => i = j

SearchdTypeOK ==
    /\ usage \in [Connection -> Nat]
    /\ mutWrite \in [Connection -> {"none"} \cup Connector \cup Worker]
    /\ rrwOf \in [Request -> Connection \cup {"none"}]
    /\ idOf \in [Request -> BOOLEAN]
    /\ freelist \in Seq(Request)
    /\ cat \in [Connector -> {"accept", "read", "queue", "refuse", "write", "put",
                            "look", "hangup"}]
    /\ conn \in [Connector -> Connection \cup {"none"}]
    /\ req \in [Connector -> Request \cup {"none"}]
    /\ wat \in [Worker -> {"wait", "search", "wantcore", "core", "answer", "write", "put"}]

\* What a thread has at each place.
ThreadsAreInPlace ==
    /\ \A c \in Connector :
          /\ conn[c] = "none" <=> cat[c] = "accept"
          /\ req[c] = "none" <=> cat[c] \in {"accept", "read", "hangup"}
    /\ \A w \in Worker :
          /\ wat[w] # "wait" <=> wpc[w] = "busy"
          /\ wat[w] # "wait" <=> inHand[w] # "none"

\* A buffer is on the freelist, on the queue, or with one thread, and there once.
OneOwner ==
    /\ Distinct(freelist) /\ Distinct(queue) /\ Pooled \cap Queued = {}
    /\ \A c \in Carrying : req[c] \notin Pooled /\ req[c] \notin Queued
    /\ \A w \in Searching : inHand[w] \notin Pooled /\ inHand[w] \notin Queued
    /\ \A c, d \in Carrying : req[c] = req[d] => c = d
    /\ \A v, w \in Searching : inHand[v] = inHand[w] => v = w
    /\ \A c \in Carrying, w \in Searching : req[c] # inHand[w]

\* A buffer names a connection until its request has been answered.
RequestsNameConnections ==
    /\ \A r \in Request : rrwOf[r] # "none" <=> Unanswered(r)
    /\ \A c \in Asking : rrwOf[req[c]] = conn[c]

\* So that its users can be counted.
UsersAreFinite == \A k \in Connection : IsFiniteSet(Readers(k))

\* What the threads keep beside the queue's own invariant.
OwnInv ==
    /\ SearchdTypeOK
    /\ ThreadsAreInPlace
    /\ OneOwner
    /\ RequestsNameConnections
    /\ UsersAreFinite
    /\ UsageIsExact
    /\ WriteLockIsHeld

SInv == IInv /\ OwnInv

-----------------------------------------------------------------------------
(* Sequences without repetition. *)

Elements(s) == {s[i] : i \in 1..Len(s)}

LEMMA DistinctAppend ==
    ASSUME NEW S, NEW s \in Seq(S), NEW x \in S, Distinct(s), x \notin Elements(s)
    PROVE  Distinct(Append(s, x)) /\ Elements(Append(s, x)) = Elements(s) \cup {x}
  <1> DEFINE t == Append(s, x)
  <1>1. /\ Len(s) \in Nat /\ Len(t) = Len(s) + 1 /\ t[Len(s) + 1] = x
        /\ \A i \in 1..Len(s) : t[i] = s[i]
    OBVIOUS
  <1>2. 1..Len(t) = 1..Len(s) \cup {Len(s) + 1}
    BY <1>1
  <1> HIDE DEF t
  <1>3. Distinct(t)
    BY <1>1, <1>2 DEF Distinct, Elements
  <1>4. Elements(t) = Elements(s) \cup {x}
    BY <1>1, <1>2 DEF Elements
  <1> QED
    BY <1>3, <1>4 DEF t

LEMMA DistinctPush ==
    ASSUME NEW S, NEW s \in Seq(S), NEW x \in S, Distinct(s), x \notin Elements(s)
    PROVE  /\ <<x>> \o s \in Seq(S)
           /\ Distinct(<<x>> \o s) /\ Elements(<<x>> \o s) = Elements(s) \cup {x}
  <1> DEFINE t == <<x>> \o s
  <1>1. /\ t \in Seq(S) /\ Len(s) \in Nat /\ Len(t) = Len(s) + 1 /\ t[1] = x
        /\ \A i \in 2..Len(t) : t[i] = s[i - 1]
    OBVIOUS
  <1> HIDE DEF t
  <1>2. /\ \A i \in 1..Len(t) : i = 1 \/ (i \in 2..Len(t) /\ i - 1 \in 1..Len(s))
        /\ \A i \in 1..Len(s) : i + 1 \in 2..Len(t) /\ t[i + 1] = s[i]
        /\ 1 \in 1..Len(t)
    BY <1>1
  <1>3. Distinct(t)
    <2> SUFFICES ASSUME NEW i \in 1..Len(t), NEW j \in 1..Len(t), t[i] = t[j] PROVE i = j
      BY DEF Distinct
    <2>1. CASE i = 1 /\ j = 1
      BY <2>1
    <2>2. CASE i = 1 /\ j # 1
      BY <1>1, <1>2, <2>2 DEF Elements
    <2>3. CASE i # 1 /\ j = 1
      BY <1>1, <1>2, <2>3 DEF Elements
    <2>4. CASE i # 1 /\ j # 1
      <3>1. s[i - 1] = s[j - 1] /\ i - 1 \in 1..Len(s) /\ j - 1 \in 1..Len(s)
        BY <1>1, <1>2, <2>4
      <3>2. i - 1 = j - 1
        BY <3>1 DEF Distinct
      <3> QED
        BY <3>2
    <2> QED
      BY <2>1, <2>2, <2>3, <2>4
  <1>4. Elements(t) = Elements(s) \cup {x}
    <2>1. \A i \in 1..Len(t) : t[i] \in Elements(s) \cup {x}
      BY <1>1, <1>2 DEF Elements
    <2>2. \A i \in 1..Len(s) : s[i] \in Elements(t)
      <3> TAKE i \in 1..Len(s)
      <3>1. i + 1 \in 1..Len(t) /\ t[i + 1] = s[i]
        BY <1>1, <1>2
      <3> QED
        BY <3>1 DEF Elements
    <2>3. x \in Elements(t)
      BY <1>1, <1>2 DEF Elements
    <2>4. Elements(t) \subseteq Elements(s) \cup {x}
      BY <2>1 DEF Elements
    <2>5. Elements(s) \subseteq Elements(t)
      BY <2>2 DEF Elements
    <2> QED
      BY <2>3, <2>4, <2>5
  <1> QED
    BY <1>1, <1>3, <1>4 DEF t

LEMMA DistinctTail ==
    ASSUME NEW S, NEW s \in Seq(S), s # <<>>, Distinct(s)
    PROVE  /\ Head(s) \in Elements(s) /\ Tail(s) \in Seq(S)
           /\ Distinct(Tail(s)) /\ Elements(Tail(s)) = Elements(s) \ {Head(s)}
  <1> DEFINE t == Tail(s)
  <1>1. /\ t \in Seq(S) /\ Len(s) \in Nat \ {0} /\ Len(t) = Len(s) - 1 /\ Head(s) = s[1]
        /\ \A i \in 1..Len(t) : t[i] = s[i + 1]
    OBVIOUS
  <1> HIDE DEF t
  <1>2. /\ \A i \in 1..Len(t) : i + 1 \in 1..Len(s) /\ i + 1 # 1
        /\ \A i \in 1..Len(s) : i = 1 \/ (i - 1 \in 1..Len(t) /\ t[i - 1] = s[i])
        /\ 1 \in 1..Len(s)
    BY <1>1
  <1>3. Distinct(t)
    <2> SUFFICES ASSUME NEW i \in 1..Len(t), NEW j \in 1..Len(t), t[i] = t[j] PROVE i = j
      BY DEF Distinct
    <2>1. i + 1 = j + 1
      BY <1>1, <1>2 DEF Distinct
    <2> QED
      BY <2>1
  <1>4. Elements(t) = Elements(s) \ {Head(s)}
    <2>1. \A i \in 1..Len(t) : t[i] \in Elements(s) /\ t[i] # s[1]
      BY <1>1, <1>2 DEF Elements, Distinct
    <2>2. \A i \in 1..Len(s) : s[i] # s[1] => s[i] \in Elements(t)
      BY <1>1, <1>2 DEF Elements
    <2>3. \A x \in Elements(t) : x \in Elements(s) /\ x # Head(s)
      BY <1>1, <2>1 DEF Elements
    <2>4. \A x \in Elements(s) : x # Head(s) => x \in Elements(t)
      BY <1>1, <2>2 DEF Elements
    <2> QED
      BY <2>3, <2>4
  <1> QED
    BY <1>1, <1>2, <1>3, <1>4 DEF t, Elements

-----------------------------------------------------------------------------
(* req_get and req_put. *)

LEMMA PoolsAreElements == Pooled = Elements(freelist) /\ Queued = Elements(queue)
  BY DEF Pooled, Queued, Elements

\* req_get hands out a buffer nobody has, and it is off the freelist.
LEMMA ReqGetTakes ==
    ASSUME SInv, NEW r \in Request, ReqGet(r)
    PROVE  /\ freelist' \in Seq(Request) /\ Distinct(freelist')
           /\ Pooled' \subseteq Pooled /\ r \notin Pooled'
           /\ r \notin Queued /\ rrwOf[r] = "none"
           /\ \A c \in Carrying : req[c] # r
           /\ \A w \in Searching : inHand[w] # r
  <1>1. /\ freelist \in Seq(Request) /\ Distinct(freelist)
    BY DEF SInv, OwnInv, SearchdTypeOK, OneOwner
  <1>2. /\ freelist' \in Seq(Request) /\ Distinct(freelist')
        /\ Pooled' \subseteq Pooled /\ r \notin Pooled'
        /\ r \in Pooled \/ r \notin Held
    <2>1. CASE freelist # <<>>
      <3>1. r = Head(freelist) /\ freelist' = Tail(freelist)
        BY <2>1 DEF ReqGet
      <3>2. /\ r \in Elements(freelist) /\ freelist' \in Seq(Request)
            /\ Distinct(freelist') /\ Elements(freelist') = Elements(freelist) \ {r}
        BY <1>1, <2>1, <3>1, DistinctTail
      <3> QED
        BY <3>2 DEF Pooled, Elements
    <2>2. CASE freelist = <<>>
      <3>1. r \notin Held /\ freelist' = freelist
        BY <2>2 DEF ReqGet
      <3>2. Pooled = {}
        BY <2>2 DEF Pooled
      <3> QED
        BY <1>1, <3>1, <3>2 DEF Pooled
    <2> QED
      BY <2>1, <2>2
  <1>3. CASE r \in Pooled
    BY <1>2, <1>3 DEF SInv, OwnInv, OneOwner, RequestsNameConnections, Unanswered,
                      Carrying, Searching, Asking, Answering
  <1>4. CASE r \notin Held
    BY <1>2, <1>4 DEF SInv, OwnInv, RequestsNameConnections, Unanswered, Held,
                      Carrying, Searching, Asking, Answering
  <1> QED
    BY <1>2, <1>3, <1>4

\* req_put gives back a buffer that is not on the freelist.
LEMMA ReqPutGives ==
    ASSUME SInv, NEW r \in Request, r \notin Pooled, ReqPut(r)
    PROVE  /\ freelist' \in Seq(Request) /\ Distinct(freelist')
           /\ Pooled' = Pooled \cup {r}
  <1>1. /\ freelist \in Seq(Request) /\ Distinct(freelist)
        /\ r \notin Elements(freelist) /\ freelist' = <<r>> \o freelist
    BY PoolsAreElements DEF SInv, OwnInv, SearchdTypeOK, OneOwner, ReqPut
  <1>2. /\ <<r>> \o freelist \in Seq(Request) /\ Distinct(<<r>> \o freelist)
        /\ Elements(<<r>> \o freelist) = Elements(freelist) \cup {r}
    BY <1>1, DistinctPush
  <1>3. Pooled' = Elements(freelist')
    BY DEF Pooled, Elements
  <1> QED
    BY <1>1, <1>2, <1>3, PoolsAreElements

-----------------------------------------------------------------------------
(* The users of a connection. *)

LEMMA UsersAreCounted ==
    ASSUME SInv, NEW k \in Connection
    PROVE  /\ IsFiniteSet(Servers(k)) /\ IsFiniteSet(Readers(k))
           /\ Cardinality(Servers(k)) \in Nat /\ Cardinality(Readers(k)) \in Nat
           /\ usage[k] = Cardinality(Servers(k)) + Cardinality(Readers(k))
  <1>1. IsFiniteSet(Servers(k)) /\ IsFiniteSet(Readers(k))
    BY ThreadsAreFinite, FS_Subset DEF SInv, OwnInv, UsersAreFinite, Servers
  <1> QED
    BY <1>1, FS_CardinalityType DEF SInv, OwnInv, UsageIsExact, Servers, Readers

\* The count follows the users when each set and the count change alike.
LEMMA UsersFollow ==
    ASSUME SInv,
           \A k \in Connection :
              /\ IsFiniteSet(Readers(k)')
              /\ usage'[k] = Cardinality(Servers(k)') + Cardinality(Readers(k)')
    PROVE  UsersAreFinite' /\ UsageIsExact'
  BY DEF UsersAreFinite, UsageIsExact, Servers, Readers

LEMMA SameUsers ==
    ASSUME SInv, UNCHANGED <<usage, conn, rrwOf>>
    PROVE  UsersAreFinite' /\ UsageIsExact'
  <1>1. \A k \in Connection : Servers(k)' = Servers(k) /\ Readers(k)' = Readers(k)
    BY DEF Servers, Readers
  <1> QED
    BY <1>1, UsersAreCounted, UsersFollow

\* A connector takes up a connection.
LEMMA ServerJoins ==
    ASSUME SInv, NEW c \in Connector, NEW k \in Connection, conn[c] = "none",
           conn' = [conn EXCEPT ![c] = k], usage' = [usage EXCEPT ![k] = @ + 1],
           rrwOf' = rrwOf
    PROVE  UsersAreFinite' /\ UsageIsExact' /\ usage' \in [Connection -> Nat]
  <1>1. usage \in [Connection -> Nat] /\ conn \in [Connector -> Connection \cup {"none"}]
    BY DEF SInv, OwnInv, SearchdTypeOK
  <1>2. \A j \in Connection :
           /\ Readers(j)' = Readers(j)
           /\ Servers(j)' = IF j = k THEN Servers(j) \cup {c} ELSE Servers(j)
           /\ c \notin Servers(j)
    BY <1>1, NoConnectionIsNone DEF Servers, Readers
  <1>3. Cardinality(Servers(k) \cup {c}) = Cardinality(Servers(k)) + 1
    BY <1>2, UsersAreCounted, FS_AddElement
  <1>4. \A j \in Connection :
           /\ IsFiniteSet(Readers(j)')
           /\ usage'[j] = Cardinality(Servers(j)') + Cardinality(Readers(j)')
    <2> TAKE j \in Connection
    <2>1. /\ IsFiniteSet(Servers(j)) /\ IsFiniteSet(Readers(j))
          /\ Cardinality(Servers(j)) \in Nat /\ Cardinality(Readers(j)) \in Nat
          /\ usage[j] = Cardinality(Servers(j)) + Cardinality(Readers(j))
      BY UsersAreCounted
    <2>2. CASE j = k
      <3>1. usage'[j] = usage[j] + 1
        BY <1>1, <2>2
      <3>2. Servers(j)' = Servers(j) \cup {c} /\ Readers(j)' = Readers(j)
        BY <1>2, <2>2
      <3>3. /\ IsFiniteSet(Readers(j))
            /\ Cardinality(Servers(j) \cup {c}) = Cardinality(Servers(j)) + 1
        BY <1>3, <2>1, <2>2
      <3> QED
        BY <2>1, <3>1, <3>2, <3>3
    <2>3. CASE j # k
      <3>1. usage'[j] = usage[j]
        BY <1>1, <2>3
      <3> QED
        BY <1>2, <2>1, <2>3, <3>1
    <2> QED
      BY <2>2, <2>3
  <1> QED
    BY <1>1, <1>4, UsersFollow

\* A connector gives its connection up.
LEMMA ServerLeaves ==
    ASSUME SInv, NEW c \in Connector, NEW k \in Connection, conn[c] = k,
           conn' = [conn EXCEPT ![c] = "none"], usage' = [usage EXCEPT ![k] = @ - 1],
           rrwOf' = rrwOf
    PROVE  UsersAreFinite' /\ UsageIsExact' /\ usage' \in [Connection -> Nat]
  <1>1. usage \in [Connection -> Nat] /\ conn \in [Connector -> Connection \cup {"none"}]
    BY DEF SInv, OwnInv, SearchdTypeOK
  <1>2. /\ \A j \in Connection :
              /\ Readers(j)' = Readers(j)
              /\ Servers(j)' = IF j = k THEN Servers(j) \ {c} ELSE Servers(j)
        /\ c \in Servers(k)
    BY <1>1, NoConnectionIsNone DEF Servers, Readers
  <1>3. /\ Cardinality(Servers(k)) \in Nat \ {0}
        /\ Cardinality(Servers(k) \ {c}) = Cardinality(Servers(k)) - 1
    BY <1>2, CountLeave, UsersAreCounted
  <1>4. usage[k] \in Nat \ {0}
    BY <1>3, UsersAreCounted
  <1>5. \A j \in Connection :
           /\ IsFiniteSet(Readers(j)')
           /\ usage'[j] = Cardinality(Servers(j)') + Cardinality(Readers(j)')
    <2> TAKE j \in Connection
    <2>1. /\ IsFiniteSet(Servers(j)) /\ IsFiniteSet(Readers(j))
          /\ Cardinality(Servers(j)) \in Nat /\ Cardinality(Readers(j)) \in Nat
          /\ usage[j] = Cardinality(Servers(j)) + Cardinality(Readers(j))
      BY UsersAreCounted
    <2>2. CASE j = k
      <3>1. usage'[j] = usage[j] - 1
        BY <1>1, <2>2
      <3>2. Servers(j)' = Servers(j) \ {c} /\ Readers(j)' = Readers(j)
        BY <1>2, <2>2
      <3>3. /\ IsFiniteSet(Readers(j))
            /\ Cardinality(Servers(j) \ {c}) = Cardinality(Servers(j)) - 1
        BY <1>3, <2>1, <2>2
      <3> QED
        BY <2>1, <3>1, <3>2, <3>3
    <2>3. CASE j # k
      <3>1. usage'[j] = usage[j]
        BY <1>1, <2>3
      <3> QED
        BY <1>2, <2>1, <2>3, <3>1
    <2> QED
      BY <2>2, <2>3
  <1> QED
    BY <1>1, <1>4, <1>5, UsersFollow

\* A query is read from a connection into a buffer that named none.
LEMMA ReaderJoins ==
    ASSUME SInv, NEW r \in Request, NEW k \in Connection, rrwOf[r] = "none",
           rrwOf' = [rrwOf EXCEPT ![r] = k], usage' = [usage EXCEPT ![k] = @ + 1],
           conn' = conn
    PROVE  UsersAreFinite' /\ UsageIsExact' /\ usage' \in [Connection -> Nat]
  <1>1. usage \in [Connection -> Nat] /\ rrwOf \in [Request -> Connection \cup {"none"}]
    BY DEF SInv, OwnInv, SearchdTypeOK
  <1>2. \A j \in Connection :
           /\ Servers(j)' = Servers(j)
           /\ Readers(j)' = IF j = k THEN Readers(j) \cup {r} ELSE Readers(j)
           /\ r \notin Readers(j)
    BY <1>1, NoConnectionIsNone DEF Servers, Readers
  <1>3. /\ IsFiniteSet(Readers(k) \cup {r})
        /\ Cardinality(Readers(k) \cup {r}) = Cardinality(Readers(k)) + 1
    BY <1>2, UsersAreCounted, FS_AddElement
  <1>4. \A j \in Connection :
           /\ IsFiniteSet(Readers(j)')
           /\ usage'[j] = Cardinality(Servers(j)') + Cardinality(Readers(j)')
    <2> TAKE j \in Connection
    <2>1. /\ IsFiniteSet(Servers(j)) /\ IsFiniteSet(Readers(j))
          /\ Cardinality(Servers(j)) \in Nat /\ Cardinality(Readers(j)) \in Nat
          /\ usage[j] = Cardinality(Servers(j)) + Cardinality(Readers(j))
      BY UsersAreCounted
    <2>2. CASE j = k
      <3>1. usage'[j] = usage[j] + 1
        BY <1>1, <2>2
      <3>2. Servers(j)' = Servers(j) /\ Readers(j)' = Readers(j) \cup {r}
        BY <1>2, <2>2
      <3>3. /\ IsFiniteSet(Readers(j) \cup {r})
            /\ Cardinality(Readers(j) \cup {r}) = Cardinality(Readers(j)) + 1
        BY <1>3, <2>1, <2>2
      <3> QED
        BY <2>1, <3>1, <3>2, <3>3
    <2>3. CASE j # k
      <3>1. usage'[j] = usage[j]
        BY <1>1, <2>3
      <3> QED
        BY <1>2, <2>1, <2>3, <3>1
    <2> QED
      BY <2>2, <2>3
  <1> QED
    BY <1>1, <1>4, UsersFollow

\* The request has been answered: req_freecontent.
LEMMA ReaderLeaves ==
    ASSUME SInv, NEW r \in Request, NEW k \in Connection, rrwOf[r] = k,
           rrwOf' = [rrwOf EXCEPT ![r] = "none"], usage' = [usage EXCEPT ![k] = @ - 1],
           conn' = conn
    PROVE  UsersAreFinite' /\ UsageIsExact' /\ usage' \in [Connection -> Nat]
  <1>1. usage \in [Connection -> Nat] /\ rrwOf \in [Request -> Connection \cup {"none"}]
    BY DEF SInv, OwnInv, SearchdTypeOK
  <1>2. /\ \A j \in Connection :
              /\ Servers(j)' = Servers(j)
              /\ Readers(j)' = IF j = k THEN Readers(j) \ {r} ELSE Readers(j)
        /\ r \in Readers(k)
    BY <1>1, NoConnectionIsNone DEF Servers, Readers
  <1>3. /\ Cardinality(Readers(k)) \in Nat \ {0}
        /\ IsFiniteSet(Readers(k) \ {r})
        /\ Cardinality(Readers(k) \ {r}) = Cardinality(Readers(k)) - 1
    BY <1>2, CountLeave, FS_Subset, UsersAreCounted
  <1>4. usage[k] \in Nat \ {0}
    BY <1>3, UsersAreCounted
  <1>5. \A j \in Connection :
           /\ IsFiniteSet(Readers(j)')
           /\ usage'[j] = Cardinality(Servers(j)') + Cardinality(Readers(j)')
    <2> TAKE j \in Connection
    <2>1. /\ IsFiniteSet(Servers(j)) /\ IsFiniteSet(Readers(j))
          /\ Cardinality(Servers(j)) \in Nat /\ Cardinality(Readers(j)) \in Nat
          /\ usage[j] = Cardinality(Servers(j)) + Cardinality(Readers(j))
      BY UsersAreCounted
    <2>2. CASE j = k
      <3>1. usage'[j] = usage[j] - 1
        BY <1>1, <2>2
      <3>2. Servers(j)' = Servers(j) /\ Readers(j)' = Readers(j) \ {r}
        BY <1>2, <2>2
      <3>3. /\ IsFiniteSet(Readers(j) \ {r})
            /\ Cardinality(Readers(j) \ {r}) = Cardinality(Readers(j)) - 1
        BY <1>3, <2>1, <2>2
      <3> QED
        BY <2>1, <3>1, <3>2, <3>3
    <2>3. CASE j # k
      <3>1. usage'[j] = usage[j]
        BY <1>1, <2>3
      <3> QED
        BY <1>2, <2>1, <2>3, <3>1
    <2> QED
      BY <2>2, <2>3
  <1> QED
    BY <1>1, <1>4, <1>5, UsersFollow

-----------------------------------------------------------------------------
(* The steps. *)

\* A step that moves no buffer and answers no request.
LEMMA SameBuffers ==
    ASSUME SInv, UNCHANGED <<queue, freelist, req, inHand, rrwOf>>,
           Carrying' = Carrying, Searching' = Searching,
           Asking' = Asking, Answering' = Answering,
           \A c \in Asking : conn'[c] = conn[c]
    PROVE  OneOwner' /\ RequestsNameConnections'
  <1>1. Queued' = Queued /\ Pooled' = Pooled
    BY DEF Queued, Pooled
  <1>2. OneOwner'
    BY <1>1 DEF SInv, OwnInv, OneOwner, Distinct
  <1>3. RequestsNameConnections'
    BY <1>1 DEF SInv, OwnInv, RequestsNameConnections, Unanswered
  <1> QED
    BY <1>2, <1>3

\* The end of the input, the way in and out of the core search, and the waits
\* on the two semaphores of the queue.
LEMMA QuietSteps ==
    ASSUME SInv,
           \/ \E c \in Connector : ReadEOF(c) \/ Throttled(c)
           \/ \E w \in Worker : SkipCore(w) \/ WantCore(w) \/ EnterCore(w) \/ LeaveCore(w)
                                \/ Claimant(w)
    PROVE  OwnInv'
  <1>1. /\ UNCHANGED <<queue, inHand, usage, mutWrite, rrwOf, idOf, freelist, conn, req>>
        /\ cat' \in [Connector -> {"accept", "read", "queue", "refuse", "write", "put",
                                   "look", "hangup"}]
        /\ wat' \in [Worker -> {"wait", "search", "wantcore", "core", "answer", "write", "put"}]
        /\ \A c \in Connector :
              cat'[c] = cat[c] \/ (cat[c] = "read" /\ cat'[c] = "hangup")
        /\ \A w \in Worker :
              \/ wat'[w] = wat[w]
              \/ wat[w] = "search" /\ wat'[w] \in {"wantcore", "answer"}
              \/ wat[w] = "wantcore" /\ wat'[w] = "core"
              \/ wat[w] = "core" /\ wat'[w] = "answer"
        /\ \A w \in Worker :
              wpc'[w] = wpc[w] \/ (wpc[w] = "waiting" /\ wpc'[w] = "claimed")
    <2>1. ASSUME NEW c \in Connector, ReadEOF(c) PROVE <1>1!:
      BY <2>1 DEF SInv, OwnInv, SearchdTypeOK, ReadEOF, qvars
    <2>2. ASSUME NEW c \in Connector, Throttled(c) PROVE <1>1!:
      BY <2>2 DEF SInv, OwnInv, SearchdTypeOK, Throttled, Wake, Recheck, svars
    <2>3. ASSUME NEW w \in Worker,
                 SkipCore(w) \/ WantCore(w) \/ EnterCore(w) \/ LeaveCore(w)
          PROVE  <1>1!:
      BY <2>3 DEF SInv, OwnInv, SearchdTypeOK, SkipCore, WantCore, EnterCore, LeaveCore, qvars
    <2>4. ASSUME NEW w \in Worker, Claimant(w) PROVE <1>1!:
      BY <2>4 DEF SInv, IInv, TypeOK, OwnInv, SearchdTypeOK, Claimant, Claim, svars
    <2> QED
      BY <2>1, <2>2, <2>3, <2>4
  <1>2. /\ Carrying' = Carrying /\ Searching' = Searching
        /\ Asking' = Asking /\ Answering' = Answering
    BY <1>1 DEF Carrying, Searching, Asking, Answering
  <1>3. SearchdTypeOK'
    BY <1>1 DEF SInv, OwnInv, SearchdTypeOK
  <1>4. ThreadsAreInPlace'
    BY <1>1 DEF SInv, OwnInv, ThreadsAreInPlace
  <1>5. WriteLockIsHeld'
    BY <1>1 DEF SInv, OwnInv, WriteLockIsHeld, Writing
  <1>6. OneOwner' /\ RequestsNameConnections'
    BY <1>1, <1>2, SameBuffers
  <1> QED
    BY <1>1, <1>3, <1>4, <1>5, <1>6, SameUsers DEF OwnInv

LEMMA AcceptKeeps ==
    ASSUME SInv, NEW c \in Connector, NEW k \in Connection, Accept(c, k)
    PROVE  OwnInv'
  <1>1. /\ cat[c] = "accept" /\ cat' = [cat EXCEPT ![c] = "read"]
        /\ conn' = [conn EXCEPT ![c] = k] /\ conn[c] = "none" /\ usage[k] = 0
        /\ usage' = [usage EXCEPT ![k] = 1]
        /\ UNCHANGED <<queue, wpc, inHand, mutWrite, rrwOf, idOf, freelist, req, wat>>
    BY DEF SInv, OwnInv, ThreadsAreInPlace, Accept, qvars
  <1>2. usage' = [usage EXCEPT ![k] = @ + 1]
    BY <1>1 DEF SInv, OwnInv, SearchdTypeOK
  <1>3. UsersAreFinite' /\ UsageIsExact' /\ usage' \in [Connection -> Nat]
    BY <1>1, <1>2, ServerJoins
  <1>4. SearchdTypeOK'
    BY <1>1, <1>3 DEF SInv, OwnInv, SearchdTypeOK
  <1>5. ThreadsAreInPlace'
    BY <1>1, NoConnectionIsNone DEF SInv, OwnInv, SearchdTypeOK, ThreadsAreInPlace
  <1>6. /\ Carrying' = Carrying /\ Searching' = Searching
        /\ Asking' = Asking /\ Answering' = Answering /\ c \notin Asking
    BY <1>1 DEF SInv, OwnInv, SearchdTypeOK, Carrying, Searching, Asking, Answering
  <1>7. \A d \in Asking : conn'[d] = conn[d]
    BY <1>1, <1>6 DEF SInv, OwnInv, SearchdTypeOK, Asking
  <1>8. OneOwner' /\ RequestsNameConnections'
    BY <1>1, <1>6, <1>7, SameBuffers
  <1>9. WriteLockIsHeld'
    BY <1>1 DEF SInv, OwnInv, WriteLockIsHeld, Writing, SearchdTypeOK
  <1> QED
    BY <1>3, <1>4, <1>5, <1>8, <1>9 DEF OwnInv

LEMMA HangupKeeps ==
    ASSUME SInv, NEW c \in Connector, Hangup(c)
    PROVE  OwnInv'
  <1>1. /\ cat[c] = "hangup" /\ cat' = [cat EXCEPT ![c] = "accept"]
        /\ conn' = [conn EXCEPT ![c] = "none"] /\ conn[c] \in Connection
        /\ usage' = [usage EXCEPT ![conn[c]] = @ - 1]
        /\ UNCHANGED <<queue, wpc, inHand, mutWrite, rrwOf, idOf, freelist, req, wat>>
    BY DEF SInv, OwnInv, SearchdTypeOK, ThreadsAreInPlace, Hangup, Unuse, qvars
  <1>2. UsersAreFinite' /\ UsageIsExact' /\ usage' \in [Connection -> Nat]
    BY <1>1, ServerLeaves
  <1>3. SearchdTypeOK'
    BY <1>1, <1>2 DEF SInv, OwnInv, SearchdTypeOK
  <1>4. ThreadsAreInPlace'
    BY <1>1 DEF SInv, OwnInv, SearchdTypeOK, ThreadsAreInPlace
  <1>5. /\ Carrying' = Carrying /\ Searching' = Searching
        /\ Asking' = Asking /\ Answering' = Answering /\ c \notin Asking
    BY <1>1 DEF SInv, OwnInv, SearchdTypeOK, Carrying, Searching, Asking, Answering
  <1>6. \A d \in Asking : conn'[d] = conn[d]
    BY <1>1, <1>5 DEF SInv, OwnInv, SearchdTypeOK, Asking
  <1>7. OneOwner' /\ RequestsNameConnections'
    BY <1>1, <1>5, <1>6, SameBuffers
  <1>8. WriteLockIsHeld'
    BY <1>1 DEF SInv, OwnInv, WriteLockIsHeld, Writing, SearchdTypeOK
  <1> QED
    BY <1>2, <1>3, <1>4, <1>7, <1>8 DEF OwnInv

LEMMA LockRefusalKeeps ==
    ASSUME SInv, NEW c \in Connector, LockRefusal(c)
    PROVE  OwnInv'
  <1>1. /\ cat[c] = "refuse" /\ cat' = [cat EXCEPT ![c] = "write"]
        /\ conn[c] \in Connection /\ mutWrite' = [mutWrite EXCEPT ![conn[c]] = c]
        /\ UNCHANGED <<queue, wpc, inHand, usage, rrwOf, idOf, freelist, conn, req, wat>>
    BY DEF SInv, OwnInv, SearchdTypeOK, ThreadsAreInPlace, LockRefusal, qvars
  <1>2. SearchdTypeOK'
    BY <1>1 DEF SInv, OwnInv, SearchdTypeOK
  <1>3. ThreadsAreInPlace'
    BY <1>1 DEF SInv, OwnInv, SearchdTypeOK, ThreadsAreInPlace
  <1>4. /\ Carrying' = Carrying /\ Searching' = Searching
        /\ Asking' = Asking /\ Answering' = Answering
    BY <1>1 DEF SInv, OwnInv, SearchdTypeOK, Carrying, Searching, Asking, Answering
  <1>5. WriteLockIsHeld'
    BY <1>1 DEF SInv, OwnInv, WriteLockIsHeld, Writing, SearchdTypeOK
  <1> QED
    BY <1>1, <1>2, <1>3, <1>4, <1>5, SameBuffers, SameUsers DEF OwnInv

LEMMA LockAnswerKeeps ==
    ASSUME SInv, NEW w \in Worker, LockAnswer(w)
    PROVE  OwnInv'
  <1>1. /\ wat[w] = "answer" /\ wat' = [wat EXCEPT ![w] = "write"]
        /\ mutWrite' = [mutWrite EXCEPT ![rrwOf[inHand[w]]] = w]
        /\ UNCHANGED <<queue, wpc, inHand, usage, rrwOf, idOf, freelist, conn, req, cat>>
    BY DEF LockAnswer, qvars
  <1>2. SearchdTypeOK'
    BY <1>1 DEF SInv, OwnInv, SearchdTypeOK
  <1>3. ThreadsAreInPlace'
    BY <1>1 DEF SInv, OwnInv, SearchdTypeOK, ThreadsAreInPlace
  <1>4. /\ Carrying' = Carrying /\ Searching' = Searching
        /\ Asking' = Asking /\ Answering' = Answering
    BY <1>1 DEF SInv, OwnInv, SearchdTypeOK, Carrying, Searching, Asking, Answering
  <1>5. WriteLockIsHeld'
    BY <1>1 DEF SInv, OwnInv, WriteLockIsHeld, Writing, SearchdTypeOK
  <1> QED
    BY <1>1, <1>2, <1>3, <1>4, <1>5, SameBuffers, SameUsers DEF OwnInv

LEMMA ReadQueryKeeps ==
    ASSUME SInv, NEW c \in Connector, NEW r \in Request, NEW v, NEW id \in BOOLEAN,
           ReadQuery(c, r, v, id)
    PROVE  OwnInv'
  <1> DEFINE next == IF v = "good" THEN "queue" ELSE "refuse"
  <1>1. /\ cat[c] = "read" /\ cat' = [cat EXCEPT ![c] = next]
        /\ ReqGet(r) /\ conn[c] \in Connection
        /\ rrwOf' = [rrwOf EXCEPT ![r] = conn[c]] /\ idOf' = [idOf EXCEPT ![r] = id]
        /\ usage' = [usage EXCEPT ![conn[c]] = @ + 1] /\ req' = [req EXCEPT ![c] = r]
        /\ UNCHANGED <<queue, wpc, inHand, mutWrite, conn, wat>>
    BY DEF SInv, OwnInv, SearchdTypeOK, ThreadsAreInPlace, ReadQuery, qvars
  <1>2. next \in {"queue", "refuse"}
    OBVIOUS
  <1> HIDE DEF next
  <1>3. /\ freelist' \in Seq(Request) /\ Distinct(freelist')
        /\ Pooled' \subseteq Pooled /\ r \notin Pooled'
        /\ r \notin Queued /\ rrwOf[r] = "none"
        /\ \A d \in Carrying : req[d] # r
        /\ \A w \in Searching : inHand[w] # r
    BY <1>1, ReqGetTakes
  <1>4. UsersAreFinite' /\ UsageIsExact' /\ usage' \in [Connection -> Nat]
    BY <1>1, <1>3, ReaderJoins
  <1>5. SearchdTypeOK'
    BY <1>1, <1>2, <1>3, <1>4 DEF SInv, OwnInv, SearchdTypeOK
  <1>6. ThreadsAreInPlace'
    BY <1>1, <1>2, NoRequestIsNone DEF SInv, OwnInv, SearchdTypeOK, ThreadsAreInPlace
  <1>7. /\ Carrying' = Carrying \cup {c} /\ Asking' = Asking \cup {c}
        /\ c \notin Carrying /\ c \notin Asking /\ Asking \subseteq Carrying
        /\ Searching' = Searching /\ Answering' = Answering /\ Answering \subseteq Searching
    BY <1>1, <1>2 DEF SInv, OwnInv, SearchdTypeOK, Carrying, Searching, Asking, Answering
  <1>8. /\ req'[c] = r /\ \A d \in Carrying : req'[d] = req[d]
        /\ Queued' = Queued
    BY <1>1, <1>7 DEF SInv, OwnInv, SearchdTypeOK, Carrying, Queued
  <1>9. OneOwner'
    BY <1>1, <1>3, <1>7, <1>8 DEF SInv, OwnInv, OneOwner, Distinct
  <1>10. RequestsNameConnections'
    <2>1. \A q \in Request : Unanswered(q)' <=> Unanswered(q) \/ q = r
      BY <1>1, <1>7, <1>8 DEF Unanswered
    <2>2. /\ rrwOf'[r] = conn[c] /\ conn[c] # "none"
          /\ \A q \in Request : q # r => rrwOf'[q] = rrwOf[q]
      BY <1>1, NoConnectionIsNone DEF SInv, OwnInv, SearchdTypeOK
    <2>3. \A d \in Asking : req[d] \in Request
      BY DEF SInv, OwnInv, SearchdTypeOK, ThreadsAreInPlace, Asking
    <2>4. \A q \in Request : rrwOf'[q] # "none" <=> Unanswered(q)'
      BY <2>1, <2>2 DEF SInv, OwnInv, RequestsNameConnections
    <2>5. \A d \in Asking' : rrwOf'[req'[d]] = conn'[d]
      BY <1>1, <1>3, <1>7, <1>8, <2>2, <2>3 DEF SInv, OwnInv, RequestsNameConnections
    <2> QED
      BY <2>4, <2>5 DEF RequestsNameConnections
  <1>11. WriteLockIsHeld'
    <2> SUFFICES ASSUME NEW k \in Connection, mutWrite'[k] # "none"
                 PROVE  \/ \E d \in Connector :
                              mutWrite'[k] = d /\ cat'[d] = "write" /\ conn'[d] = k
                        \/ \E w \in Worker :
                              mutWrite'[k] = w /\ wat'[w] = "write" /\ rrwOf'[inHand'[w]] = k
      BY DEF WriteLockIsHeld, Writing
    <2>1. CASE \E d \in Connector : mutWrite[k] = d /\ cat[d] = "write" /\ conn[d] = k
      BY <1>1, <2>1 DEF SInv, OwnInv, SearchdTypeOK
    <2>2. CASE \E w \in Worker :
                  mutWrite[k] = w /\ wat[w] = "write" /\ rrwOf[inHand[w]] = k
      <3>1. PICK w \in Worker : mutWrite[k] = w /\ wat[w] = "write" /\ rrwOf[inHand[w]] = k
        BY <2>2
      <3>2. inHand[w] # r /\ inHand[w] \in Request
        BY <1>3, <3>1 DEF Searching, SInv, IInv, TypeOK, OwnInv, ThreadsAreInPlace
      <3> QED
        BY <1>1, <3>1, <3>2 DEF SInv, OwnInv, SearchdTypeOK
    <2> QED
      BY <1>1, <2>1, <2>2 DEF SInv, OwnInv, WriteLockIsHeld, Writing
  <1> QED
    BY <1>4, <1>5, <1>6, <1>9, <1>10, <1>11 DEF OwnInv

LEMMA EnqueueKeeps ==
    ASSUME SInv, NEW c \in Connector, Enqueue(c)
    PROVE  OwnInv'
  <1> DEFINE next == IF idOf[req[c]] THEN "read" ELSE "hangup"
             r == req[c]
  <1>1. /\ cat[c] = "queue" /\ cat' = [cat EXCEPT ![c] = next]
        /\ r \in Request /\ queue' = Append(queue, r) /\ req' = [req EXCEPT ![c] = "none"]
        /\ UNCHANGED <<wpc, inHand, usage, mutWrite, rrwOf, idOf, freelist, conn, wat>>
    BY DEF SInv, OwnInv, SearchdTypeOK, ThreadsAreInPlace, Enqueue, AddToQ
  <1>2. next \in {"read", "hangup"}
    OBVIOUS
  <1> HIDE DEF next
  <1>3. SearchdTypeOK'
    BY <1>1, <1>2 DEF SInv, OwnInv, SearchdTypeOK
  <1>4. ThreadsAreInPlace'
    BY <1>1, <1>2 DEF SInv, OwnInv, SearchdTypeOK, ThreadsAreInPlace
  <1>5. /\ Carrying' = Carrying \ {c} /\ Asking' = Asking \ {c}
        /\ c \in Carrying /\ c \in Asking /\ Asking \subseteq Carrying
        /\ Searching' = Searching /\ Answering' = Answering
    BY <1>1, <1>2 DEF SInv, OwnInv, SearchdTypeOK, Carrying, Searching, Asking, Answering
  <1>6. /\ r \notin Pooled /\ r \notin Queued
        /\ \A d \in Carrying : d # c => req[d] # r
        /\ \A w \in Searching : inHand[w] # r
    BY <1>5 DEF SInv, OwnInv, OneOwner
  <1>7. Distinct(queue') /\ Queued' = Queued \cup {r}
    <2>1. queue \in Seq(Request) /\ Distinct(queue) /\ r \notin Elements(queue)
      BY <1>6, PoolsAreElements DEF SInv, IInv, TypeOK, OwnInv, OneOwner
    <2>2. /\ Distinct(Append(queue, r))
          /\ Elements(Append(queue, r)) = Elements(queue) \cup {r}
      BY <1>1, <2>1, DistinctAppend
    <2>3. Queued' = Elements(queue')
      BY DEF Queued, Elements
    <2> QED
      BY <1>1, <2>2, <2>3, PoolsAreElements
  <1>8. /\ \A d \in Carrying' : req'[d] = req[d]
        /\ Pooled' = Pooled
    BY <1>1, <1>5 DEF SInv, OwnInv, SearchdTypeOK, Carrying, Pooled
  <1> HIDE DEF r
  <1>9. OneOwner'
    BY <1>1, <1>5, <1>6, <1>7, <1>8 DEF SInv, OwnInv, OneOwner, Distinct
  <1>10. RequestsNameConnections'
    <2>1. \A q \in Request : Unanswered(q)' <=> Unanswered(q)
      BY <1>1, <1>5, <1>7, <1>8 DEF Unanswered, r
    <2> QED
      BY <1>1, <1>5, <1>8, <2>1 DEF SInv, OwnInv, RequestsNameConnections
  <1>11. WriteLockIsHeld'
    BY <1>1 DEF SInv, OwnInv, WriteLockIsHeld, Writing, SearchdTypeOK
  <1> QED
    BY <1>1, <1>3, <1>4, <1>9, <1>10, <1>11, SameUsers DEF OwnInv

LEMMA WriteRefusalKeeps ==
    ASSUME SInv, NEW c \in Connector, WriteRefusal(c)
    PROVE  OwnInv'
  <1> DEFINE r == req[c]
             k == conn[c]
  <1>1. /\ cat[c] = "write" /\ cat' = [cat EXCEPT ![c] = "put"]
        /\ r \in Request /\ k \in Connection /\ c \in Asking /\ rrwOf[r] = k
        /\ mutWrite' = [mutWrite EXCEPT ![k] = "none"]
        /\ usage' = [usage EXCEPT ![k] = @ - 1]
        /\ rrwOf' = [rrwOf EXCEPT ![r] = "none"] /\ idOf' = [idOf EXCEPT ![r] = FALSE]
        /\ UNCHANGED <<queue, wpc, inHand, freelist, conn, req, wat>>
    <2>1. cat[c] = "write" /\ c \in Asking
      BY DEF WriteRefusal, Asking
    <2>2. r \in Request /\ k \in Connection /\ rrwOf[r] = k
      BY <2>1
      DEF SInv, OwnInv, SearchdTypeOK, ThreadsAreInPlace, RequestsNameConnections
    <2>3. cat' = [cat EXCEPT ![c] = "put"] /\ UNCHANGED <<queue, wpc, inHand>>
      BY DEF WriteRefusal, qvars
    <2>4. usage' = [usage EXCEPT ![k] = @ - 1]
      BY DEF WriteRefusal, Unuse
    <2> QED
      BY <2>1, <2>2, <2>3, <2>4 DEF WriteRefusal
  <1>2. UsersAreFinite' /\ UsageIsExact' /\ usage' \in [Connection -> Nat]
    BY <1>1, ReaderLeaves
  <1>3. SearchdTypeOK'
    BY <1>1, <1>2 DEF SInv, OwnInv, SearchdTypeOK
  <1>4. ThreadsAreInPlace'
    BY <1>1 DEF SInv, OwnInv, SearchdTypeOK, ThreadsAreInPlace
  <1>5. /\ Carrying' = Carrying /\ Asking' = Asking \ {c}
        /\ c \in Carrying /\ Asking \subseteq Carrying
        /\ Searching' = Searching /\ Answering' = Answering /\ Answering \subseteq Searching
    BY <1>1 DEF SInv, OwnInv, SearchdTypeOK, Carrying, Searching, Asking, Answering
  <1>6. /\ r \notin Queued /\ Queued' = Queued /\ Pooled' = Pooled
        /\ \A d \in Carrying : d # c => req[d] # r
        /\ \A w \in Searching : inHand[w] # r
    BY <1>1, <1>5 DEF SInv, OwnInv, OneOwner, Queued, Pooled
  <1>7. /\ rrwOf'[r] = "none" /\ \A q \in Request : q # r => rrwOf'[q] = rrwOf[q]
        /\ mutWrite'[k] = "none"
        /\ \A j \in Connection : j # k => mutWrite'[j] = mutWrite[j]
    BY <1>1 DEF SInv, OwnInv, SearchdTypeOK
  <1> HIDE DEF r, k
  <1>8. OneOwner'
    BY <1>1, <1>5, <1>6 DEF SInv, OwnInv, OneOwner, Distinct
  <1>9. RequestsNameConnections'
    <2>1. \A q \in Request : Unanswered(q)' <=> Unanswered(q) /\ q # r
      BY <1>1, <1>5, <1>6 DEF Unanswered, r
    <2>2. \A d \in Asking : req[d] \in Request
      BY DEF SInv, OwnInv, SearchdTypeOK, ThreadsAreInPlace, Asking
    <2>3. \A q \in Request : rrwOf'[q] # "none" <=> Unanswered(q)'
      BY <2>1, <1>7 DEF SInv, OwnInv, RequestsNameConnections
    <2>4. \A d \in Asking' : rrwOf'[req'[d]] = conn'[d]
      BY <1>1, <1>5, <1>6, <1>7, <2>2 DEF SInv, OwnInv, RequestsNameConnections
    <2> QED
      BY <2>3, <2>4 DEF RequestsNameConnections
  <1>10. WriteLockIsHeld'
    <2> SUFFICES ASSUME NEW j \in Connection, mutWrite'[j] # "none"
                 PROVE  \/ \E d \in Connector :
                              mutWrite'[j] = d /\ cat'[d] = "write" /\ conn'[d] = j
                        \/ \E w \in Worker :
                              mutWrite'[j] = w /\ wat'[w] = "write" /\ rrwOf'[inHand'[w]] = j
      BY DEF WriteLockIsHeld, Writing
    <2>1. j # k /\ mutWrite'[j] = mutWrite[j]
      BY <1>7
    <2>2. CASE \E d \in Connector : mutWrite[j] = d /\ cat[d] = "write" /\ conn[d] = j
      BY <1>1, <2>1, <2>2 DEF SInv, OwnInv, SearchdTypeOK, k
    <2>3. CASE \E w \in Worker :
                  mutWrite[j] = w /\ wat[w] = "write" /\ rrwOf[inHand[w]] = j
      <3>1. PICK w \in Worker : mutWrite[j] = w /\ wat[w] = "write" /\ rrwOf[inHand[w]] = j
        BY <2>3
      <3>2. inHand[w] # r /\ inHand[w] \in Request
        BY <1>6, <3>1 DEF Searching, SInv, IInv, TypeOK, OwnInv, ThreadsAreInPlace
      <3> QED
        BY <1>1, <1>7, <2>1, <3>1, <3>2
    <2> QED
      BY <2>1, <2>2, <2>3 DEF SInv, OwnInv, WriteLockIsHeld, Writing
  <1> QED
    BY <1>2, <1>3, <1>4, <1>8, <1>9, <1>10 DEF OwnInv

LEMMA PutRefusedKeeps ==
    ASSUME SInv, NEW c \in Connector, PutRefused(c)
    PROVE  OwnInv'
  <1> DEFINE r == req[c]
  <1>1. /\ cat[c] = "put" /\ cat' = [cat EXCEPT ![c] = "look"]
        /\ r \in Request /\ ReqPut(r)
        /\ UNCHANGED <<queue, wpc, inHand, usage, mutWrite, rrwOf, idOf, conn, req, wat>>
    BY DEF SInv, OwnInv, SearchdTypeOK, ThreadsAreInPlace, PutRefused, qvars
  <1>2. /\ Carrying' = Carrying \ {c} /\ Asking' = Asking /\ c \in Carrying
        /\ Searching' = Searching /\ Answering' = Answering
    BY <1>1 DEF SInv, OwnInv, SearchdTypeOK, Carrying, Searching, Asking, Answering
  <1>3. /\ r \notin Pooled /\ r \notin Queued /\ Queued' = Queued
        /\ \A d \in Carrying : d # c => req[d] # r
        /\ \A w \in Searching : inHand[w] # r
    BY <1>1, <1>2 DEF SInv, OwnInv, OneOwner, Queued
  <1>4. freelist' \in Seq(Request) /\ Distinct(freelist') /\ Pooled' = Pooled \cup {r}
    BY <1>1, <1>3, ReqPutGives
  <1>5. SearchdTypeOK'
    BY <1>1, <1>4 DEF SInv, OwnInv, SearchdTypeOK
  <1>6. ThreadsAreInPlace'
    BY <1>1 DEF SInv, OwnInv, SearchdTypeOK, ThreadsAreInPlace
  <1> HIDE DEF r
  <1>7. OneOwner'
    BY <1>1, <1>2, <1>3, <1>4 DEF SInv, OwnInv, OneOwner, Distinct
  <1>8. RequestsNameConnections'
    BY <1>1, <1>2, <1>3 DEF SInv, OwnInv, RequestsNameConnections, Unanswered
  <1>9. WriteLockIsHeld'
    BY <1>1 DEF SInv, OwnInv, WriteLockIsHeld, Writing, SearchdTypeOK
  <1> QED
    BY <1>1, <1>5, <1>6, <1>7, <1>8, <1>9, SameUsers DEF OwnInv

LEMMA LookAtIDKeeps ==
    ASSUME SInv, NEW c \in Connector, LookAtID(c)
    PROVE  OwnInv'
  <1> DEFINE next == IF query[c].verdict # "badxml" /\ idOf[req[c]] THEN "read" ELSE "hangup"
  <1>1. /\ cat[c] = "look" /\ cat' = [cat EXCEPT ![c] = next]
        /\ req' = [req EXCEPT ![c] = "none"]
        /\ UNCHANGED <<queue, wpc, inHand, usage, mutWrite, rrwOf, idOf, freelist, conn, wat>>
    BY DEF LookAtID, qvars
  <1>2. next \in {"read", "hangup"}
    OBVIOUS
  <1> HIDE DEF next
  <1>3. SearchdTypeOK'
    BY <1>1, <1>2 DEF SInv, OwnInv, SearchdTypeOK
  <1>4. ThreadsAreInPlace'
    BY <1>1, <1>2 DEF SInv, OwnInv, SearchdTypeOK, ThreadsAreInPlace
  <1>5. /\ Carrying' = Carrying /\ Asking' = Asking /\ c \notin Carrying
        /\ Asking \subseteq Carrying
        /\ Searching' = Searching /\ Answering' = Answering
    BY <1>1, <1>2 DEF SInv, OwnInv, SearchdTypeOK, Carrying, Searching, Asking, Answering
  <1>6. /\ \A d \in Carrying : req'[d] = req[d]
        /\ Queued' = Queued /\ Pooled' = Pooled
    BY <1>1, <1>5 DEF SInv, OwnInv, SearchdTypeOK, Carrying, Queued, Pooled
  <1>7. OneOwner'
    BY <1>1, <1>5, <1>6 DEF SInv, OwnInv, OneOwner, Distinct
  <1>8. RequestsNameConnections'
    BY <1>1, <1>5, <1>6 DEF SInv, OwnInv, RequestsNameConnections, Unanswered
  <1>9. WriteLockIsHeld'
    BY <1>1 DEF SInv, OwnInv, WriteLockIsHeld, Writing, SearchdTypeOK
  <1> QED
    BY <1>1, <1>3, <1>4, <1>7, <1>8, <1>9, SameUsers DEF OwnInv

LEMMA TakeKeeps ==
    ASSUME SInv, NEW w \in Worker, Take(w)
    PROVE  OwnInv'
  <1> DEFINE r == Head(queue)
  <1>1. /\ wpc[w] = "claimed" /\ wpc' = [wpc EXCEPT ![w] = "busy"]
        /\ wat[w] = "wait" /\ wat' = [wat EXCEPT ![w] = "search"]
        /\ queue \in Seq(Request) /\ queue # <<>> /\ Distinct(queue)
        /\ inHand' = [inHand EXCEPT ![w] = r] /\ queue' = Tail(queue)
        /\ UNCHANGED <<usage, mutWrite, rrwOf, idOf, freelist, cat, conn, req>>
    BY DEF SInv, IInv, TypeOK, OwnInv, ThreadsAreInPlace, OneOwner, Take, RemoveHead
  <1>2. /\ r \in Queued /\ r \in Request /\ Distinct(queue') /\ Queued' = Queued \ {r}
    <2>1. /\ r \in Elements(queue) /\ r \in Request /\ Distinct(Tail(queue))
          /\ Elements(Tail(queue)) = Elements(queue) \ {r}
      BY <1>1, DistinctTail
    <2>2. Queued' = Elements(queue')
      BY DEF Queued, Elements
    <2> QED
      BY <1>1, <2>1, <2>2, PoolsAreElements
  <1> HIDE DEF r
  <1>3. SearchdTypeOK'
    BY <1>1 DEF SInv, OwnInv, SearchdTypeOK
  <1>4. ThreadsAreInPlace'
    BY <1>1, <1>2, NoRequestIsNone
    DEF SInv, IInv, TypeOK, OwnInv, SearchdTypeOK, ThreadsAreInPlace
  <1>5. /\ Carrying' = Carrying /\ Asking' = Asking /\ Asking \subseteq Carrying
        /\ Searching' = Searching \cup {w} /\ Answering' = Answering \cup {w}
        /\ w \notin Searching /\ w \notin Answering /\ Answering \subseteq Searching
    BY <1>1 DEF SInv, OwnInv, SearchdTypeOK, Carrying, Searching, Asking, Answering
  <1>6. /\ inHand'[w] = r /\ \A v \in Searching : inHand'[v] = inHand[v]
        /\ Pooled' = Pooled
    BY <1>1, <1>5 DEF SInv, IInv, TypeOK, Searching, Pooled
  <1>7. OneOwner'
    BY <1>1, <1>2, <1>5, <1>6 DEF SInv, OwnInv, OneOwner, Distinct
  <1>8. RequestsNameConnections'
    <2>1. \A q \in Request : Unanswered(q)' <=> Unanswered(q)
      BY <1>1, <1>2, <1>5, <1>6 DEF Unanswered
    <2> QED
      BY <1>1, <1>5, <2>1 DEF SInv, OwnInv, RequestsNameConnections
  <1>9. WriteLockIsHeld'
    BY <1>1 DEF SInv, IInv, TypeOK, OwnInv, WriteLockIsHeld, Writing, SearchdTypeOK
  <1> QED
    BY <1>1, <1>3, <1>4, <1>7, <1>8, <1>9, SameUsers DEF OwnInv

LEMMA WriteAnswerKeeps ==
    ASSUME SInv, NEW w \in Worker, WriteAnswer(w)
    PROVE  OwnInv'
  <1> DEFINE r == inHand[w]
             k == rrwOf[r]
  <1>1. /\ wat[w] = "write" /\ wat' = [wat EXCEPT ![w] = "put"]
        /\ r \in Request /\ w \in Answering
        /\ mutWrite' = [mutWrite EXCEPT ![k] = "none"]
        /\ usage' = [usage EXCEPT ![k] = @ - 1]
        /\ rrwOf' = [rrwOf EXCEPT ![r] = "none"] /\ idOf' = [idOf EXCEPT ![r] = FALSE]
        /\ UNCHANGED <<queue, wpc, inHand, freelist, cat, conn, req>>
    BY DEF SInv, IInv, TypeOK, OwnInv, ThreadsAreInPlace, Answering, WriteAnswer, Unuse, qvars
  <1>2. k \in Connection
    BY <1>1 DEF SInv, OwnInv, SearchdTypeOK, RequestsNameConnections, Unanswered
  <1>3. UsersAreFinite' /\ UsageIsExact' /\ usage' \in [Connection -> Nat]
    BY <1>1, <1>2, ReaderLeaves
  <1>4. SearchdTypeOK'
    BY <1>1, <1>3 DEF SInv, OwnInv, SearchdTypeOK
  <1>5. ThreadsAreInPlace'
    BY <1>1 DEF SInv, OwnInv, SearchdTypeOK, ThreadsAreInPlace
  <1>6. /\ Carrying' = Carrying /\ Asking' = Asking /\ Asking \subseteq Carrying
        /\ Searching' = Searching /\ Answering' = Answering \ {w}
        /\ w \in Searching /\ Answering \subseteq Searching
    BY <1>1 DEF SInv, OwnInv, SearchdTypeOK, Carrying, Searching, Asking, Answering
  <1>7. /\ r \notin Queued /\ Queued' = Queued /\ Pooled' = Pooled
        /\ \A c \in Carrying : req[c] # r
        /\ \A v \in Searching : v # w => inHand[v] # r
    BY <1>1, <1>6 DEF SInv, OwnInv, OneOwner, Queued, Pooled
  <1>8. /\ rrwOf'[r] = "none" /\ \A q \in Request : q # r => rrwOf'[q] = rrwOf[q]
        /\ mutWrite'[k] = "none"
        /\ \A j \in Connection : j # k => mutWrite'[j] = mutWrite[j]
    BY <1>1, <1>2 DEF SInv, OwnInv, SearchdTypeOK
  <1>9. OneOwner'
    BY <1>1, <1>6, <1>7 DEF SInv, OwnInv, OneOwner, Distinct
  <1>10. RequestsNameConnections'
    <2>1. \A q \in Request : Unanswered(q)' <=> Unanswered(q) /\ q # r
      <3> HIDE DEF k
      <3> QED
        BY <1>1, <1>6, <1>7 DEF Unanswered
    <2>2. \A c \in Asking : req[c] \in Request
      BY DEF SInv, OwnInv, SearchdTypeOK, ThreadsAreInPlace, Asking
    <2> HIDE DEF r, k
    <2>3. \A q \in Request : rrwOf'[q] # "none" <=> Unanswered(q)'
      BY <2>1, <1>8 DEF SInv, OwnInv, RequestsNameConnections
    <2>4. \A c \in Asking' : rrwOf'[req'[c]] = conn'[c]
      BY <1>1, <1>6, <1>7, <1>8, <2>2 DEF SInv, OwnInv, RequestsNameConnections
    <2> QED
      BY <2>3, <2>4 DEF RequestsNameConnections
  <1>11. WriteLockIsHeld'
    <2> SUFFICES ASSUME NEW j \in Connection, mutWrite'[j] # "none"
                 PROVE  \/ \E c \in Connector :
                              mutWrite'[j] = c /\ cat'[c] = "write" /\ conn'[c] = j
                        \/ \E v \in Worker :
                              mutWrite'[j] = v /\ wat'[v] = "write" /\ rrwOf'[inHand'[v]] = j
      BY DEF WriteLockIsHeld, Writing
    <2>1. j # k /\ mutWrite'[j] = mutWrite[j]
      BY <1>8
    <2>2. CASE \E c \in Connector : mutWrite[j] = c /\ cat[c] = "write" /\ conn[c] = j
      BY <1>1, <2>1, <2>2
    <2>3. CASE \E v \in Worker :
                  mutWrite[j] = v /\ wat[v] = "write" /\ rrwOf[inHand[v]] = j
      <3>1. PICK v \in Worker : mutWrite[j] = v /\ wat[v] = "write" /\ rrwOf[inHand[v]] = j
        BY <2>3
      <3>2. v # w
        BY <2>1, <3>1
      <3>3. inHand[v] # r /\ inHand[v] \in Request
        BY <1>7, <3>1, <3>2 DEF Searching, SInv, IInv, TypeOK, OwnInv, ThreadsAreInPlace
      <3>4. wat'[v] = "write"
        BY <1>1, <3>1, <3>2 DEF SInv, OwnInv, SearchdTypeOK
      <3> HIDE DEF r, k
      <3> QED
        BY <1>1, <1>8, <2>1, <3>1, <3>3, <3>4
    <2> QED
      BY <2>1, <2>2, <2>3 DEF SInv, OwnInv, WriteLockIsHeld, Writing
  <1> QED
    BY <1>3, <1>4, <1>5, <1>9, <1>10, <1>11 DEF OwnInv

LEMMA PutAnsweredKeeps ==
    ASSUME SInv, NEW w \in Worker, PutAnswered(w)
    PROVE  OwnInv'
  <1> DEFINE r == inHand[w]
  <1>1. /\ wat[w] = "put" /\ wat' = [wat EXCEPT ![w] = "wait"]
        /\ wpc[w] = "busy" /\ wpc' = [wpc EXCEPT ![w] = "waiting"]
        /\ inHand' = [inHand EXCEPT ![w] = "none"] /\ r \in Request /\ ReqPut(r)
        /\ UNCHANGED <<queue, usage, mutWrite, rrwOf, idOf, cat, conn, req>>
    BY DEF SInv, IInv, TypeOK, OwnInv, ThreadsAreInPlace, PutAnswered, Finish
  <1>2. /\ Carrying' = Carrying /\ Asking' = Asking /\ Answering' = Answering
        /\ Searching' = Searching \ {w} /\ w \in Searching /\ w \notin Answering
        /\ Answering \subseteq Searching
    BY <1>1 DEF SInv, OwnInv, SearchdTypeOK, Carrying, Searching, Asking, Answering
  <1>3. /\ r \notin Pooled /\ r \notin Queued /\ Queued' = Queued
        /\ \A c \in Carrying : req[c] # r
        /\ \A v \in Searching : v # w => inHand[v] # r
    BY <1>1, <1>2 DEF SInv, OwnInv, OneOwner, Queued
  <1>4. freelist' \in Seq(Request) /\ Distinct(freelist') /\ Pooled' = Pooled \cup {r}
    BY <1>1, <1>3, ReqPutGives
  <1>5. SearchdTypeOK'
    BY <1>1, <1>4 DEF SInv, OwnInv, SearchdTypeOK
  <1>6. ThreadsAreInPlace'
    BY <1>1 DEF SInv, IInv, TypeOK, OwnInv, SearchdTypeOK, ThreadsAreInPlace
  <1>7. \A v \in Searching : v # w => inHand'[v] = inHand[v]
    BY <1>1 DEF SInv, IInv, TypeOK, Searching
  <1>8. WriteLockIsHeld'
    BY <1>1 DEF SInv, IInv, TypeOK, OwnInv, WriteLockIsHeld, Writing, SearchdTypeOK
  <1> HIDE DEF r
  <1>9. OneOwner'
    BY <1>1, <1>2, <1>3, <1>4, <1>7 DEF SInv, OwnInv, OneOwner, Distinct
  <1>10. RequestsNameConnections'
    BY <1>1, <1>2, <1>3, <1>7 DEF SInv, OwnInv, RequestsNameConnections, Unanswered
  <1> QED
    BY <1>1, <1>5, <1>6, <1>8, <1>9, <1>10, SameUsers DEF OwnInv

-----------------------------------------------------------------------------
(* The queue, seen from the threads that use it. *)

LEMMA InitQueue == SearchdInit => Init
  BY DEF SearchdInit

\* Every step of the threads is a step of the queue or leaves it alone.  That
\* the buffer a connector queues is one nobody holds, which NtvWorkQueue takes
\* from req_get, is what OneOwner says.
LEMMA StepQueue == SInv /\ [SearchdNext]_vars => [Next]_qvars
  <1> SUFFICES ASSUME SInv, [SearchdNext]_vars PROVE [Next]_qvars
    OBVIOUS
  <1>1. ASSUME NEW c \in Connector, ConnectorStep(c) PROVE [Next]_qvars
    <2>1. CASE Enqueue(c)
      <3>1. cat[c] = "queue" /\ AddToQ(c, req[c])
        BY <2>1 DEF Enqueue
      <3>2. c \in Carrying /\ req[c] \in Request
        BY <3>1 DEF Carrying, SInv, OwnInv, SearchdTypeOK, ThreadsAreInPlace
      <3>3. req[c] \in Unused
        <4>1. req[c] \notin Queued
          BY <3>2 DEF SInv, OwnInv, OneOwner
        <4>2. ASSUME NEW w \in Worker PROVE inHand[w] # req[c]
          <5>1. CASE w \in Searching
            BY <3>2, <5>1 DEF SInv, OwnInv, OneOwner
          <5>2. CASE w \notin Searching
            BY <3>2, <5>2, NoRequestIsNone DEF SInv, OwnInv, ThreadsAreInPlace, Searching
          <5> QED
            BY <5>1, <5>2
        <4> QED
          BY <3>2, <4>1, <4>2 DEF Unused
      <3> QED
        BY <3>1, <3>3 DEF Next
    <2>2. CASE Throttled(c)
      BY <2>2 DEF Throttled, Next
    <2>3. CASE LockRefusal(c) \/ WriteRefusal(c) \/ PutRefused(c) \/ LookAtID(c) \/ Hangup(c)
      BY <2>3 DEF LockRefusal, WriteRefusal, PutRefused, LookAtID, Hangup
    <2> QED
      BY <1>1, <2>1, <2>2, <2>3 DEF ConnectorStep, ConnectorRuns
  <1>2. ASSUME NEW c \in Connector, ClientStep(c) PROVE [Next]_qvars
    BY <1>2 DEF ClientStep, Accept, ReadQuery, ReadEOF
  <1>3. ASSUME NEW w \in Worker, WorkerStep(w) PROVE [Next]_qvars
    <2>1. CASE Claimant(w) \/ Take(w) \/ PutAnswered(w)
      BY <2>1 DEF Claimant, Take, PutAnswered, Next
    <2>2. CASE SkipCore(w) \/ WantCore(w) \/ EnterCore(w) \/ LeaveCore(w) \/ LockAnswer(w)
               \/ WriteAnswer(w)
      BY <2>2 DEF SkipCore, WantCore, EnterCore, LeaveCore, LockAnswer, WriteAnswer
    <2> QED
      BY <1>3, <2>1, <2>2 DEF WorkerStep, WorkerRuns
  <1>4. CASE UNCHANGED vars
    BY <1>4 DEF vars
  <1> QED
    BY <1>1, <1>2, <1>3, <1>4 DEF SearchdNext

-----------------------------------------------------------------------------
LEMMA InitSInv == SearchdInit => SInv
  <1> SUFFICES ASSUME SearchdInit PROVE SInv
    OBVIOUS
  <1>1. IInv
    BY InitQueue, InitIInv
  <1>2. /\ queue = <<>> /\ inHand = [w \in Worker |-> "none"]
        /\ wpc = [w \in Worker |-> "waiting"]
    BY DEF SearchdInit, Init
  <1>3. /\ Carrying = {} /\ Searching = {} /\ Asking = {} /\ Answering = {}
        /\ Queued = {} /\ Pooled = {}
    BY <1>2 DEF SearchdInit, Carrying, Searching, Asking, Answering, Queued, Pooled
  <1>4. \A k \in Connection : Servers(k) = {} /\ Readers(k) = {}
    BY NoConnectionIsNone DEF SearchdInit, Servers, Readers
  <1>5. SearchdTypeOK
    BY DEF SearchdInit, SearchdTypeOK
  <1>6. ThreadsAreInPlace
    BY <1>2 DEF SearchdInit, ThreadsAreInPlace
  <1>7. OneOwner
    BY <1>2, <1>3 DEF SearchdInit, OneOwner, Distinct
  <1>8. RequestsNameConnections
    BY <1>3 DEF SearchdInit, RequestsNameConnections, Unanswered
  <1>9. UsersAreFinite /\ UsageIsExact
    <2>1. ASSUME NEW k \in Connection
          PROVE  /\ IsFiniteSet(Readers(k)) /\ usage[k] = 0
                 /\ Cardinality(Servers(k)) = 0 /\ Cardinality(Readers(k)) = 0
      BY <1>4, FS_EmptySet DEF SearchdInit
    <2>2. ASSUME NEW k \in Connection
          PROVE  usage[k] = Cardinality(Servers(k)) + Cardinality(Readers(k))
      BY <2>1
    <2> QED
      BY <2>1, <2>2 DEF UsersAreFinite, UsageIsExact, Servers, Readers
  <1>10. WriteLockIsHeld
    BY DEF SearchdInit, WriteLockIsHeld, Writing
  <1> QED
    BY <1>1, <1>5, <1>6, <1>7, <1>8, <1>9, <1>10 DEF SInv, OwnInv

LEMMA NextSInv == SInv /\ [SearchdNext]_vars => SInv'
  <1> SUFFICES ASSUME SInv, [SearchdNext]_vars PROVE SInv'
    OBVIOUS
  <1>1. IInv'
    BY StepQueue, NextIInv DEF SInv
  <1>2. ASSUME NEW c \in Connector, ClientStep(c) \/ ConnectorStep(c) PROVE OwnInv'
    BY <1>2, AcceptKeeps, ReadQueryKeeps, EnqueueKeeps, QuietSteps, LockRefusalKeeps,
       WriteRefusalKeeps, PutRefusedKeeps, LookAtIDKeeps, HangupKeeps
    DEF ClientStep, ConnectorStep, ConnectorRuns
  <1>3. ASSUME NEW w \in Worker, WorkerStep(w) PROVE OwnInv'
    BY <1>3, QuietSteps, TakeKeeps, LockAnswerKeeps, WriteAnswerKeeps, PutAnsweredKeeps
    DEF WorkerStep, WorkerRuns
  <1>4. CASE UNCHANGED vars
    <2>1. /\ UNCHANGED <<queue, wpc, inHand, usage, mutWrite, rrwOf, idOf, freelist, cat, conn,
                         req, wat>>
      BY <1>4 DEF vars, svars, qvars
    <2>2. /\ Carrying' = Carrying /\ Searching' = Searching
          /\ Asking' = Asking /\ Answering' = Answering
      BY <2>1 DEF Carrying, Searching, Asking, Answering
    <2>3. SearchdTypeOK' /\ ThreadsAreInPlace' /\ WriteLockIsHeld'
      BY <2>1 DEF SInv, OwnInv, SearchdTypeOK, ThreadsAreInPlace, WriteLockIsHeld, Writing
    <2> QED
      BY <1>1, <2>1, <2>2, <2>3, SameBuffers, SameUsers DEF OwnInv, SInv
  <1> QED
    BY <1>1, <1>2, <1>3, <1>4 DEF SearchdNext, SInv

\* The inductive invariant holds of thrd_connector and thrd_worker whatever the
\* number of threads, buffers and connections.
THEOREM SearchdInvariance == SearchdSpec => []SInv
  BY InitSInv, NextSInv, PTL DEF SearchdSpec

-----------------------------------------------------------------------------
\* rrw->usage counts the users of a connection exactly: rrw_unuse closes it
\* when the last is gone, neither before nor never.
THEOREM UsageCorrect == SearchdSpec => []UsageIsExact
  <1>1. SInv => UsageIsExact
    BY DEF SInv, OwnInv
  <1> QED
    BY <1>1, SearchdInvariance, PTL

\* A buffer on the freelist of req_put is there once and in nobody's hands.
THEOREM FreelistCorrect == SearchdSpec => []FreelistIsSound
  <1>1. SInv => FreelistIsSound
    <2> SUFFICES ASSUME SInv PROVE FreelistIsSound
      OBVIOUS
    <2>1. Distinct(freelist) /\ Pooled \cap Queued = {}
      BY DEF SInv, OwnInv, OneOwner
    <2>2. ASSUME NEW r \in Pooled
          PROVE  /\ rrwOf[r] = "none" /\ r \notin Queued
                 /\ \A w \in Worker : inHand[w] # r
                 /\ \A c \in Connector : req[c] = r => cat[c] = "look"
      <3>1. r \in Request /\ r # "none"
        BY NoRequestIsNone DEF SInv, OwnInv, SearchdTypeOK, Pooled
      <3>2. r \notin Queued
        BY <2>1
      <3>3. \A w \in Worker : inHand[w] # r
        BY <3>1 DEF SInv, OwnInv, OneOwner, ThreadsAreInPlace, Searching
      <3>4. \A c \in Carrying : req[c] # r
        BY DEF SInv, OwnInv, OneOwner
      <3>5. \A c \in Connector : req[c] = r => cat[c] = "look"
        BY <3>1, <3>4 DEF SInv, OwnInv, SearchdTypeOK, ThreadsAreInPlace, Carrying
      <3>6. ~Unanswered(r)
        BY <3>2, <3>3, <3>4 DEF Unanswered, Asking, Answering, Carrying
      <3>7. rrwOf[r] = "none"
        BY <3>1, <3>6 DEF SInv, OwnInv, RequestsNameConnections
      <3> QED
        BY <3>2, <3>3, <3>5, <3>7
    <2> QED
      BY <2>1, <2>2 DEF FreelistIsSound, Distinct
  <1> QED
    BY <1>1, SearchdInvariance, PTL

\* Whoever holds the mut_write of a connection is writing an answer to it.
THEOREM WriteLockCorrect == SearchdSpec => []WriteLockIsHeld
  <1>1. SInv => WriteLockIsHeld
    BY DEF SInv, OwnInv
  <1> QED
    BY <1>1, SearchdInvariance, PTL

\* The threads use the work queue as NtvWorkQueue says, so that everything
\* proved of the queue holds of ntvsearchd.
THEOREM QueueIsImplemented == SearchdSpec => QueueSpec
  BY InitQueue, StepQueue, SearchdInvariance, PTL DEF SearchdSpec, QueueSpec, Spec
=============================================================================
