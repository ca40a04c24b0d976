-------------------------- MODULE NtvPrimeQ_proofs --------------------------
(***************************************************************************)
(* Whoever searches holds its lists, the cache exceeds its size by pinned  *)
(* blocks only and no sleeping leader is forgotten, for any number of      *)
(* threads and blocks and any size of the cache.                           *)
(***************************************************************************)
EXTENDS NtvPrimeQ, FiniteSetTheorems, TLAPS

Places == {"idle", "asleep", "lead", "measure", "throttled", "prime", "fetch", "handover",
           "search", "release"}

-----------------------------------------------------------------------------
(* The blocks. *)

CacheTypeOK ==
    /\ pc \in [Thread -> Places]
    /\ mutPrimeQ \in Thread \cup {"free"}
    /\ held \in [Thread -> [Block -> Nat]]
    /\ pincnt \in [Block -> Nat]
    /\ readonly \subseteq Block
    /\ cachecnt \in Int
    /\ primed \in Int
    /\ nthrottled \in Nat
    /\ semNotTooFull \in Nat

\* So that they can be counted.
HandlesAreFinite == \A b \in Block : IsFiniteSet(Handles(b))

\* Between the measure of the room and the start of the batch a leader has
\* mut_primeQ, so there is at most one.
LeaderHasMutex ==
    \A t \in Thread : pc[t] \in {"measure", "throttled"} <=> mutPrimeQ = t

\* The leader that sleeps, if there is one, is counted or has been called.
SleeperIsCounted ==
    nthrottled + semNotTooFull = IF \E t \in Thread : pc[t] = "throttled" THEN 1 ELSE 0

CacheInv ==
    /\ CacheTypeOK
    /\ HandlesAreFinite
    /\ PinsAreExact
    /\ LeaderHasMutex
    /\ SleeperIsCounted
    /\ CacheIsTrimmed
    /\ NoLeaderForgotten

-----------------------------------------------------------------------------
(* The queue. *)

Distinct(s) == \A i, j \in 1 .. Len(s) : s[i] = s[j] => i = j

\* From Enqueue to HandOver a thread is in line; when it has been called, or
\* found the queue empty, it leads.
Leading == {"lead", "measure", "throttled", "prime", "fetch", "handover"}
InLine(t) == pc[t] \in Leading \/ (pc[t] = "asleep" /\ ~done[t])
Leads(t) == pc[t] \in Leading \/ (pc[t] = "asleep" /\ ~done[t] /\ me[t] = 1)

QueueTypeOK ==
    /\ pc \in [Thread -> Places]
    /\ primeQ \in Seq(Thread)
    /\ last \in [Thread -> Thread]
    /\ done \in [Thread -> BOOLEAN]
    /\ me \in [Thread -> {0, 1}]
    /\ want \in [Thread -> [Block -> Nat]]
    /\ held \in [Thread -> [Block -> Nat]]

QueueIsTheLine ==
    /\ Distinct(primeQ)
    /\ \A t \in Thread : InLine(t) <=> \E i \in 1 .. Len(primeQ) : primeQ[i] = t

LeaderIsHead == \A t \in Thread : Leads(t) => Len(primeQ) > 0 /\ primeQ[1] = t

OnlySleepersAreCalled == \A t \in Thread : me[t] = 1 => pc[t] = "asleep"

BatchIsInLine ==
    \A t \in Thread : pc[t] \in {"prime", "fetch", "handover"} =>
        \E i \in 1 .. Len(primeQ) : primeQ[i] = last[t]

\* A leader about to hand over has pinned the lists of its whole batch.
BatchIsPrimed ==
    \A t \in Thread : pc[t] = "handover" =>
        \A i \in 1 .. Len(primeQ) : primeQ[i] = last[t] =>
            \A j \in 1 .. i : held[primeQ[j]] = want[primeQ[j]]

\* So has, from then on, whoever was told.
ToldHoldTheirLists ==
    \A t \in Thread : pc[t] = "asleep" /\ done[t] => held[t] = want[t]

QueueInv ==
    /\ QueueTypeOK
    /\ QueueIsTheLine
    /\ LeaderIsHead
    /\ OnlySleepersAreCalled
    /\ BatchIsInLine
    /\ BatchIsPrimed
    /\ ToldHoldTheirLists
    /\ SearchersHoldTheirLists

-----------------------------------------------------------------------------
(* Numbers and sets. *)

LEMMA MaxOfTwo ==
    ASSUME NEW x \in Int, NEW y \in Int
    PROVE  Max({x, y}) = IF x > y THEN x ELSE y
  BY DEF Max

LEMMA MinOfTwo ==
    ASSUME NEW x \in Int, NEW y \in Int
    PROVE  Min({x, y}) = IF x < y THEN x ELSE y
  BY DEF Min

LEMMA CountRest ==
    ASSUME NEW S, IsFiniteSet(S), NEW T \in SUBSET S
    PROVE  /\ IsFiniteSet(S \ T)
           /\ Cardinality(S \ T) = Cardinality(S) - Cardinality(T)
  <1>1. IsFiniteSet(T) /\ IsFiniteSet(S \ T)
    BY FS_Subset
  <1>2. T \cup (S \ T) = S /\ T \cap (S \ T) = {}
    OBVIOUS
  <1>3. Cardinality(S) = Cardinality(T) + Cardinality(S \ T) - Cardinality({})
    BY <1>1, <1>2, FS_Union
  <1> QED
    BY <1>1, <1>3, FS_CardinalityType, FS_EmptySet

\* A thread takes one more handle on a block, and releases one.
LEMMA HandleTaken ==
    ASSUME CacheTypeOK, NEW q \in Thread, NEW b \in Block,
           held' = [held EXCEPT ![q][b] = @ + 1]
    PROVE  LET h == <<q, held[q][b] + 1>>
           IN  /\ Handles(b)' = Handles(b) \cup {h} /\ h \notin Handles(b)
               /\ \A c \in Block : c # b => Handles(c)' = Handles(c)
  <1> DEFINE h == <<q, held[q][b] + 1>>
  <1>1. /\ held[q][b] \in Nat /\ held'[q][b] = held[q][b] + 1
        /\ \A t \in Thread : t # q => held'[t][b] = held[t][b]
        /\ \A t \in Thread, c \in Block : c # b => held'[t][c] = held[t][c]
    BY DEF CacheTypeOK
  <1>2. 1 .. held[q][b] + 1 = (1 .. held[q][b]) \cup {held[q][b] + 1}
    BY <1>1
  <1>3. Handles(b)' = Handles(b) \cup {h}
    BY <1>1, <1>2 DEF Handles
  <1>4. h \notin Handles(b)
    BY <1>1 DEF Handles
  <1>5. \A c \in Block : c # b => Handles(c)' = Handles(c)
    BY <1>1 DEF Handles
  <1> QED
    BY <1>3, <1>4, <1>5

LEMMA HandleReleased ==
    ASSUME CacheTypeOK, NEW q \in Thread, NEW b \in Block, held[q][b] > 0,
           held' = [held EXCEPT ![q][b] = @ - 1]
    PROVE  LET h == <<q, held[q][b]>>
           IN  /\ Handles(b)' = Handles(b) \ {h} /\ h \in Handles(b)
               /\ \A c \in Block : c # b => Handles(c)' = Handles(c)
  <1> DEFINE h == <<q, held[q][b]>>
  <1>1. /\ held[q][b] \in Nat \ {0} /\ held'[q][b] = held[q][b] - 1
        /\ \A t \in Thread : t # q => held'[t][b] = held[t][b]
        /\ \A t \in Thread, c \in Block : c # b => held'[t][c] = held[t][c]
    BY DEF CacheTypeOK
  <1>2. /\ 1 .. held[q][b] - 1 = (1 .. held[q][b]) \ {held[q][b]}
        /\ held[q][b] \in 1 .. held[q][b]
    BY <1>1
  <1>3. Handles(b)' = Handles(b) \ {h}
    BY <1>1, <1>2 DEF Handles
  <1>4. h \in Handles(b)
    BY <1>2 DEF Handles
  <1>5. \A c \in Block : c # b => Handles(c)' = Handles(c)
    BY <1>1 DEF Handles
  <1> QED
    BY <1>3, <1>4, <1>5

\* The sets the counters count.
LEMMA CacheIsFinite ==
    ASSUME CacheInv
    PROVE  /\ IsFiniteSet(Pinned) /\ IsFiniteSet(readonly)
           /\ Cardinality(Pinned) \in Nat /\ Cardinality(readonly) \in Nat
           /\ cachecnt \in Nat /\ primed \in Nat
  <1>1. IsFiniteSet(Pinned) /\ IsFiniteSet(readonly)
    BY CacheAssumption, FS_Subset DEF CacheInv, CacheTypeOK, Pinned
  <1> QED
    BY <1>1, FS_CardinalityType DEF CacheInv, PinsAreExact

-----------------------------------------------------------------------------
(* Steps that touch no block. *)

LEMMA SameBlocks ==
    ASSUME CacheInv, UNCHANGED <<held, pincnt, readonly, cachecnt, primed>>
    PROVE  HandlesAreFinite' /\ PinsAreExact' /\ CacheIsTrimmed'
  <1>1. /\ \A b \in Block : Handles(b)' = Handles(b)
        /\ Pinned' = Pinned
    BY DEF Handles, Pinned
  <1> QED
    BY <1>1 DEF CacheInv, HandlesAreFinite, PinsAreExact, CacheIsTrimmed

\* A step that neither makes nor releases the holder of mut_primeQ.
LEMMA SameLeader ==
    ASSUME CacheInv, UNCHANGED <<held, pincnt, readonly, cachecnt, primed, mutPrimeQ, tvars>>,
           pc' \in [Thread -> Places],
           \A t \in Thread : \/ pc'[t] = pc[t]
                             \/ /\ pc[t] \notin {"measure", "throttled"}
                                /\ pc'[t] \notin {"measure", "throttled"}
    PROVE  CacheInv'
  <1>1. CacheTypeOK'
    BY DEF CacheInv, CacheTypeOK, tvars
  <1>2. \A t \in Thread : /\ pc'[t] = "throttled" <=> pc[t] = "throttled"
                          /\ pc'[t] = "measure" <=> pc[t] = "measure"
    OBVIOUS
  <1>3. LeaderHasMutex'
    BY <1>2 DEF CacheInv, LeaderHasMutex
  <1>4. SleeperIsCounted' /\ NoLeaderForgotten'
    BY <1>2 DEF CacheInv, SleeperIsCounted, NoLeaderForgotten, tvars
  <1> QED
    BY <1>1, <1>3, <1>4, SameBlocks DEF CacheInv

LEMMA QueueSteps ==
    ASSUME CacheInv, NEW t \in Thread,
           \/ Enqueue(t) \/ Wake(t) \/ StartPriming(t) \/ EndPriming(t) \/ HandOver(t)
           \/ StartRelease(t) \/ EndRelease(t)
    PROVE  CacheInv'
  <1>1. /\ UNCHANGED <<held, pincnt, readonly, cachecnt, primed, mutPrimeQ, tvars>>
        /\ \E p \in Places \ {"measure", "throttled"} : pc' = [pc EXCEPT ![t] = p]
        /\ pc[t] \notin {"measure", "throttled"}
    BY DEF Enqueue, Wake, StartPriming, EndPriming, HandOver, StartRelease, EndRelease, Places,
           cvars, qvars
  <1>2. pc \in [Thread -> Places]
    BY DEF CacheInv, CacheTypeOK
  <1>3. \A u \in Thread : \/ pc'[u] = pc[u]
                          \/ /\ pc[u] \notin {"measure", "throttled"}
                             /\ pc'[u] \notin {"measure", "throttled"}
    BY <1>1, <1>2
  <1> QED
    BY <1>1, <1>2, <1>3, SameLeader

-----------------------------------------------------------------------------
(* The steps of a leader. *)

LEMMA LeadKeeps ==
    ASSUME CacheInv, NEW t \in Thread, Lead(t)
    PROVE  CacheInv'
  <1>1. /\ pc[t] = "lead" /\ pc' = [pc EXCEPT ![t] = "measure"]
        /\ mutPrimeQ = "free" /\ mutPrimeQ' = t
        /\ UNCHANGED <<held, pincnt, readonly, cachecnt, primed, nthrottled, semNotTooFull>>
    BY DEF Lead, cvars, tvars
  <1>2. \A u \in Thread : pc[u] \notin {"measure", "throttled"}
    BY <1>1, ThreadAssumption DEF CacheInv, LeaderHasMutex
  <1>3. CacheTypeOK'
    BY <1>1 DEF CacheInv, CacheTypeOK, Places
  <1>4. \A u \in Thread : pc'[u] # "throttled" /\ (pc'[u] = "measure" <=> u = t)
    BY <1>1, <1>2 DEF CacheInv, CacheTypeOK
  <1>5. LeaderHasMutex' /\ NoLeaderForgotten'
    BY <1>1, <1>4 DEF LeaderHasMutex, NoLeaderForgotten
  <1>6. SleeperIsCounted'
    BY <1>1, <1>2, <1>4 DEF CacheInv, SleeperIsCounted
  <1> QED
    BY <1>1, <1>3, <1>5, <1>6, SameBlocks DEF CacheInv

LEMMA MeasureKeeps ==
    ASSUME CacheInv, NEW t \in Thread, Measure(t)
    PROVE  CacheInv'
  <1>1. /\ pc[t] = "measure" /\ mutPrimeQ = t
        /\ UNCHANGED <<held, pincnt, readonly, cachecnt, primed, semNotTooFull>>
    BY DEF Measure, cvars, CacheInv, LeaderHasMutex
  <1>2. \A u \in Thread : u # t => pc[u] \notin {"measure", "throttled"}
    BY <1>1 DEF CacheInv, LeaderHasMutex
  <1>3. pc \in [Thread -> Places] /\ nthrottled = 0 /\ semNotTooFull = 0
    BY <1>1, <1>2 DEF CacheInv, CacheTypeOK, SleeperIsCounted
  <1>4. CASE primed > MaxSize
    <2>1. /\ nthrottled' = 1 /\ mutPrimeQ' = t /\ pc' = [pc EXCEPT ![t] = "throttled"]
      BY <1>1, <1>3, <1>4 DEF Measure
    <2>2. CacheTypeOK'
      BY <1>1, <2>1 DEF CacheInv, CacheTypeOK, Places
    <2>3. \A u \in Thread : pc'[u] # "measure" /\ (pc'[u] = "throttled" <=> u = t)
      BY <1>2, <1>3, <2>1
    <2>4. LeaderHasMutex' /\ NoLeaderForgotten'
      BY <1>1, <1>4, <2>1, <2>3 DEF LeaderHasMutex, NoLeaderForgotten
    <2>5. SleeperIsCounted'
      BY <1>1, <1>3, <2>1, <2>3 DEF SleeperIsCounted
    <2> QED
      BY <1>1, <2>2, <2>4, <2>5, SameBlocks DEF CacheInv
  <1>5. CASE ~(primed > MaxSize)
    <2>1. /\ nthrottled' = 0 /\ mutPrimeQ' = "free" /\ pc' = [pc EXCEPT ![t] = "prime"]
      BY <1>3, <1>5 DEF Measure
    <2>2. CacheTypeOK'
      BY <1>1, <2>1 DEF CacheInv, CacheTypeOK, Places
    <2>3. \A u \in Thread : pc'[u] \notin {"measure", "throttled"}
      BY <1>2, <1>3, <2>1
    <2>4. LeaderHasMutex' /\ NoLeaderForgotten'
      BY <2>1, <2>3, ThreadAssumption DEF LeaderHasMutex, NoLeaderForgotten
    <2>5. SleeperIsCounted'
      BY <1>1, <1>3, <2>1, <2>3 DEF SleeperIsCounted
    <2> QED
      BY <1>1, <2>2, <2>4, <2>5, SameBlocks DEF CacheInv
  <1> QED
    BY <1>4, <1>5

LEMMA UnthrottledKeeps ==
    ASSUME CacheInv, NEW t \in Thread, Unthrottled(t)
    PROVE  CacheInv'
  <1>1. /\ pc[t] = "throttled" /\ mutPrimeQ = t /\ pc' = [pc EXCEPT ![t] = "measure"]
        /\ semNotTooFull > 0 /\ semNotTooFull' = semNotTooFull - 1
        /\ UNCHANGED <<held, pincnt, readonly, cachecnt, primed, nthrottled, mutPrimeQ>>
    BY DEF Unthrottled, cvars, qvars, CacheInv, LeaderHasMutex
  <1>2. \A u \in Thread : u # t => pc[u] \notin {"measure", "throttled"}
    BY <1>1 DEF CacheInv, LeaderHasMutex
  <1>3. pc \in [Thread -> Places] /\ nthrottled = 0 /\ semNotTooFull = 1
    BY <1>1 DEF CacheInv, CacheTypeOK, SleeperIsCounted
  <1>4. CacheTypeOK'
    BY <1>1, <1>3 DEF CacheInv, CacheTypeOK, Places
  <1>5. \A u \in Thread : pc'[u] # "throttled" /\ (pc'[u] = "measure" <=> u = t)
    BY <1>1, <1>2, <1>3
  <1>6. LeaderHasMutex' /\ NoLeaderForgotten'
    BY <1>1, <1>5 DEF LeaderHasMutex, NoLeaderForgotten
  <1>7. SleeperIsCounted'
    BY <1>1, <1>3, <1>5 DEF SleeperIsCounted
  <1> QED
    BY <1>1, <1>4, <1>6, <1>7, SameBlocks DEF CacheInv

-----------------------------------------------------------------------------
(* Batches. *)

\* The smallest of some numbers is one of them.
LEMMA MinIsOne ==
    ASSUME NEW T, T \subseteq Nat, T # {}
    PROVE  Min(T) \in T
  <1> DEFINE less == OpToRel(<, Nat)
  <1>1. less = {ss \in Nat \X Nat : ss[1] < ss[2]}
    BY DEF OpToRel
  <1>2. IsWellFoundedOn(less, Nat)
    BY NatLessThanWellFounded
  <1> HIDE DEF less
  <1>3. PICK x \in T : \A y \in T : ~ (<<y, x>> \in less)
    BY <1>2, WFMin
  <1>4. ASSUME NEW y \in T PROVE x <= y
    <2>1. x \in Nat /\ y \in Nat
      OBVIOUS
    <2>2. <<y, x>> \in Nat \X Nat /\ <<y, x>>[1] = y /\ <<y, x>>[2] = x
      BY <2>1
    <2>3. y < x => <<y, x>> \in less
      BY <1>1, <2>2
    <2> QED
      BY <1>3, <2>1, <2>3
  <1> QED
    BY <1>4 DEF Min

\* pQEnd is in the queue.
LEMMA EndOfBatchIsInLine ==
    ASSUME QueueInv, Len(primeQ) > 0, NEW nfree
    PROVE  \E i \in 1 .. Len(primeQ) : primeQ[i] = EndOfBatch(nfree)
  <1> DEFINE over == {n \in 1 .. Len(primeQ) : HandlesOf(n) > nfree}
  <1>1. Len(primeQ) \in 1 .. Len(primeQ)
    BY DEF QueueInv, QueueTypeOK
  <1>2. over # {} => Min(over) \in 1 .. Len(primeQ)
    BY MinIsOne
  <1>3. (IF over = {} THEN Len(primeQ) ELSE Min(over)) \in 1 .. Len(primeQ)
    BY <1>1, <1>2
  <1> QED
    BY <1>3 DEF EndOfBatch

\* A batch is the queue up to its end, which is there once.
LEMMA BatchIsPrefix ==
    ASSUME QueueInv, NEW t \in Thread, pc[t] \in {"prime", "fetch", "handover"}
    PROVE  /\ BatchSize(t) \in 1 .. Len(primeQ)
           /\ primeQ[BatchSize(t)] = last[t]
           /\ Batch(t) = {primeQ[j] : j \in 1 .. BatchSize(t)}
           /\ Batch(t) \subseteq Thread
  <1>1. primeQ \in Seq(Thread) /\ Distinct(primeQ)
    BY DEF QueueInv, QueueTypeOK, QueueIsTheLine
  <1>2. PICK n \in 1 .. Len(primeQ) : primeQ[n] = last[t]
    BY DEF QueueInv, BatchIsInLine
  <1>3. {i \in DOMAIN primeQ : primeQ[i] = last[t]} = {n}
    BY <1>1, <1>2 DEF Distinct
  <1>4. Min({n}) = n
    BY DEF Min
  <1>5. BatchSize(t) = n
    BY <1>3, <1>4 DEF BatchSize
  <1>6. /\ DOMAIN SubSeq(primeQ, 1, n) = 1 .. n
        /\ \A j \in 1 .. n : SubSeq(primeQ, 1, n)[j] = primeQ[j]
    BY <1>1, <1>2
  <1>7. Batch(t) = {primeQ[j] : j \in 1 .. n}
    BY <1>5, <1>6 DEF Batch, ToSet
  <1>8. \A j \in 1 .. n : primeQ[j] \in Thread
    BY <1>1, <1>2
  <1> QED
    BY <1>2, <1>5, <1>7, <1>8

\* There is one leader.
LEMMA OneLeader ==
    ASSUME QueueInv, NEW t \in Thread, NEW u \in Thread, Leads(t), Leads(u)
    PROVE  t = u
  BY DEF QueueInv, LeaderIsHead

-----------------------------------------------------------------------------
(* The queue, step by step. *)

\* A thread that stays in line, or out of it.
LEMMA SameLine ==
    ASSUME QueueInv, NEW t \in Thread, NEW p \in Places,
           pc' = [pc EXCEPT ![t] = p], UNCHANGED <<primeQ, done, me>>,
           \/ pc[t] \in Leading /\ p \in Leading
           \/ pc[t] \notin Leading \cup {"asleep"} /\ p \notin Leading \cup {"asleep"}
    PROVE  QueueIsTheLine' /\ LeaderIsHead' /\ OnlySleepersAreCalled'
  <1>1. \A u \in Thread : u # t => pc'[u] = pc[u]
    BY DEF QueueInv, QueueTypeOK
  <1>2. pc'[t] = p /\ pc[t] # "asleep" /\ p # "asleep" /\ (pc[t] \in Leading <=> p \in Leading)
    BY DEF QueueInv, QueueTypeOK, Leading
  <1>3. \A u \in Thread : (InLine(u)' <=> InLine(u)) /\ (Leads(u)' <=> Leads(u))
    BY <1>1, <1>2 DEF InLine, Leads
  <1>4. QueueIsTheLine'
    BY <1>3 DEF QueueInv, QueueIsTheLine, Distinct
  <1>5. LeaderIsHead'
    BY <1>3 DEF QueueInv, LeaderIsHead
  <1>6. OnlySleepersAreCalled'
    BY <1>1, <1>2 DEF QueueInv, OnlySleepersAreCalled
  <1> QED
    BY <1>4, <1>5, <1>6

LEMMA EnqueueQ ==
    ASSUME QueueInv, NEW t \in Thread, Enqueue(t)
    PROVE  QueueInv'
  <1> DEFINE next == IF primeQ = <<>> THEN "prime" ELSE "asleep"
  <1>1. /\ pc[t] = "idle" /\ pc' = [pc EXCEPT ![t] = next]
        /\ primeQ' = Append(primeQ, t) /\ done' = [done EXCEPT ![t] = FALSE]
        /\ last' = [last EXCEPT ![t] = t] /\ UNCHANGED <<held, me>>
    BY DEF Enqueue
  <1>2. PICK ask \in Asks : want' = [want EXCEPT ![t] = ask]
    BY DEF Enqueue
  <1>3. /\ primeQ \in Seq(Thread) /\ Len(primeQ) \in Nat
        /\ primeQ' \in Seq(Thread) /\ Len(primeQ') = Len(primeQ) + 1
        /\ primeQ'[Len(primeQ) + 1] = t
        /\ \A i \in 1 .. Len(primeQ) : i \in 1 .. Len(primeQ') /\ primeQ'[i] = primeQ[i]
        /\ \A i \in 1 .. Len(primeQ') : i \in 1 .. Len(primeQ) \/ i = Len(primeQ) + 1
        /\ Len(primeQ) + 1 \in 1 .. Len(primeQ')
    BY <1>1 DEF QueueInv, QueueTypeOK
  <1>4. /\ \A i \in 1 .. Len(primeQ) : primeQ[i] # t
        /\ me[t] = 0
    BY <1>1 DEF QueueInv, QueueTypeOK, QueueIsTheLine, OnlySleepersAreCalled, InLine, Leading
  <1>5. /\ pc'[t] = next /\ done'[t] = FALSE /\ last'[t] = t /\ next \in {"prime", "asleep"}
        /\ \A u \in Thread : u # t =>
              pc'[u] = pc[u] /\ done'[u] = done[u] /\ last'[u] = last[u] /\ want'[u] = want[u]
    BY <1>1, <1>2 DEF QueueInv, QueueTypeOK
  <1>6. QueueTypeOK'
    BY <1>1, <1>2, <1>3, CacheAssumption DEF QueueInv, QueueTypeOK, Places
  <1>7. next = "prime" => Len(primeQ) = 0
    BY <1>3
  <1>8. next = "asleep" => Len(primeQ) > 0
    BY <1>3
  <1> HIDE DEF next
  <1>9. QueueIsTheLine'
    <2>1. Distinct(primeQ')
      BY <1>3, <1>4 DEF QueueInv, QueueIsTheLine, Distinct
    <2>2. InLine(t)' /\ \A u \in Thread : u # t => (InLine(u)' <=> InLine(u))
      BY <1>5 DEF InLine, Leading
    <2>3. \A u \in Thread : u # t =>
             ((\E i \in 1 .. Len(primeQ') : primeQ'[i] = u)
                <=> \E i \in 1 .. Len(primeQ) : primeQ[i] = u)
      BY <1>3
    <2> QED
      BY <1>3, <2>1, <2>2, <2>3 DEF QueueInv, QueueIsTheLine
  <1>10. LeaderIsHead'
    <2> SUFFICES ASSUME NEW u \in Thread, Leads(u)' PROVE Len(primeQ') > 0 /\ primeQ'[1] = u
      BY DEF LeaderIsHead
    <2>1. CASE u = t
      <3>1. Len(primeQ) = 0
        BY <1>1, <1>4, <1>5, <1>7, <2>1 DEF Leads, Leading
      <3> QED
        BY <1>3, <2>1, <3>1
    <2>2. CASE u # t
      <3>1. Len(primeQ) > 0 /\ primeQ[1] = u
        BY <1>1, <1>5, <2>2 DEF QueueInv, LeaderIsHead, Leads
      <3> QED
        BY <1>3, <3>1
    <2> QED
      BY <2>1, <2>2
  <1>11. OnlySleepersAreCalled'
    BY <1>1, <1>4, <1>5 DEF QueueInv, OnlySleepersAreCalled
  <1>12. BatchIsInLine'
    BY <1>3, <1>5 DEF QueueInv, BatchIsInLine
  <1>13. BatchIsPrimed'
    <2> SUFFICES ASSUME NEW u \in Thread, pc'[u] = "handover",
                        NEW i \in 1 .. Len(primeQ'), primeQ'[i] = last'[u], NEW j \in 1 .. i
                 PROVE  held'[primeQ'[j]] = want'[primeQ'[j]]
      BY DEF BatchIsPrimed
    <2>1. u # t /\ pc[u] = "handover" /\ last'[u] = last[u]
      BY <1>5
    <2>2. last[u] # t
      BY <1>4, <2>1 DEF QueueInv, BatchIsInLine
    <2>3. i \in 1 .. Len(primeQ) /\ primeQ[i] = last[u]
      BY <1>3, <2>1, <2>2
    <2>4. j \in 1 .. Len(primeQ) /\ primeQ'[j] = primeQ[j] /\ primeQ[j] \in Thread /\ primeQ[j] # t
      BY <1>3, <1>4, <2>3
    <2>5. held[primeQ[j]] = want[primeQ[j]]
      BY <2>1, <2>3 DEF QueueInv, BatchIsPrimed
    <2> QED
      BY <1>1, <1>5, <2>4, <2>5
  <1>14. ToldHoldTheirLists' /\ SearchersHoldTheirLists'
    BY <1>1, <1>5 DEF QueueInv, ToldHoldTheirLists, SearchersHoldTheirLists
  <1> QED
    BY <1>6, <1>9, <1>10, <1>11, <1>12, <1>13, <1>14 DEF QueueInv

LEMMA WakeQ ==
    ASSUME QueueInv, NEW t \in Thread, Wake(t)
    PROVE  QueueInv'
  <1> DEFINE next == IF done[t] THEN "search" ELSE "lead"
  <1>1. /\ pc[t] = "asleep" /\ me[t] = 1 /\ me' = [me EXCEPT ![t] = 0]
        /\ pc' = [pc EXCEPT ![t] = next]
        /\ UNCHANGED <<primeQ, last, done, want, held>>
    <2>1. pc[t] = "asleep" /\ me[t] = 1
      BY DEF QueueInv, QueueTypeOK, Wake
    <2>2. me' = [me EXCEPT ![t] = me[t] - 1] /\ me[t] - 1 = 0
      BY <2>1 DEF Wake
    <2> QED
      BY <2>1, <2>2 DEF Wake
  <1>2. /\ pc'[t] = next /\ me'[t] = 0
        /\ \A u \in Thread : u # t => pc'[u] = pc[u] /\ me'[u] = me[u]
    BY <1>1 DEF QueueInv, QueueTypeOK
  <1>3. /\ done[t] \in BOOLEAN /\ done[t] => next = "search"
        /\ ~done[t] => next = "lead"
    BY DEF QueueInv, QueueTypeOK
  <1> HIDE DEF next
  <1>4. QueueTypeOK'
    BY <1>1, <1>3 DEF QueueInv, QueueTypeOK, Places
  <1>5. \A u \in Thread : (InLine(u)' <=> InLine(u)) /\ (Leads(u)' => Leads(u))
    BY <1>1, <1>2, <1>3 DEF InLine, Leads, Leading
  <1>6. QueueIsTheLine' /\ LeaderIsHead'
    BY <1>1, <1>5 DEF QueueInv, QueueIsTheLine, LeaderIsHead, Distinct
  <1>7. OnlySleepersAreCalled'
    BY <1>1, <1>2 DEF QueueInv, OnlySleepersAreCalled
  <1>8. \A u \in Thread : pc'[u] \in {"prime", "fetch", "handover"} => pc'[u] = pc[u]
    BY <1>2, <1>3
  <1>9. BatchIsInLine' /\ BatchIsPrimed'
    BY <1>1, <1>8 DEF QueueInv, BatchIsInLine, BatchIsPrimed
  <1>10. ToldHoldTheirLists' /\ SearchersHoldTheirLists'
    BY <1>1, <1>2, <1>3 DEF QueueInv, ToldHoldTheirLists, SearchersHoldTheirLists
  <1> QED
    BY <1>4, <1>6, <1>7, <1>9, <1>10 DEF QueueInv

\* Until it has its batch a leader changes nothing but where it is.
LEMMA LeaderQ ==
    ASSUME QueueInv, NEW t \in Thread, Lead(t) \/ Unthrottled(t) \/ StartPriming(t)
    PROVE  QueueInv'
  <1>1. PICK p \in {"measure", "fetch"} :
           /\ pc' = [pc EXCEPT ![t] = p] /\ (p = "fetch" <=> pc[t] = "prime")
           /\ pc[t] \in {"lead", "throttled", "prime"}
           /\ UNCHANGED <<primeQ, last, done, me, want, held>>
    BY DEF Lead, Unthrottled, StartPriming, qvars
  <1>2. pc'[t] = p /\ \A u \in Thread : u # t => pc'[u] = pc[u]
    BY <1>1 DEF QueueInv, QueueTypeOK
  <1>3. QueueTypeOK'
    BY <1>1 DEF QueueInv, QueueTypeOK, Places
  <1>4. QueueIsTheLine' /\ LeaderIsHead' /\ OnlySleepersAreCalled'
    BY <1>1, SameLine DEF Leading, Places
  <1>5. BatchIsInLine' /\ BatchIsPrimed'
    BY <1>1, <1>2 DEF QueueInv, BatchIsInLine, BatchIsPrimed
  <1>6. ToldHoldTheirLists' /\ SearchersHoldTheirLists'
    BY <1>1, <1>2 DEF QueueInv, ToldHoldTheirLists, SearchersHoldTheirLists
  <1> QED
    BY <1>3, <1>4, <1>5, <1>6 DEF QueueInv

LEMMA MeasureQ ==
    ASSUME QueueInv, NEW t \in Thread, Measure(t)
    PROVE  QueueInv'
  <1>1. pc[t] = "measure" /\ UNCHANGED <<primeQ, done, me, want, held>>
    BY DEF Measure
  <1>2. Len(primeQ) > 0
    BY <1>1 DEF QueueInv, LeaderIsHead, Leads, Leading
  <1>3. PICK p \in {"throttled", "prime"} :
           /\ pc' = [pc EXCEPT ![t] = p]
           /\ \/ p = "throttled" /\ last' = last
              \/ p = "prime" /\ last' = [last EXCEPT ![t] = EndOfBatch(MaxSize - primed)]
    BY DEF Measure
  <1>4. PICK i \in 1 .. Len(primeQ) : primeQ[i] = EndOfBatch(MaxSize - primed)
    BY <1>2, EndOfBatchIsInLine
  <1>5. primeQ[i] \in Thread
    BY DEF QueueInv, QueueTypeOK
  <1>6. /\ pc'[t] = p /\ (p = "prime" => last'[t] = primeQ[i])
        /\ \A u \in Thread : u # t => pc'[u] = pc[u] /\ last'[u] = last[u]
    BY <1>3, <1>4 DEF QueueInv, QueueTypeOK
  <1>7. QueueTypeOK'
    BY <1>1, <1>3, <1>4, <1>5 DEF QueueInv, QueueTypeOK, Places
  <1>8. QueueIsTheLine' /\ LeaderIsHead' /\ OnlySleepersAreCalled'
    BY <1>1, <1>3, SameLine DEF Leading, Places
  <1>9. BatchIsInLine' /\ BatchIsPrimed'
    BY <1>1, <1>6 DEF QueueInv, BatchIsInLine, BatchIsPrimed
  <1>10. ToldHoldTheirLists' /\ SearchersHoldTheirLists'
    BY <1>1, <1>6 DEF QueueInv, ToldHoldTheirLists, SearchersHoldTheirLists
  <1> QED
    BY <1>7, <1>8, <1>9, <1>10 DEF QueueInv

\* What a leader reads, it reads for somebody in line.
LEMMA FetchQ ==
    ASSUME QueueInv, NEW t \in Thread, Fetch(t)
    PROVE  QueueInv'
  <1>1. pc[t] = "fetch" /\ UNCHANGED <<pc, want, primeQ, last, done, me>>
    BY DEF Fetch, qvars
  <1>2. PICK q \in Batch(t), b \in Block : held' = [held EXCEPT ![q][b] = @ + 1]
    BY DEF Fetch
  <1>3. q \in Thread /\ InLine(q)
    BY <1>1, BatchIsPrefix DEF QueueInv, QueueIsTheLine
  <1>4. held' \in [Thread -> [Block -> Nat]] /\ \A u \in Thread : u # q => held'[u] = held[u]
    BY <1>2, <1>3 DEF QueueInv, QueueTypeOK
  <1>5. QueueTypeOK'
    BY <1>1, <1>4 DEF QueueInv, QueueTypeOK
  <1>6. QueueIsTheLine' /\ LeaderIsHead' /\ OnlySleepersAreCalled' /\ BatchIsInLine'
    BY <1>1 DEF QueueInv, QueueIsTheLine, LeaderIsHead, OnlySleepersAreCalled, BatchIsInLine,
                InLine, Leads, Distinct
  <1>7. \A u \in Thread : pc[u] # "handover"
    BY <1>1, OneLeader DEF Leads, Leading
  <1>8. BatchIsPrimed'
    BY <1>1, <1>7 DEF BatchIsPrimed
  <1>9. ToldHoldTheirLists' /\ SearchersHoldTheirLists'
    BY <1>1, <1>3, <1>4 DEF QueueInv, ToldHoldTheirLists, SearchersHoldTheirLists, InLine, Leading
  <1> QED
    BY <1>5, <1>6, <1>8, <1>9 DEF QueueInv

LEMMA EndPrimingQ ==
    ASSUME QueueInv, NEW t \in Thread, EndPriming(t)
    PROVE  QueueInv'
  <1>1. /\ pc[t] = "fetch" /\ pc' = [pc EXCEPT ![t] = "handover"]
        /\ \A q \in Batch(t) : held[q] = want[q]
        /\ UNCHANGED <<primeQ, last, done, me, want, held>>
    BY DEF EndPriming, qvars
  <1>2. pc'[t] = "handover" /\ \A u \in Thread : u # t => pc'[u] = pc[u]
    BY <1>1 DEF QueueInv, QueueTypeOK
  <1>3. QueueTypeOK'
    BY <1>1 DEF QueueInv, QueueTypeOK, Places
  <1>4. QueueIsTheLine' /\ LeaderIsHead' /\ OnlySleepersAreCalled'
    BY <1>1, SameLine DEF Leading, Places
  <1>5. BatchIsInLine'
    BY <1>1, <1>2 DEF QueueInv, BatchIsInLine
  <1>6. \A u \in Thread : pc[u] # "handover"
    BY <1>1, OneLeader DEF Leads, Leading
  <1>7. BatchIsPrimed'
    <2> SUFFICES ASSUME NEW i \in 1 .. Len(primeQ), primeQ[i] = last[t], NEW j \in 1 .. i
                 PROVE  held[primeQ[j]] = want[primeQ[j]]
      BY <1>1, <1>2, <1>6 DEF BatchIsPrimed
    <2>1. i = BatchSize(t)
      BY <1>1, BatchIsPrefix DEF QueueInv, QueueIsTheLine, Distinct
    <2>2. primeQ[j] \in Batch(t)
      BY <1>1, <2>1, BatchIsPrefix
    <2> QED
      BY <1>1, <2>2
  <1>8. ToldHoldTheirLists' /\ SearchersHoldTheirLists'
    BY <1>1, <1>2 DEF QueueInv, ToldHoldTheirLists, SearchersHoldTheirLists
  <1> QED
    BY <1>3, <1>4, <1>5, <1>7, <1>8 DEF QueueInv

\* The rest of the queue, and who is called.
LEMMA HandOverQ ==
    ASSUME QueueInv, NEW t \in Thread, HandOver(t)
    PROVE  QueueInv'
  <1> DEFINE n == BatchSize(t)
             rest == SubSeq(primeQ, n + 1, Len(primeQ))
             next == IF rest = <<>> THEN {} ELSE {Head(rest)}
  <1>1. /\ pc[t] = "handover" /\ pc' = [pc EXCEPT ![t] = "search"]
        /\ primeQ' = rest
        /\ done' = [q \in Thread |-> (done[q] \/ q \in Batch(t)) /\ q \notin next]
        /\ me' = [q \in Thread |->
                     me[q] + (IF q \in (Batch(t) \ {t}) \cup next THEN 1 ELSE 0)]
        /\ UNCHANGED <<last, want, held>>
    BY DEF HandOver
  <1>2. /\ n \in 1 .. Len(primeQ) /\ primeQ[n] = last[t]
        /\ Batch(t) = {primeQ[j] : j \in 1 .. n}
    BY <1>1, BatchIsPrefix
  <1>3. /\ primeQ \in Seq(Thread) /\ Len(primeQ) \in Nat /\ Distinct(primeQ)
        /\ \A i \in 1 .. Len(primeQ) : primeQ[i] \in Thread /\ InLine(primeQ[i])
    BY DEF QueueInv, QueueTypeOK, QueueIsTheLine
  <1> HIDE DEF n
  <1>4. /\ rest \in Seq(Thread) /\ Len(rest) = Len(primeQ) - n
        /\ \A i \in 1 .. Len(rest) : n + i \in 1 .. Len(primeQ) /\ rest[i] = primeQ[n + i]
    BY <1>2, <1>3
  <1> HIDE DEF rest
  <1>5. Head(rest) = rest[1] /\ (rest # <<>> => 1 \in 1 .. Len(rest))
    <2>1. rest \in Seq(Thread) /\ Len(rest) \in Nat
      BY <1>4
    <2>2. rest # <<>> => Len(rest) # 0
      BY <2>1
    <2> QED
      BY <2>1, <2>2
  <1>6. \A u \in next : /\ Len(rest) > 0 /\ u = rest[1] /\ u = primeQ[n + 1]
                        /\ n + 1 \in 1 .. Len(primeQ)
    BY <1>4, <1>5
  <1>7. \A u \in next : u \in Thread /\ InLine(u) /\ u \notin Batch(t)
    BY <1>2, <1>3, <1>6 DEF Distinct
  <1> HIDE DEF next
  <1>8. /\ t = primeQ[1] /\ t \in Batch(t) /\ me[t] = 0
    BY <1>1, <1>2 DEF QueueInv, LeaderIsHead, Leads, Leading, OnlySleepersAreCalled, QueueTypeOK
  <1>9. \A u \in Batch(t) : u \in Thread /\ InLine(u) /\ held[u] = want[u]
    BY <1>1, <1>2, <1>3 DEF QueueInv, BatchIsPrimed
  <1>10. \A u \in Thread : u # t => ~ Leads(u)
    BY <1>1, OneLeader DEF Leads, Leading
  <1>11. \A u \in Thread : u # t /\ InLine(u) => pc[u] = "asleep" /\ ~done[u] /\ me[u] = 0
    BY <1>10 DEF InLine, Leads, QueueInv, QueueTypeOK
  <1>12. pc'[t] = "search" /\ \A u \in Thread : u # t => pc'[u] = pc[u]
    BY <1>1 DEF QueueInv, QueueTypeOK
  <1>13. /\ \A u \in Batch(t) : done'[u] /\ (u # t => me'[u] = 1)
         /\ \A u \in next : ~done'[u] /\ me'[u] = 1
         /\ \A u \in Thread : u \notin Batch(t) \cup next => done'[u] = done[u] /\ me'[u] = me[u]
         /\ me'[t] = 0
    <2>1. \A u \in Thread : me[u] \in {0, 1} /\ done[u] \in BOOLEAN
      BY DEF QueueInv, QueueTypeOK
    <2>2. \A u \in Batch(t) : done'[u] /\ (u # t => me'[u] = 1)
      <3> SUFFICES ASSUME NEW u \in Batch(t) PROVE done'[u] /\ (u # t => me'[u] = 1)
        OBVIOUS
      <3>1. u \in Thread /\ InLine(u) /\ u \notin next
        BY <1>7, <1>9
      <3>2. done'[u]
        BY <1>1, <3>1, Zenon
      <3>3. u # t => me[u] = 0
        BY <1>11, <3>1
      <3>4. u # t => me'[u] = me[u] + 1
        BY <1>1, <3>1
      <3> QED
        BY <3>2, <3>3, <3>4
    <2>3. \A u \in next : ~done'[u] /\ me'[u] = 1
      <3> SUFFICES ASSUME NEW u \in next PROVE ~done'[u] /\ me'[u] = 1
        OBVIOUS
      <3>1. u \in Thread /\ InLine(u) /\ u # t
        BY <1>7, <1>8
      <3>2. ~done'[u]
        BY <1>1, <3>1, Zenon
      <3>3. me[u] = 0
        BY <1>11, <3>1
      <3>4. me'[u] = me[u] + 1
        BY <1>1, <3>1
      <3> QED
        BY <3>2, <3>3, <3>4
    <2>4. \A u \in Thread : u \notin Batch(t) \cup next => done'[u] = done[u]
      BY <1>1, <2>1
    <2>5. \A u \in Thread : u \notin Batch(t) \cup next => me'[u] = me[u]
      BY <1>1, <2>1
    <2>6. me'[t] = 0
      BY <1>1, <1>7, <1>8
    <2> QED
      BY <2>2, <2>3, <2>4, <2>5, <2>6
  <1>14. QueueTypeOK'
    <2>1. primeQ' \in Seq(Thread) /\ pc' \in [Thread -> Places]
      BY <1>1, <1>4 DEF QueueInv, QueueTypeOK, Places
    <2>2. done' \in [Thread -> BOOLEAN]
      BY <1>1
    <2>3. \A u \in Thread : me'[u] \in {0, 1}
      BY <1>13 DEF QueueInv, QueueTypeOK
    <2>4. me' \in [Thread -> {0, 1}]
      BY <1>1, <2>3
    <2> QED
      BY <1>1, <2>1, <2>2, <2>4 DEF QueueInv, QueueTypeOK
  <1>15. QueueIsTheLine'
    <2>1. Distinct(rest)
      <3> SUFFICES ASSUME NEW i \in 1 .. Len(rest), NEW j \in 1 .. Len(rest), rest[i] = rest[j]
                   PROVE  i = j
        BY DEF Distinct
      <3>1. n + i = n + j
        BY <1>3, <1>4 DEF Distinct
      <3> QED
        BY <1>2, <3>1
    <2>2. \A i \in 1 .. Len(rest) : rest[i] \notin Batch(t)
      BY <1>2, <1>3, <1>4 DEF Distinct
    <2>3. \A u \in Batch(t) : ~ InLine(u)'
      BY <1>8, <1>12, <1>13, <1>9, <1>11 DEF InLine, Leading
    <2>4. \A u \in Thread : u \notin Batch(t) => (InLine(u)' <=> InLine(u))
      BY <1>7, <1>8, <1>11, <1>12, <1>13 DEF InLine
    <2>5. ASSUME NEW u \in Thread, u \notin Batch(t)
          PROVE  (\E i \in 1 .. Len(rest) : rest[i] = u)
                   <=> \E i \in 1 .. Len(primeQ) : primeQ[i] = u
      <3>1. ASSUME NEW i \in 1 .. Len(primeQ), primeQ[i] = u
            PROVE  i - n \in 1 .. Len(rest) /\ rest[i - n] = u
        <4>1. i > n
          BY <1>2, <2>5, <3>1
        <4>2. i - n \in 1 .. Len(rest) /\ n + (i - n) = i
          BY <1>2, <1>3, <1>4, <4>1
        <4> QED
          BY <1>4, <3>1, <4>2
      <3> QED
        BY <1>4, <3>1
    <2> QED
      BY <1>1, <2>1, <2>2, <2>3, <2>4, <2>5 DEF QueueInv, QueueIsTheLine
  <1>16. LeaderIsHead'
    <2> SUFFICES ASSUME NEW u \in Thread, Leads(u)' PROVE u \in next
      BY <1>1, <1>6 DEF LeaderIsHead
    <2>1. u # t
      BY <1>12 DEF Leads, Leading
    <2>2. pc[u] = "asleep" /\ ~done'[u] /\ me'[u] = 1
      BY <1>10, <1>12, <2>1 DEF Leads
    <2>3. u \notin Batch(t) /\ ~(done'[u] = done[u] /\ me'[u] = me[u])
      BY <1>10, <1>13, <2>1, <2>2 DEF Leads
    <2> QED
      BY <1>13, <2>3
  <1>17. OnlySleepersAreCalled'
    <2> SUFFICES ASSUME NEW u \in Thread, me'[u] = 1, u # t PROVE pc[u] = "asleep"
      BY <1>12, <1>13 DEF OnlySleepersAreCalled
    <2>1. CASE u \in Batch(t) \cup next
      BY <1>7, <1>9, <1>11, <2>1
    <2>2. CASE u \notin Batch(t) \cup next
      BY <1>13, <2>2 DEF QueueInv, OnlySleepersAreCalled
    <2> QED
      BY <2>1, <2>2
  <1>18. \A u \in Thread : pc'[u] \notin {"prime", "fetch", "handover"}
    BY <1>10, <1>12 DEF Leads, Leading
  <1>19. BatchIsInLine' /\ BatchIsPrimed'
    BY <1>18 DEF BatchIsInLine, BatchIsPrimed
  <1>20. ToldHoldTheirLists'
    BY <1>1, <1>9, <1>12, <1>13 DEF QueueInv, ToldHoldTheirLists
  <1>21. SearchersHoldTheirLists'
    BY <1>1, <1>8, <1>9, <1>12 DEF QueueInv, SearchersHoldTheirLists
  <1> QED
    BY <1>14, <1>15, <1>16, <1>17, <1>19, <1>20, <1>21 DEF QueueInv

\* A thread that searches or releases is not in line.
LEMMA ReleaseQ ==
    ASSUME QueueInv, NEW t \in Thread, StartRelease(t) \/ Release(t) \/ EndRelease(t)
    PROVE  QueueInv'
  <1>1. PICK p \in {"release", "idle"} :
           pc[t] \in {"search", "release"} /\ pc' = [pc EXCEPT ![t] = p]
    <2>1. CASE StartRelease(t)
      BY <2>1 DEF StartRelease
    <2>2. CASE Release(t)
      <3>1. pc[t] = "release" /\ pc' = pc
        BY <2>2 DEF Release
      <3>2. pc' = [pc EXCEPT ![t] = "release"]
        BY <3>1 DEF QueueInv, QueueTypeOK
      <3> QED
        BY <3>1, <3>2
    <2>3. CASE EndRelease(t)
      BY <2>3 DEF EndRelease
    <2> QED
      BY <2>1, <2>2, <2>3
  <1>2. UNCHANGED <<primeQ, last, done, me>>
    BY DEF StartRelease, Release, EndRelease, qvars
  <1>3. /\ want' \in [Thread -> [Block -> Nat]] /\ held' \in [Thread -> [Block -> Nat]]
        /\ \A u \in Thread : u # t => want'[u] = want[u] /\ held'[u] = held[u]
    <2>1. CASE StartRelease(t)
      BY <2>1 DEF StartRelease, QueueInv, QueueTypeOK
    <2>2. CASE Release(t)
      <3>1. PICK b \in Block : held[t][b] > 0 /\ held' = [held EXCEPT ![t][b] = @ - 1]
        BY <2>2 DEF Release
      <3>2. want' = want
        BY <2>2 DEF Release
      <3> QED
        BY <3>1, <3>2 DEF QueueInv, QueueTypeOK
    <2>3. CASE EndRelease(t)
      BY <2>3 DEF EndRelease, QueueInv, QueueTypeOK, NoBlock
    <2> QED
      BY <2>1, <2>2, <2>3
  <1>4. /\ pc'[t] = p /\ \A u \in Thread : u # t => pc'[u] = pc[u]
    BY <1>1 DEF QueueInv, QueueTypeOK
  <1>5. QueueTypeOK'
    BY <1>1, <1>2, <1>3 DEF QueueInv, QueueTypeOK, Places
  <1>6. QueueIsTheLine' /\ LeaderIsHead' /\ OnlySleepersAreCalled'
    BY <1>1, <1>2, SameLine DEF Leading, Places
  <1>7. BatchIsInLine'
    BY <1>2, <1>4 DEF QueueInv, BatchIsInLine
  <1>8. \A j \in 1 .. Len(primeQ) : primeQ[j] \in Thread /\ primeQ[j] # t
    <2>1. \A j \in 1 .. Len(primeQ) : primeQ[j] \in Thread
      BY DEF QueueInv, QueueTypeOK
    <2>2. \A j \in 1 .. Len(primeQ) : InLine(primeQ[j])
      BY <2>1 DEF QueueInv, QueueIsTheLine
    <2>3. ~ InLine(t)
      BY <1>1 DEF InLine, Leading
    <2> QED
      BY <2>1, <2>2, <2>3
  <1>9. BatchIsPrimed'
    <2> SUFFICES ASSUME NEW u \in Thread, pc'[u] = "handover", NEW i \in 1 .. Len(primeQ),
                        primeQ[i] = last[u], NEW j \in 1 .. i
                 PROVE  held'[primeQ[j]] = want'[primeQ[j]]
      BY <1>2 DEF BatchIsPrimed
    <2>1. u # t /\ pc[u] = "handover"
      BY <1>4
    <2>2. held[primeQ[j]] = want[primeQ[j]]
      BY <2>1 DEF QueueInv, BatchIsPrimed
    <2>3. j \in 1 .. Len(primeQ)
      BY DEF QueueInv, QueueTypeOK
    <2> QED
      BY <1>3, <1>8, <2>2, <2>3
  <1>10. ToldHoldTheirLists'
    BY <1>2, <1>3, <1>4 DEF QueueInv, ToldHoldTheirLists
  <1>11. SearchersHoldTheirLists'
    BY <1>3, <1>4 DEF QueueInv, SearchersHoldTheirLists
  <1> QED
    BY <1>5, <1>6, <1>7, <1>9, <1>10, <1>11 DEF QueueInv

-----------------------------------------------------------------------------
(* Reading and releasing. *)

LEMMA FetchKeeps ==
    ASSUME QueueInv, CacheInv, NEW t \in Thread, Fetch(t)
    PROVE  CacheInv'
  <1>1. pc[t] = "fetch" /\ UNCHANGED <<pc, mutPrimeQ, nthrottled, semNotTooFull>>
    BY DEF Fetch, qvars, tvars
  <1>2. PICK q \in Batch(t), b \in Block :
           /\ held' = [held EXCEPT ![q][b] = @ + 1]
           /\ pincnt' = [pincnt EXCEPT ![b] = @ + 1]
           /\ FetchNew(b) \/ FetchCached(b)
    BY DEF Fetch
  <1>3. q \in Thread
    BY <1>1, BatchIsPrefix
  <1>4. CacheTypeOK /\ PinsAreExact /\ HandlesAreFinite
    BY DEF CacheInv
  <1>5. /\ pincnt[b] \in Nat /\ pincnt'[b] = pincnt[b] + 1
        /\ \A c \in Block : c # b => pincnt'[c] = pincnt[c]
    BY <1>2, <1>4 DEF CacheTypeOK
  <1>6. HandlesAreFinite' /\ \A c \in Block : pincnt'[c] = Cardinality(Handles(c)')
    <2> DEFINE h == <<q, held[q][b] + 1>>
    <2>1. /\ Handles(b)' = Handles(b) \cup {h} /\ h \notin Handles(b)
          /\ \A c \in Block : c # b => Handles(c)' = Handles(c)
      BY <1>2, <1>3, <1>4, HandleTaken
    <2> HIDE DEF h
    <2>2. IsFiniteSet(Handles(b)) /\ pincnt[b] = Cardinality(Handles(b))
      BY <1>4 DEF HandlesAreFinite, PinsAreExact
    <2>3. IsFiniteSet(Handles(b)') /\ Cardinality(Handles(b)') = Cardinality(Handles(b)) + 1
      BY <2>1, <2>2, FS_AddElement
    <2> QED
      BY <1>4, <1>5, <2>1, <2>2, <2>3 DEF HandlesAreFinite, PinsAreExact
  <1>7. Pinned' = Pinned \cup {b} /\ (b \in Pinned <=> pincnt[b] # 0)
    BY <1>4, <1>5 DEF Pinned, CacheTypeOK
  <1>8. /\ IsFiniteSet(Pinned) /\ IsFiniteSet(readonly)
        /\ Cardinality(Pinned) \in Nat /\ Cardinality(readonly) \in Nat
        /\ cachecnt \in Nat /\ primed \in Nat
    BY CacheIsFinite
  <1>9. Cardinality(Pinned') = Cardinality(Pinned) + (IF pincnt[b] = 0 THEN 1 ELSE 0)
    <2>1. CASE b \in Pinned
      <3>1. Pinned' = Pinned /\ pincnt[b] # 0
        BY <1>7, <2>1
      <3> QED
        BY <1>8, <3>1
    <2>2. CASE b \notin Pinned
      <3>1. Pinned' = Pinned \cup {b} /\ pincnt[b] = 0
        BY <1>7, <2>2
      <3> QED
        BY <1>8, <2>2, <3>1, FS_AddElement
    <2> QED
      BY <2>1, <2>2
  <1>10. \A v \in readonly : Cardinality(readonly \ {v}) = Cardinality(readonly) - 1
    BY <1>8, FS_RemoveElement
  <1>11. /\ primed' = primed + (IF pincnt[b] = 0 THEN 1 ELSE 0)
         /\ readonly' \subseteq readonly \ {b}
         /\ cachecnt' = primed' + Cardinality(readonly')
         /\ cachecnt' > MaxSize => readonly' = {}
    <2>1. cachecnt = primed + Cardinality(readonly) /\ readonly \cap Pinned = {}
      BY <1>4 DEF PinsAreExact
    <2>2. cachecnt > MaxSize => readonly = {}
      BY DEF CacheInv, CacheIsTrimmed
    <2>3. MaxSize \in Nat
      BY CacheAssumption
    <2>4. CASE FetchNew(b) /\ cachecnt >= MaxSize /\ readonly # {}
      <3>1. /\ pincnt[b] = 0 /\ b \notin readonly /\ primed' = primed + 1
            /\ cachecnt' = cachecnt
        BY <2>4 DEF FetchNew
      <3>2. PICK v \in readonly : readonly' = readonly \ {v}
        BY <2>4 DEF FetchNew
      <3>3. Cardinality(readonly') = Cardinality(readonly) - 1
        BY <1>10, <3>2
      <3>4. ~(cachecnt' > MaxSize)
        BY <2>2, <2>4, <3>1
      <3> QED
        BY <1>8, <2>1, <3>1, <3>2, <3>3, <3>4
    <2>5. CASE FetchNew(b) /\ ~(cachecnt >= MaxSize /\ readonly # {})
      <3>1. /\ pincnt[b] = 0 /\ b \notin readonly /\ primed' = primed + 1
            /\ cachecnt' = cachecnt + 1 /\ readonly' = readonly
        BY <2>5 DEF FetchNew
      <3>2. cachecnt' > MaxSize => readonly = {}
        BY <1>8, <2>3, <2>5, <3>1
      <3> QED
        BY <1>8, <2>1, <3>1, <3>2
    <2>6. CASE FetchCached(b)
      <3>1. /\ pincnt[b] > 0 \/ b \in readonly
            /\ readonly' = readonly \ {b} /\ cachecnt' = cachecnt
            /\ primed' = IF pincnt[b] = 0 THEN primed + 1 ELSE primed
        BY <2>6 DEF FetchCached
      <3>2. cachecnt' > MaxSize => readonly' = {}
        BY <2>2, <3>1
      <3>3. CASE pincnt[b] = 0
        <4>1. b \in readonly
          BY <3>1, <3>3
        <4>2. Cardinality(readonly') = Cardinality(readonly) - 1
          BY <1>10, <3>1, <4>1
        <4> QED
          BY <1>8, <2>1, <3>1, <3>2, <3>3, <4>2
      <3>4. CASE pincnt[b] # 0
        <4>1. b \notin readonly
          BY <1>7, <2>1, <3>4
        <4>2. readonly' = readonly /\ readonly' \subseteq readonly \ {b}
          BY <3>1, <4>1
        <4>3. primed' = primed /\ primed = primed + 0
          BY <1>8, <3>1, <3>4
        <4>4. cachecnt' = primed' + Cardinality(readonly')
          BY <2>1, <3>1, <4>2, <4>3
        <4> QED
          BY <3>2, <3>4, <4>2, <4>3, <4>4
      <3> QED
        BY <3>3, <3>4
    <2> QED
      BY <1>2, <2>4, <2>5, <2>6
  <1>12. CacheTypeOK'
    <2>1. held' \in [Thread -> [Block -> Nat]] /\ pincnt' \in [Block -> Nat]
      BY <1>2, <1>3, <1>4 DEF CacheTypeOK
    <2>2. readonly' \subseteq Block
      BY <1>4, <1>11 DEF CacheTypeOK
    <2>3. IsFiniteSet(readonly')
      BY <1>8, <1>11, FS_Subset
    <2>4. primed' \in Int /\ cachecnt' \in Int
      BY <1>8, <1>11, <2>3, FS_CardinalityType
    <2> QED
      BY <1>1, <1>4, <2>1, <2>2, <2>4 DEF CacheTypeOK
  <1>13. PinsAreExact'
    <2>1. readonly' \cap Pinned' = {}
      BY <1>4, <1>7, <1>11 DEF PinsAreExact
    <2>2. primed' = Cardinality(Pinned')
      BY <1>4, <1>9, <1>11 DEF PinsAreExact
    <2> QED
      BY <1>6, <1>11, <2>1, <2>2 DEF PinsAreExact
  <1>14. LeaderHasMutex' /\ SleeperIsCounted'
    BY <1>1 DEF CacheInv, LeaderHasMutex, SleeperIsCounted
  <1>15. CacheIsTrimmed'
    BY <1>11 DEF CacheIsTrimmed
  <1>16. NoLeaderForgotten'
    <2>1. primed > MaxSize => primed' > MaxSize
      BY <1>8, <1>11, CacheAssumption
    <2> QED
      BY <1>1, <2>1 DEF CacheInv, NoLeaderForgotten
  <1> QED
    BY <1>6, <1>12, <1>13, <1>14, <1>15, <1>16 DEF CacheInv

\* The leader that sleeps is called by the release that makes room for it: the
\* cache then held pinned blocks only, one too many.
LEMMA ReleaseKeeps ==
    ASSUME CacheInv, NEW t \in Thread, Release(t)
    PROVE  CacheInv'
  <1>1. UNCHANGED <<pc, mutPrimeQ>>
    BY DEF Release, qvars
  <1>2. PICK b \in Block :
           /\ held[t][b] > 0
           /\ held' = [held EXCEPT ![t][b] = @ - 1]
           /\ pincnt' = [pincnt EXCEPT ![b] = @ - 1]
           /\ primed' = IF pincnt[b] = 1 THEN primed - 1 ELSE primed
           /\ Trim(IF pincnt[b] = 1 THEN {b} ELSE {})
    BY DEF Release
  <1>3. CacheTypeOK /\ PinsAreExact /\ HandlesAreFinite
    BY DEF CacheInv
  <1>4. /\ IsFiniteSet(Pinned) /\ IsFiniteSet(readonly)
        /\ Cardinality(Pinned) \in Nat /\ Cardinality(readonly) \in Nat
        /\ cachecnt \in Nat /\ primed \in Nat /\ MaxSize \in Nat
        /\ nthrottled \in Nat /\ semNotTooFull \in Nat
    BY <1>3, CacheIsFinite, CacheAssumption DEF CacheTypeOK
  <1>5. /\ primed = Cardinality(Pinned) /\ cachecnt = primed + Cardinality(readonly)
        /\ readonly \cap Pinned = {}
    BY <1>3 DEF PinsAreExact
  <1>6. /\ HandlesAreFinite' /\ pincnt[b] \in Nat \ {0} /\ pincnt'[b] = pincnt[b] - 1
        /\ \A c \in Block : c # b => pincnt'[c] = pincnt[c]
        /\ \A c \in Block : pincnt'[c] = Cardinality(Handles(c)')
    <2> DEFINE h == <<t, held[t][b]>>
    <2>1. /\ Handles(b)' = Handles(b) \ {h} /\ h \in Handles(b)
          /\ \A c \in Block : c # b => Handles(c)' = Handles(c)
      BY <1>2, <1>3, HandleReleased
    <2> HIDE DEF h
    <2>2. IsFiniteSet(Handles(b)) /\ pincnt[b] = Cardinality(Handles(b))
      BY <1>3 DEF HandlesAreFinite, PinsAreExact
    <2>3. IsFiniteSet(Handles(b)') /\ Cardinality(Handles(b)') = Cardinality(Handles(b)) - 1
      BY <2>1, <2>2, FS_RemoveElement
    <2>4. Cardinality(Handles(b)) \in Nat /\ Cardinality(Handles(b)') \in Nat
      BY <2>2, <2>3, FS_CardinalityType
    <2>5. /\ pincnt'[b] = pincnt[b] - 1
          /\ \A c \in Block : c # b => pincnt'[c] = pincnt[c]
      BY <1>2, <1>3 DEF CacheTypeOK
    <2>6. pincnt[b] \in Nat \ {0}
      BY <2>2, <2>3, <2>4
    <2> QED
      BY <1>3, <2>1, <2>2, <2>3, <2>5, <2>6 DEF HandlesAreFinite, PinsAreExact
  <1> DEFINE un == IF pincnt[b] = 1 THEN {b} ELSE {}
             one == IF pincnt[b] = 1 THEN 1 ELSE 0
             all == readonly \cup un
             excess == Max({0, cachecnt - MaxSize})
  <1>7. /\ Pinned' = Pinned \ un /\ b \in Pinned /\ primed' = primed - one
        /\ Cardinality(Pinned') = Cardinality(Pinned) - one
    <2>0. \A c \in Block : pincnt'[c] > 0 <=> pincnt[c] > 0 /\ c \notin un
      BY <1>6
    <2>1. Pinned' = Pinned \ un /\ b \in Pinned
      BY <1>6, <2>0 DEF Pinned
    <2>2. Cardinality(Pinned \ {b}) = Cardinality(Pinned) - 1
      BY <1>4, <2>1, FS_RemoveElement
    <2>3. primed' = primed - one
      BY <1>2, <1>4
    <2>4. CASE pincnt[b] = 1
      BY <2>1, <2>2, <2>3, <2>4
    <2>5. CASE pincnt[b] # 1
      <3>1. Pinned' = Pinned /\ one = 0
        BY <2>1, <2>5
      <3> QED
        BY <1>4, <2>1, <2>3, <3>1
    <2> QED
      BY <2>4, <2>5
  <1>8. IsFiniteSet(all) /\ Cardinality(all) = Cardinality(readonly) + one
    <2>1. b \notin readonly
      BY <1>5, <1>7
    <2>2. /\ IsFiniteSet(readonly \cup {b})
          /\ Cardinality(readonly \cup {b}) = Cardinality(readonly) + 1
      BY <1>4, <2>1, FS_AddElement
    <2>3. \/ all = readonly \cup {b} /\ one = 1
          \/ all = readonly /\ one = 0
      OBVIOUS
    <2> HIDE DEF all, one
    <2>4. CASE all = readonly \cup {b} /\ one = 1
      <3>1. Cardinality(all) = Cardinality(readonly) + 1 /\ IsFiniteSet(all)
        BY <2>2, <2>4
      <3> QED
        BY <2>4, <3>1
    <2>5. CASE all = readonly /\ one = 0
      <3>1. Cardinality(all) = Cardinality(readonly) /\ IsFiniteSet(all)
        BY <1>4, <2>5
      <3>2. Cardinality(readonly) = Cardinality(readonly) + 0
        BY <1>4
      <3> QED
        BY <2>5, <3>1, <3>2
    <2> QED
      BY <2>3, <2>4, <2>5
  <1>9. excess = IF cachecnt > MaxSize THEN cachecnt - MaxSize ELSE 0
    <2>1. excess = IF 0 > cachecnt - MaxSize THEN 0 ELSE cachecnt - MaxSize
      BY <1>4, MaxOfTwo
    <2> QED
      BY <1>4, <2>1
  <1>10. un \subseteq Block /\ un \cap Pinned' = {} /\ one \in {0, 1}
    BY <1>7
  <1>11. Trim(un)
    BY <1>2
  <1> HIDE DEF un, one
  <1>12. PICK gone \in SUBSET all :
            /\ Cardinality(gone) = Min({excess, Cardinality(all)})
            /\ readonly' = all \ gone
            /\ cachecnt' = cachecnt - Cardinality(gone)
            /\ IF excess > 0 /\ cachecnt' = MaxSize
               THEN semNotTooFull' = semNotTooFull + nthrottled /\ nthrottled' = 0
               ELSE nthrottled' = nthrottled /\ semNotTooFull' = semNotTooFull
    BY <1>11 DEF Trim, tvars
  <1>13. Cardinality(all) \in Nat /\ excess \in Nat
    BY <1>4, <1>8, <1>9, FS_CardinalityType
  <1> HIDE DEF excess, all
  <1>14. /\ IsFiniteSet(readonly') /\ readonly' \subseteq all
         /\ Cardinality(readonly') = Cardinality(all) - Cardinality(gone)
    <2>1. /\ IsFiniteSet(all \ gone)
          /\ Cardinality(all \ gone) = Cardinality(all) - Cardinality(gone)
      BY <1>8, CountRest
    <2> QED
      BY <1>12, <2>1
  <1>15. Cardinality(gone) = IF excess < Cardinality(all) THEN excess ELSE Cardinality(all)
    <2>1. Min({excess, Cardinality(all)})
            = IF excess < Cardinality(all) THEN excess ELSE Cardinality(all)
      BY <1>13, MinOfTwo
    <2> QED
      BY <1>12, <2>1
  <1>16. CacheTypeOK'
    <2>1. held' \in [Thread -> [Block -> Nat]] /\ pincnt' \in [Block -> Nat]
      BY <1>2, <1>3, <1>6 DEF CacheTypeOK
    <2>2. readonly' \subseteq Block
      BY <1>3, <1>10, <1>14 DEF CacheTypeOK, all
    <2>3. primed' \in Int /\ cachecnt' \in Int
      BY <1>4, <1>7, <1>10, <1>12, <1>13, <1>15
    <2>4. nthrottled' \in Nat /\ semNotTooFull' \in Nat
      BY <1>4, <1>12
    <2> QED
      BY <1>1, <1>3, <2>1, <2>2, <2>3, <2>4 DEF CacheTypeOK
  <1>17. PinsAreExact'
    <2>1. readonly' \cap Pinned' = {}
      BY <1>5, <1>7, <1>10, <1>14 DEF all
    <2>2. primed' = Cardinality(Pinned')
      BY <1>5, <1>7
    <2>3. cachecnt' = primed' + Cardinality(readonly')
      BY <1>4, <1>5, <1>7, <1>8, <1>10, <1>12, <1>13, <1>14, <1>15
    <2> QED
      BY <1>6, <2>1, <2>2, <2>3 DEF PinsAreExact
  <1>18. CacheIsTrimmed'
    <2> SUFFICES ASSUME cachecnt' > MaxSize PROVE readonly' = {}
      BY DEF CacheIsTrimmed
    <2>1. Cardinality(gone) = Cardinality(all)
      <3> SUFFICES ASSUME excess < Cardinality(all) PROVE FALSE
        BY <1>15
      <3>1. Cardinality(gone) = excess /\ cachecnt' = cachecnt - excess
        BY <1>12, <1>15
      <3> QED
        BY <1>4, <1>9, <1>13, <3>1
    <2>2. Cardinality(readonly') = 0
      BY <1>13, <1>14, <2>1
    <2> QED
      BY <1>14, <2>2, FS_EmptySet
  <1>19. LeaderHasMutex'
    BY <1>1 DEF CacheInv, LeaderHasMutex
  <1>20. nthrottled' + semNotTooFull' = nthrottled + semNotTooFull
    BY <1>4, <1>12
  <1>21. SleeperIsCounted'
    BY <1>1, <1>20 DEF CacheInv, SleeperIsCounted
  <1>22. NoLeaderForgotten'
    <2> SUFFICES ASSUME NEW u \in Thread, pc[u] = "throttled", ~(primed' > MaxSize)
                 PROVE  semNotTooFull' > 0
      BY <1>1 DEF NoLeaderForgotten
    <2>1. nthrottled + semNotTooFull = 1
      BY DEF CacheInv, SleeperIsCounted
    <2>2. CASE semNotTooFull > 0
      BY <1>4, <1>12, <2>2
    <2>3. CASE ~(semNotTooFull > 0)
      <3>1. primed > MaxSize
        BY <2>3 DEF CacheInv, NoLeaderForgotten
      <3>2. primed = MaxSize + 1 /\ one = 1
        BY <1>4, <1>7, <1>10, <3>1
      <3>3. cachecnt > MaxSize
        BY <1>4, <1>5, <3>1
      <3>4. Cardinality(readonly) = 0
        BY <3>3, FS_EmptySet DEF CacheInv, CacheIsTrimmed
      <3>5. excess = 1 /\ Cardinality(all) = 1 /\ cachecnt = MaxSize + 1
        BY <1>4, <1>5, <1>8, <1>9, <3>2, <3>4
      <3>6. cachecnt' = MaxSize
        BY <1>4, <1>12, <1>15, <3>5
      <3> QED
        BY <1>4, <1>12, <2>1, <2>3, <3>5, <3>6
    <2> QED
      BY <2>2, <2>3
  <1> QED
    BY <1>6, <1>16, <1>17, <1>18, <1>19, <1>21, <1>22 DEF CacheInv

-----------------------------------------------------------------------------
(* The invariant. *)

LEMMA InitHolds ==
    ASSUME Init
    PROVE  QueueInv /\ CacheInv
  <1>1. QueueTypeOK
    BY DEF Init, QueueTypeOK, NoBlock, Places
  <1>2. CacheTypeOK
    BY DEF Init, CacheTypeOK, NoBlock, Places
  <1>3. /\ primeQ = <<>> /\ Len(primeQ) = 0
        /\ \A t \in Thread : pc[t] = "idle" /\ me[t] = 0
    BY DEF Init
  <1>4. QueueIsTheLine /\ LeaderIsHead /\ OnlySleepersAreCalled
    BY <1>3 DEF QueueIsTheLine, LeaderIsHead, OnlySleepersAreCalled, Distinct, InLine, Leads,
                Leading
  <1>5. BatchIsInLine /\ BatchIsPrimed /\ ToldHoldTheirLists /\ SearchersHoldTheirLists
    BY <1>3 DEF BatchIsInLine, BatchIsPrimed, ToldHoldTheirLists, SearchersHoldTheirLists
  <1>6. \A b \in Block : Handles(b) = {}
    BY DEF Init, NoBlock, Handles
  <1>7. Pinned = {}
    BY DEF Init, NoBlock, Pinned
  <1>8. HandlesAreFinite /\ PinsAreExact
    <2>1. IsFiniteSet({}) /\ Cardinality({}) = 0
      BY FS_EmptySet
    <2>2. HandlesAreFinite
      BY <1>6, <2>1 DEF HandlesAreFinite
    <2>3. \A b \in Block : pincnt[b] = 0
      BY DEF Init, NoBlock
    <2>4. \A b \in Block : pincnt[b] = Cardinality(Handles(b))
      BY <1>6, <2>1, <2>3
    <2>5. readonly = {} /\ primed = 0 /\ cachecnt = 0
      BY DEF Init
    <2> QED
      BY <1>7, <2>1, <2>2, <2>4, <2>5 DEF PinsAreExact
  <1>9. LeaderHasMutex /\ NoLeaderForgotten /\ SleeperIsCounted /\ CacheIsTrimmed
    BY <1>3, ThreadAssumption DEF Init, LeaderHasMutex, NoLeaderForgotten, SleeperIsCounted,
                                  CacheIsTrimmed
  <1> QED
    BY <1>1, <1>2, <1>4, <1>5, <1>8, <1>9 DEF QueueInv, CacheInv

LEMMA StutterKeeps ==
    ASSUME QueueInv, CacheInv, UNCHANGED vars
    PROVE  QueueInv' /\ CacheInv'
  <1>1. /\ UNCHANGED <<pc, want, held, primeQ, last, done, me, mutPrimeQ>>
        /\ UNCHANGED <<pincnt, readonly, cachecnt, primed, tvars>>
    BY DEF vars, qvars, cvars
  <1>2. QueueTypeOK' /\ QueueIsTheLine' /\ LeaderIsHead' /\ OnlySleepersAreCalled'
    BY <1>1 DEF QueueInv, QueueTypeOK, QueueIsTheLine, LeaderIsHead, OnlySleepersAreCalled,
                InLine, Leads, Distinct
  <1>3. BatchIsInLine' /\ BatchIsPrimed' /\ ToldHoldTheirLists' /\ SearchersHoldTheirLists'
    BY <1>1 DEF QueueInv, BatchIsInLine, BatchIsPrimed, ToldHoldTheirLists,
                SearchersHoldTheirLists
  <1>4. pc' \in [Thread -> Places]
    BY <1>1 DEF CacheInv, CacheTypeOK
  <1>5. CacheInv'
    BY <1>1, <1>4, SameLeader
  <1> QED
    BY <1>2, <1>3, <1>5 DEF QueueInv

LEMMA NextKeeps ==
    ASSUME QueueInv, CacheInv, Next
    PROVE  QueueInv' /\ CacheInv'
  <1>1. PICK t \in Thread :
           \/ Enqueue(t) \/ Wake(t) \/ Lead(t) \/ Measure(t) \/ Unthrottled(t)
           \/ StartPriming(t) \/ Fetch(t) \/ EndPriming(t) \/ HandOver(t)
           \/ StartRelease(t) \/ Release(t) \/ EndRelease(t)
    BY DEF Next
  <1>2. CASE Enqueue(t)
    BY <1>2, EnqueueQ, QueueSteps
  <1>3. CASE Wake(t)
    BY <1>3, WakeQ, QueueSteps
  <1>4. CASE Lead(t)
    BY <1>4, LeaderQ, LeadKeeps
  <1>5. CASE Measure(t)
    BY <1>5, MeasureQ, MeasureKeeps
  <1>6. CASE Unthrottled(t)
    BY <1>6, LeaderQ, UnthrottledKeeps
  <1>7. CASE StartPriming(t)
    BY <1>7, LeaderQ, QueueSteps
  <1>8. CASE Fetch(t)
    BY <1>8, FetchQ, FetchKeeps
  <1>9. CASE EndPriming(t)
    BY <1>9, EndPrimingQ, QueueSteps
  <1>10. CASE HandOver(t)
    BY <1>10, HandOverQ, QueueSteps
  <1>11. CASE StartRelease(t)
    BY <1>11, ReleaseQ, QueueSteps
  <1>12. CASE Release(t)
    BY <1>12, ReleaseQ, ReleaseKeeps
  <1>13. CASE EndRelease(t)
    BY <1>13, ReleaseQ, QueueSteps
  <1> QED
    BY <1>1, <1>2, <1>3, <1>4, <1>5, <1>6, <1>7, <1>8, <1>9, <1>10, <1>11, <1>12, <1>13

-----------------------------------------------------------------------------
(* The theorems. *)

\* The invariant of the block cache and the priming queue: the queue is the line
\* of the threads that wait to be primed for, its head is the only leader, what
\* a leader hands over is pinned, and every counter counts its set.
THEOREM PrimeQInvariance == Spec => [](QueueInv /\ CacheInv)
  <1>1. Init => QueueInv /\ CacheInv
    BY InitHolds
  <1>2. QueueInv /\ CacheInv /\ [Next]_vars => (QueueInv /\ CacheInv)'
    BY NextKeeps, StutterKeeps
  <1> QED
    BY <1>1, <1>2, PTL DEF Spec

\* The pins of a block are the handles threads have on it, and BFncacheprimed and
\* the number of cached blocks are right, whatever batches are read and released.
THEOREM PinsCorrect == Spec => []PinsAreExact
  <1>1. QueueInv /\ CacheInv => PinsAreExact
    BY DEF CacheInv
  <1> QED
    BY <1>1, PrimeQInvariance, PTL

\* A thread that interprets its query, whoever primed for it, holds every fragment
\* of every list of the query.
THEOREM SearchersCorrect == Spec => []SearchersHoldTheirLists
  <1>1. QueueInv /\ CacheInv => SearchersHoldTheirLists
    BY DEF QueueInv
  <1> QED
    BY <1>1, PrimeQInvariance, PTL

\* cache_fetch and BFrecord_pinned_release let the cache exceed BFcachemaxsize by
\* pinned blocks only.
THEOREM TrimCorrect == Spec => []CacheIsTrimmed
  <1>1. QueueInv /\ CacheInv => CacheIsTrimmed
    BY DEF CacheInv
  <1> QED
    BY <1>1, PrimeQInvariance, PTL

\* A leader asleep on sem_cachenottoofull has been called when there is room
\* again, although only the release that reaches the very size of the cache calls.
THEOREM LeadersCorrect == Spec => []NoLeaderForgotten
  <1>1. QueueInv /\ CacheInv => NoLeaderForgotten
    BY DEF CacheInv
  <1> QED
    BY <1>1, PrimeQInvariance, PTL
=============================================================================
