----------------------------- MODULE NtvPrimeQ -----------------------------
(***************************************************************************)
(* The block cache of the search server and the queue of threads that      *)
(* prime it (BFcache_prime, cache_fetch and BFrecord_pinned_release of     *)
(* src/src/ntvblkbuf.c).                                                   *)
(*                                                                         *)
(* Before a worker interprets a query it pins every fragment of every list *)
(* the query needs.  Only the thread at the head of the queue reads blocks:*)
(* it does so for itself and for as many of the threads behind it as it    *)
(* thinks fit in the cache, tells them so, and passes the lead on.  A      *)
(* leader that finds too many blocks pinned sleeps, with mut_primeQ held,  *)
(* until the searches in progress have released some.                      *)
(*                                                                         *)
(* A list is the number of fragments it has in each block.  The order of   *)
(* the blocks within a batch and of the read-only blocks in their list,    *)
(* which is that of their last use, is left open.                          *)
(***************************************************************************)
EXTENDS Integers, FiniteSets, SequencesExt

CONSTANTS
    Thread,    \* the worker threads, with the request buffer each works on
    Block,     \* block numbers
    MaxSize,   \* BFcachemaxsize
    Asks       \* what the lists of a query can be, in [Block -> Nat]

ASSUME ThreadAssumption == IsFiniteSet(Thread) /\ "free" \notin Thread
ASSUME CacheAssumption == IsFiniteSet(Block) /\ MaxSize \in Nat /\ Asks \subseteq [Block -> Nat]

VARIABLES
    pc,         \* where each thread is
    primeQ,     \* g_primeQ_head .. g_primeQ_tail
    last,       \* pQEnd: the last thread a leader primes for
    done,       \* priming_done
    me,         \* the value of the semaphore of each thread
    want,       \* the fragments of the lists of each thread, by block
    held,       \* the handles each thread has, by block
    mutPrimeQ,  \* the thread that holds mut_primeQ, or "free"
    mutCache,   \* the thread that holds mut_cache, or "free"
    pincnt,     \* pincnt of the cached blocks, 0 for the others
    readonly,   \* the blocks of the read-only list
    cachecnt,   \* how many blocks are cached
    primed,     \* BFncacheprimed
    nthrottled, \* nthrottled_threads
    semNotTooFull \* the value of sem_cachenottoofull

qvars == <<primeQ, last, done, me, mutPrimeQ>>
cvars == <<mutCache, pincnt, readonly, cachecnt, primed>>
tvars == <<nthrottled, semNotTooFull>>
vars == <<pc, want, held, qvars, cvars, tvars>>

NoBlock == [b \in Block |-> 0]

Init ==
    /\ pc = [t \in Thread |-> "idle"]
    /\ primeQ = <<>>
    /\ last = [t \in Thread |-> t]
    /\ done = [t \in Thread |-> FALSE]
    /\ me = [t \in Thread |-> 0]
    /\ want = [t \in Thread |-> NoBlock]
    /\ held = [t \in Thread |-> NoBlock]
    /\ mutPrimeQ = "free"
    /\ mutCache = "free"
    /\ pincnt = NoBlock
    /\ readonly = {}
    /\ cachecnt = 0
    /\ primed = 0
    /\ nthrottled = 0
    /\ semNotTooFull = 0

-----------------------------------------------------------------------------
(* Joining the queue. *)

\* A thread with a query joins; alone, it goes ahead for itself.
Enqueue(t) ==
    /\ pc[t] = "idle"
    /\ mutPrimeQ = "free"
    /\ \E ask \in Asks : want' = [want EXCEPT ![t] = ask]
    /\ primeQ' = Append(primeQ, t)
    /\ done' = [done EXCEPT ![t] = FALSE]
    /\ last' = [last EXCEPT ![t] = t]
    /\ pc' = [pc EXCEPT ![t] = IF primeQ = <<>> THEN "prime" ELSE "asleep"]
    /\ UNCHANGED <<held, me, mutPrimeQ, cvars, tvars>>

\* SEM_WAIT(pQ->me): somebody has primed for it, or it is its turn to lead.
Wake(t) ==
    /\ pc[t] = "asleep"
    /\ me[t] > 0
    /\ me' = [me EXCEPT ![t] = @ - 1]
    /\ pc' = [pc EXCEPT ![t] = IF done[t] THEN "search" ELSE "lead"]
    /\ UNCHANGED <<primeQ, last, done, mutPrimeQ, want, held, cvars, tvars>>

-----------------------------------------------------------------------------
(* Leading. *)

Lead(t) ==
    /\ pc[t] = "lead"
    /\ mutPrimeQ = "free"
    /\ mutPrimeQ' = t
    /\ pc' = [pc EXCEPT ![t] = "measure"]
    /\ UNCHANGED <<primeQ, last, done, me, want, held, cvars, tvars>>

\* nhandles of the first n entries of the queue.
HandlesOf(n) ==
    MapThenSumSet(LAMBDA i : MapThenSumSet(LAMBDA b : want[primeQ[i]][b], Block), 1 .. n)

\* pQEnd: the first entry that no longer fits, or the tail.
EndOfBatch(nfree) ==
    LET over == {n \in 1 .. Len(primeQ) : HandlesOf(n) > nfree}
    IN  primeQ[IF over = {} THEN Len(primeQ) ELSE Min(over)]

\* The room left is measured with both mutexes held.
Measure(t) ==
    /\ pc[t] = "measure"
    /\ mutCache = "free"
    /\ IF primed > MaxSize
       THEN /\ nthrottled' = nthrottled + 1
            /\ pc' = [pc EXCEPT ![t] = "throttled"]
            /\ UNCHANGED <<mutPrimeQ, last>>
       ELSE /\ last' = [last EXCEPT ![t] = EndOfBatch(MaxSize - primed)]
            /\ mutPrimeQ' = "free"
            /\ pc' = [pc EXCEPT ![t] = "prime"]
            /\ UNCHANGED nthrottled
    /\ UNCHANGED <<primeQ, done, me, want, held, cvars, semNotTooFull>>

\* SEM_WAIT(&sem_cachenottoofull), and the test of the while loop again.
Unthrottled(t) ==
    /\ pc[t] = "throttled"
    /\ semNotTooFull > 0
    /\ semNotTooFull' = semNotTooFull - 1
    /\ pc' = [pc EXCEPT ![t] = "measure"]
    /\ UNCHANGED <<want, held, qvars, cvars, nthrottled>>

-----------------------------------------------------------------------------
(* Reading the blocks, with mut_cache held. *)

\* The queue from the leader up to pQEnd.
BatchSize(t) == Min({i \in DOMAIN primeQ : primeQ[i] = last[t]})
Batch(t) == ToSet(SubSeq(primeQ, 1, BatchSize(t)))

StartPriming(t) ==
    /\ pc[t] = "prime"
    /\ mutCache = "free"
    /\ mutCache' = t
    /\ pc' = [pc EXCEPT ![t] = "fetch"]
    /\ UNCHANGED <<want, held, qvars, pincnt, readonly, cachecnt, primed, tvars>>

\* cache_fetch of a block that is not cached: the least important read-only
\* block makes room if the cache is full, else the cache grows.
FetchNew(b) ==
    /\ pincnt[b] = 0
    /\ b \notin readonly
    /\ IF cachecnt >= MaxSize /\ readonly # {}
       THEN /\ \E v \in readonly : readonly' = readonly \ {v}
            /\ UNCHANGED cachecnt
       ELSE /\ cachecnt' = cachecnt + 1
            /\ UNCHANGED readonly
    /\ primed' = primed + 1

\* cache_fetch of a cached block, and BFrecord_pinned_reuse.
FetchCached(b) ==
    /\ pincnt[b] > 0 \/ b \in readonly
    /\ readonly' = readonly \ {b}
    /\ primed' = IF pincnt[b] = 0 THEN primed + 1 ELSE primed
    /\ UNCHANGED cachecnt

\* Mutant: the handles of a record that was read for another query are copied
\* and not counted.
FetchWithoutReuse(t) ==
    /\ pc[t] = "fetch"
    /\ \E q \in Batch(t), b \in Block :
          /\ held[q][b] < want[q][b]
          /\ held' = [held EXCEPT ![q][b] = @ + 1]
          /\ pincnt' = [pincnt EXCEPT ![b] = IF @ > 0 /\ q # t THEN @ ELSE @ + 1]
          /\ FetchNew(b) \/ FetchCached(b)
    /\ UNCHANGED <<pc, want, qvars, mutCache, tvars>>

\* One fragment of one list of the batch (BFrecord_frag_read).
Fetch(t) ==
    /\ pc[t] = "fetch"
    /\ \E q \in Batch(t), b \in Block :
          /\ held[q][b] < want[q][b]
          /\ held' = [held EXCEPT ![q][b] = @ + 1]
          /\ pincnt' = [pincnt EXCEPT ![b] = @ + 1]
          /\ FetchNew(b) \/ FetchCached(b)
    /\ UNCHANGED <<pc, want, qvars, mutCache, tvars>>

EndPriming(t) ==
    /\ pc[t] = "fetch"
    /\ \A q \in Batch(t) : held[q] = want[q]
    /\ mutCache' = "free"
    /\ pc' = [pc EXCEPT ![t] = "handover"]
    /\ UNCHANGED <<want, held, qvars, pincnt, readonly, cachecnt, primed, tvars>>

-----------------------------------------------------------------------------
(* Passing the lead on. *)

\* Mutants: the lead is passed to nobody; the whole queue is told to go on.
HandOverToNobody(t) ==
    /\ pc[t] = "handover"
    /\ mutPrimeQ = "free"
    /\ primeQ' = SubSeq(primeQ, BatchSize(t) + 1, Len(primeQ))
    /\ done' = [q \in Thread |-> done[q] \/ q \in Batch(t)]
    /\ me' = [q \in Thread |-> me[q] + (IF q \in Batch(t) \ {t} THEN 1 ELSE 0)]
    /\ pc' = [pc EXCEPT ![t] = "search"]
    /\ UNCHANGED <<last, mutPrimeQ, want, held, cvars, tvars>>

HandOverAll(t) ==
    /\ pc[t] = "handover"
    /\ mutPrimeQ = "free"
    /\ primeQ' = <<>>
    /\ done' = [q \in Thread |-> done[q] \/ q \in ToSet(primeQ)]
    /\ me' = [q \in Thread |-> me[q] + (IF q \in ToSet(primeQ) \ {t} THEN 1 ELSE 0)]
    /\ pc' = [pc EXCEPT ![t] = "search"]
    /\ UNCHANGED <<last, mutPrimeQ, want, held, cvars, tvars>>

\* The batch leaves the queue and goes on; the next entry becomes the leader.
HandOver(t) ==
    /\ pc[t] = "handover"
    /\ mutPrimeQ = "free"
    /\ LET rest == SubSeq(primeQ, BatchSize(t) + 1, Len(primeQ))
           next == IF rest = <<>> THEN {} ELSE {Head(rest)}
       IN  /\ primeQ' = rest
           /\ done' = [q \in Thread |-> (done[q] \/ q \in Batch(t)) /\ q \notin next]
           /\ me' = [q \in Thread |->
                        me[q] + (IF q \in (Batch(t) \ {t}) \cup next THEN 1 ELSE 0)]
    /\ pc' = [pc EXCEPT ![t] = "search"]
    /\ UNCHANGED <<last, mutPrimeQ, want, held, cvars, tvars>>

-----------------------------------------------------------------------------
(* BFrecord_pinned_release, with mut_cache held. *)

StartRelease(t) ==
    /\ pc[t] = "search"
    /\ mutCache = "free"
    /\ mutCache' = t
    /\ pc' = [pc EXCEPT ![t] = "release"]
    /\ UNCHANGED <<want, held, qvars, pincnt, readonly, cachecnt, primed, tvars>>

\* Mutant: the cache is not trimmed.
TrimNothing(unpinned) ==
    /\ readonly' = readonly \cup unpinned
    /\ UNCHANGED <<cachecnt, tvars>>

\* Mutant: leaders are only called when the cache is below its size.
TrimCallLate(unpinned) ==
    LET all == readonly \cup unpinned
        excess == Max({0, cachecnt - MaxSize})
    IN  \E gone \in SUBSET all :
           /\ Cardinality(gone) = Min({excess, Cardinality(all)})
           /\ readonly' = all \ gone
           /\ cachecnt' = cachecnt - Cardinality(gone)
           /\ IF excess > 0 /\ cachecnt' < MaxSize
              THEN semNotTooFull' = semNotTooFull + nthrottled /\ nthrottled' = 0
              ELSE UNCHANGED tvars

\* A block nobody pins any more is read-only again; while the cache is too
\* large read-only blocks go, and a cache brought back to its size calls the
\* leaders that sleep.
Trim(unpinned) ==
    LET all == readonly \cup unpinned
        excess == Max({0, cachecnt - MaxSize})
    IN  \E gone \in SUBSET all :
           /\ Cardinality(gone) = Min({excess, Cardinality(all)})
           /\ readonly' = all \ gone
           /\ cachecnt' = cachecnt - Cardinality(gone)
           /\ IF excess > 0 /\ cachecnt' = MaxSize
              THEN semNotTooFull' = semNotTooFull + nthrottled /\ nthrottled' = 0
              ELSE UNCHANGED tvars

Release(t) ==
    /\ pc[t] = "release"
    /\ \E b \in Block :
          /\ held[t][b] > 0
          /\ held' = [held EXCEPT ![t][b] = @ - 1]
          /\ pincnt' = [pincnt EXCEPT ![b] = @ - 1]
          /\ primed' = IF pincnt[b] = 1 THEN primed - 1 ELSE primed
          /\ Trim(IF pincnt[b] = 1 THEN {b} ELSE {})
    /\ UNCHANGED <<pc, want, qvars, mutCache>>

EndRelease(t) ==
    /\ pc[t] = "release"
    /\ held[t] = NoBlock
    /\ mutCache' = "free"
    /\ want' = [want EXCEPT ![t] = NoBlock]
    /\ pc' = [pc EXCEPT ![t] = "idle"]
    /\ UNCHANGED <<held, qvars, pincnt, readonly, cachecnt, primed, tvars>>

Next == \E t \in Thread :
    \/ Enqueue(t) \/ Wake(t) \/ Lead(t) \/ Measure(t) \/ Unthrottled(t)
    \/ StartPriming(t) \/ Fetch(t) \/ EndPriming(t) \/ HandOver(t)
    \/ StartRelease(t) \/ Release(t) \/ EndRelease(t)

Spec == Init /\ [][Next]_vars

\* Threads that are not idle go on running; whether a query comes is open.
Steps(t) ==
    Wake(t) \/ Lead(t) \/ Measure(t) \/ Unthrottled(t) \/ StartPriming(t) \/ Fetch(t)
    \/ EndPriming(t) \/ HandOver(t) \/ StartRelease(t) \/ Release(t) \/ EndRelease(t)

FairSpec == Spec /\ \A t \in Thread : WF_vars(Steps(t))

-----------------------------------------------------------------------------
(* Properties. *)

Pinned == {b \in Block : pincnt[b] > 0}

\* The handles of all threads on a block, one by one.
Handles(b) == UNION {{t} \X (1 .. held[t][b]) : t \in Thread}

\* The pins of a block are the handles threads have on it, and the counters
\* of cached and of pinned blocks are right: none is purged under a search.
PinsAreExact ==
    /\ \A b \in Block : pincnt[b] = Cardinality(Handles(b))
    /\ readonly \cap Pinned = {}
    /\ primed = Cardinality(Pinned)
    /\ cachecnt = primed + Cardinality(readonly)

\* A thread that is told that somebody else has primed for it (priming_done)
\* finds every fragment of every list of its own query pinned.
SearchersHoldTheirLists == \A t \in Thread : pc[t] = "search" => held[t] = want[t]

\* The cache exceeds its size by pinned blocks only.
CacheIsTrimmed == cachecnt > MaxSize => readonly = {}

\* No leader sleeps with the queue's mutex held when there is room again and
\* nobody has called it.
NoLeaderForgotten ==
    \A t \in Thread : pc[t] = "throttled" => primed > MaxSize \/ semNotTooFull > 0

\* Every thread that joins the queue gets to search.
EveryQueryIsPrimed == \A t \in Thread : pc[t] = "asleep" ~> pc[t] = "search"
=============================================================================
