---------------------------- MODULE NtvWorkQueue ----------------------------
(***************************************************************************)
(* The work queue of the threaded search server (ntvsearchd), as           *)
(* work_addtoq and thrd_worker of src/src/ntvschd.c keep it.               *)
(*                                                                         *)
(* Connector threads put requests on a queue; worker threads take them     *)
(* off.  The semaphore sem_work counts the requests a worker may still     *)
(* claim.  A connector that finds more than g_work_maxwork requests on the *)
(* queue counts itself in g_work_nthrottledthreads and sleeps on           *)
(* sem_work_throttled until a worker brings the queue back to the limit.   *)
(*                                                                         *)
(* A section between MUTEX_LOCK(&mut_work) and the next MUTEX_UNLOCK is    *)
(* one action: nothing else touches the variables it touches, except the   *)
(* decrement of sem_work by a worker, which needs no mutex and commutes    *)
(* with the rest of the section.  Semaphore waits happen outside the       *)
(* mutex and are actions of their own.                                     *)
(***************************************************************************)
EXTENDS Naturals, Sequences, FiniteSets

CONSTANTS
    Connector,  \* the connector threads (ntvMaxConnectorThreads of them)
    Worker,     \* the worker threads (ntvMaxWorkerThreads of them)
    Request,    \* the request buffers
    MaxWork     \* g_work_maxwork

ASSUME ThreadsAreFinite == IsFiniteSet(Connector) /\ IsFiniteSet(Worker)
ASSUME MaxWorkAssumption == MaxWork \in Nat
\* A request is not a worker's "nothing in hand".
ASSUME NoRequestIsNone == "none" \notin Request

VARIABLES
    queue,       \* g_work_head .. g_work_tail, the head first
    nwork,       \* g_work_nwork
    nthrottled,  \* g_work_nthrottledthreads
    semWork,     \* the value of sem_work
    semThrottled,\* the value of sem_work_throttled
    cpc,         \* where each connector is in work_addtoq
    wpc,         \* where each worker is in thrd_worker
    inHand       \* the request each worker is searching

qvars == <<queue, nwork, nthrottled, semWork, semThrottled, cpc, wpc, inHand>>

Queued == {queue[i] : i \in 1..Len(queue)}

Init ==
    /\ queue = <<>>
    /\ nwork = 0
    /\ nthrottled = 0
    /\ semWork = 0
    /\ semThrottled = 0
    /\ cpc = [c \in Connector |-> "idle"]
    /\ wpc = [w \in Worker |-> "waiting"]
    /\ inHand = [w \in Worker |-> "none"]

-----------------------------------------------------------------------------
(* work_addtoq.  The test of the while loop, made with mut_work held: a    *)
(* connector that finds the queue over its limit counts itself and sleeps. *)

\* Mutant: one request too many before the connector sleeps.
TestLimitLate(c, n) ==
    IF n > MaxWork + 1
    THEN /\ nthrottled' = nthrottled + 1
         /\ cpc' = [cpc EXCEPT ![c] = "asleep"]
    ELSE /\ nthrottled' = nthrottled
         /\ cpc' = [cpc EXCEPT ![c] = "idle"]

TestLimit(c, n) ==
    IF n > MaxWork
    THEN /\ nthrottled' = nthrottled + 1
         /\ cpc' = [cpc EXCEPT ![c] = "asleep"]
    ELSE /\ nthrottled' = nthrottled
         /\ cpc' = [cpc EXCEPT ![c] = "idle"]

\* Mutant: post sem_work only when the queue was empty.
AddToQPostIfEmpty(c, r) ==
    /\ cpc[c] = "idle"
    /\ queue' = Append(queue, r)
    /\ semWork' = IF queue = <<>> THEN semWork + 1 ELSE semWork
    /\ nwork' = nwork + 1
    /\ TestLimit(c, nwork + 1)
    /\ UNCHANGED <<semThrottled, wpc, inHand>>

AddToQ(c, r) ==
    /\ cpc[c] = "idle"
    /\ queue' = Append(queue, r)
    /\ semWork' = semWork + 1
    /\ nwork' = nwork + 1
    /\ TestLimit(c, nwork + 1)
    /\ UNCHANGED <<semThrottled, wpc, inHand>>

\* SEM_WAIT(&sem_work_throttled) returns: the mutex is not held yet.
Wake(c) ==
    /\ cpc[c] = "asleep"
    /\ semThrottled > 0
    /\ semThrottled' = semThrottled - 1
    /\ cpc' = [cpc EXCEPT ![c] = "awake"]
    /\ UNCHANGED <<queue, nwork, nthrottled, semWork, wpc, inHand>>

\* ... MUTEX_LOCK and the test again: the queue may have grown meanwhile.
Recheck(c) ==
    /\ cpc[c] = "awake"
    /\ TestLimit(c, nwork)
    /\ UNCHANGED <<queue, nwork, semWork, semThrottled, wpc, inHand>>

-----------------------------------------------------------------------------
(* thrd_worker. *)

\* Mutant: nthrottled is left where its post-decrement loop leaves it.
WakeThrottledNoReset ==
    /\ semThrottled' = semThrottled + nthrottled
    /\ nthrottled' = 0 - 1

\* Mutant: the count is cleared before the posts are made.
WakeNobody ==
    /\ semThrottled' = semThrottled
    /\ nthrottled' = 0

\* Every connector that counted itself is posted, and the count starts again.
WakeThrottled ==
    /\ semThrottled' = semThrottled + nthrottled
    /\ nthrottled' = 0

\* SEM_WAIT(&sem_work) returns.
Claim(w) ==
    /\ wpc[w] = "waiting"
    /\ semWork > 0
    /\ semWork' = semWork - 1
    /\ wpc' = [wpc EXCEPT ![w] = "claimed"]
    /\ UNCHANGED <<queue, nwork, nthrottled, semThrottled, cpc, inHand>>

\* Mutant: nwork-- for --nwork, so that the limit is noticed one too late.
RemoveHeadLate(w) ==
    /\ wpc[w] = "claimed"
    /\ queue # <<>>
    /\ inHand' = [inHand EXCEPT ![w] = Head(queue)]
    /\ queue' = Tail(queue)
    /\ nwork' = nwork - 1
    /\ IF nwork = MaxWork
       THEN WakeThrottled
       ELSE UNCHANGED <<semThrottled, nthrottled>>
    /\ wpc' = [wpc EXCEPT ![w] = "busy"]
    /\ UNCHANGED <<semWork, cpc>>

\* Mutant: NTV_DLL_REMOVETAIL, newest request first.
RemoveTail(w) ==
    /\ wpc[w] = "claimed"
    /\ queue # <<>>
    /\ inHand' = [inHand EXCEPT ![w] = queue[Len(queue)]]
    /\ queue' = SubSeq(queue, 1, Len(queue) - 1)
    /\ nwork' = nwork - 1
    /\ IF nwork - 1 = MaxWork
       THEN WakeThrottled
       ELSE UNCHANGED <<semThrottled, nthrottled>>
    /\ wpc' = [wpc EXCEPT ![w] = "busy"]
    /\ UNCHANGED <<semWork, cpc>>

\* Take the head.  The worker that brings the queue back to its limit wakes
\* every connector that counted itself.
RemoveHead(w) ==
    /\ wpc[w] = "claimed"
    /\ queue # <<>>
    /\ inHand' = [inHand EXCEPT ![w] = Head(queue)]
    /\ queue' = Tail(queue)
    /\ nwork' = nwork - 1
    /\ IF nwork - 1 = MaxWork
       THEN WakeThrottled
       ELSE UNCHANGED <<semThrottled, nthrottled>>
    /\ wpc' = [wpc EXCEPT ![w] = "busy"]
    /\ UNCHANGED <<semWork, cpc>>

\* The request has been searched, answered and given back: around again.
Finish(w) ==
    /\ wpc[w] = "busy"
    /\ wpc' = [wpc EXCEPT ![w] = "waiting"]
    /\ inHand' = [inHand EXCEPT ![w] = "none"]
    /\ UNCHANGED <<queue, nwork, nthrottled, semWork, semThrottled, cpc>>

\* What req_get hands a connector: a buffer nobody holds.
Unused == {r \in Request : r \notin Queued /\ \A w \in Worker : inHand[w] # r}

Next ==
    \/ \E c \in Connector :
          \/ \E r \in Unused : AddToQ(c, r)
          \/ Wake(c)
          \/ Recheck(c)
    \/ \E w \in Worker : Claim(w) \/ RemoveHead(w) \/ Finish(w)

\* A thread inside the queue's code keeps running.  A connector that is idle
\* waits for its client and owes nothing.
Fairness ==
    /\ \A c \in Connector : WF_qvars(Wake(c)) /\ WF_qvars(Recheck(c))
    /\ \A w \in Worker :
          WF_qvars(Claim(w)) /\ WF_qvars(RemoveHead(w)) /\ WF_qvars(Finish(w))

Spec == Init /\ [][Next]_qvars
FairSpec == Spec /\ Fairness

-----------------------------------------------------------------------------
Asleep == {c \in Connector : cpc[c] = "asleep"}
Busy == {c \in Connector : cpc[c] # "idle"}
Claimed == {w \in Worker : wpc[w] = "claimed"}

\* The type invariant of the queue's variables.
TypeOK ==
    /\ queue \in Seq(Request)
    /\ nwork \in Nat
    /\ nthrottled \in Nat
    /\ semWork \in Nat
    /\ semThrottled \in Nat
    /\ cpc \in [Connector -> {"idle", "asleep", "awake"}]
    /\ wpc \in [Worker -> {"waiting", "claimed", "busy"}]
    /\ inHand \in [Worker -> Request \cup {"none"}]

\* thrd_worker takes the head without looking whether there is one: every
\* worker that got through SEM_WAIT(&sem_work) must find a request.
ClaimsAreBacked ==
    /\ nwork = Len(queue)
    /\ semWork + Cardinality(Claimed) = Len(queue)

\* Whoever counted itself in g_work_nthrottledthreads, or has a post waiting
\* for it, is asleep on sem_work_throttled, and nobody else is: the posts made
\* by thrd_worker are neither lost nor handed out twice.
WakeupsMatchSleepers ==
    nthrottled + semThrottled = Cardinality(Asleep)

\* No lost wakeup: a connector asleep in work_addtoq with no post on its way
\* sleeps because the queue is over its limit, so that a later decrement in
\* thrd_worker still passes the limit and wakes it.
NoLostWakeup ==
    Asleep # {} /\ semThrottled = 0 => nwork > MaxWork

\* The throttle works: each connector puts at most one request beyond the
\* limit on the queue before work_addtoq stops it.
QueueIsBounded ==
    Len(queue) <= MaxWork + Cardinality(Busy)

\* A request put on the queue by work_addtoq is taken by some worker.
EveryRequestIsTaken ==
    \A r \in Request : r \in Queued ~> \E w \in Worker : inHand[w] = r

\* The throttle releases: with every connector held in work_addtoq the
\* workers drain the queue until one of them returns.
SomeConnectorReturns ==
    (\A c \in Connector : cpc[c] # "idle") ~> (\E c \in Connector : cpc[c] = "idle")
=============================================================================
