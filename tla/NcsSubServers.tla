---------------------------- MODULE NcsSubServers ----------------------------
(***************************************************************************)
(* The servers of one database behind ntvcached (src/src/ncssubservers.c): *)
(* requests are queued, handed to servers that may have several at a time, *)
(* and put back at the head of the queue when a server is given up; a      *)
(* server that was given up is tried again when there is work left and     *)
(* retrydelay has passed.                                                  *)
(*                                                                         *)
(* The program is one thread around select.  A pass is the phase "before"  *)
(* (clients may be closed, and what they asked for deleted), select, the   *)
(* phase "clients" (requests are started and deleted), and "io", which     *)
(* reads from and writes to the servers select named and then hands out    *)
(* work.  Servers and the network act at any time.  Answers come whole:    *)
(* part of one changes nothing but a buffer.                               *)
(*                                                                         *)
(* Requests go to the server as they are: no database has a constraint of  *)
(* its own, so req_srv is req_key in subserver_startreq.                   *)
(***************************************************************************)
EXTENDS NcsLists

CONSTANTS
    Key,         \* requests
    Table,       \* the servers in the order of ss[] after subserver_done
    Moq,         \* the most queries each server may have outstanding
    MaxPending,  \* bound: the times one request is pending
    MaxFailures  \* bound: connections that cannot be made or break

Server == ToSet(Table)

ASSUME KeyAssumption == "none" \notin Key
ASSUME TableAssumption ==
    /\ Table \in Seq(Server) /\ IsInjective(Table)
    /\ Moq \in [Server -> Nat \ {0}]
    /\ \A i, j \in DOMAIN Table : i < j => Moq[Table[i]] <= Moq[Table[j]]
ASSUME BoundsAssumption == MaxPending \in Nat /\ MaxFailures \in Nat

VARIABLES
    pool,        \* the SubServerCollection, and its servers' connections
    phase,       \* "before", "clients" or "io"
    toRead,      \* servers still to be read from in this pass
    toWrite,     \* servers still to be written to
    call         \* the call of the last step that the rest of ntvcached sees

vars == <<pool, phase, toRead, toWrite, call>>

\* pool is a record: queue, the requests from pSubServerReqsHead on; oq, the
\* query in every slot of every server; sending, the slots from
\* sendingqidx_head on; noq, tnoq and tmoq, the counts; receiving, the list of
\* that name; dead, the list of possibly dead servers; tried, whether the last
\* attempt at one is no longer ago than retrydelay; sock, the state of each
\* connection; inbox, the answers waiting to be read from it; failures.
\* A sock is "closed" (s is -1), "syn" (connect is in progress), "made" or
\* "failed" (it has ended, and nobody has looked), "open" (connected is set),
\* or "broken" (so it was, and the server has gone).
Slots(s) == 0 .. Moq[s] - 1
NoQueries(s) == [i \in Slots(s) |-> "none"]
Active(p, s) == {i \in Slots(s) : p.oq[s][i] # "none"}

\* The slots of the servers in S, and those a query is in.
SlotsOf(S) == UNION {{s} \X Slots(s) : s \in S}
Busy(p) == {x \in SlotsOf(Server) : p.oq[x[1]][x[2]] # "none"}

Pool ==
    [queue |-> <<>>, oq |-> [s \in Server |-> NoQueries(s)], sending |-> [s \in Server |-> <<>>],
     noq |-> [s \in Server |-> 0], tnoq |-> 0, tmoq |-> Cardinality(SlotsOf(Server)), receiving |-> {},
     dead |-> <<>>, tried |-> FALSE, sock |-> [s \in Server |-> "closed"],
     inbox |-> [s \in Server |-> <<>>], failures |-> 0]

Call(function, k) == [of |-> function, for |-> k]
NoCall == Call("nothing", "none")

SubServersInit == pool = Pool /\ phase = "before" /\ toRead = {} /\ toWrite = {} /\ call = NoCall

-----------------------------------------------------------------------------
(* Servers are given up, connected to and given work. *)

\* Mutants of PossiblyDead: queries that have gone out completely are given up
\* too; noq is cleared before it is subtracted.
PossiblyDeadLosing(p, s) ==
    [p EXCEPT !.queue = [j \in DOMAIN p.sending[s] |-> p.oq[s][p.sending[s][j]]] \o @,
              !.oq[s] = NoQueries(s), !.sending[s] = <<>>, !.receiving = @ \ {s},
              !.tmoq = @ - Moq[s], !.tnoq = @ - p.noq[s], !.noq[s] = 0,
              !.sock[s] = "closed", !.inbox[s] = <<>>, !.dead = Append(@, s)]

PossiblyDeadUncounted(p, s) ==
    LET slots == Reverse(InOrder(Active(p, s)))
    IN  [p EXCEPT !.queue = [j \in DOMAIN slots |-> p.oq[s][slots[j]]] \o @,
                  !.oq[s] = NoQueries(s), !.sending[s] = <<>>, !.receiving = @ \ {s},
                  !.tmoq = @ - Moq[s], !.noq[s] = 0,
                  !.sock[s] = "closed", !.inbox[s] = <<>>, !.dead = Append(@, s)]

\* subserver_possibly_dead: slot after slot goes to the head of the queue.
PossiblyDead(p, s) ==
    LET slots == Reverse(InOrder(Active(p, s)))
    IN  [p EXCEPT !.queue = [j \in DOMAIN slots |-> p.oq[s][slots[j]]] \o @,
                  !.oq[s] = NoQueries(s), !.sending[s] = <<>>, !.receiving = @ \ {s},
                  !.tmoq = @ - Moq[s], !.tnoq = @ - p.noq[s], !.noq[s] = 0,
                  !.sock[s] = "closed", !.inbox[s] = <<>>, !.dead = Append(@, s)]

\* subserver_connect: in progress, made at once, or refused at once.
Connect(p, s) ==
    {[p EXCEPT !.sock[s] = made] : made \in {"syn", "open"}} \cup
    {PossiblyDead([p EXCEPT !.failures = @ + 1], s) : once \in 1 .. MaxFailures - p.failures}

\* The list of the servers to read from, with one that gets its first query.
Listening(p, s) ==
    IF p.sending[s] = <<>> /\ p.noq[s] = 0 THEN p.receiving \cup {s} ELSE p.receiving

\* subserver_send_work_to_server
SendWork(p, s) ==
    LET i == Min(Slots(s) \ Active(p, s))
        q == [p EXCEPT !.queue = Tail(@), !.oq[s][i] = Head(p.queue),
                       !.sending[s] = Append(@, i), !.noq[s] = @ + 1, !.tnoq = @ + 1,
                       !.receiving = Listening(p, s)]
    IN  IF p.sock[s] = "closed" THEN Connect(q, s) ELSE {q}

\* One turn of the loop of subserver_dishoutwork, at server x.at with x.left
\* requests to hand out; its test for "too loaded" is never true of a server
\* that is not saturated.  It goes to the next server only from a saturated one.
Turn(x) ==
    LET s == Table[x.at]
    IN  IF x.left = 0 THEN {x}
        ELSE IF x.p.noq[s] = Moq[s] THEN {[x EXCEPT !.at = @ + 1]}
        ELSE IF s \in ToSet(x.p.dead) THEN {x}
        ELSE {[p |-> q, at |-> x.at, left |-> x.left - 1] : q \in SendWork(x.p, s)}

HandedOut(p) ==
    LET start == [p |-> p, at |-> 1, left |-> Min({p.tmoq - p.tnoq, Len(p.queue)})]
        after[i \in 0 .. Len(Table)] ==
            IF i = 0 THEN {start} ELSE UNION {Turn(x) : x \in after[i - 1]}
    IN  {x.p : x \in after[Len(Table)]}

\* Its end: work is left, and the first of the dead servers gets some.
Retried(p) ==
    IF p.queue = <<>> \/ p.dead = <<>> \/ p.tried THEN {p}
    ELSE LET s == Head(p.dead)
         IN  SendWork([p EXCEPT !.dead = Tail(@), !.tried = TRUE, !.tmoq = @ + Moq[s]], s)

DishOutWork(p) ==
    IF p.queue = <<>> THEN {p} ELSE UNION {Retried(q) : q \in HandedOut(p)}

-----------------------------------------------------------------------------
(* What the clients' side of ntvcached asks for. *)

\* How often a request is in the queue, and in a slot of a server.
Count(p, k) ==
    Occurrences(p.queue, k) + Cardinality({x \in SlotsOf(Server) : p.oq[x[1]][x[2]] = k})

\* subserver_startreq
StartReq(k) ==
    /\ phase = "clients"
    /\ Count(pool, k) < MaxPending
    /\ LET p == [pool EXCEPT !.queue = Append(@, k)]
       IN  IF pool.queue = <<>> THEN pool' \in DishOutWork(p) ELSE pool' = p
    /\ call' = Call("subserver_startreq", k)
    /\ UNCHANGED <<phase, toRead, toWrite>>

\* subserver_deletereq
DeleteReq(k) ==
    /\ phase \in {"before", "clients"}
    /\ k \in ToSet(pool.queue)
    /\ pool' = [pool EXCEPT !.queue = Without(@, k)]
    /\ call' = Call("subserver_deletereq", k)
    /\ UNCHANGED <<phase, toRead, toWrite>>

-----------------------------------------------------------------------------
(* select and subserver_io. *)

Readable == {s \in pool.receiving : pool.inbox[s] # <<>> \/ pool.sock[s] \in {"failed", "broken"}}
Writable == {s \in Server : pool.sending[s] # <<>> /\ pool.sock[s] # "syn"}

Select ==
    /\ phase = "before"
    /\ phase' = "clients"
    /\ toRead' = Readable
    /\ toWrite' = Writable
    /\ call' = NoCall
    /\ UNCHANGED pool

\* Mutant: select waits without a timeout.
SelectWakesForServers == (Readable # {} \/ Writable # {}) /\ Select

\* A server is ready, or the timeout of subserver_possibly_dead_delay is over.
SelectWakes ==
    /\ Readable # {} \/ Writable # {} \/ (pool.queue # <<>> /\ pool.dead # <<>>)
    /\ Select

\* Mutant: a server is not listened to any more after its first answer.
ExtractOnce(p, s) ==
    [p EXCEPT !.oq[s][Head(p.inbox[s])] = "none", !.noq[s] = @ - 1, !.tnoq = @ - 1,
              !.inbox[s] = Tail(@), !.receiving = @ \ {s}]

\* One turn of subserver_extract_results: an answer is taken apart.
Extract(p, s) ==
    [p EXCEPT !.oq[s][Head(p.inbox[s])] = "none", !.noq[s] = @ - 1, !.tnoq = @ - 1,
              !.inbox[s] = Tail(@), !.receiving = IF p.noq[s] = 1 THEN @ \ {s} ELSE @]

\* subserver_readable; what has come before the end of the connection is read
\* before it, and one read may get several answers.
Read(s) ==
    /\ s \in toRead
    /\ \/ /\ pool.inbox[s] # <<>>
          /\ pool' = Extract(pool, s)
          /\ call' = Call("cache_newresult", pool.oq[s][Head(pool.inbox[s])])
          /\ \/ toRead' = toRead \ {s}
             \/ Len(pool.inbox[s]) > 1 /\ UNCHANGED toRead
          /\ UNCHANGED toWrite
       \/ /\ pool.inbox[s] = <<>>
          /\ pool' = PossiblyDead(pool, s)
          /\ toRead' = toRead \ {s}
          /\ toWrite' = toWrite \ {s}
          /\ call' = NoCall
    /\ phase' = "io"

\* subserver_writable: a connect has ended, or the rest of a query goes out.
Write(s) ==
    /\ toRead = {}
    /\ s \in toWrite
    /\ toWrite' = toWrite \ {s}
    /\ \/ pool.sock[s] = "made" /\ pool' = [pool EXCEPT !.sock[s] = "open"]
       \/ pool.sock[s] = "failed" /\ pool' = PossiblyDead(pool, s)
       \/ pool.sock[s] \in {"open", "broken"} /\ pool' = [pool EXCEPT !.sending[s] = Tail(@)]
       \/ pool.sock[s] = "broken" /\ UNCHANGED pool
    /\ phase' = "io"
    /\ call' = NoCall
    /\ UNCHANGED toRead

EndIO ==
    /\ phase # "before" /\ toRead = {} /\ toWrite = {}
    /\ phase' = "before"
    /\ pool' \in DishOutWork(pool)
    /\ call' = NoCall
    /\ UNCHANGED <<toRead, toWrite>>

-----------------------------------------------------------------------------
(* Servers, the network and time. *)

Unseen == call' = NoCall /\ UNCHANGED <<phase, toRead, toWrite>>

\* A server answers the queries it has received in any order.
Answer(s, i) ==
    /\ pool.sock[s] = "open"
    /\ i \in Active(pool, s) \ ToSet(pool.sending[s] \o pool.inbox[s])
    /\ pool' = [pool EXCEPT !.inbox[s] = Append(@, i)]
    /\ Unseen

ConnectEnds(s) ==
    /\ pool.sock[s] = "syn"
    /\ \/ pool' = [pool EXCEPT !.sock[s] = "made"]
       \/ /\ pool.failures < MaxFailures
          /\ pool' = [pool EXCEPT !.sock[s] = "failed", !.failures = @ + 1]
    /\ Unseen

\* The server has gone; ntvcached does not notice while it has no query there.
Breaks(s) ==
    /\ pool.sock[s] = "open"
    /\ pool.failures < MaxFailures
    /\ pool' = [pool EXCEPT !.sock[s] = "broken", !.failures = @ + 1]
    /\ Unseen

\* retrydelay is over.
Tick ==
    /\ pool.tried
    /\ pool' = [pool EXCEPT !.tried = FALSE]
    /\ Unseen

World == (\E s \in Server : ConnectEnds(s) \/ Breaks(s) \/ \E i \in Slots(s) : Answer(s, i)) \/ Tick

IO == (\E s \in Server : Read(s) \/ Write(s)) \/ EndIO

SubServersNext ==
    \/ \E k \in Key : StartReq(k) \/ DeleteReq(k)
    \/ Select
    \/ IO
    \/ World

\* The loop goes on when select returns; servers answer, connects end, time
\* passes.
SubServersFairness ==
    /\ WF_vars(SelectWakes)
    /\ WF_vars(IO)
    /\ WF_vars(Tick)
    /\ \A s \in Server : WF_vars(ConnectEnds(s)) /\ \A i \in Slots(s) : WF_vars(Answer(s, i))

SubServersSpec == SubServersInit /\ [][SubServersNext]_vars
FairSubServersSpec == SubServersSpec /\ SubServersFairness

-----------------------------------------------------------------------------
(* Properties. *)

\* noq counts the queries a server has, total_noq those of all of them, and
\* total_moq the slots of the servers not given up: subserver_dishoutwork hands
\* out what they have room for, and never more ("sending work to server that's
\* saturated").
CountsAreExact ==
    /\ \A s \in Server : pool.noq[s] = Cardinality(Active(pool, s))
    /\ pool.tnoq = Cardinality(Busy(pool))
    /\ pool.tmoq = Cardinality(SlotsOf(Server \ ToSet(pool.dead)))

\* Somebody will tell of every query that is at a server: the server is on the
\* list that is read from and has a connection, or one being made; a server
\* given up has no query and no connection, and is on the dead list once.
QueriesAreWatched ==
    /\ \A s \in Server : s \in pool.receiving <=> pool.noq[s] > 0
    /\ \A s \in pool.receiving : pool.sock[s] # "closed"
    /\ \A s \in ToSet(pool.dead) : pool.noq[s] = 0 /\ pool.sock[s] = "closed"
    /\ IsInjective(pool.dead)

\* Every request is answered once whatever becomes of servers: only a call of
\* subserver_startreq makes one pending, once, and only a cache_newresult for
\* this request, or a subserver_deletereq, ends that.  Handing it out, giving up
\* its server (subserver_possibly_dead) and trying again neither lose nor double
\* it.
Backend == INSTANCE NcsBackend WITH pending <- [k \in Key |-> Count(pool, k)]
RequestsAreServed == Backend!BackendSpec

\* A request that stays pending is answered, or dropped, again and again.
RequestsAreAnswered ==
    \A k \in Key :
        []<>(Count(pool, k) = 0) \/ []<><<Count(pool, k)' < Count(pool, k)>>_vars
=============================================================================
