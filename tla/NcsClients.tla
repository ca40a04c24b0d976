----------------------------- MODULE NcsClients -----------------------------
(***************************************************************************)
(* The event loop of the caching server ntvcached and its client side      *)
(* (cachingServerLoop in src/src/ntvschd.c, src/src/ncsclients.c), on top  *)
(* of the query cache of NcsCacheOps.                                      *)
(*                                                                         *)
(* One thread runs everything, so a function of the code is taken in small *)
(* steps and phase says where it is: walking the clients before select     *)
(* ("add", "register"), waiting ("select"), accepting ("accept"), walking  *)
(* them again for I/O ("io", "check", "refuse", "checked", "write",        *)
(* "close"), the servers ("backend"), trimming the cache ("cleanup"), or   *)
(* emptying it ("splat").  The sub-servers are what this side sees of them *)
(* (subdbs_startreq, subdbs_deletereq, cache_newresult): a queue and the   *)
(* requests that are out.                                                  *)
(***************************************************************************)
EXTENDS NcsCacheOps, NcsLists

CONSTANTS
    Client,       \* the sockets accept can return
    Unknown,      \* the requests that name a database nobody serves
    Burst,        \* what one read can bring in, see BurstAssumption
    MaxClients,   \* ntvcacheserver_maxclients
    MaxRequests,  \* ntvcacheserver_maxrequests
    MaxSize,      \* ntvcacheserver_maxsize
    MaxReqLen,    \* CLIENT_MAXREQLEN
    MaxBufLen,    \* CLIENT_MAXBUFLEN
    MaxInputs,    \* bound: reads that bring data, over all connections
    MaxAccepts    \* bound: connections ever accepted

\* A query is its cache key and whether it has an id; text that ends like a
\* query and cannot be parsed is BadXML.
BadXML == [key |-> "none", id |-> FALSE]
GoodQuery == [key : Key, id : BOOLEAN]

\* A read brings some complete queries and the beginning of another, whose
\* length counts in units of a query.
ASSUME BurstAssumption ==
    Burst \subseteq [full : Seq(GoodQuery \cup {BadXML}), tail : Nat]
ASSUME LimitsAssumption ==
    /\ {MaxClients, MaxRequests} \subseteq Nat \ {0}
    /\ {MaxSize, MaxReqLen, MaxBufLen, MaxInputs, MaxAccepts} \subseteq Nat
    /\ Unknown \subseteq Key

VARIABLES
    cache,      \* the cache
    clients,    \* the list from g_pClientsHead to g_pClientsTail
    con,        \* the ClientConnection of every client
    nRequests,  \* g_nRequests
    phase,      \* where the loop is
    from,       \* the walk, "add" or "io", that the current client belongs to
    todo,       \* the clients still to be visited by it, the current one first
    soq,        \* how many queries of req_inc the running check has taken
    rd, wr,     \* fd_read and fd_write after select
    queue,      \* the requests waiting for a server, of all databases
    sent,       \* how often each request is out at some server
    inputs,     \* reads with data so far
    accepts     \* connections accepted so far

env == <<inputs, accepts>>
fds == <<rd, wr>>
back == <<queue, sent>>
vars == <<cache, clients, con, nRequests, phase, from, todo, soq, rd, wr, queue, sent, inputs, accepts>>

\* inc and tail: req_inc, as complete queries and the rest; reqs: cli_req_head;
\* out: res_bufs from res_outbuf on, one buffer for each answer, with the entry
\* it pins and the eoq flag of res_cpi.
NewConnection ==
    [inc |-> <<>>, tail |-> 0, reqs |-> <<>>, out |-> <<>>, permanent |-> TRUE,
     eof |-> FALSE, shut |-> FALSE, marked |-> FALSE]

ClientsInit ==
    /\ cache = EmptyCache
    /\ clients = <<>>
    /\ con = [c \in Client |-> NewConnection]
    /\ nRequests = 0
    /\ phase = "add"
    /\ from = "add"
    /\ todo = <<>>
    /\ soq = 0
    /\ rd = {}
    /\ wr = {}
    /\ queue = <<>>
    /\ sent = [k \in Key |-> 0]
    /\ inputs = 0
    /\ accepts = 0

-----------------------------------------------------------------------------
(* A connection. *)

cur == Head(todo)
IncLen(r) == Len(r.inc) + r.tail
Busy(r) == r.out # <<>>

\* The current client has been dealt with in this walk.
NextClient == todo' = Tail(todo) /\ phase' = from

\* cache_generateclientresult and client_addcpi
AnswerFrom(e) == [text |-> "answer", pin |-> e, eoq |-> TRUE]

\* client_grab_reqoutput: an error goes out at once if nothing else is; if
\* something is, the loop copies the other way round (*rd++ = *wr++) and the
\* buffer counted in is one that nobody has filled.  The first of them ends the
\* program, so later ones are not kept.
HasGarbage(r) == \E i \in DOMAIN r.out : r.out[i].text = "garbage"
GrabOutput(r) ==
    LET text == IF Busy(r) THEN "garbage" ELSE "error"
    IN  IF HasGarbage(r) THEN r
        ELSE [r EXCEPT !.out = Append(@, [text |-> text, pin |-> "none", eoq |-> FALSE])]

\* The client said all it will, got all it asked for, and nothing is going out.
Finished(r) == r.eof /\ r.reqs = <<>> /\ IncLen(r) = 0 /\ ~Busy(r)

-----------------------------------------------------------------------------
(* The walk before select: client_addselectfds. *)

MustAbsorb(r) ==
    /\ nRequests < MaxRequests
    /\ (r.eof /\ IncLen(r) > 0) \/ IncLen(r) > MaxReqLen

Absorb ==
    /\ phase = "add"
    /\ todo # <<>>
    /\ MustAbsorb(con[cur])
    /\ phase' = "check"
    /\ UNCHANGED <<cache, clients, con, nRequests, from, todo, soq, fds, back, env>>

Register ==
    /\ \/ phase = "register"
       \/ phase = "add" /\ todo # <<>> /\ ~MustAbsorb(con[cur])
    /\ IF Finished(con[cur])
       THEN phase' = "close" /\ UNCHANGED <<con, todo>>
       ELSE /\ con' = [con EXCEPT ![cur].marked =
                          /\ nRequests < MaxRequests
                          /\ ~con[cur].shut
                          /\ ~con[cur].eof
                          /\ IncLen(con[cur]) < MaxBufLen]
            /\ todo' = Tail(todo)
            /\ phase' = "add"
    /\ UNCHANGED <<cache, clients, nRequests, from, soq, fds, back, env>>

\* All are registered: look at g_nSplatCache, which a SIGUSR1 may have set.
Registered ==
    /\ phase = "add"
    /\ todo = <<>>
    /\ phase' \in {"select", "splat"}
    /\ UNCHANGED <<cache, clients, con, nRequests, from, todo, soq, fds, back, env>>

\* select returns with some of the descriptors it was given.
Select(r, w) ==
    /\ phase = "select"
    /\ r \subseteq {c \in ToSet(clients) : con[c].marked}
    /\ w \subseteq {c \in ToSet(clients) : Busy(con[c])}
    /\ rd' = r
    /\ wr' = w
    /\ phase' = "accept"
    /\ UNCHANGED <<cache, clients, con, nRequests, from, todo, soq, back, env>>

\* select is interrupted by a signal, and the loop starts again.
Interrupted ==
    /\ phase = "select"
    /\ phase' = "add"
    /\ todo' = clients
    /\ UNCHANGED <<cache, clients, con, nRequests, from, soq, fds, back, env>>

\* client_new
Accept(c) ==
    /\ phase = "accept"
    /\ accepts < MaxAccepts
    /\ c \notin ToSet(clients)
    /\ clients' = <<c>> \o clients
    /\ con' = [con EXCEPT ![c] =
                  IF Len(clients') > MaxClients
                  THEN [GrabOutput(NewConnection) EXCEPT !.shut = TRUE]
                  ELSE NewConnection]
    /\ accepts' = accepts + 1
    /\ phase' = "io"
    /\ from' = "io"
    /\ todo' = clients'
    /\ UNCHANGED <<cache, nRequests, soq, fds, back, inputs>>

NothingToAccept ==
    /\ phase = "accept"
    /\ phase' = "io"
    /\ from' = "io"
    /\ todo' = clients
    /\ UNCHANGED <<cache, clients, con, nRequests, soq, fds, back, env>>

-----------------------------------------------------------------------------
(* The walk after select: client_io, client_readable. *)

InIO == phase = "io" /\ todo # <<>>

ReadData(b) ==
    /\ InIO
    /\ cur \in rd
    /\ inputs < MaxInputs
    /\ inputs' = inputs + 1
    /\ con' = [con EXCEPT
                 ![cur].inc = @ \o b.full,
                 ![cur].tail = IF b.full = <<>> THEN @ + b.tail ELSE b.tail]
    /\ phase' = "check"
    /\ UNCHANGED <<cache, clients, nRequests, from, todo, soq, fds, back, accepts>>

ReadEOF ==
    /\ InIO
    /\ cur \in rd
    /\ con' = [con EXCEPT ![cur].eof = TRUE]
    /\ phase' = "check"
    /\ UNCHANGED <<cache, clients, nRequests, from, todo, soq, fds, back, env>>

ReadInterrupted ==
    /\ InIO
    /\ cur \in rd
    /\ phase' = "check"
    /\ UNCHANGED <<cache, clients, con, nRequests, from, todo, soq, fds, back, env>>

ReadError ==
    /\ InIO
    /\ cur \in rd
    /\ phase' = "close"
    /\ UNCHANGED <<cache, clients, con, nRequests, from, todo, soq, fds, back, env>>

Writable ==
    /\ InIO
    /\ cur \in wr \ rd
    /\ phase' = "write"
    /\ UNCHANGED <<cache, clients, con, nRequests, from, todo, soq, fds, back, env>>

\* The client has sent nothing for clientmaxreadtime seconds.
TooSlow ==
    /\ InIO
    /\ cur \notin rd \cup wr
    /\ con[cur].marked
    /\ nRequests < MaxRequests
    /\ con[cur].reqs = <<>>
    /\ ~Busy(con[cur])
    /\ phase' = "close"
    /\ UNCHANGED <<cache, clients, con, nRequests, from, todo, soq, fds, back, env>>

NotReady ==
    /\ InIO
    /\ cur \notin rd \cup wr
    /\ NextClient
    /\ UNCHANGED <<cache, clients, con, nRequests, from, soq, fds, back, env>>

\* After the check that follows a read.
Checked ==
    /\ phase = "checked"
    /\ IF con[cur].eof /\ con[cur].reqs = <<>> /\ IncLen(con[cur]) = 0
       THEN phase' = "close" /\ UNCHANGED todo
       ELSE NextClient
    /\ UNCHANGED <<cache, clients, con, nRequests, from, soq, fds, back, env>>

EndIO ==
    /\ phase = "io"
    /\ todo = <<>>
    /\ phase' = "backend"
    /\ from' = "add"
    /\ rd' = {}
    /\ wr' = {}
    /\ UNCHANGED <<cache, clients, con, nRequests, todo, soq, back, env>>

-----------------------------------------------------------------------------
(* client_checkrequestcomplete: take the complete queries out of req_inc   *)
(* while the number of outstanding requests allows.                        *)

CheckReturns == phase' = IF from = "add" THEN "register" ELSE "checked"

\* A mutant of MoreToTake: one request too many.
MoreToTakeAtMaximum ==
    /\ phase = "check"
    /\ nRequests <= MaxRequests
    /\ soq < Len(con[cur].inc)

MoreToTake ==
    /\ phase = "check"
    /\ nRequests < MaxRequests
    /\ soq < Len(con[cur].inc)
NextQuery == con[cur].inc[soq + 1]

\* client_req_cleanup fails: the check returns on the spot, and what it has
\* taken so far stays in req_inc.
TakeBadQuery ==
    /\ MoreToTake
    /\ NextQuery = BadXML
    /\ con' = [con EXCEPT ![cur] = [GrabOutput(@) EXCEPT !.shut = TRUE]]
    /\ soq' = 0
    /\ CheckReturns
    /\ UNCHANGED <<cache, clients, nRequests, from, todo, fds, back, env>>

\* client_req_process, the result is in the cache.
TakeCached(q) ==
    /\ MoreToTake
    /\ NextQuery = q
    /\ q.key \in Cached(cache)
    /\ HasResult(cache, cache.tab[q.key])
    /\ LET e == cache.tab[q.key]
       IN  /\ cache' = IncUsage(Touch(cache, q.key), e, 1)
           /\ con' = [con EXCEPT ![cur].out = Append(@, AnswerFrom(e)),
                                 ![cur].permanent = @ /\ q.id]
    /\ nRequests' = nRequests + 1
    /\ soq' = soq + 1
    /\ UNCHANGED <<clients, phase, from, todo, fds, back, env>>

\* client_req_process, others wait for the result already.
TakeAwaited(q) ==
    /\ MoreToTake
    /\ NextQuery = q
    /\ q.key \in Cached(cache)
    /\ ~HasResult(cache, cache.tab[q.key])
    /\ cache' = Touch(cache, q.key)
    /\ con' = [con EXCEPT ![cur].reqs = Append(@, q)]
    /\ nRequests' = nRequests + 1
    /\ soq' = soq + 1
    /\ UNCHANGED <<clients, phase, from, todo, fds, back, env>>

\* subserver_startreq: the request is queued, or, with nothing before it, goes
\* to a server that has room at once.
Queued(k) ==
    \/ queue' = Append(queue, k) /\ UNCHANGED sent
    \/ queue = <<>> /\ sent' = [sent EXCEPT ![k] = @ + 1] /\ UNCHANGED queue

\* client_req_process, the request is new: subdbs_startreq queues it, unless
\* it names no known database.
TakeNew(q) ==
    /\ MoreToTake
    /\ NextQuery = q
    /\ q.key \in Key \ Cached(cache)
    /\ cache' \in LookupAdd(cache, q.key)
    /\ con' = [con EXCEPT ![cur].reqs = Append(@, q)]
    /\ nRequests' = nRequests + 1
    /\ soq' = soq + 1
    /\ IF q.key \in Unknown
       THEN phase' = "refuse" /\ UNCHANGED back
       ELSE Queued(q.key) /\ UNCHANGED phase
    /\ UNCHANGED <<clients, from, todo, fds, env>>

\* Nothing more to take: what has been taken leaves req_inc; after the end of
\* the file the rest goes too, and a query that grows too long is refused.
EndCheck ==
    /\ phase = "check"
    /\ ~MoreToTake
    /\ LET r == [con[cur] EXCEPT !.inc = SubSeq(@, soq + 1, Len(@))]
           free == nRequests < MaxRequests
       IN  con' = [con EXCEPT ![cur] =
               IF IncLen(con[cur]) = 0 THEN con[cur]
               ELSE IF r.eof /\ free THEN [r EXCEPT !.inc = <<>>, !.tail = 0]
               ELSE IF free /\ IncLen(r) >= MaxReqLen THEN [GrabOutput(r) EXCEPT !.shut = TRUE]
               ELSE r]
    /\ soq' = 0
    /\ CheckReturns
    /\ UNCHANGED <<cache, clients, nRequests, from, todo, fds, back, env>>

-----------------------------------------------------------------------------
(* Results: cache_newresult, client_newresult. *)

\* Every client that waits for k gets the answer of entry e, once for each
\* request it has made for it.
Waiting(r, k) == {i \in DOMAIN r.reqs : r.reqs[i].key = k}

\* A mutant of Given: a client is answered once, however often it asked.
GivenOnce(r, k, e) ==
    LET mine == Waiting(r, k)
    IN  IF mine = {} THEN r
        ELSE [r EXCEPT !.reqs = Picked(@, DOMAIN @ \ {Min(mine)}),
                       !.out = Append(@, AnswerFrom(e)),
                       !.permanent = @ /\ r.reqs[Min(mine)].id]

Given(r, k, e) ==
    LET mine == Waiting(r, k)
    IN  [r EXCEPT !.reqs = Picked(@, DOMAIN @ \ mine),
                  !.out = @ \o [i \in 1 .. Cardinality(mine) |-> AnswerFrom(e)],
                  !.permanent = @ /\ \A i \in mine : r.reqs[i].id]

NumWaiting(k) == Cardinality(OfAll(ToSet(clients), [c \in Client |-> Waiting(con[c], k)]))

\* A mutant of NewResult: only the latest client hears of it.
NewResultForHead(k, answer) ==
    \E c \in LookupAdd(cache, k) :
        LET e == c.tab[k]
        IN  IF clients = <<>> THEN cache' = DropError(Store(c, k, answer), k) /\ UNCHANGED con
            ELSE /\ con' = [con EXCEPT ![Head(clients)] = Given(@, k, e)]
                 /\ cache' = DropError(IncUsage(Store(c, k, answer), e,
                                                Cardinality(Waiting(con[Head(clients)], k))), k)

NewResult(k, answer) ==
    \E c \in LookupAdd(cache, k) :
        LET e == c.tab[k]
        IN  /\ cache' = DropError(IncUsage(Store(c, k, answer), e, NumWaiting(k)), k)
            /\ con' = [x \in Client |-> IF x \in ToSet(clients) THEN Given(con[x], k, e) ELSE con[x]]

\* subdbs_startreq answers a request for an unknown database itself.
Refuse ==
    /\ phase = "refuse"
    /\ NewResult(con[cur].inc[soq].key, "error")
    /\ phase' = "check"
    /\ UNCHANGED <<clients, nRequests, from, todo, soq, fds, back, env>>

\* The servers' turn (subdbs_io): a queued request goes out, an answer comes in.
Dispatch ==
    /\ phase = "backend"
    /\ queue # <<>>
    /\ queue' = Tail(queue)
    /\ sent' = [sent EXCEPT ![Head(queue)] = @ + 1]
    /\ UNCHANGED <<cache, clients, con, nRequests, phase, from, todo, soq, fds, env>>

\* subserver_possibly_dead: a server is given up, and a query of it waits again,
\* before all others.
GiveBack(k) ==
    /\ phase = "backend"
    /\ sent[k] > 0
    /\ queue' = <<k>> \o queue
    /\ sent' = [sent EXCEPT ![k] = @ - 1]
    /\ UNCHANGED <<cache, clients, con, nRequests, phase, from, todo, soq, fds, env>>

ServerAnswers(k, answer) ==
    /\ phase = "backend"
    /\ sent[k] > 0
    /\ NewResult(k, answer)
    /\ sent' = [sent EXCEPT ![k] = @ - 1]
    /\ UNCHANGED <<clients, nRequests, phase, from, todo, soq, fds, queue, env>>

EndBackend ==
    /\ phase = "backend"
    /\ phase' = "cleanup"
    /\ UNCHANGED <<cache, clients, con, nRequests, from, todo, soq, fds, back, env>>

-----------------------------------------------------------------------------
(* client_writable: write buffers until one does not go out completely. *)

\* The buffer has gone: its pin and its place among the requests go too.
WriteBuffer ==
    /\ phase = "write"
    /\ LET b == Head(con[cur].out)
           r == [con[cur] EXCEPT !.out = Tail(@)]
       IN  /\ b.text # "garbage"
           /\ cache' = IF b.pin = "none" THEN cache ELSE DecUsage(cache, b.pin, 1)
           /\ nRequests' = IF b.eoq THEN nRequests - 1 ELSE nRequests
           /\ con' = [con EXCEPT ![cur] = r]
           /\ IF Busy(r) THEN UNCHANGED <<phase, todo>>
              ELSE IF ~r.permanent \/ r.shut \/ Finished(r)
                   THEN phase' = "close" /\ UNCHANGED todo
                   ELSE NextClient
    /\ UNCHANGED <<clients, from, soq, fds, back, env>>

\* A buffer that does not begin with '<' ends the program.
WriteGarbage ==
    /\ phase = "write"
    /\ Head(con[cur].out).text = "garbage"
    /\ phase' = "exited"
    /\ UNCHANGED <<cache, clients, con, nRequests, from, todo, soq, fds, back, env>>

ShortWrite ==
    /\ phase = "write"
    /\ NextClient
    /\ UNCHANGED <<cache, clients, con, nRequests, from, soq, fds, back, env>>

WriteError ==
    /\ phase = "write"
    /\ phase' = "close"
    /\ UNCHANGED <<cache, clients, con, nRequests, from, todo, soq, fds, back, env>>

-----------------------------------------------------------------------------
(* client_close *)

\* A mutant of OthersInterested: nobody looks.
NobodyInterested(k) == FALSE

\* A request that no other client waits for leaves the queue, and its entry
\* the cache, if no server has got it yet (subserver_deletereq).
OthersInterested(k) == \E c \in ToSet(clients) \ {cur} : Waiting(con[c], k) # {}

CloseRequest ==
    /\ phase = "close"
    /\ con[cur].reqs # <<>>
    /\ LET k == Head(con[cur].reqs).key
       IN  IF ~OthersInterested(k) /\ k \in ToSet(queue)
           THEN queue' = Without(queue, k) /\ cache' = Delete(cache, k)
           ELSE UNCHANGED <<queue, cache>>
    /\ con' = [con EXCEPT ![cur].reqs = Tail(@)]
    /\ UNCHANGED <<clients, nRequests, phase, from, todo, soq, fds, sent, env>>

\* A mutant of CloseOutput: the pins stay.
CloseOutputPinned ==
    /\ phase = "close"
    /\ con[cur].reqs = <<>>
    /\ Busy(con[cur])
    /\ nRequests' = IF Head(con[cur].out).eoq THEN nRequests - 1 ELSE nRequests
    /\ con' = [con EXCEPT ![cur].out = Tail(@)]
    /\ UNCHANGED <<cache, clients, phase, from, todo, soq, fds, back, env>>

\* What has not been written is unpinned.
CloseOutput ==
    /\ phase = "close"
    /\ con[cur].reqs = <<>>
    /\ Busy(con[cur])
    /\ LET b == Head(con[cur].out)
       IN  /\ cache' = IF b.pin = "none" THEN cache ELSE DecUsage(cache, b.pin, 1)
           /\ nRequests' = IF b.eoq THEN nRequests - 1 ELSE nRequests
    /\ con' = [con EXCEPT ![cur].out = Tail(@)]
    /\ UNCHANGED <<clients, phase, from, todo, soq, fds, back, env>>

CloseDone ==
    /\ phase = "close"
    /\ con[cur].reqs = <<>>
    /\ ~Busy(con[cur])
    /\ clients' = Without(clients, cur)
    /\ con' = [con EXCEPT ![cur] = NewConnection]
    /\ NextClient
    /\ UNCHANGED <<cache, nRequests, from, soq, fds, back, env>>

-----------------------------------------------------------------------------
(* cache_cleanup, at the end of a pass or before select. *)

szlimit == IF phase = "splat" THEN 0 ELSE MaxSize

\* A mutant of Evict: one entry too many goes.
EvictOneMore ==
    /\ phase \in {"cleanup", "splat"}
    /\ cache.used >= szlimit
    /\ cache.lru # <<>>
    /\ cache' = Delete(cache, cache.key[Last(cache.lru)])
    /\ UNCHANGED <<clients, con, nRequests, phase, from, todo, soq, fds, back, env>>

Evict ==
    /\ phase \in {"cleanup", "splat"}
    /\ cache.used > szlimit
    /\ cache' = Delete(cache, cache.key[Last(cache.lru)])
    /\ UNCHANGED <<clients, con, nRequests, phase, from, todo, soq, fds, back, env>>

\* The next pass begins; after a splat the loop goes on to select.
EndCleanup ==
    /\ phase \in {"cleanup", "splat"}
    /\ cache.used <= szlimit
    /\ IF phase = "splat" THEN phase' = "select" /\ UNCHANGED todo
       ELSE phase' = "add" /\ todo' = clients
    /\ UNCHANGED <<cache, clients, con, nRequests, from, soq, fds, back, env>>

-----------------------------------------------------------------------------
(* The specification. *)

Exited == phase = "exited" /\ UNCHANGED vars

Walk == Absorb \/ Register \/ Registered
IO ==
    \/ \E b \in Burst : ReadData(b)
    \/ ReadEOF \/ ReadInterrupted \/ ReadError
    \/ Writable \/ TooSlow \/ NotReady \/ Checked \/ EndIO
Check ==
    \/ \E q \in GoodQuery : TakeCached(q) \/ TakeAwaited(q) \/ TakeNew(q)
    \/ TakeBadQuery \/ Refuse \/ EndCheck
Write == WriteBuffer \/ WriteGarbage \/ ShortWrite \/ WriteError
Close == CloseRequest \/ CloseOutput \/ CloseDone
Servers ==
    \/ Dispatch
    \/ \E k \in Key : GiveBack(k) \/ \E answer \in Answer : ServerAnswers(k, answer)
    \/ EndBackend
Cleanup == Evict \/ EndCleanup

ClientsNext ==
    \/ Walk
    \/ \E r, w \in SUBSET Client : Select(r, w)
    \/ Interrupted
    \/ \E c \in Client : Accept(c)
    \/ NothingToAccept
    \/ IO \/ Check \/ Write \/ Close \/ Servers \/ Cleanup
    \/ Exited

ClientsSpec == ClientsInit /\ [][ClientsNext]_vars

\* The loop never stops of itself; select returns (a server that answers or a
\* time-out makes it) and is not for ever interrupted by signals; the servers
\* take requests again and again, and answer them, however often one of them is
\* given up before it does.
LoopFairness ==
    /\ WF_vars(ClientsNext)
    /\ SF_vars(\E r, w \in SUBSET Client : Select(r, w))
    /\ SF_vars(Dispatch)
    /\ \A k \in Key : SF_vars(\E answer \in Answer : ServerAnswers(k, answer))

FairLoopSpec == ClientsSpec /\ LoopFairness

-----------------------------------------------------------------------------
(* Properties. *)

\* The answers going out from entry e, and those that count as requests.
Sending(r, e) == {i \in DOMAIN r.out : r.out[i].pin = e}
Ending(r) == {i \in DOMAIN r.out : r.out[i].eoq}
Outstanding ==
    Cardinality(OfAll(ToSet(clients), [c \in Client |-> DOMAIN con[c].reqs])) +
    Cardinality(OfAll(ToSet(clients), [c \in Client |-> Ending(con[c])]))
PinsOf(e) == Cardinality(OfAll(ToSet(clients), [c \in Client |-> Sending(con[c], e)]))

\* Clients use the cache as NcsCache says they may: an entry is pinned once for
\* every answer that is going out from it.
Cache == INSTANCE NcsCache WITH
    pins <- [e \in Entry |-> PinsOf(e)],
    cleaning <- CASE phase = "cleanup" -> MaxSize
                  [] phase = "splat" -> 0
                  [] OTHER -> -1,
    MaxPins <- MaxRequests
CacheIsUsedAsSpecified == Cache!CacheSpec

\* An entry is never freed under a client that is sending from it, nor kept
\* without need (res_cpi and req_usage agree).
PinsMatchUsage == Cache!UsageIsExact

\* maxoutstandingqueries holds: g_nRequests counts every request that waits or
\* is being answered, and never passes the maximum.
RequestsAreBounded ==
    /\ Outstanding <= nRequests
    /\ nRequests <= MaxRequests

\* Nobody waits for nothing: what a client waits for is queued or out, whoever
\* asked for it first and has gone since, and whatever the cache has dropped.
\* (A client that is being closed waits no longer, and an unknown database is
\* refused at once.)
EveryWaiterIsServed ==
    \A c \in ToSet(clients) : \A i \in DOMAIN con[c].reqs :
        LET k == con[c].reqs[i].key
        IN  \/ k \in ToSet(queue) \/ sent[k] > 0
            \/ phase = "close" /\ c = cur
            \/ phase = "refuse" /\ k \in Unknown

\* Nobody waits for a result that is there already.
NoWaiterMissesAResult ==
    \A c \in ToSet(clients) : \A i \in DOMAIN con[c].reqs :
        LET k == con[c].reqs[i].key
        IN  k \in Cached(cache) => ~HasResult(cache, cache.tab[k])

\* A request that waits is answered in the end, or its connection is gone.
EveryRequestIsAnswered ==
    \A c \in Client : con[c].reqs # <<>> ~> con[c].reqs = <<>>
=============================================================================
