----------------------------- MODULE NtvSearchd -----------------------------
(***************************************************************************)
(* The threaded search server around its work queue: connector threads     *)
(* that accept a connection and read queries from it, request buffers kept *)
(* on a freelist, connections shared by reference count between the        *)
(* connector and the requests read from it, and the workers that search    *)
(* and answer (src/src/ntvschd.c, ntvreq.c, ntvquery.c, ntvsearch.c).      *)
(*                                                                         *)
(* The module extends NtvWorkQueue with the rest of both threads' lives:   *)
(* an action here either is an action of the queue with more said about    *)
(* it, or leaves the queue alone.  A client is what it may send: a query   *)
(* with or without an id attribute, one that cannot be answered, one whose *)
(* XML cannot be read, or the end of the file.                             *)
(***************************************************************************)
EXTENDS NtvWorkQueue

CONSTANTS
    Connection, \* the RemoteReadWrite_t structures malloc can return
    MaxCore     \* ntvMaxCoreThreads

ASSUME MaxCoreAssumption == MaxCore \in Nat \ {0}
\* A connection is not a connector's "nothing to serve".
ASSUME NoConnectionIsNone == "none" \notin Connection

VARIABLES
    usage,      \* rrw->usage of every connection; 0: closed and freed
    mutWrite,   \* the thread that holds rrw->mut_write, or "none"
    rrwOf,      \* req->rrw of every request buffer, or "none"
    idOf,       \* req->ntvID # NULL of every request buffer
    freelist,   \* reqbuffer_fl: the buffers given back, the last one first
    cat,        \* where each connector is in read_from_connection
    conn,       \* the connection each connector serves, or "none"
    req,        \* the request buffer a connector is working on, or "none"
    query,      \* what the connector made of the query it has just read
    wat,        \* where each worker is between taking a request and the next
    semCore     \* the value of sem_coresearch

svars == <<usage, mutWrite, rrwOf, idOf, freelist, cat, conn, req, query, wat, semCore>>
vars == <<qvars, svars>>

\* The outcomes of req_analyze and the checks after it: a query to be queued,
\* a query to be refused, and text that is not a query in XML at all.
Verdict == {"good", "refused", "badxml"}
NoQuery == [verdict |-> "none", id |-> FALSE]

SearchdInit ==
    /\ Init
    /\ usage = [k \in Connection |-> 0]
    /\ mutWrite = [k \in Connection |-> "none"]
    /\ rrwOf = [r \in Request |-> "none"]
    /\ idOf = [r \in Request |-> FALSE]
    /\ freelist = <<>>
    /\ cat = [c \in Connector |-> "accept"]
    /\ conn = [c \in Connector |-> "none"]
    /\ req = [c \in Connector |-> "none"]
    /\ query = [c \in Connector |-> NoQuery]
    /\ wat = [w \in Worker |-> "wait"]
    /\ semCore = MaxCore

-----------------------------------------------------------------------------
(* Connections and request buffers. *)

\* Mutant: the connection is closed by the connector, whoever still uses it.
UnuseClosing(k) == usage' = [usage EXCEPT ![k] = 0]

\* rrw_unuse: the last user closes the connection.
Unuse(k) == usage' = [usage EXCEPT ![k] = @ - 1]

Held == Queued \cup {inHand[w] : w \in Worker} \cup {req[c] : c \in Connector}
Pooled == {freelist[i] : i \in 1..Len(freelist)}

\* Mutant: the freelist is read and not advanced.
ReqGetNoPop(r) ==
    \/ /\ freelist # <<>>
       /\ r = Head(freelist)
       /\ freelist' = freelist
    \/ /\ freelist = <<>>
       /\ r \in Request \ Held
       /\ freelist' = freelist

\* req_get: the head of the freelist, else a new buffer.
ReqGet(r) ==
    \/ /\ freelist # <<>>
       /\ r = Head(freelist)
       /\ freelist' = Tail(freelist)
    \/ /\ freelist = <<>>
       /\ r \in Request \ Held
       /\ freelist' = freelist

ReqPut(r) == freelist' = <<r>> \o freelist

-----------------------------------------------------------------------------
(* thrd_connector, handleconnection and read_from_connection. *)

\* accept() returns and rrwClientConnected allocates the structure.
Accept(c, k) ==
    /\ cat[c] = "accept"
    /\ usage[k] = 0
    /\ usage' = [usage EXCEPT ![k] = 1]
    /\ conn' = [conn EXCEPT ![c] = k]
    /\ cat' = [cat EXCEPT ![c] = "read"]
    /\ UNCHANGED <<qvars, mutWrite, rrwOf, idOf, freelist, req, query, wat, semCore>>

\* A query is complete: a buffer is taken for it and analyzed.
ReadQuery(c, r, v, id) ==
    /\ cat[c] = "read"
    /\ cpc[c] = "idle"
    /\ ReqGet(r)
    /\ rrwOf' = [rrwOf EXCEPT ![r] = conn[c]]
    /\ usage' = [usage EXCEPT ![conn[c]] = @ + 1]
    /\ idOf' = [idOf EXCEPT ![r] = id]
    /\ req' = [req EXCEPT ![c] = r]
    /\ query' = [query EXCEPT ![c] = [verdict |-> v, id |-> id]]
    /\ cat' = [cat EXCEPT ![c] = IF v = "good" THEN "queue" ELSE "refuse"]
    /\ UNCHANGED <<qvars, mutWrite, conn, wat, semCore>>

\* The client closed its end, or the connection broke.
ReadEOF(c) ==
    /\ cat[c] = "read"
    /\ cpc[c] = "idle"
    /\ cat' = [cat EXCEPT ![c] = "hangup"]
    /\ UNCHANGED <<qvars, usage, mutWrite, rrwOf, idOf, freelist, conn, req, query, wat, semCore>>

\* A good query goes to the workers.  Whether to read on is decided before
\* work_addtoq gives the buffer away.
Enqueue(c) ==
    /\ cat[c] = "queue"
    /\ AddToQ(c, req[c])
    /\ req' = [req EXCEPT ![c] = "none"]
    /\ cat' = [cat EXCEPT ![c] = IF idOf[req[c]] THEN "read" ELSE "hangup"]
    /\ query' = [query EXCEPT ![c] = NoQuery]
    /\ UNCHANGED <<usage, mutWrite, rrwOf, idOf, freelist, conn, wat, semCore>>

\* Anything else is answered by the connector itself, with an error message.
LockRefusal(c) ==
    /\ cat[c] = "refuse"
    /\ mutWrite[conn[c]] = "none"
    /\ mutWrite' = [mutWrite EXCEPT ![conn[c]] = c]
    /\ cat' = [cat EXCEPT ![c] = "write"]
    /\ UNCHANGED <<qvars, usage, rrwOf, idOf, freelist, conn, req, query, wat, semCore>>

\* The message is out; rrw_unuse, and req_freecontent clears the buffer.
WriteRefusal(c) ==
    /\ cat[c] = "write"
    /\ mutWrite' = [mutWrite EXCEPT ![conn[c]] = "none"]
    /\ Unuse(conn[c])
    /\ rrwOf' = [rrwOf EXCEPT ![req[c]] = "none"]
    /\ idOf' = [idOf EXCEPT ![req[c]] = FALSE]
    /\ cat' = [cat EXCEPT ![c] = "put"]
    /\ UNCHANGED <<qvars, freelist, conn, req, query, wat, semCore>>

PutRefused(c) ==
    /\ cat[c] = "put"
    /\ ReqPut(req[c])
    /\ cat' = [cat EXCEPT ![c] = "look"]
    /\ UNCHANGED <<qvars, usage, mutWrite, rrwOf, idOf, conn, req, query, wat, semCore>>

\* "if (req->ntvID == NULL)", looked up in a buffer that is no longer ours.
LookAtID(c) ==
    /\ cat[c] = "look"
    /\ cat' = [cat EXCEPT ![c] =
                 IF query[c].verdict # "badxml" /\ idOf[req[c]] THEN "read" ELSE "hangup"]
    /\ req' = [req EXCEPT ![c] = "none"]
    /\ query' = [query EXCEPT ![c] = NoQuery]
    /\ UNCHANGED <<qvars, usage, mutWrite, rrwOf, idOf, freelist, conn, wat, semCore>>

\* handleconnection gives up its own use of the connection.
Hangup(c) ==
    /\ cat[c] = "hangup"
    /\ cpc[c] = "idle"
    /\ Unuse(conn[c])
    /\ conn' = [conn EXCEPT ![c] = "none"]
    /\ cat' = [cat EXCEPT ![c] = "accept"]
    /\ UNCHANGED <<qvars, mutWrite, rrwOf, idOf, freelist, req, query, wat, semCore>>

\* Mutant: work_addtoq returns as soon as it is posted.
ThrottledOnce(c) ==
    /\ cpc[c] = "asleep"
    /\ semThrottled > 0
    /\ semThrottled' = semThrottled - 1
    /\ cpc' = [cpc EXCEPT ![c] = "idle"]
    /\ UNCHANGED <<queue, nwork, nthrottled, semWork, wpc, inHand, svars>>

\* work_addtoq, after its wait.
Throttled(c) == (Wake(c) \/ Recheck(c)) /\ UNCHANGED svars

-----------------------------------------------------------------------------
(* thrd_worker and ntvsearch. *)

Claimant(w) == Claim(w) /\ UNCHANGED svars

Take(w) ==
    /\ RemoveHead(w)
    /\ wat' = [wat EXCEPT ![w] = "search"]
    /\ UNCHANGED <<usage, mutWrite, rrwOf, idOf, freelist, cat, conn, req, query, semCore>>

\* ntvsearch_analyze rejects the constraint: the answer is an error message.
SkipCore(w) ==
    /\ wat[w] = "search"
    /\ wat' = [wat EXCEPT ![w] = "answer"]
    /\ UNCHANGED <<qvars, usage, mutWrite, rrwOf, idOf, freelist, cat, conn, req, query, semCore>>

\* It accepts it, and ntvsearch_core_search is called.
WantCore(w) ==
    /\ wat[w] = "search"
    /\ wat' = [wat EXCEPT ![w] = "wantcore"]
    /\ UNCHANGED <<qvars, usage, mutWrite, rrwOf, idOf, freelist, cat, conn, req, query, semCore>>

EnterCore(w) ==
    /\ wat[w] = "wantcore"
    /\ semCore > 0
    /\ semCore' = semCore - 1
    /\ wat' = [wat EXCEPT ![w] = "core"]
    /\ UNCHANGED <<qvars, usage, mutWrite, rrwOf, idOf, freelist, cat, conn, req, query>>

LeaveCore(w) ==
    /\ wat[w] = "core"
    /\ semCore' = semCore + 1
    /\ wat' = [wat EXCEPT ![w] = "answer"]
    /\ UNCHANGED <<qvars, usage, mutWrite, rrwOf, idOf, freelist, cat, conn, req, query>>

\* out_write_results: the whole answer goes out under the connection's
\* mut_write.
LockAnswer(w) ==
    LET k == rrwOf[inHand[w]]
    IN  /\ wat[w] = "answer"
        /\ mutWrite[k] = "none"
        /\ mutWrite' = [mutWrite EXCEPT ![k] = w]
        /\ wat' = [wat EXCEPT ![w] = "write"]
        /\ UNCHANGED <<qvars, usage, rrwOf, idOf, freelist, cat, conn, req, query, semCore>>

\* Mutant: out_write_results returns early on a write error, still holding
\* mut_write.
WriteAnswerLocked(w) ==
    LET r == inHand[w]
        k == rrwOf[r]
    IN  /\ wat[w] = "write"
        /\ UNCHANGED mutWrite
        /\ Unuse(k)
        /\ rrwOf' = [rrwOf EXCEPT ![r] = "none"]
        /\ idOf' = [idOf EXCEPT ![r] = FALSE]
        /\ wat' = [wat EXCEPT ![w] = "put"]
        /\ UNCHANGED <<qvars, freelist, cat, conn, req, query, semCore>>

\* The answer is out; rrw_unuse, and req_freecontent clears the buffer.
WriteAnswer(w) ==
    LET r == inHand[w]
        k == rrwOf[r]
    IN  /\ wat[w] = "write"
        /\ mutWrite' = [mutWrite EXCEPT ![k] = "none"]
        /\ Unuse(k)
        /\ rrwOf' = [rrwOf EXCEPT ![r] = "none"]
        /\ idOf' = [idOf EXCEPT ![r] = FALSE]
        /\ wat' = [wat EXCEPT ![w] = "put"]
        /\ UNCHANGED <<qvars, freelist, cat, conn, req, query, semCore>>

PutAnswered(w) ==
    /\ wat[w] = "put"
    /\ ReqPut(inHand[w])
    /\ Finish(w)
    /\ wat' = [wat EXCEPT ![w] = "wait"]
    /\ UNCHANGED <<usage, mutWrite, rrwOf, idOf, cat, conn, req, query, semCore>>

-----------------------------------------------------------------------------
\* A thread's own steps; the two that write to a client are listed apart.
ConnectorRuns(c) ==
    \/ Enqueue(c)
    \/ Throttled(c)
    \/ LockRefusal(c)
    \/ PutRefused(c)
    \/ LookAtID(c)
    \/ Hangup(c)

ConnectorStep(c) == ConnectorRuns(c) \/ WriteRefusal(c)

ClientStep(c) ==
    \/ \E k \in Connection : Accept(c, k)
    \/ \E r \in Request, v \in Verdict, id \in BOOLEAN : ReadQuery(c, r, v, id)
    \/ ReadEOF(c)

WorkerRuns(w) ==
    \/ Claimant(w)
    \/ Take(w)
    \/ SkipCore(w)
    \/ WantCore(w)
    \/ EnterCore(w)
    \/ LeaveCore(w)
    \/ LockAnswer(w)
    \/ PutAnswered(w)

WorkerStep(w) == WorkerRuns(w) \/ WriteAnswer(w)

SearchdNext ==
    \/ \E c \in Connector : ClientStep(c) \/ ConnectorStep(c)
    \/ \E w \in Worker : WorkerStep(w)

\* Threads run on.  Clients need neither send anything nor read their
\* answers: SOCKET_FWRITE blocks without a timeout, so no write has to end.
SearchdFairness ==
    /\ \A c \in Connector : WF_vars(ConnectorRuns(c))
    /\ \A w \in Worker : WF_vars(WorkerRuns(w))

SearchdSpec == SearchdInit /\ [][SearchdNext]_vars
FairSearchdSpec == SearchdSpec /\ SearchdFairness

-----------------------------------------------------------------------------
\* rrw->usage is exact: a connection is open (rrw_unuse has not closed it) as
\* long as its connector serves it or a request read from it is unanswered,
\* and no longer.
UsageIsExact ==
    \A k \in Connection :
        usage[k] = Cardinality({c \in Connector : conn[c] = k})
                 + Cardinality({r \in Request : rrwOf[r] = k})

\* A buffer on the freelist of req_put is on it once and is in no other
\* thread's hands: two queries never share a reqbuffer_t.
FreelistIsSound ==
    /\ \A i, j \in 1..Len(freelist) : freelist[i] = freelist[j] => i = j
    /\ \A r \in Pooled :
          /\ rrwOf[r] = "none"
          /\ r \notin Queued
          /\ \A w \in Worker : inHand[w] # r
          /\ \A c \in Connector : req[c] = r => cat[c] = "look"

\* A thread is writing to the connection, under its mut_write.
Writing(k) ==
    \/ \E c \in Connector :
          mutWrite[k] = c /\ cat[c] = "write" /\ conn[c] = k
    \/ \E w \in Worker :
          mutWrite[k] = w /\ wat[w] = "write" /\ rrwOf[inHand[w]] = k

\* Whoever holds mut_write is in the midst of writing: a connection that
\* nobody is writing an answer to can be written to.
WriteLockIsHeld ==
    \A k \in Connection : mutWrite[k] # "none" => Writing(k)

\* The threads of ntvsearchd use the work queue as NtvWorkQueue says.
QueueSpec == Spec

\* The worker writes an answer, or waits to, to a client that is being
\* written to.
IsHeldUp(w) == wat[w] \in {"answer", "write"} /\ Writing(rrwOf[inHand[w]])

\* Clients that do not read are all there is to wait for: an unanswered query
\* is on a connection that is being written to, or every worker is held up.
HeldUpByClients ==
    \/ \A w \in Worker : IsHeldUp(w)
    \/ \A r \in Request : rrwOf[r] # "none" => Writing(rrwOf[r])

\* As long as a query is unanswered, answers keep going out, unless in the end
\* nothing but clients that do not read their answers is in the way: neither
\* the queue, nor sem_coresearch, nor a mut_write that nobody writes under
\* ever stops the server.
AnswersKeepComing ==
    \/ []<>(\A r \in Request : rrwOf[r] = "none")
    \/ []<><<\/ \E w \in Worker : WriteAnswer(w)
             \/ \E c \in Connector : WriteRefusal(c)>>_vars
    \/ <>[]HeldUpByClients

\* ntvqueryxml(5), "id": as a consequence of specifying an id attribute the
\* connection remains open.  Here: also when the query, good XML, is refused.
IdKeepsConnectionOpen ==
    [][\A c \in Connector :
          /\ cat[c] = "look"
          /\ query[c].verdict = "refused"
          /\ query[c].id
          /\ cat'[c] # "look"
          => cat'[c] = "read"]_vars
=============================================================================
