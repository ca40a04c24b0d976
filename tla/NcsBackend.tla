----------------------------- MODULE NcsBackend -----------------------------
(***************************************************************************)
(* What the servers behind ntvcached promise to the rest of it: the calls  *)
(* of src/src/ncssubservers.h that go in, and the cache_newresult that     *)
(* comes back.  A request that is started is pending until a call of       *)
(* cache_newresult answers it, one call for each time it was started, or   *)
(* until subserver_deletereq withdraws it.  Between those calls nothing    *)
(* pending is lost and nothing becomes pending: which server has it, how   *)
(* often it had to be sent and which servers were given up is not seen.    *)
(***************************************************************************)
EXTENDS Integers

CONSTANT Key        \* requests, as in NcsCacheOps

VARIABLES
    pending,        \* how often each request is still to be answered
    call            \* the call made in the last step, and for which request

NoCall == [of |-> "nothing", for |-> "none"]

BackendInit == pending = [k \in Key |-> 0] /\ call = NoCall

\* The rest of ntvcached wants a request answered, once more.
Start(k) ==
    /\ call' = [of |-> "subserver_startreq", for |-> k]
    /\ pending' = [pending EXCEPT ![k] = @ + 1]

\* One answer for one request.
Deliver(k) ==
    /\ pending[k] > 0
    /\ call' = [of |-> "cache_newresult", for |-> k]
    /\ pending' = [pending EXCEPT ![k] = @ - 1]

\* Nobody waits for it any more: those not at a server yet are dropped.
Withdraw(k) ==
    /\ call' = [of |-> "subserver_deletereq", for |-> k]
    /\ \E n \in 1 .. pending[k] : pending' = [pending EXCEPT ![k] = @ - n]

\* Whatever else goes on, connections made and lost, servers given up and
\* tried again, is no business of those who wait.
Inside == call' = NoCall /\ UNCHANGED pending

BackendNext ==
    \/ \E k \in Key : Start(k) \/ Deliver(k) \/ Withdraw(k)
    \/ Inside

BackendSpec == BackendInit /\ [][BackendNext]_<<pending, call>>
=============================================================================
