------------------------------ MODULE NcsCache ------------------------------
(***************************************************************************)
(* The query cache of ntvcached as its callers see it (src/src/ncscache.c).*)
(* Clients look a request up and pin the entries whose hits they are       *)
(* sending; servers answer requests; the event loop trims the table at the *)
(* end of each pass, and empties it after a SIGUSR1.  Nothing else runs    *)
(* while cache_cleanup does, which is what cleaning tells.                 *)
(***************************************************************************)
EXTENDS NcsCacheOps

CONSTANTS
    MaxSize,   \* ntvcacheserver_maxsize
    MaxPins    \* bound: the uses of one entry by clients at a time

ASSUME SizeAssumption == MaxSize \in Nat /\ MaxPins \in Nat

VARIABLES
    cache,     \* the cache
    pins,      \* for every entry, the results being sent from it
    cleaning   \* the szlimit of the running cache_cleanup, or -1

cvars == <<cache, pins, cleaning>>

CacheInit ==
    /\ cache = EmptyCache
    /\ pins = [e \in Entry |-> 0]
    /\ cleaning = -1

-----------------------------------------------------------------------------
(* What clients do. *)

\* client_req_process: look the request up; pin the entry if it has a result.
Query(k) ==
    /\ cleaning = -1
    /\ \E c \in LookupAdd(cache, k) :
          LET e == c.tab[k]
          IN  IF HasResult(c, e)
              THEN /\ pins[e] < MaxPins
                   /\ cache' = IncUsage(c, e, 1)
                   /\ pins' = [pins EXCEPT ![e] = @ + 1]
              ELSE /\ cache' = c
                   /\ UNCHANGED pins
    /\ UNCHANGED cleaning

\* client_writable: a result has gone out completely, or client_close.
Unpin(e) ==
    /\ cleaning = -1
    /\ pins[e] > 0
    /\ cache' = DecUsage(cache, e, 1)
    /\ pins' = [pins EXCEPT ![e] = @ - 1]
    /\ UNCHANGED cleaning

\* subserver_deletereq: the last client that waited for the request is gone,
\* and the entry with it, unless it has been evicted before.
Forget(k) ==
    /\ cleaning = -1
    /\ cache' = Delete(cache, k)
    /\ UNCHANGED <<pins, cleaning>>

-----------------------------------------------------------------------------
(* What servers and the event loop do. *)

\* cache_newresult: n requests of clients waited for the answer to k.
NewResult(k, answer, n) ==
    /\ cleaning = -1
    /\ \E c \in LookupAdd(cache, k) :
          LET e == c.tab[k]
              told == IncUsage(Store(c, k, answer), e, n)
          IN  /\ pins[e] + n <= MaxPins
              /\ cache' = DropError(told, k)
              /\ pins' = [pins EXCEPT ![e] = @ + n]
    /\ UNCHANGED cleaning

\* cache_cleanup is called: splatcache empties the cache.
StartCleanup(limit) ==
    /\ cleaning = -1
    /\ cleaning' = limit
    /\ UNCHANGED <<cache, pins>>

\* One turn of its loop: the least recently used entry goes.
Evict ==
    /\ cleaning >= 0
    /\ cache.used > cleaning
    /\ cache.lru # <<>>
    /\ cache' = Delete(cache, cache.key[Last(cache.lru)])
    /\ UNCHANGED <<pins, cleaning>>

EndCleanup ==
    /\ cleaning >= 0
    /\ cache.used <= cleaning
    /\ cleaning' = -1
    /\ UNCHANGED <<cache, pins>>

CacheNext ==
    \/ \E k \in Key : Query(k) \/ Forget(k)
    \/ \E e \in Entry : Unpin(e)
    \/ \E k \in Key, answer \in Answer, n \in 0 .. MaxPins : NewResult(k, answer, n)
    \/ \E limit \in {0, MaxSize} : StartCleanup(limit)
    \/ Evict
    \/ EndCleanup

CacheSpec == CacheInit /\ [][CacheNext]_cvars

-----------------------------------------------------------------------------
(* Properties. *)

\* What cache_verify checks: the list holds every entry of the table once, and
\* nothing else, and cache_tab_used counts them; a key leads to its own entry.
LruMatchesTable ==
    /\ \A k \in Cached(cache) : cache.key[cache.tab[k]] = k
    /\ ToSet(cache.lru) = InTable(cache)
    /\ Len(cache.lru) = Cardinality(InTable(cache))
    /\ cache.used = Len(cache.lru)

\* The usage count of an entry is the number of results being sent from it,
\* plus one while the table leads to it: no entry is freed while it is in use
\* (cache_req_decusage), and none stays behind when it is not.
UsageIsExact ==
    \A e \in Entry :
        cache.usage[e] = pins[e] + (IF e \in InTable(cache) THEN 1 ELSE 0)

\* A client that is sending from an entry finds something to send there: the
\* hits, or the message that stands for them (cache_generateclientresult).
PinnedCanBeSent ==
    \A e \in Entry : pins[e] > 0 => cache.err[e] \/ cache.res[e] = "hits"

\* Nobody is ever handed an error out of the cache ("we don't cache error
\* results", cache_newresult): no entry the table leads to carries one.
ErrorsAreNotCached == \A e \in InTable(cache) : ~cache.err[e] /\ cache.res[e] # "freed"
=============================================================================
