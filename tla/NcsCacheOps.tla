---------------------------- MODULE NcsCacheOps ----------------------------
(***************************************************************************)
(* The query cache of the caching server ntvcached as a value, and the     *)
(* functions of src/src/ncscache.c as operators on it.                     *)
(*                                                                         *)
(* A cache is a record: tab, the hash table as a function from keys to     *)
(* entries (which chain of which bucket holds an entry is not modelled);   *)
(* lru, the list from g_pCacheLRUHead to g_pCacheLRUTail; size and used,   *)
(* cache_tab_size and cache_tab_used; key, res, err and usage, the fields  *)
(* of every entry, whose memory is free while its usage is 0.  A result is *)
(* "none" (NULL), "hits", or "freed": a pointer to memory given back.      *)
(***************************************************************************)
EXTENDS Integers, FiniteSets, SequencesExt

CONSTANTS
    Key,       \* requests, reduced and without offset, count and id
    Entry,     \* the addresses of CacheEntry structures
    InitSize   \* the argument of prime in cache_tab_init (1013)

ASSUME KeyAssumption == InitSize \in Nat /\ "none" \notin Key /\ "none" \notin Entry

-----------------------------------------------------------------------------
(* What the table holds. *)

\* prime: the least odd prime above n.
Prime(n) == Min({p \in n + 1 .. 2 * n + 2 : p % 2 = 1 /\ \A d \in 3 .. p - 1 : p % d # 0})

Cached(c) == {k \in Key : c.tab[k] # "none"}
InTable(c) == {c.tab[k] : k \in Cached(c)}
FreeMemory(c) == {e \in Entry : c.usage[e] = 0}
HasResult(c, e) == c.res[e] # "none" \/ c.err[e]

EmptyCache ==
    [tab |-> [k \in Key |-> "none"], lru |-> <<>>, size |-> Prime(InitSize), used |-> 0,
     key |-> [e \in Entry |-> "none"], res |-> [e \in Entry |-> "none"],
     err |-> [e \in Entry |-> FALSE], usage |-> [e \in Entry |-> 0]]

-----------------------------------------------------------------------------
(* Usage counts.  cache_req_decusage frees an entry nobody uses any more,  *)
(* and cache_req_free its result with it.                                  *)

IncUsage(c, e, n) == [c EXCEPT !.usage[e] = @ + n]

DecUsage(c, e, n) ==
    LET left == c.usage[e] - n
    IN  IF left > 0 THEN [c EXCEPT !.usage[e] = left]
        ELSE [c EXCEPT !.usage[e] = 0, !.key[e] = "none", !.res[e] = "none", !.err[e] = FALSE]

-----------------------------------------------------------------------------
(* The table and the list. *)

\* cache_req_lookup: an entry that is found becomes the head of the list.
Touch(c, k) == [c EXCEPT !.lru = <<c.tab[k]>> \o RemoveFirst(@, c.tab[k])]

\* cache_req_add
Add(c, k, e) == [c EXCEPT !.tab[k] = e, !.lru = <<e>> \o @, !.used = @ + 1]

\* Mutants of Delete: the entry stays on the list; the table's use is kept.
DeleteFromTableOnly(c, k) ==
    IF k \notin Cached(c) THEN c
    ELSE [DecUsage(c, c.tab[k], 1) EXCEPT !.tab[k] = "none", !.used = @ - 1]

DeleteWithoutDec(c, k) ==
    IF k \notin Cached(c) THEN c
    ELSE [c EXCEPT !.tab[k] = "none", !.lru = RemoveFirst(@, c.tab[k]), !.used = @ - 1]

\* cache_req_delete
Delete(c, k) ==
    IF k \notin Cached(c) THEN c
    ELSE LET e == c.tab[k]
         IN  [DecUsage(c, e, 1) EXCEPT !.tab[k] = "none", !.lru = RemoveFirst(@, e), !.used = @ - 1]

\* cache_tab_rehash adds the entries to the new table bucket after bucket of
\* the old one: the list comes out in an order that depends on the hash
\* function alone, here any order.
Rehashed(c) ==
    {[c EXCEPT !.size = Prime(2 * c.size), !.lru = order, !.used = Cardinality(InTable(c))] :
        order \in SetToSeqs(InTable(c))}

\* An entry that was not there, in the memory e.
Fresh(c, k, e) == [Add(c, k, e) EXCEPT !.key[e] = k, !.usage[e] = 1]

\* cache_req_lookupadd: the caches it can leave behind; memget returns any
\* free memory.
LookupAdd(c, k) ==
    IF k \in Cached(c) THEN {Touch(c, k)}
    ELSE {Fresh(r, k, e) : r \in IF c.used >= c.size \div 2 THEN Rehashed(c) ELSE {c},
                           e \in FreeMemory(c)}

-----------------------------------------------------------------------------
(* cache_newresult, up to and from its call of client_newresult. *)

\* What a server can send: an answer that can be taken apart, one that
\* cannot, or (from subdbs_startreq or a failing server) an error message.
Answer == {"hits", "malformed", "error"}

\* A mutant of Store: an answer that cannot be taken apart leaves no message.
StoreSilently(c, k, answer) ==
    LET e == c.tab[k]
    IN  CASE answer = "error" -> [c EXCEPT !.err[e] = TRUE]
          [] answer # "error" /\ c.res[e] # "none" -> c
          [] answer = "hits" /\ c.res[e] = "none" -> [c EXCEPT !.res[e] = "hits"]
          [] answer = "malformed" /\ c.res[e] = "none" -> [c EXCEPT !.res[e] = "freed"]

\* cache_analyzeserverresult keeps its pointer to an answer it has freed.
Store(c, k, answer) ==
    LET e == c.tab[k]
    IN  CASE answer = "error" -> [c EXCEPT !.err[e] = TRUE]
          [] answer # "error" /\ c.res[e] # "none" -> c
          [] answer = "hits" /\ c.res[e] = "none" -> [c EXCEPT !.res[e] = "hits"]
          [] answer = "malformed" /\ c.res[e] = "none" ->
                 [c EXCEPT !.res[e] = "freed", !.err[e] = TRUE]

\* A mutant of DropError: the check is lost.
KeepError(c, k) == c

\* An entry that carries an error does not stay in the table.
DropError(c, k) == IF c.err[c.tab[k]] THEN Delete(c, k) ELSE c
=============================================================================
