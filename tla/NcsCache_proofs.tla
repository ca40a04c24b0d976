--------------------------- MODULE NcsCache_proofs ---------------------------
(***************************************************************************)
(* The query cache of ntvcached keeps an entry exactly as long as the      *)
(* table leads to it or a client sends from it, always has something to    *)
(* send from it, hands out no error, and lists what the table holds, for   *)
(* any number of requests, entries and clients and any size.               *)
(***************************************************************************)
EXTENDS NcsCache, NcsLists_proofs

\* The fields of a cache the argument looks at have their types.  Nothing is
\* said of the usage list: whatever entry cleanup picks, the counts stay exact.
IsCache(c) ==
    /\ c = [tab |-> c.tab, lru |-> c.lru, size |-> c.size, used |-> c.used, key |-> c.key,
            res |-> c.res, err |-> c.err, usage |-> c.usage]
    /\ c.tab \in [Key -> Entry \cup {"none"}]
    /\ c.key \in [Entry -> Key \cup {"none"}]
    /\ c.res \in [Entry -> {"none", "hits", "freed"}]
    /\ c.err \in [Entry -> BOOLEAN]
    /\ c.usage \in [Entry -> Nat]

\* A key leads to its own entry, and so two keys never to the same one.
KeysAreRight(c) == \A k \in Cached(c) : c.key[c.tab[k]] = k

\* The count of every entry is that of its uses, p[e] by clients.
CountsAreRight(c, p) ==
    \A e \in Entry : c.usage[e] = p[e] + (IF e \in InTable(c) THEN 1 ELSE 0)

\* Memory that is free holds neither a result nor an error.
FreeIsClean(c) == \A e \in FreeMemory(c) : c.res[e] = "none" /\ ~c.err[e]

Sendable(c, p) == \A e \in Entry : p[e] > 0 => c.err[e] \/ c.res[e] = "hits"

\* No entry of the table carries an error, but for the entries of keys in K.
CleanBut(c, K) ==
    \A j \in Cached(c) \ K : ~c.err[c.tab[j]] /\ c.res[c.tab[j]] # "freed"

\* What every operation keeps, and the inductive invariant.
Kept(c, p) ==
    /\ IsCache(c)
    /\ p \in [Entry -> Nat]
    /\ KeysAreRight(c)
    /\ CountsAreRight(c, p)
    /\ FreeIsClean(c)
    /\ Sendable(c, p)

IInv == Kept(cache, pins) /\ CleanBut(cache, {})

-----------------------------------------------------------------------------
\* A use more of an entry that has something to send.
LEMMA IncUsageKept ==
    ASSUME NEW c, NEW p, Kept(c, p), NEW e \in Entry, NEW n \in Nat,
           e \in InTable(c), n > 0 => c.err[e] \/ c.res[e] = "hits"
    PROVE  /\ Kept(IncUsage(c, e, n), [p EXCEPT ![e] = @ + n])
           /\ \A K : CleanBut(c, K) => CleanBut(IncUsage(c, e, n), K)
  <1> DEFINE d == IncUsage(c, e, n)
             q == [p EXCEPT ![e] = @ + n]
  <1>1. /\ d.tab = c.tab /\ d.key = c.key /\ d.res = c.res /\ d.err = c.err
        /\ d.usage = [c.usage EXCEPT ![e] = @ + n]
        /\ IsCache(d)
        /\ q \in [Entry -> Nat]
    BY DEF IncUsage, Kept, IsCache
  <1>2. Cached(d) = Cached(c) /\ InTable(d) = InTable(c)
    BY <1>1 DEF Cached, InTable
  <1>3. KeysAreRight(d)
    BY <1>1, <1>2 DEF Kept, KeysAreRight
  <1>4. CountsAreRight(d, q)
    <2> SUFFICES ASSUME NEW f \in Entry
                 PROVE  d.usage[f] = q[f] + (IF f \in InTable(d) THEN 1 ELSE 0)
      BY DEF CountsAreRight
    <2>1. /\ c.usage[f] = p[f] + (IF f \in InTable(c) THEN 1 ELSE 0)
          /\ c.usage[f] \in Nat /\ p[f] \in Nat
          /\ c.usage \in [Entry -> Nat] /\ p \in [Entry -> Nat]
      BY DEF Kept, CountsAreRight, IsCache
    <2>2. CASE f = e
      BY <1>1, <1>2, <2>1, <2>2
    <2>3. CASE f # e
      BY <1>1, <1>2, <2>1, <2>3
    <2> QED
      BY <2>2, <2>3
  <1>5. FreeIsClean(d)
    BY <1>1 DEF Kept, IsCache, FreeIsClean, FreeMemory
  <1>6. Sendable(d, q)
    BY <1>1 DEF Kept, Sendable
  <1>7. \A K : CleanBut(c, K) => CleanBut(d, K)
    BY <1>1, <1>2 DEF CleanBut
  <1> QED
    BY <1>1, <1>3, <1>4, <1>5, <1>6, <1>7 DEF Kept

\* What cache_req_decusage does to an entry in use, field by field.
LEMMA DecUsageFields ==
    ASSUME NEW c, IsCache(c), NEW e \in Entry, c.usage[e] > 0
    PROVE  LET d == DecUsage(c, e, 1)
           IN  /\ IsCache(d)
               /\ d.tab = c.tab
               /\ d.usage = [c.usage EXCEPT ![e] = @ - 1]
               /\ c.usage[e] > 1 => d.key = c.key /\ d.res = c.res /\ d.err = c.err
               /\ c.usage[e] = 1 => /\ d.key = [c.key EXCEPT ![e] = "none"]
                                    /\ d.res = [c.res EXCEPT ![e] = "none"]
                                    /\ d.err = [c.err EXCEPT ![e] = FALSE]
  <1> DEFINE d == DecUsage(c, e, 1)
  <1>1. c.usage \in [Entry -> Nat] /\ c.usage[e] \in Nat
    BY DEF IsCache
  <1>2. CASE c.usage[e] > 1
    <2>1. d = [c EXCEPT !.usage[e] = c.usage[e] - 1]
      BY <1>1, <1>2 DEF DecUsage
    <2> QED
      BY <1>1, <1>2, <2>1 DEF IsCache
  <1>3. CASE c.usage[e] = 1
    <2>1. d = [c EXCEPT !.usage[e] = 0, !.key[e] = "none", !.res[e] = "none",
                        !.err[e] = FALSE]
      BY <1>3 DEF DecUsage
    <2>2. /\ d.tab = c.tab /\ d.lru = c.lru /\ d.size = c.size /\ d.used = c.used
          /\ d.key = [c.key EXCEPT ![e] = "none"] /\ d.res = [c.res EXCEPT ![e] = "none"]
          /\ d.err = [c.err EXCEPT ![e] = FALSE] /\ d.usage = [c.usage EXCEPT ![e] = 0]
          /\ d = [tab |-> d.tab, lru |-> d.lru, size |-> d.size, used |-> d.used, key |-> d.key,
                  res |-> d.res, err |-> d.err, usage |-> d.usage]
      <3>1. c = [tab |-> c.tab, lru |-> c.lru, size |-> c.size, used |-> c.used, key |-> c.key,
                 res |-> c.res, err |-> c.err, usage |-> c.usage]
        BY DEF IsCache
      <3>2. d = [tab |-> c.tab, lru |-> c.lru, size |-> c.size, used |-> c.used,
                 key |-> [c.key EXCEPT ![e] = "none"], res |-> [c.res EXCEPT ![e] = "none"],
                 err |-> [c.err EXCEPT ![e] = FALSE], usage |-> [c.usage EXCEPT ![e] = 0]]
        BY <2>1, <3>1
      <3> HIDE DEF d
      <3> QED
        BY <3>2
    <2>3. d.usage = [c.usage EXCEPT ![e] = @ - 1]
      BY <1>1, <1>3, <2>2
    <2>4. d.tab \in [Key -> Entry \cup {"none"}] /\ d.usage \in [Entry -> Nat]
      BY <2>2 DEF IsCache
    <2>5. d.key \in [Entry -> Key \cup {"none"}] /\ d.res \in [Entry -> {"none", "hits", "freed"}]
      BY <2>2 DEF IsCache
    <2>6. d.err \in [Entry -> BOOLEAN]
      <3>1. c.err \in [Entry -> BOOLEAN] /\ d.err = [c.err EXCEPT ![e] = FALSE]
        BY <2>2 DEF IsCache
      <3> HIDE DEF d
      <3> QED
        BY <3>1
    <2>7. IsCache(d)
      BY ONLY <2>2, <2>4, <2>5, <2>6, Zenon DEF IsCache
    <2> QED
      BY <1>3, <2>2, <2>3, <2>7
  <1> QED
    BY <1>1, <1>2, <1>3

\* A client is done with an entry.
LEMMA DecUsageKept ==
    ASSUME NEW c, NEW p, Kept(c, p), NEW e \in Entry, p[e] > 0
    PROVE  LET d == DecUsage(c, e, 1)
           IN  /\ Kept(d, [p EXCEPT ![e] = @ - 1])
               /\ d.tab = c.tab
               /\ \A f \in InTable(c) : d.err[f] = c.err[f] /\ d.res[f] = c.res[f]
  <1> DEFINE d == DecUsage(c, e, 1)
             q == [p EXCEPT ![e] = @ - 1]
  <1>1. /\ c.usage \in [Entry -> Nat] /\ p \in [Entry -> Nat] /\ p[e] \in Nat
        /\ \A f \in Entry : c.usage[f] = p[f] + (IF f \in InTable(c) THEN 1 ELSE 0)
    BY DEF Kept, CountsAreRight, IsCache
  <1>2. c.usage[e] > 0 /\ (e \in InTable(c) => c.usage[e] > 1) /\ (c.usage[e] = 1 => p[e] = 1)
    BY <1>1
  <1>3. /\ IsCache(d)
        /\ d.tab = c.tab
        /\ d.usage = [c.usage EXCEPT ![e] = @ - 1]
        /\ c.usage[e] > 1 => d.key = c.key /\ d.res = c.res /\ d.err = c.err
        /\ c.usage[e] = 1 => /\ d.key = [c.key EXCEPT ![e] = "none"]
                             /\ d.res = [c.res EXCEPT ![e] = "none"]
                             /\ d.err = [c.err EXCEPT ![e] = FALSE]
    BY <1>2, DecUsageFields DEF Kept
  <1>4. Cached(d) = Cached(c) /\ InTable(d) = InTable(c)
    BY <1>3 DEF Cached, InTable
  <1>5. \A f \in InTable(c) : d.key[f] = c.key[f] /\ d.err[f] = c.err[f] /\ d.res[f] = c.res[f]
    <2>1. CASE c.usage[e] > 1
      BY <1>3, <2>1
    <2>2. CASE c.usage[e] = 1
      <3>1. e \notin InTable(c) /\ InTable(c) \subseteq Entry
        BY <1>2, <2>2 DEF Kept, IsCache, InTable, Cached
      <3> QED
        BY <1>3, <2>2, <3>1 DEF Kept, IsCache
    <2> QED
      BY <1>1, <1>2, <2>1, <2>2
  <1>6. KeysAreRight(d)
    BY <1>3, <1>4, <1>5 DEF Kept, KeysAreRight, InTable
  <1>7. q \in [Entry -> Nat]
    BY <1>1
  <1>8. CountsAreRight(d, q)
    <2> SUFFICES ASSUME NEW f \in Entry
                 PROVE  d.usage[f] = q[f] + (IF f \in InTable(d) THEN 1 ELSE 0)
      BY DEF CountsAreRight
    <2>1. c.usage[f] \in Nat /\ p[f] \in Nat
      BY <1>1
    <2>2. CASE f = e
      BY <1>1, <1>3, <1>4, <2>1, <2>2
    <2>3. CASE f # e
      BY <1>1, <1>3, <1>4, <2>1, <2>3
    <2> QED
      BY <2>2, <2>3
  <1>9. FreeIsClean(d) /\ Sendable(d, q)
    <2>1. CASE c.usage[e] > 1
      BY <1>1, <1>3, <2>1 DEF Kept, FreeIsClean, FreeMemory, Sendable
    <2>2. CASE c.usage[e] = 1
      <3>1. q[e] = 0
        BY <1>1, <1>2, <2>2
      <3> QED
        BY <1>1, <1>3, <2>2, <3>1 DEF Kept, IsCache, FreeIsClean, FreeMemory, Sendable
    <2> QED
      BY <1>1, <1>2, <2>1, <2>2
  <1> QED
    BY <1>3, <1>4, <1>5, <1>6, <1>7, <1>8, <1>9 DEF Kept

\* An entry goes from the table (cache_req_delete): whoever sends from it may
\* go on.
LEMMA DeleteKept ==
    ASSUME NEW c, NEW p, Kept(c, p), NEW k, NEW K, CleanBut(c, K)
    PROVE  Kept(Delete(c, k), p) /\ CleanBut(Delete(c, k), K \ {k})
  <1> DEFINE d == Delete(c, k)
             e == c.tab[k]
             f == DecUsage(c, e, 1)
  <1>1. CASE k \notin Cached(c)
    <2>1. d = c
      BY <1>1 DEF Delete
    <2>2. CleanBut(c, K \ {k})
      BY <1>1 DEF CleanBut
    <2> QED
      BY <2>1, <2>2
  <1>2. CASE k \in Cached(c)
    <2>1. /\ k \in Key /\ e \in InTable(c) /\ e \in Entry /\ e # "none"
          /\ \A j \in Cached(c) : c.tab[j] \in Entry /\ c.key[c.tab[j]] = j
      BY <1>2 DEF Kept, IsCache, InTable, Cached, KeysAreRight
    <2>2. /\ \A g \in Entry : c.usage[g] = p[g] + (IF g \in InTable(c) THEN 1 ELSE 0)
          /\ \A g \in Entry : c.usage[g] \in Nat /\ p[g] \in Nat
      BY DEF Kept, CountsAreRight, IsCache
    <2>3. c.usage[e] = p[e] + 1 /\ c.usage[e] > 0 /\ (c.usage[e] = 1 \/ c.usage[e] > 1)
      BY <2>1, <2>2
    <2>4. /\ IsCache(f)
          /\ f.tab = c.tab
          /\ f.usage = [c.usage EXCEPT ![e] = @ - 1]
          /\ c.usage[e] > 1 => f.key = c.key /\ f.res = c.res /\ f.err = c.err
          /\ c.usage[e] = 1 => /\ f.key = [c.key EXCEPT ![e] = "none"]
                               /\ f.res = [c.res EXCEPT ![e] = "none"]
                               /\ f.err = [c.err EXCEPT ![e] = FALSE]
      BY <2>1, <2>3, DecUsageFields DEF Kept
    <2>5. d = [f EXCEPT !.tab[k] = "none", !.lru = RemoveFirst(@, e), !.used = @ - 1]
      BY <1>2 DEF Delete
    <2>6. /\ d.tab = [c.tab EXCEPT ![k] = "none"]
          /\ d.key = f.key /\ d.res = f.res /\ d.err = f.err /\ d.usage = f.usage
          /\ IsCache(d)
      <3>1. f = [tab |-> f.tab, lru |-> f.lru, size |-> f.size, used |-> f.used, key |-> f.key,
                 res |-> f.res, err |-> f.err, usage |-> f.usage]
        BY <2>4 DEF IsCache
      <3>2. /\ d.tab = [f.tab EXCEPT ![k] = "none"]
            /\ d.key = f.key /\ d.res = f.res /\ d.err = f.err /\ d.usage = f.usage
            /\ d = [tab |-> d.tab, lru |-> d.lru, size |-> d.size, used |-> d.used, key |-> d.key,
                    res |-> d.res, err |-> d.err, usage |-> d.usage]
        BY <2>5, <3>1
      <3>3. d.tab \in [Key -> Entry \cup {"none"}]
        BY <2>4, <3>2 DEF IsCache
      <3>4. IsCache(d)
        BY <2>4, <3>2, <3>3 DEF IsCache
      <3> QED
        BY <2>4, <3>2, <3>4
    <2>7. Cached(d) = Cached(c) \ {k} /\ \A j \in Cached(d) : d.tab[j] = c.tab[j] /\ c.tab[j] # e
      BY <2>1, <2>6 DEF Kept, IsCache, Cached
    <2>8. InTable(d) = InTable(c) \ {e}
      BY <1>2, <2>7 DEF InTable
    <2>9. \A g \in Entry \ {e} : d.key[g] = c.key[g] /\ d.res[g] = c.res[g] /\ d.err[g] = c.err[g]
      BY <2>3, <2>4, <2>6 DEF Kept, IsCache
    <2>10. KeysAreRight(d) /\ CleanBut(d, K \ {k})
      BY <2>1, <2>7, <2>9 DEF KeysAreRight, CleanBut
    <2>11. CountsAreRight(d, p)
      <3> SUFFICES ASSUME NEW g \in Entry
                   PROVE  d.usage[g] = p[g] + (IF g \in InTable(d) THEN 1 ELSE 0)
        BY DEF CountsAreRight
      <3>1. c.usage \in [Entry -> Nat] /\ c.usage[g] \in Nat /\ p[g] \in Nat
        BY <2>2 DEF Kept, IsCache
      <3>2. CASE g = e
        BY <2>3, <2>4, <2>6, <2>8, <3>1, <3>2
      <3>3. CASE g # e
        BY <2>2, <2>4, <2>6, <2>8, <3>1, <3>3
      <3> QED
        BY <3>2, <3>3
    <2>12. d.usage[e] = c.usage[e] - 1 /\ \A g \in Entry \ {e} : d.usage[g] = c.usage[g]
      BY <2>1, <2>4, <2>6 DEF Kept, IsCache
    <2>13. FreeIsClean(d) /\ Sendable(d, p)
      <3>1. CASE c.usage[e] > 1
        <4>1. d.res = c.res /\ d.err = c.err /\ d.usage[e] # 0
          BY <2>2, <2>4, <2>6, <2>12, <3>1, <2>1
        <4> QED
          BY <2>12, <4>1 DEF Kept, FreeIsClean, FreeMemory, Sendable
      <3>2. CASE c.usage[e] = 1
        <4>1. p[e] = 0 /\ d.res[e] = "none" /\ ~d.err[e]
          BY <2>1, <2>2, <2>3, <2>4, <2>6, <3>2 DEF Kept, IsCache
        <4> QED
          BY <2>9, <2>12, <4>1 DEF Kept, FreeIsClean, FreeMemory, Sendable
      <3> QED
        BY <2>3, <3>1, <3>2
    <2> QED
      BY <2>6, <2>10, <2>11, <2>13 DEF Kept
  <1> QED
    BY <1>1, <1>2

\* The list, the size and the use of the table play no part.
LEMMA SameEntries ==
    ASSUME NEW c, NEW p, Kept(c, p), CleanBut(c, {}), NEW d,
           d = [c EXCEPT !.lru = d.lru, !.size = d.size, !.used = d.used]
    PROVE  Kept(d, p) /\ CleanBut(d, {}) /\ d.tab = c.tab /\ d.usage = c.usage
  <1>1. /\ IsCache(d) /\ d.tab = c.tab /\ d.key = c.key /\ d.res = c.res /\ d.err = c.err
        /\ d.usage = c.usage
    BY DEF Kept, IsCache
  <1>2. Cached(d) = Cached(c) /\ InTable(d) = InTable(c) /\ FreeMemory(d) = FreeMemory(c)
    BY <1>1 DEF Cached, InTable, FreeMemory
  <1>3. KeysAreRight(d) /\ CleanBut(d, {})
    BY <1>1, <1>2 DEF Kept, KeysAreRight, CleanBut
  <1>4. CountsAreRight(d, p) /\ FreeIsClean(d) /\ Sendable(d, p)
    BY <1>1, <1>2 DEF Kept, CountsAreRight, FreeIsClean, Sendable
  <1> QED
    BY <1>1, <1>3, <1>4 DEF Kept

\* A new entry, in memory that was free.
LEMMA FreshKept ==
    ASSUME NEW c, NEW p, Kept(c, p), CleanBut(c, {}), NEW k \in Key, k \notin Cached(c),
           NEW e \in FreeMemory(c), NEW d, d = Fresh(c, k, e)
    PROVE  Kept(d, p) /\ CleanBut(d, {}) /\ k \in Cached(d)
  <1>1. e \in Entry /\ c.usage[e] = 0 /\ e # "none"
    BY KeyAssumption DEF FreeMemory
  <1>2. /\ \A g \in Entry : c.usage[g] = p[g] + (IF g \in InTable(c) THEN 1 ELSE 0)
        /\ \A g \in Entry : c.usage[g] \in Nat /\ p[g] \in Nat
    BY DEF Kept, CountsAreRight, IsCache
  <1>3. e \notin InTable(c) /\ p[e] = 0 /\ c.res[e] = "none" /\ ~c.err[e]
    <2>1. e \notin InTable(c) /\ p[e] = 0
      BY <1>1, <1>2
    <2> QED
      BY <2>1 DEF Kept, FreeIsClean
  <1>4. /\ d.tab = [c.tab EXCEPT ![k] = e] /\ d.key = [c.key EXCEPT ![e] = k]
        /\ d.res = c.res /\ d.err = c.err /\ d.usage = [c.usage EXCEPT ![e] = 1]
        /\ IsCache(d)
    <2>1. c = [tab |-> c.tab, lru |-> c.lru, size |-> c.size, used |-> c.used, key |-> c.key,
               res |-> c.res, err |-> c.err, usage |-> c.usage]
      BY DEF Kept, IsCache
    <2>2. /\ d.tab = [c.tab EXCEPT ![k] = e] /\ d.key = [c.key EXCEPT ![e] = k]
          /\ d.res = c.res /\ d.err = c.err /\ d.usage = [c.usage EXCEPT ![e] = 1]
          /\ d = [tab |-> d.tab, lru |-> d.lru, size |-> d.size, used |-> d.used, key |-> d.key,
                  res |-> d.res, err |-> d.err, usage |-> d.usage]
      BY <2>1 DEF Fresh, Add
    <2>3. /\ c.tab \in [Key -> Entry \cup {"none"}] /\ c.key \in [Entry -> Key \cup {"none"}]
          /\ c.res \in [Entry -> {"none", "hits", "freed"}] /\ c.err \in [Entry -> BOOLEAN]
          /\ c.usage \in [Entry -> Nat]
      BY DEF Kept, IsCache
    <2>4. d.tab \in [Key -> Entry \cup {"none"}]
      BY <1>1, <2>2, <2>3
    <2>5. d.key \in [Entry -> Key \cup {"none"}]
      BY <2>2, <2>3
    <2>6. d.usage \in [Entry -> Nat]
      <3>1. d.usage = [c.usage EXCEPT ![e] = 1]
        BY <2>2
      <3>2. c.usage \in [Entry -> Nat] /\ e \in Entry
        BY <1>1, <2>3
      <3> QED
        BY ONLY <3>1, <3>2
    <2>7. IsCache(d)
      BY <2>2, <2>3, <2>4, <2>5, <2>6, Zenon DEF IsCache
    <2> QED
      BY <2>2, <2>7
  <1>5. /\ Cached(d) = Cached(c) \cup {k} /\ d.tab[k] = e
        /\ \A j \in Cached(c) : d.tab[j] = c.tab[j] /\ c.tab[j] # e /\ c.tab[j] \in Entry
    BY <1>1, <1>3, <1>4 DEF Kept, IsCache, Cached, InTable
  <1>6. InTable(d) = InTable(c) \cup {e}
    BY <1>5 DEF InTable
  <1>7. KeysAreRight(d) /\ CleanBut(d, {})
    BY <1>1, <1>3, <1>4, <1>5 DEF Kept, IsCache, KeysAreRight, CleanBut
  <1>8. CountsAreRight(d, p)
    <2> SUFFICES ASSUME NEW g \in Entry
                 PROVE  d.usage[g] = p[g] + (IF g \in InTable(d) THEN 1 ELSE 0)
      BY DEF CountsAreRight
    <2>1. CASE g = e
      BY <1>3, <1>4, <1>6, <2>1 DEF Kept, IsCache
    <2>2. CASE g # e
      BY <1>2, <1>4, <1>6, <2>2 DEF Kept, IsCache
    <2> QED
      BY <2>1, <2>2
  <1>9. FreeIsClean(d) /\ Sendable(d, p)
    BY <1>1, <1>4 DEF Kept, IsCache, FreeIsClean, FreeMemory, Sendable
  <1> QED
    BY <1>4, <1>5, <1>7, <1>8, <1>9 DEF Kept

\* cache_req_lookupadd: the entry found or made is the key's own.
LEMMA LookupAddKept ==
    ASSUME NEW c, NEW p, Kept(c, p), CleanBut(c, {}), NEW k \in Key, NEW d \in LookupAdd(c, k)
    PROVE  Kept(d, p) /\ CleanBut(d, {}) /\ k \in Cached(d)
  <1>0. c = [tab |-> c.tab, lru |-> c.lru, size |-> c.size, used |-> c.used, key |-> c.key,
             res |-> c.res, err |-> c.err, usage |-> c.usage]
    BY DEF Kept, IsCache
  <1>1. CASE k \in Cached(c)
    <2>1. d = [c EXCEPT !.lru = <<c.tab[k]>> \o RemoveFirst(@, c.tab[k])]
      BY <1>1 DEF LookupAdd, Touch
    <2>2. d = [c EXCEPT !.lru = d.lru, !.size = d.size, !.used = d.used]
      BY <1>0, <2>1
    <2>3. Kept(d, p) /\ CleanBut(d, {}) /\ d.tab = c.tab
      BY <2>2, SameEntries
    <2> QED
      BY <1>1, <2>3 DEF Cached
  <1>2. CASE k \notin Cached(c)
    <2>1. PICK r \in (IF c.used >= c.size \div 2 THEN Rehashed(c) ELSE {c}), e \in FreeMemory(c) :
              d = Fresh(r, k, e)
      BY <1>2 DEF LookupAdd
    <2>2. r = [c EXCEPT !.lru = r.lru, !.size = r.size, !.used = r.used]
      <3>1. CASE r = c
        BY <1>0, <3>1
      <3>2. CASE r \in Rehashed(c)
        <4>1. PICK order : r = [c EXCEPT !.size = Prime(2 * c.size), !.lru = order,
                                         !.used = Cardinality(InTable(c))]
          BY <3>2 DEF Rehashed
        <4> QED
          BY <1>0, <4>1
      <3> QED
        BY <2>1, <3>1, <3>2
    <2>3. Kept(r, p) /\ CleanBut(r, {}) /\ r.tab = c.tab /\ r.usage = c.usage
      BY <2>2, SameEntries
    <2>4. k \notin Cached(r) /\ e \in FreeMemory(r)
      BY <1>2, <2>1, <2>3 DEF Cached, FreeMemory
    <2> QED
      BY <2>1, <2>3, <2>4, FreshKept
  <1> QED
    BY <1>1, <1>2

\* An answer comes in for an entry of the table: from now on there is something
\* to send from it, and what has been given back is covered by an error.
LEMMA StoreKept ==
    ASSUME NEW c, NEW p, Kept(c, p), CleanBut(c, {}), NEW k \in Cached(c),
           NEW answer \in Answer, NEW d, d = Store(c, k, answer)
    PROVE  LET e == c.tab[k]
           IN  /\ Kept(d, p) /\ CleanBut(d, {k})
               /\ d.tab = c.tab
               /\ d.err[e] \/ d.res[e] = "hits"
  <1> DEFINE e == c.tab[k]
  <1>1. /\ k \in Key /\ e \in Entry /\ e \in InTable(c)
        /\ \A j \in Cached(c) : j # k => c.tab[j] # e
        /\ ~c.err[e] /\ c.res[e] # "freed" /\ c.res[e] \in {"none", "hits", "freed"}
    BY DEF Kept, IsCache, InTable, Cached, KeysAreRight, CleanBut
  <1>2. c.usage[e] # 0
    <2>1. c.usage[e] = p[e] + 1 /\ p[e] \in Nat
      BY <1>1 DEF Kept, CountsAreRight
    <2> QED
      BY <2>1
  <1>3. /\ IsCache(d)
        /\ d.tab = c.tab /\ d.key = c.key /\ d.usage = c.usage
        /\ \A g \in Entry \ {e} : d.err[g] = c.err[g] /\ d.res[g] = c.res[g]
        /\ d.res[e] = c.res[e] \/ (c.res[e] = "none" /\ (d.err[e] \/ d.res[e] = "hits"))
        /\ d.err[e] \/ d.res[e] = "hits"
    <2>0. /\ c = [tab |-> c.tab, lru |-> c.lru, size |-> c.size, used |-> c.used, key |-> c.key,
                  res |-> c.res, err |-> c.err, usage |-> c.usage]
          /\ c.res \in [Entry -> {"none", "hits", "freed"}] /\ c.err \in [Entry -> BOOLEAN]
      BY DEF Kept, IsCache
    <2>1. CASE answer = "error"
      <3>1. d = [c EXCEPT !.err[e] = TRUE]
        BY <2>1 DEF Store
      <3>2. /\ d.tab = c.tab /\ d.key = c.key /\ d.usage = c.usage
            /\ d.res = c.res /\ d.err = [c.err EXCEPT ![e] = TRUE]
            /\ d = [tab |-> d.tab, lru |-> d.lru, size |-> d.size, used |-> d.used, key |-> d.key,
                    res |-> d.res, err |-> d.err, usage |-> d.usage]
        BY <2>0, <3>1
      <3>3. d.err \in [Entry -> BOOLEAN] /\ d.res \in [Entry -> {"none", "hits", "freed"}]
        BY <2>0, <3>2
      <3>4. IsCache(d)
        BY <3>2, <3>3, Zenon DEF Kept, IsCache
      <3>5. /\ d.err[e] = TRUE
            /\ \A g \in Entry \ {e} : d.err[g] = c.err[g] /\ d.res[g] = c.res[g]
        BY <1>1, <2>0, <3>2
      <3> QED
        BY <3>2, <3>4, <3>5
    <2>2. CASE answer # "error" /\ c.res[e] # "none"
      <3>1. d = c
        BY <2>2 DEF Store
      <3> QED
        BY <1>1, <2>2, <3>1 DEF Kept
    <2>3. CASE answer = "hits" /\ c.res[e] = "none"
      <3>1. d = [c EXCEPT !.res[e] = "hits"]
        BY <2>3 DEF Store
      <3> QED
        BY <1>1, <2>0, <2>3, <3>1 DEF Kept, IsCache
    <2>4. CASE answer = "malformed" /\ c.res[e] = "none"
      <3>1. d = [c EXCEPT !.res[e] = "freed", !.err[e] = TRUE]
        BY <2>4 DEF Store
      <3>2. /\ d.tab = c.tab /\ d.key = c.key /\ d.usage = c.usage
            /\ d.res = [c.res EXCEPT ![e] = "freed"] /\ d.err = [c.err EXCEPT ![e] = TRUE]
            /\ d = [tab |-> d.tab, lru |-> d.lru, size |-> d.size, used |-> d.used, key |-> d.key,
                    res |-> d.res, err |-> d.err, usage |-> d.usage]
        BY <2>0, <3>1
      <3>3. d.err \in [Entry -> BOOLEAN] /\ d.res \in [Entry -> {"none", "hits", "freed"}]
        BY <2>0, <3>2
      <3>4. IsCache(d)
        BY <3>2, <3>3, Zenon DEF Kept, IsCache
      <3>5. /\ d.err[e] = TRUE
            /\ \A g \in Entry \ {e} : d.err[g] = c.err[g] /\ d.res[g] = c.res[g]
        BY <1>1, <2>0, <3>2
      <3> QED
        BY <2>4, <3>2, <3>4, <3>5
    <2> QED
      BY <2>1, <2>2, <2>3, <2>4 DEF Answer
  <1>4. Cached(d) = Cached(c) /\ InTable(d) = InTable(c) /\ FreeMemory(d) = FreeMemory(c)
    BY <1>3 DEF Cached, InTable, FreeMemory
  <1>5. KeysAreRight(d) /\ CountsAreRight(d, p)
    BY <1>3, <1>4 DEF Kept, KeysAreRight, CountsAreRight
  <1>6. CleanBut(d, {k})
    <2> SUFFICES ASSUME NEW j \in Cached(c) \ {k}
                 PROVE  ~d.err[c.tab[j]] /\ d.res[c.tab[j]] # "freed"
      BY <1>3, <1>4 DEF CleanBut
    <2>1. c.tab[j] \in Entry \ {e} /\ ~c.err[c.tab[j]] /\ c.res[c.tab[j]] # "freed"
      BY <1>1 DEF Kept, IsCache, Cached, CleanBut
    <2> QED
      BY <1>3, <2>1
  <1>7. FreeIsClean(d)
    <2>1. \A g \in FreeMemory(c) : g \in Entry \ {e} /\ c.res[g] = "none" /\ ~c.err[g]
      BY <1>2 DEF Kept, FreeIsClean, FreeMemory
    <2> QED
      BY <1>3, <1>4, <2>1 DEF FreeIsClean
  <1>8. Sendable(d, p)
    <2> SUFFICES ASSUME NEW g \in Entry, p[g] > 0
                 PROVE  d.err[g] \/ d.res[g] = "hits"
      BY DEF Sendable
    <2>1. CASE g = e
      BY <1>3, <2>1
    <2>2. CASE g # e
      BY <1>3, <2>2 DEF Kept, Sendable
    <2> QED
      BY <2>1, <2>2
  <1> QED
    BY <1>3, <1>5, <1>6, <1>7, <1>8 DEF Kept

-----------------------------------------------------------------------------
(* One lemma for each action, and the invariant. *)

LEMMA InitIInv == CacheInit => IInv
  <1> SUFFICES ASSUME CacheInit PROVE IInv
    OBVIOUS
  <1>1. cache = EmptyCache /\ pins = [e \in Entry |-> 0]
    BY DEF CacheInit
  <1>2. /\ cache.tab = [k \in Key |-> "none"] /\ cache.key = [e \in Entry |-> "none"]
        /\ cache.res = [e \in Entry |-> "none"] /\ cache.err = [e \in Entry |-> FALSE]
        /\ cache.usage = [e \in Entry |-> 0]
        /\ cache = [tab |-> cache.tab, lru |-> cache.lru, size |-> cache.size,
                    used |-> cache.used, key |-> cache.key, res |-> cache.res,
                    err |-> cache.err, usage |-> cache.usage]
    BY <1>1 DEF EmptyCache
  <1>3. IsCache(cache)
    BY <1>2 DEF IsCache
  <1>4. Cached(cache) = {} /\ InTable(cache) = {}
    BY <1>2 DEF Cached, InTable
  <1>5. KeysAreRight(cache) /\ CleanBut(cache, {}) /\ FreeIsClean(cache)
    BY <1>2, <1>4 DEF KeysAreRight, CleanBut, FreeIsClean, FreeMemory
  <1>6. CountsAreRight(cache, pins) /\ Sendable(cache, pins) /\ pins \in [Entry -> Nat]
    BY <1>1, <1>2, <1>4 DEF CountsAreRight, Sendable
  <1> QED
    BY <1>3, <1>5, <1>6 DEF IInv, Kept

LEMMA QueryIInv ==
    ASSUME IInv, NEW k \in Key, Query(k)
    PROVE  IInv'
  <1>1. PICK c \in LookupAdd(cache, k) :
            LET e == c.tab[k]
            IN  IF HasResult(c, e)
                THEN /\ pins[e] < MaxPins
                     /\ cache' = IncUsage(c, e, 1)
                     /\ pins' = [pins EXCEPT ![e] = @ + 1]
                ELSE /\ cache' = c
                     /\ UNCHANGED pins
    BY DEF Query
  <1> DEFINE e == c.tab[k]
  <1>2. Kept(c, pins) /\ CleanBut(c, {}) /\ k \in Cached(c)
    BY LookupAddKept DEF IInv
  <1>3. e \in Entry /\ e \in InTable(c)
    BY <1>2 DEF Kept, IsCache, InTable, Cached
  <1>4. CASE HasResult(c, e)
    <2>1. c.res[e] = "hits"
      BY <1>2, <1>3, <1>4 DEF HasResult, CleanBut, Kept, IsCache
    <2>2. Kept(IncUsage(c, e, 1), [pins EXCEPT ![e] = @ + 1]) /\ CleanBut(IncUsage(c, e, 1), {})
      BY <1>2, <1>3, <2>1, IncUsageKept
    <2> QED
      BY <1>1, <1>4, <2>2 DEF IInv
  <1>5. CASE ~HasResult(c, e)
    BY <1>1, <1>2, <1>5 DEF IInv
  <1> QED
    BY <1>4, <1>5

LEMMA UnpinIInv ==
    ASSUME IInv, NEW e \in Entry, Unpin(e)
    PROVE  IInv'
  <1>1. cache' = DecUsage(cache, e, 1) /\ pins' = [pins EXCEPT ![e] = @ - 1] /\ pins[e] > 0
    BY DEF Unpin
  <1>2. /\ Kept(cache', pins')
        /\ cache'.tab = cache.tab
        /\ \A f \in InTable(cache) : cache'.err[f] = cache.err[f] /\ cache'.res[f] = cache.res[f]
    BY <1>1, DecUsageKept DEF IInv
  <1>3. CleanBut(cache', {})
    BY <1>2 DEF IInv, CleanBut, Cached, InTable
  <1> QED
    BY <1>2, <1>3 DEF IInv

\* Whatever key goes, there are no more entries that carry an error.
LEMMA DeleteIInv ==
    ASSUME IInv, NEW k, cache' = Delete(cache, k), pins' = pins
    PROVE  IInv'
  <1>1. Kept(cache', pins) /\ CleanBut(cache', {} \ {k})
    BY DeleteKept DEF IInv
  <1>2. {} \ {k} = {}
    OBVIOUS
  <1> QED
    BY <1>1, <1>2 DEF IInv

LEMMA NewResultIInv ==
    ASSUME IInv, NEW k \in Key, NEW answer \in Answer, NEW n \in 0 .. MaxPins,
           NewResult(k, answer, n)
    PROVE  IInv'
  <1>1. PICK c \in LookupAdd(cache, k) :
            LET e == c.tab[k]
                told == IncUsage(Store(c, k, answer), e, n)
            IN  /\ cache' = DropError(told, k)
                /\ pins' = [pins EXCEPT ![e] = @ + n]
    BY DEF NewResult
  <1> DEFINE e == c.tab[k]
             stored == Store(c, k, answer)
             told == IncUsage(stored, e, n)
             q == [pins EXCEPT ![e] = @ + n]
  <1>2. Kept(c, pins) /\ CleanBut(c, {}) /\ k \in Cached(c)
    BY LookupAddKept DEF IInv
  <1>3. /\ Kept(stored, pins) /\ CleanBut(stored, {k})
        /\ stored.tab = c.tab
        /\ stored.err[e] \/ stored.res[e] = "hits"
    BY <1>2, StoreKept
  <1>4. k \in Key /\ e \in Entry /\ e \in InTable(stored) /\ n \in Nat
    BY <1>2, <1>3, SizeAssumption DEF Kept, IsCache, InTable, Cached
  <1>5. Kept(told, q) /\ CleanBut(told, {k})
    BY <1>3, <1>4, IncUsageKept
  <1>6. told.tab = stored.tab /\ told.err = stored.err /\ told.res = stored.res
    BY <1>3 DEF IncUsage, Kept, IsCache
  <1>7. CASE told.err[e]
    <2>1. cache' = Delete(told, k) /\ pins' = q
      BY <1>1, <1>3, <1>6, <1>7 DEF DropError
    <2>2. Kept(Delete(told, k), q) /\ CleanBut(Delete(told, k), {k} \ {k})
      BY <1>5, DeleteKept
    <2>3. {k} \ {k} = {}
      OBVIOUS
    <2> QED
      BY <2>1, <2>2, <2>3 DEF IInv
  <1>8. CASE ~told.err[e]
    <2>1. cache' = told /\ pins' = q
      BY <1>1, <1>3, <1>6, <1>8 DEF DropError
    <2>2. CleanBut(told, {})
      BY <1>3, <1>5, <1>6, <1>8 DEF CleanBut
    <2> QED
      BY <1>5, <2>1, <2>2 DEF IInv
  <1> QED
    BY <1>7, <1>8

LEMMA NextIInv == IInv /\ [CacheNext]_cvars => IInv'
  <1> SUFFICES ASSUME IInv, [CacheNext]_cvars
               PROVE  IInv'
    OBVIOUS
  <1>1. ASSUME NEW k \in Key, Query(k) PROVE IInv'
    BY <1>1, QueryIInv
  <1>2. ASSUME NEW k \in Key, Forget(k) PROVE IInv'
    BY <1>2, DeleteIInv DEF Forget
  <1>3. ASSUME NEW e \in Entry, Unpin(e) PROVE IInv'
    BY <1>3, UnpinIInv
  <1>4. ASSUME NEW k \in Key, NEW answer \in Answer, NEW n \in 0 .. MaxPins,
               NewResult(k, answer, n)
        PROVE  IInv'
    BY <1>4, NewResultIInv
  <1>5. ASSUME NEW limit \in {0, MaxSize}, StartCleanup(limit) PROVE IInv'
    BY <1>5 DEF StartCleanup, IInv
  <1>6. CASE Evict
    BY <1>6, DeleteIInv DEF Evict
  <1>7. CASE EndCleanup
    BY <1>7 DEF EndCleanup, IInv
  <1>8. CASE UNCHANGED cvars
    BY <1>8 DEF cvars, IInv
  <1> QED
    BY <1>1, <1>2, <1>3, <1>4, <1>5, <1>6, <1>7, <1>8 DEF CacheNext

LEMMA CacheInvariant == CacheSpec => []IInv
  BY InitIInv, NextIInv, PTL DEF CacheSpec

-----------------------------------------------------------------------------
(* The table and its list. *)

\* The list holds what the table leads to, once, and cache_tab_used counts it.
ListIsRight(c) == ListsOnce(c.lru, InTable(c)) /\ c.used = Len(c.lru)

\* cache_req_delete unlinks the entry that goes from the table.
LEMMA DeleteList ==
    ASSUME NEW c, IsCache(c), KeysAreRight(c), ListIsRight(c), NEW k,
           \A e \in InTable(c) : c.usage[e] > 0
    PROVE  ListIsRight(Delete(c, k))
  <1> DEFINE d == Delete(c, k)
             e == c.tab[k]
             f == DecUsage(c, e, 1)
  <1>1. CASE k \notin Cached(c)
    BY <1>1 DEF Delete
  <1>2. CASE k \in Cached(c)
    <2>1. k \in Key /\ e \in InTable(c) /\ e \in Entry /\ e # "none"
      BY <1>2 DEF IsCache, InTable, Cached
    <2>2. IsCache(f) /\ f.tab = c.tab /\ f.lru = c.lru /\ f.used = c.used
      <3>1. IsCache(f) /\ f.tab = c.tab
        BY <2>1, DecUsageFields
      <3>2. f.lru = c.lru /\ f.used = c.used
        BY DEF DecUsage, IsCache
      <3> QED
        BY <3>1, <3>2
    <2>3. d = [f EXCEPT !.tab[k] = "none", !.lru = RemoveFirst(@, e), !.used = @ - 1]
      BY <1>2 DEF Delete
    <2> HIDE DEF f, d
    <2>4. /\ d.tab = [c.tab EXCEPT ![k] = "none"]
          /\ d.lru = RemoveFirst(c.lru, e) /\ d.used = c.used - 1
      BY <2>2, <2>3 DEF IsCache
    <2>5. Cached(d) = Cached(c) \ {k} /\ \A j \in Cached(d) : d.tab[j] = c.tab[j] /\ c.tab[j] # e
      BY <1>2, <2>1, <2>4 DEF IsCache, Cached, KeysAreRight
    <2>6. InTable(d) = InTable(c) \ {e}
      BY <1>2, <2>5 DEF InTable
    <2>7. /\ ListsOnce(RemoveFirst(c.lru, e), InTable(c) \ {e})
          /\ Len(RemoveFirst(c.lru, e)) = Len(c.lru) - 1
      BY <2>1, Unlinked DEF ListIsRight
    <2> QED
      BY <2>4, <2>6, <2>7 DEF ListIsRight, d
  <1> QED
    BY <1>1, <1>2

\* An entry that is found comes to the front (cache_req_lookup).
LEMMA TouchList ==
    ASSUME NEW c, IsCache(c), ListIsRight(c), NEW k \in Cached(c)
    PROVE  ListIsRight(Touch(c, k))
  <1> DEFINE d == Touch(c, k)
             e == c.tab[k]
             r == RemoveFirst(c.lru, e)
  <1>1. e \in InTable(c)
    BY DEF InTable
  <1>2. d.tab = c.tab /\ d.used = c.used /\ d.lru = <<e>> \o r
    BY DEF Touch, IsCache
  <1>3. InTable(d) = InTable(c)
    BY <1>2 DEF InTable, Cached
  <1> HIDE DEF d, r
  <1>4. ListsOnce(r, InTable(c) \ {e}) /\ Len(r) = Len(c.lru) - 1
    BY <1>1, Unlinked DEF ListIsRight, r
  <1>5. ListsOnce(<<e>> \o r, (InTable(c) \ {e}) \cup {e}) /\ Len(<<e>> \o r) = Len(r) + 1
    BY <1>4, PutInFront
  <1>6. (InTable(c) \ {e}) \cup {e} = InTable(c)
    BY <1>1
  <1>7. Len(c.lru) \in Nat
    BY DEF ListIsRight, ListsOnce
  <1>8. Len(<<e>> \o r) = Len(c.lru)
    BY <1>4, <1>5, <1>7
  <1> QED
    BY <1>2, <1>3, <1>5, <1>6, <1>8 DEF ListIsRight, d

\* The entries come over to a larger table once each, in some order
\* (cache_tab_rehash).
LEMMA RehashedList ==
    ASSUME NEW c, IsCache(c), ListIsRight(c), NEW d \in Rehashed(c)
    PROVE  ListIsRight(d) /\ d.tab = c.tab /\ IsCache(d)
  <1>1. PICK order \in SetToSeqs(InTable(c)) :
            d = [c EXCEPT !.size = Prime(2 * c.size), !.lru = order,
                          !.used = Cardinality(InTable(c))]
    BY DEF Rehashed
  <1>2. /\ d.tab = c.tab /\ d.lru = order /\ d.used = Cardinality(InTable(c))
        /\ IsCache(d)
    BY <1>1 DEF IsCache
  <1>3. InTable(d) = InTable(c)
    BY <1>2 DEF InTable, Cached
  <1>4. IsFiniteSet(InTable(c))
    BY ListsOnceCount DEF ListIsRight
  <1>5. ListsOnce(order, InTable(c)) /\ Len(order) = Cardinality(InTable(c))
    BY <1>4, AnyOrder
  <1> QED
    BY <1>2, <1>3, <1>5 DEF ListIsRight

\* A new entry is the most recently used one (cache_req_add).
LEMMA FreshList ==
    ASSUME NEW c, IsCache(c), ListIsRight(c), NEW k \in Key, k \notin Cached(c),
           NEW e \in Entry, e \notin InTable(c)
    PROVE  ListIsRight(Fresh(c, k, e))
  <1> DEFINE d == Fresh(c, k, e)
  <1>1. d.tab = [c.tab EXCEPT ![k] = e] /\ d.lru = <<e>> \o c.lru /\ d.used = c.used + 1
    BY DEF Fresh, Add, IsCache
  <1> HIDE DEF d
  <1>2. e # "none"
    BY KeyAssumption
  <1>3. /\ Cached(d) = Cached(c) \cup {k} /\ d.tab[k] = e
        /\ \A j \in Cached(c) : d.tab[j] = c.tab[j]
    BY <1>1, <1>2 DEF IsCache, Cached
  <1>4. InTable(d) = InTable(c) \cup {e}
    BY <1>3 DEF InTable
  <1>5. /\ ListsOnce(<<e>> \o c.lru, InTable(c) \cup {e})
        /\ Len(<<e>> \o c.lru) = Len(c.lru) + 1
    BY PutInFront DEF ListIsRight
  <1> QED
    BY <1>1, <1>4, <1>5 DEF ListIsRight, d

LEMMA LookupAddList ==
    ASSUME NEW c, NEW p, Kept(c, p), ListIsRight(c), NEW k \in Key, NEW d \in LookupAdd(c, k)
    PROVE  ListIsRight(d)
  <1>1. CASE k \in Cached(c)
    BY <1>1, TouchList DEF LookupAdd, Kept
  <1>2. CASE k \notin Cached(c)
    <2>1. PICK r \in (IF c.used >= c.size \div 2 THEN Rehashed(c) ELSE {c}), e \in FreeMemory(c) :
              d = Fresh(r, k, e)
      BY <1>2 DEF LookupAdd
    <2>2. ListIsRight(r) /\ r.tab = c.tab /\ IsCache(r)
      BY <2>1, RehashedList DEF Kept
    <2>3. Cached(r) = Cached(c) /\ InTable(r) = InTable(c)
      BY <2>2 DEF Cached, InTable
    <2>4. e \in Entry /\ e \notin InTable(c)
      <3>1. e \in Entry /\ c.usage[e] = 0
        BY DEF FreeMemory
      <3>2. c.usage[e] = p[e] + (IF e \in InTable(c) THEN 1 ELSE 0) /\ p[e] \in Nat
        BY <3>1 DEF Kept, CountsAreRight
      <3> QED
        BY <3>1, <3>2
    <2> QED
      BY <1>2, <2>1, <2>2, <2>3, <2>4, FreshList
  <1> QED
    BY <1>1, <1>2

\* Neither an answer nor a use of an entry touches the table or its list.
LEMMA SameList ==
    ASSUME NEW c, IsCache(c), ListIsRight(c), NEW k, NEW answer \in Answer, NEW e, NEW n
    PROVE  ListIsRight(Store(c, k, answer)) /\ ListIsRight(IncUsage(c, e, n))
  <1>1. /\ Store(c, k, answer).tab = c.tab /\ Store(c, k, answer).lru = c.lru
        /\ Store(c, k, answer).used = c.used
    BY DEF Store, IsCache, Answer
  <1>2. /\ IncUsage(c, e, n).tab = c.tab /\ IncUsage(c, e, n).lru = c.lru
        /\ IncUsage(c, e, n).used = c.used
    BY DEF IncUsage, IsCache
  <1> QED
    BY <1>1, <1>2 DEF ListIsRight, InTable, Cached

\* In every cache that is kept, the entries of the table are in use.
LEMMA TableIsInUse ==
    ASSUME NEW c, NEW p, Kept(c, p)
    PROVE  \A e \in InTable(c) : c.usage[e] > 0
  <1> SUFFICES ASSUME NEW e \in InTable(c) PROVE c.usage[e] > 0
    OBVIOUS
  <1>1. e \in Entry
    BY DEF Kept, IsCache, InTable, Cached
  <1>2. c.usage[e] = p[e] + 1 /\ p[e] \in Nat
    BY <1>1 DEF Kept, CountsAreRight
  <1> QED
    BY <1>2

LEMMA ListStep ==
    ASSUME IInv, ListIsRight(cache), [CacheNext]_cvars
    PROVE  ListIsRight(cache')
  <1>0. Kept(cache, pins) /\ CleanBut(cache, {})
    BY DEF IInv
  <1>1. ASSUME NEW k \in Key, Query(k) PROVE ListIsRight(cache')
    <2>1. PICK c \in LookupAdd(cache, k) : cache' = c \/ cache' = IncUsage(c, c.tab[k], 1)
      BY <1>1 DEF Query
    <2>2. ListIsRight(c) /\ IsCache(c)
      BY <1>0, LookupAddList, LookupAddKept DEF Kept
    <2> QED
      BY <2>1, <2>2, SameList DEF Answer
  <1>2. ASSUME NEW k, cache' = Delete(cache, k) PROVE ListIsRight(cache')
    BY <1>0, <1>2, DeleteList, TableIsInUse DEF Kept
  <1>3. ASSUME NEW e \in Entry, Unpin(e) PROVE ListIsRight(cache')
    <2>1. cache'.tab = cache.tab /\ cache'.lru = cache.lru /\ cache'.used = cache.used
      BY <1>0, <1>3 DEF Unpin, DecUsage, Kept, IsCache
    <2> QED
      BY <2>1 DEF ListIsRight, InTable, Cached
  <1>4. ASSUME NEW k \in Key, NEW answer \in Answer, NEW n \in 0 .. MaxPins,
               NewResult(k, answer, n)
        PROVE  ListIsRight(cache')
    <2>1. PICK c \in LookupAdd(cache, k) :
              LET e == c.tab[k]
                  told == IncUsage(Store(c, k, answer), e, n)
              IN  /\ cache' = DropError(told, k)
                  /\ pins' = [pins EXCEPT ![e] = @ + n]
      BY <1>4 DEF NewResult
    <2> DEFINE e == c.tab[k]
               stored == Store(c, k, answer)
               told == IncUsage(stored, e, n)
               q == [pins EXCEPT ![e] = @ + n]
    <2>2. Kept(c, pins) /\ CleanBut(c, {}) /\ k \in Cached(c) /\ ListIsRight(c)
      BY <1>0, LookupAddKept, LookupAddList
    <2>3. /\ Kept(stored, pins) /\ CleanBut(stored, {k})
          /\ stored.tab = c.tab
          /\ stored.err[e] \/ stored.res[e] = "hits"
      BY <2>2, StoreKept
    <2>4. e \in Entry /\ e \in InTable(stored) /\ n \in Nat
      BY <2>2, <2>3, SizeAssumption DEF Kept, IsCache, InTable, Cached
    <2>5. Kept(told, q)
      BY <2>3, <2>4, IncUsageKept
    <2>6. ListIsRight(stored)
      BY <2>2, SameList DEF Kept
    <2>7. ListIsRight(told)
      BY <2>3, <2>6, SameList DEF Kept
    <2> HIDE DEF told
    <2>8. ListIsRight(Delete(told, k))
      BY <2>5, <2>7, DeleteList, TableIsInUse DEF Kept
    <2> QED
      BY <2>1, <2>7, <2>8 DEF DropError, told
  <1>5. CASE UNCHANGED cache
    BY <1>5
  <1> QED
    BY <1>1, <1>2, <1>3, <1>4, <1>5
       DEF CacheNext, cvars, Forget, StartCleanup, Evict, EndCleanup

LEMMA InitList == CacheInit => ListIsRight(cache)
  <1> SUFFICES ASSUME CacheInit PROVE ListIsRight(cache)
    OBVIOUS
  <1>1. cache.tab = [k \in Key |-> "none"] /\ cache.lru = <<>> /\ cache.used = 0
    BY DEF CacheInit, EmptyCache
  <1>2. InTable(cache) = {}
    BY <1>1 DEF InTable, Cached
  <1>3. <<>> \in Seq({}) /\ IsInjective(<<>>) /\ ToSet(<<>>) = {} /\ Len(<<>>) = 0
    BY DEF IsInjective, ToSet
  <1> QED
    BY <1>1, <1>2, <1>3 DEF ListIsRight, ListsOnce

LEMMA ListInvariant == CacheSpec => []ListIsRight(cache)
  <1>1. IInv /\ ListIsRight(cache) /\ [CacheNext]_cvars => ListIsRight(cache)'
    BY ListStep
  <1> QED
    BY <1>1, InitList, CacheInvariant, PTL DEF CacheSpec

-----------------------------------------------------------------------------
(* What an operation on one request does to the results of the others. *)

\* From c to d no request but k gains an entry or a result, or loses a result
\* and keeps its entry.
Untouched(c, d, k) ==
    \A j \in Cached(d) \ {k} :
        j \in Cached(c) /\ (HasResult(d, d.tab[j]) <=> HasResult(c, c.tab[j]))

\* A request that is looked up keeps its result, and a new one has none.
LEMMA LookupAddAnswers ==
    ASSUME NEW c, NEW p, Kept(c, p), NEW k \in Key, NEW d \in LookupAdd(c, k)
    PROVE  /\ Untouched(c, d, k) /\ d.tab[k] \in Entry
           /\ k \in Cached(c) => (d.tab[k] = c.tab[k] /\ (HasResult(d, d.tab[k]) <=> HasResult(c, c.tab[k])))
           /\ k \notin Cached(c) => ~HasResult(d, d.tab[k])
  <1>0. IsCache(c)
    BY DEF Kept
  <1>1. CASE k \in Cached(c)
    <2>1. d = [c EXCEPT !.lru = <<c.tab[k]>> \o RemoveFirst(@, c.tab[k])]
      BY <1>1 DEF LookupAdd, Touch
    <2>2. d.tab = c.tab /\ d.res = c.res /\ d.err = c.err
      BY <1>0, <2>1 DEF IsCache
    <2> QED
      BY <1>0, <1>1, <2>2 DEF Untouched, Cached, HasResult, IsCache
  <1>2. CASE k \notin Cached(c)
    <2>1. PICK r \in (IF c.used >= c.size \div 2 THEN Rehashed(c) ELSE {c}), e \in FreeMemory(c) :
              d = Fresh(r, k, e)
      BY <1>2 DEF LookupAdd
    <2>2. IsCache(r) /\ r.tab = c.tab /\ r.res = c.res /\ r.err = c.err
      <3>1. CASE r = c
        BY <1>0, <3>1
      <3>2. CASE r \in Rehashed(c)
        <4>1. PICK order : r = [c EXCEPT !.size = Prime(2 * c.size), !.lru = order,
                                         !.used = Cardinality(InTable(c))]
          BY <3>2 DEF Rehashed
        <4> QED
          BY <1>0, <4>1 DEF IsCache
      <3> QED
        BY <2>1, <3>1, <3>2
    <2>3. d.tab = [c.tab EXCEPT ![k] = e] /\ d.res = c.res /\ d.err = c.err
      BY <2>1, <2>2 DEF Fresh, Add, IsCache
    <2>4. e \in Entry /\ c.res[e] = "none" /\ ~c.err[e]
      BY DEF FreeMemory, Kept, FreeIsClean
    <2>5. d.tab[k] = e /\ \A j \in Key \ {k} : d.tab[j] = c.tab[j]
      BY <1>0, <2>3 DEF IsCache
    <2> QED
      BY <1>2, <2>3, <2>4, <2>5 DEF Untouched, Cached, HasResult
  <1> QED
    BY <1>1, <1>2

\* Two requests never have the same entry.
LEMMA OwnEntries ==
    ASSUME NEW c, NEW p, Kept(c, p), NEW j \in Cached(c)
    PROVE  j \in Key /\ c.tab[j] \in Entry /\ \A k \in Cached(c) \ {j} : c.tab[k] # c.tab[j]
  BY DEF Kept, IsCache, KeysAreRight, Cached

LEMMA StoreAnswers ==
    ASSUME NEW c, NEW p, Kept(c, p), CleanBut(c, {}), NEW k \in Cached(c), NEW answer \in Answer
    PROVE  LET d == Store(c, k, answer)
           IN  /\ Untouched(c, d, k) /\ HasResult(d, d.tab[k])
               /\ answer = "error" => d.err[d.tab[k]]
  <1> DEFINE d == Store(c, k, answer)
             e == c.tab[k]
  <1>1. d.tab = c.tab /\ (d.err[e] \/ d.res[e] = "hits")
    <2>1. /\ Kept(d, p) /\ CleanBut(d, {k}) /\ d.tab = c.tab
          /\ d.err[e] \/ d.res[e] = "hits"
      BY StoreKept
    <2> QED
      BY <2>1
  <1>2. e \in Entry /\ k \in Key /\ IsCache(c)
    BY OwnEntries DEF Kept
  <1>3. /\ \A g \in Entry \ {e} : d.res[g] = c.res[g] /\ d.err[g] = c.err[g]
        /\ answer = "error" => d.err[e]
    <2>1. CASE answer = "error"
      BY <1>2, <2>1 DEF Store, IsCache
    <2>2. CASE answer # "error" /\ c.res[e] # "none"
      BY <1>2, <2>2 DEF Store, IsCache
    <2>3. CASE answer = "hits" /\ c.res[e] = "none"
      BY <1>2, <2>3 DEF Store, IsCache
    <2>4. CASE answer = "malformed" /\ c.res[e] = "none"
      BY <1>2, <2>4 DEF Store, IsCache
    <2> QED
      BY <2>1, <2>2, <2>3, <2>4 DEF Answer
  <1> HIDE DEF d
  <1>4. ASSUME NEW j \in Cached(d) \ {k}
        PROVE  j \in Cached(c) /\ (HasResult(d, d.tab[j]) <=> HasResult(c, c.tab[j]))
    <2>1. j \in Cached(c) /\ c.tab[j] \in Entry \ {e}
      BY <1>1, OwnEntries DEF Cached
    <2> QED
      BY <1>1, <1>3, <2>1 DEF HasResult
  <1>5. HasResult(d, d.tab[k])
    BY <1>1 DEF HasResult
  <1> QED
    BY <1>1, <1>3, <1>4, <1>5 DEF Untouched, d

LEMMA DeleteAnswers ==
    ASSUME NEW c, NEW p, Kept(c, p), NEW k
    PROVE  Untouched(c, Delete(c, k), k) /\ k \notin Cached(Delete(c, k))
  <1> DEFINE d == Delete(c, k)
             e == c.tab[k]
             f == DecUsage(c, e, 1)
  <1>1. CASE k \notin Cached(c)
    BY <1>1 DEF Delete, Untouched
  <1>2. CASE k \in Cached(c)
    <2>1. e \in Entry /\ k \in Key /\ IsCache(c) /\ e \in InTable(c)
      BY <1>2, OwnEntries DEF Kept, InTable
    <2>2. c.usage[e] > 0 /\ c.usage[e] \in Nat
      BY <2>1, TableIsInUse DEF Kept, IsCache
    <2>3. /\ IsCache(f) /\ f.tab = c.tab
          /\ \A g \in Entry \ {e} : f.res[g] = c.res[g] /\ f.err[g] = c.err[g]
      <3>1. /\ IsCache(f) /\ f.tab = c.tab
            /\ c.usage[e] > 1 => f.key = c.key /\ f.res = c.res /\ f.err = c.err
            /\ c.usage[e] = 1 => /\ f.key = [c.key EXCEPT ![e] = "none"]
                                 /\ f.res = [c.res EXCEPT ![e] = "none"]
                                 /\ f.err = [c.err EXCEPT ![e] = FALSE]
        BY <2>1, <2>2, DecUsageFields
      <3> QED
        BY <2>1, <2>2, <3>1 DEF IsCache
    <2>4. d = [f EXCEPT !.tab[k] = "none", !.lru = RemoveFirst(@, e), !.used = @ - 1]
      BY <1>2 DEF Delete
    <2> HIDE DEF f, d
    <2>5. d.tab = [c.tab EXCEPT ![k] = "none"] /\ d.res = f.res /\ d.err = f.err
      BY <2>3, <2>4 DEF IsCache
    <2>6. d.tab[k] = "none" /\ \A j \in Key \ {k} : d.tab[j] = c.tab[j]
      BY <2>1, <2>5 DEF IsCache
    <2>7. ASSUME NEW j \in Cached(d) \ {k}
          PROVE  j \in Cached(c) /\ (HasResult(d, d.tab[j]) <=> HasResult(c, c.tab[j]))
      <3>1. j \in Cached(c) /\ d.tab[j] = c.tab[j]
        BY <2>6 DEF Cached
      <3>2. c.tab[j] \in Entry \ {e}
        BY <1>2, <3>1, OwnEntries
      <3> QED
        BY <2>3, <2>5, <3>1, <3>2 DEF HasResult
    <2> QED
      BY <2>6, <2>7 DEF Untouched, Cached, d
  <1> QED
    BY <1>1, <1>2

\* cache_newresult leaves a result for the request or, after an error, nothing.
LEMMA NewResultAnswers ==
    ASSUME NEW c, NEW p, Kept(c, p), CleanBut(c, {}), NEW k \in Key, NEW b \in LookupAdd(c, k),
           NEW answer \in Answer, NEW n \in Nat
    PROVE  LET d == DropError(IncUsage(Store(b, k, answer), b.tab[k], n), k)
           IN  /\ Untouched(c, d, k) /\ (k \in Cached(d) => HasResult(d, d.tab[k]))
               /\ answer = "error" => k \notin Cached(d)
  <1> DEFINE e == b.tab[k]
             s == Store(b, k, answer)
             t == IncUsage(s, e, n)
             d == DropError(t, k)
             q == [p EXCEPT ![e] = @ + n]
  <1>1. Kept(b, p) /\ CleanBut(b, {}) /\ k \in Cached(b) /\ Untouched(c, b, k) /\ e \in Entry
    BY LookupAddKept, LookupAddAnswers
  <1>2. /\ Kept(s, p) /\ CleanBut(s, {k}) /\ s.tab = b.tab
        /\ s.err[e] \/ s.res[e] = "hits"
        /\ Untouched(b, s, k) /\ HasResult(s, s.tab[k])
        /\ answer = "error" => s.err[s.tab[k]]
    BY <1>1, StoreKept, StoreAnswers
  <1> HIDE DEF s
  <1>3. e \in InTable(s) /\ k \in Cached(s)
    BY <1>1, <1>2 DEF InTable, Cached
  <1>4. Kept(t, q)
    BY <1>1, <1>2, <1>3, IncUsageKept
  <1>5. t.tab = s.tab /\ t.res = s.res /\ t.err = s.err
    BY <1>2 DEF IncUsage, Kept, IsCache
  <1> HIDE DEF t
  <1>6. Cached(t) = Cached(s) /\ Untouched(c, t, k) /\ HasResult(t, t.tab[k])
    BY <1>1, <1>2, <1>5 DEF Untouched, Cached, HasResult
  <1>7. CASE t.err[t.tab[k]]
    <2>1. d = Delete(t, k)
      BY <1>7 DEF DropError
    <2>2. Untouched(t, d, k) /\ k \notin Cached(d)
      BY <1>4, <2>1, DeleteAnswers
    <2> HIDE DEF d
    <2>3. Untouched(c, d, k)
      BY <1>6, <2>2 DEF Untouched
    <2> QED
      BY <2>2, <2>3 DEF d, t, s
  <1>8. CASE ~t.err[t.tab[k]]
    <2>1. d = t
      BY <1>8 DEF DropError
    <2>2. answer # "error"
      BY <1>2, <1>5, <1>8
    <2> QED
      BY <1>6, <2>1, <2>2 DEF d, t, s
  <1> QED
    BY <1>7, <1>8

\* An entry that is sent from no longer keeps its result while it is in the table.
LEMMA UnpinAnswers ==
    ASSUME NEW c, NEW p, Kept(c, p), NEW e \in Entry, p[e] > 0
    PROVE  LET d == DecUsage(c, e, 1)
           IN  Cached(d) = Cached(c) /\ \A k : Untouched(c, d, k)
  <1> DEFINE d == DecUsage(c, e, 1)
  <1>1. /\ d.tab = c.tab /\ \A f \in InTable(c) : d.err[f] = c.err[f] /\ d.res[f] = c.res[f]
    BY DecUsageKept
  <1> HIDE DEF d
  <1>2. Cached(d) = Cached(c) /\ \A j \in Cached(c) : c.tab[j] \in InTable(c)
    BY <1>1 DEF Cached, InTable
  <1> QED
    BY <1>1, <1>2 DEF Untouched, HasResult, d

-----------------------------------------------------------------------------
(* The theorems. *)

\* cache_req_decusage: an entry is freed neither while it is in use nor kept
\* when it is not, whatever the clients, the servers and the cleanup do.
THEOREM UsageCorrect == CacheSpec => []UsageIsExact
  <1>1. IInv => UsageIsExact
    BY DEF IInv, Kept, CountsAreRight, UsageIsExact
  <1> QED
    BY <1>1, CacheInvariant, PTL

\* cache_generateclientresult: there is something to send from every entry a
\* client has pinned, though errors and cleanups take it from the table.
THEOREM PinnedCorrect == CacheSpec => []PinnedCanBeSent
  <1>1. IInv => PinnedCanBeSent
    BY DEF IInv, Kept, Sendable, PinnedCanBeSent
  <1> QED
    BY <1>1, CacheInvariant, PTL

\* cache_newresult: a request is never answered with a cached error.
THEOREM ErrorsCorrect == CacheSpec => []ErrorsAreNotCached
  <1>1. IInv => ErrorsAreNotCached
    BY DEF IInv, CleanBut, InTable, ErrorsAreNotCached
  <1> QED
    BY <1>1, CacheInvariant, PTL

\* cache_verify: through every look-up, rebuilding of the table, error and
\* clean-up the list holds each entry of the table once, and nothing else.
THEOREM ListCorrect == CacheSpec => []LruMatchesTable
  <1>1. IInv /\ ListIsRight(cache) => LruMatchesTable
    <2> SUFFICES ASSUME IInv, ListIsRight(cache) PROVE LruMatchesTable
      OBVIOUS
    <2>1. Cardinality(InTable(cache)) = Len(cache.lru)
      BY ListsOnceCount DEF ListIsRight
    <2> QED
      BY <2>1 DEF IInv, Kept, KeysAreRight, ListIsRight, ListsOnce, LruMatchesTable
  <1> QED
    BY <1>1, CacheInvariant, ListInvariant, PTL
=============================================================================
