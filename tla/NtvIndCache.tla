---------------------------- MODULE NtvIndCache ----------------------------
(***************************************************************************)
(* The indexer between a hit and the files (ntvindcache.c, ntvindex.c,     *)
(* ntvblkbuf.c): hits wait in the primary cache, in lists by their number, *)
(* are encoded into the last sync run of their record when the record or   *)
(* the cache has too many, and the runs live in the blocks of NtvBlocks.   *)
(* A run of the program adds hits to documents in order and saves; the     *)
(* next one goes on with what was saved.                                   *)
(*                                                                         *)
(* The program is sequential: a step is a whole call.  A hit is the number *)
(* of its document, a fragment the gaps encoded in it; an encoding has the *)
(* length of the real one (Golomb code with b = 2^logb, then a frequency   *)
(* in FreqBits bits), its bits are left out.                               *)
(***************************************************************************)
EXTENDS NtvBlocks

CONSTANTS Rec,                  \* words and patterns of the texts
          HasFreqs,             \* those whose hits carry a frequency (ST_DOCWORD)
          WordBits,             \* bits in a word
          FreqBits,             \* length of an encoded frequency
          SameHitsMin,          \* SAMEHITSMIN
          Quant,                \* 1 << SAMEHITSQUANTSHIFT
          LowHitsMax,           \* LOWLOWHITSMAX
          LowFreq,              \* LOWLOWFREQ
          MaxRecHits,           \* nMaxRecHits
          MaxTotalHits,         \* nMaxTotalHits
          Docs,                 \* bound: the documents that may have one of the words
          MaxRuns               \* bound: runs of the indexer

ASSUME IndCacheAssumption ==
    /\ HasFreqs \subseteq Rec /\ LowHitsMax =< SameHitsMin
    /\ {WordBits, SameHitsMin, Quant, MaxRecHits, MaxTotalHits, MaxRuns} \subseteq Nat \ {0}
    /\ {FreqBits, LowHitsMax, LowFreq} \subseteq Nat
    /\ Docs \subseteq Nat \ {0}

\* The texts are finite.
ASSUME RecAssumption == IsFiniteSet(Rec)

VARIABLES ix,                   \* the store st and the primary cache of the indexer
          doc,                  \* the document being indexed
          indexing,             \* a run is going on
          runs,                 \* how many there were
          saved                 \* rec.ntv, as the last run left it

vars == <<ix, doc, indexing, runs, saved>>

SyncMaxWords == FragMax - 1
SyncMaxBits == SyncMaxWords * WordBits
Weight(r) == IF r \in HasFreqs THEN 2 ELSE 1
AtLeast0(n) == IF n < 0 THEN 0 ELSE n
Pow2(k) == LET p[i \in 0..k] == IF i = 0 THEN 1 ELSE 2 * p[i - 1] IN p[k]
FloorLog2(n) == IF n =< 0 THEN 0 ELSE CHOOSE k \in 0..n : Pow2(k) =< n /\ n < Pow2(k + 1)
CeilDiv(n, d) == (n + d - 1) \div d

\* A run has room for the code of any gap there is between two documents.
ASSUME RunsAssumption == \A d \in Docs : FreqBits + 2 + FloorLog2(d) < SyncMaxBits

\* The lists of records by their number of hits, one for each number that is small and
\* then one for every Quant.
SameHits == ({"small"} \X (0..SameHitsMin)) \cup ({"big"} \X (0..MaxRecHits \div Quant))

EmptyCache(st) ==
    [st |-> st, hits |-> [r \in Rec |-> <<>>],
     lists |-> [l \in SameHits |-> <<>>],
     top |-> 0, nlow |-> [n \in 0..SameHitsMin |-> 0], nlowtotal |-> 0, total |-> 0]
----------------------------------------------------------------------------
(* Encoding hits into the runs of a record. *)

Bits(r, logb, gaps) ==
    Total([i \in DOMAIN gaps |-> (gaps[i] - 1) \div Pow2(logb) + 1 + logb
                                 + (IF r \in HasFreqs THEN FreqBits ELSE 0)])

\* How many of the gaps go into a run that has bitlen bits already.
Fit(r, logb, bitlen, gaps) ==
    CHOOSE k \in 0..Len(gaps) :
        /\ k = 0 \/ bitlen + Bits(r, logb, SubSeq(gaps, 1, k)) < SyncMaxBits
        /\ k = Len(gaps) \/ bitlen + Bits(r, logb, SubSeq(gaps, 1, k + 1)) >= SyncMaxBits

\* The parameter of a new run whose first gap is too big for newlogb.
LocalB(r, gaps) ==
    LET first == FloorLog2(AtLeast0(Total(gaps) - Len(gaps)) \div Len(gaps))
    IN  CHOOSE b \in first..(first + Total(gaps)) :
            /\ Fit(r, b, 0, gaps) > 0
            /\ \A c \in first..b - 1 : Fit(r, c, 0, gaps) = 0

EmptyRun(r, frag, base, logb) ==
    [rec |-> r, frag |-> frag, base |-> base, ndocs |-> 0, logb |-> logb, gaps |-> <<>>, size |-> 0]

\* The run goes on with some more gaps, in full words when it is full then.
Extended(f, logb, newlen, more, fits) ==
    [f EXCEPT !.gaps = @ \o fits, !.ndocs = @ + Len(fits), !.logb = logb,
              !.size = 1 + IF more THEN SyncMaxWords ELSE CeilDiv(newlen, WordBits)]

\* A fragment f that has grown into run is given its room, and written.
Written(st, f, run) ==
    WriteFragment(IF f.gaps # <<>> /\ run.size > f.size THEN GrowFragment(st, f.rec, f.frag, run.size)
                  ELSE st, run)

\* Encoding goes on with a store, the last run of a record, and the gaps that are left.
\* A run that cannot take them all is flushed with its block, and the rest goes into the
\* next one; the first of them, fits, make it newlen bits long and lead to docnum.
RunDone(x, newlogb, logb, newlen, fits, docnum) ==
    LET r == x.run.rec
        more == Len(fits) # Len(x.rest)
        Ended(st) ==
            IF more
            THEN [st |-> FlushBlock([st EXCEPT !.rc[r].lastdoc = docnum], st.rc[r].blk),
                  run |-> EmptyRun(r, x.run.frag + 1, docnum, newlogb),
                  rest |-> SubSeq(x.rest, Len(fits) + 1, Len(x.rest))]
            ELSE [x EXCEPT !.st = [st EXCEPT !.rc[r].bitsize = newlen, !.rc[r].lastdoc = docnum],
                           !.rest = <<>>]
    IN  Ended(Written(x.st, x.run, Extended(x.run, logb, newlen, more, fits)))

EncodeFits(x, newlogb, logb, bitlen, fits) ==
    RunDone(x, newlogb, logb, bitlen + Bits(x.run.rec, logb, fits), fits,
            x.st.rc[x.run.rec].lastdoc + Total(fits))

EncodeRun(x, newlogb, logb, bitlen) ==
    EncodeFits(x, newlogb, logb, bitlen, SubSeq(x.rest, 1, Fit(x.run.rec, logb, bitlen, x.rest)))

\* A run goes on where it ended, or is a new one, of which the first gap decides.
NextRun(x, newlogb) ==
    LET r == x.run.rec
        new == x.run.gaps = <<>>
    IN  IF x.rest = <<>> THEN x
        ELSE EncodeRun(x, newlogb,
                       IF new /\ Fit(r, x.run.logb, 0, x.rest) = 0 THEN LocalB(r, x.rest)
                       ELSE x.run.logb,
                       IF new THEN 0 ELSE x.st.rc[r].bitsize)

\* encode_to_syncrun_freq; f is the last fragment as it is, empty to create it.  Every run
\* but the first takes one gap at least.
Encode(st, f, gaps, newlogb) ==
    LET at[i \in 0..Len(gaps) + 1] ==
            IF i = 0 THEN [st |-> st, run |-> f, rest |-> gaps] ELSE NextRun(at[i - 1], newlogb)
    IN  at[Len(gaps) + 1].st

Gaps(docs, last) == [i \in DOMAIN docs |-> docs[i] - (IF i = 1 THEN last ELSE docs[i - 1])]
----------------------------------------------------------------------------
(* The primary cache. *)

\* The list of the records with n hits.
ListOf(n) == IF n =< SameHitsMin THEN <<"small", n>> ELSE <<"big", n \div Quant>>

\* A mutant of LeaveList: the record that came first leaves it.
LeaveListFirst(c, l, r) == [c EXCEPT !.lists[l] = Tail(@)]

LeaveList(c, l, r) == [c EXCEPT !.lists[l] = RemoveFirst(@, r)]
EnterList(c, l, r) == [c EXCEPT !.lists[l] = Append(@, r)]

\* The hits go on after the run old, which may be empty.  ("fucked": fewer documents than
\* hits; the program exits.)
Appended(st, r, hits, old) ==
    LET n == Len(hits)
        misses == Last(hits) - old.base - old.ndocs - n
        newlogb == FloorLog2(AtLeast0(misses) \div (old.ndocs + n))
        freq == st.rc[r].freq + n
        counted == [st EXCEPT !.rc[r].freq = freq, !.fault = @ \/ misses < 0,
                              !.maxlen = IF freq > @ THEN freq ELSE @]
    IN  Encode(counted, IF old.gaps = <<>> THEN [old EXCEPT !.logb = newlogb] ELSE old,
               Gaps(hits, st.rc[r].lastdoc), newlogb)

AppendedIn(st, r, hits) == Appended(st, r, hits, LastFrag(st, r))

Compressed(st, r, hits) ==
    IF st.rc[r].freq > 0 /\ st.rc[r].bitsize # 0
    THEN AppendedIn(Fetch(st, st.rc[r].blk, r), r, hits)
    ELSE Appended(st, r, hits, EmptyRun(r, st.rc[r].nfrags - 1, st.rc[r].lastdoc, 0))

\* indCacheFlush
FlushRec(c, r) ==
    LeaveList([c EXCEPT !.st = Compressed(@, r, c.hits[r]), !.hits[r] = <<>>,
                        !.total = @ - Len(c.hits[r]) * Weight(r)],
              ListOf(Len(c.hits[r])), r)

\* The records that were never compressed, when they take too much of the cache: the
\* oldest 7/8 of those with 1, 2 ... hits.
FlushIfLow(c, r, n, limit) ==
    IF c.nlow[n] > limit /\ c.st.rc[r].freq =< LowFreq
    THEN [FlushRec(c, r) EXCEPT !.nlowtotal = @ - 1, !.nlow[n] = @ - 1] ELSE c

FlushLow(c, n) ==
    LET recs == c.lists[<<"small", n>>]
        at[i \in 0..Len(recs)] ==
            IF i = 0 THEN c ELSE FlushIfLow(at[i - 1], recs[i], n, c.nlow[n] \div 8)
    IN  at[Len(recs)]

FlushLows(c) ==
    LET at[n \in 0..LowHitsMax] == IF n = 0 THEN c ELSE FlushLow(at[n - 1], n) IN at[LowHitsMax]

\* The records of one list until there are few enough hits.
FlushList(c, l, lowater) ==
    LET recs == c.lists[l]
        at[i \in 0..Len(recs)] ==
            IF i = 0 THEN c
            ELSE IF at[i - 1].total =< lowater THEN at[i - 1] ELSE FlushRec(at[i - 1], recs[i])
    IN  at[Len(recs)]

\* nSameHitsTop is where the search ended, 0 when it came to the small numbers.
Settled(c, l) ==
    [c EXCEPT !.top = IF l[1] = "small" THEN 0
                      ELSE IF c.lists[l] = <<>> THEN AtLeast0(l[2] - 1) ELSE l[2]]

FlushLevel(c, l, lowater) ==
    IF c.total =< lowater THEN c ELSE Settled(FlushList(c, l, lowater), l)

\* The longest lists first, from nSameHitsTop down.
Levels(c) ==
    [j \in 1..c.top + 1 |-> <<"big", c.top + 1 - j>>] \o
    [j \in 1..SameHitsMin + 1 |-> <<"small", SameHitsMin + 1 - j>>]

FlushLevels(c, lowater) ==
    LET levels == Levels(c)
        at[j \in 0..Len(levels)] ==
            IF j = 0 THEN c ELSE FlushLevel(at[j - 1], levels[j], lowater)
    IN  at[Len(levels)]

\* indCacheFlushHits
FlushHits(c, lowater) ==
    FlushLevels(IF c.nlowtotal >= lowater \div 3 THEN FlushLows(c) ELSE c, lowater)

\* The count of records never compressed, when r has one hit more.
CountLow(c, r, n) ==
    IF n > LowHitsMax + 1 \/ c.st.rc[r].freq > LowFreq THEN c
    ELSE [c EXCEPT !.nlow = [k \in DOMAIN @ |-> CASE k = n /\ n =< LowHitsMax -> @[k] + 1
                                                  [] k = n - 1 /\ n > 1 -> @[k] - 1
                                                  [] OTHER -> @[k]],
                   !.nlowtotal = @ + (IF n = 1 THEN 1 ELSE 0)
                                   - (IF n = LowHitsMax + 1 THEN 1 ELSE 0)]

\* The record goes to the list for n hits.
Moved(c, r, n) ==
    IF n > 1 /\ ListOf(n) = ListOf(n - 1) THEN c
    ELSE EnterList(IF n > 1 THEN LeaveList(c, ListOf(n - 1), r) ELSE c, ListOf(n), r)

Added(c, r, d, n) ==
    [CountLow(Moved(c, r, n), r, n) EXCEPT
        !.hits[r] = Append(@, d), !.total = @ + Weight(r),
        !.top = IF n \div Quant > @ THEN n \div Quant ELSE @]

FlushedIfFull(c, r) ==
    IF Len(c.hits[r]) >= MaxRecHits THEN FlushRec(c, r)
    ELSE IF c.total >= MaxTotalHits THEN FlushHits(c, (c.total * 9) \div 10)
    ELSE c

\* indCacheAdd, indCacheAddFreq
AddHit(c, r, d) == FlushedIfFull(Added(c, r, d, Len(c.hits[r]) + 1), r)

\* initnewrecord
NewRecord(st, r) ==
    IF r \in DOMAIN st.rc THEN st
    ELSE [st EXCEPT !.rc = With(@, r, [freq |-> 0, nfrags |-> 1, bitsize |-> 0, lastdoc |-> 0, blk |-> 0])]
----------------------------------------------------------------------------
(* The program. *)

NothingSaved == [rc |-> <<>>, blockcount |-> 1]

Init ==
    /\ ix = EmptyCache(EmptyStore)
    /\ doc = 0 /\ indexing = TRUE /\ runs = 1 /\ saved = NothingSaved

NextDoc ==
    /\ indexing
    /\ \E d \in Docs : d > doc /\ (\A e \in Docs : e > doc => d =< e) /\ doc' = d
    /\ UNCHANGED <<ix, indexing, runs, saved>>

Pending(r) == ix.hits[r] # <<>> /\ Last(ix.hits[r]) = doc
Encoded(r) == r \in DOMAIN ix.st.rc /\ ix.st.rc[r].lastdoc = doc

\* A word is added once for a document.
Add(r) ==
    /\ indexing /\ doc > 0 /\ ~Pending(r) /\ ~Encoded(r)
    /\ ix' = AddHit([ix EXCEPT !.st = NewRecord(@, r)], r, doc)
    /\ UNCHANGED <<doc, indexing, runs, saved>>

\* Mutants of the next two: a fragment too many is saved; the last one is used again.
SaveEveryFragment(rec) == rec
OpenLastFragment(rec) == [rec EXCEPT !.bitsize = 0, !.blk = 0]

\* A record that was advanced has nothing in its last fragment.
SavedRecord(rec) == IF rec.bitsize = 0 THEN [rec EXCEPT !.nfrags = @ - 1] ELSE rec

\* Lists go on at the end of the reference file, in a new fragment.
OpenedRecord(rec) == [rec EXCEPT !.nfrags = @ + 1, !.bitsize = 0, !.blk = 0]

SavedAs(st) ==
    /\ ix' = EmptyCache(st)
    /\ saved' = [rc |-> [r \in DOMAIN st.rc |-> SavedRecord(st.rc[r])], blockcount |-> st.blockout]

\* ntvIndexSave: indCachePurge, BFclose
Save ==
    /\ indexing
    /\ SavedAs(FlushDirtyBlocks(FlushHits(ix, 0).st))
    /\ indexing' = FALSE
    /\ UNCHANGED <<doc, runs>>

\* BFinitbuffer and rfbmap_indexer_read, in the next process
Open ==
    /\ ~indexing /\ runs < MaxRuns
    /\ ix' = EmptyCache(
                [EmptyStore EXCEPT
                    !.rc = [r \in DOMAIN saved.rc |-> OpenedRecord(saved.rc[r])],
                    !.blockcount = saved.blockcount, !.blockout = saved.blockcount,
                    !.maxlen = Max({saved.rc[r].freq : r \in DOMAIN saved.rc} \cup {0}),
                    !.ref = ix.st.ref, !.rfb = ix.st.rfb])
    /\ indexing' = TRUE /\ runs' = runs + 1
    /\ UNCHANGED <<doc, saved>>

Next == NextDoc \/ Save \/ Open \/ \E r \in Rec : Add(r)

Spec == Init /\ [][Next]_vars
----------------------------------------------------------------------------
(* What a reader finds: the whole list of a record, fragment after fragment. *)

Decode(f) ==
    LET pos[i \in 1..f.ndocs] == f.gaps[i] + (IF i = 1 THEN f.base ELSE pos[i - 1]) IN pos
Find(recs, r, frag) == LET i == Place(recs, r, frag) IN IF i = 0 THEN <<>> ELSE Decode(recs[i])

OnDisk(r, frag) ==
    IF <<r, frag>> \in DOMAIN ix.st.rfb THEN Find(ix.st.ref[ix.st.rfb[<<r, frag>>]], r, frag) ELSE <<>>
InCache(r, frag) ==
    LET b == ix.st.rc[r].blk
    IN  IF b \in DOMAIN ix.st.blocks THEN Find(ix.st.blocks[b].recs, r, frag) ELSE <<>>
ReadList(r, n) == FlattenSeq([f \in 1..n |-> OnDisk(r, f - 1)])

Posting(r) ==
    IF r \notin DOMAIN ix.st.rc THEN <<>>
    ELSE LET last == ix.st.rc[r].nfrags - 1
         IN  ReadList(r, last) \o (IF ix.st.rc[r].bitsize = 0 THEN <<>> ELSE InCache(r, last))
             \o ix.hits[r]
Searchable(r) == IF r \in DOMAIN saved.rc THEN ReadList(r, saved.rc[r].nfrags) ELSE <<>>

Abstract == INSTANCE NtvPostings WITH posting <- [r \in Rec |-> Posting(r)],
                                      searchable <- [r \in Rec |-> Searchable(r)]
----------------------------------------------------------------------------
(* Properties. *)

\* No hit is lost, doubled or put out of order on its way from the primary cache through
\* the sync runs and the blocks, whatever is flushed when (indCacheAdd, indCacheFlushHits,
\* BFrecord_frag_grow, cache_flush_least_important_dirty_block), and after ntvIndexSave a
\* reader finds every hit of every run so far: the indexer implements NtvPostings.
HitsArePostings == Abstract!PostingsSpec

\* None of the "Internal error" exits of ntvblkbuf.c and ntvindcache.c is reached: the
\* block of a record is where the record table says, holds its last fragment, has the
\* room the free list promised, and no block is used after it was written out.
NeverInternalError == ~ix.st.fault

\* The free list (freeblock_get, freelist_del) names cached blocks only, each once and
\* with exactly the room it has, although blocks are written out, grow and lose records
\* without a look at it; and no block with enough room is forgotten.
FreeListIsExact ==
    LET entries == {ix.st.free[i] : i \in DOMAIN ix.st.free}
    IN  /\ Len(ix.st.free) = Cardinality({e.blk : e \in entries})
        /\ \A e \in entries : /\ e.blk \in DOMAIN ix.st.blocks
                              /\ e.bytes = Room(ix.st.blocks[e.blk].recs)
        /\ \A b \in DOMAIN ix.st.blocks :
              Room(ix.st.blocks[b].recs) >= FreeTolerance => \E e \in entries : e.blk = b

\* The primary cache's books (indCacheAdd, indCacheFlush, indCacheFlushHits): every hit
\* is counted, a record with hits is in the list for their number and in no other, the
\* lists above nSameHitsTop are empty, and the counts of records never compressed are
\* never short (the second part of indCacheFlushHits does not lower them).
CountersAreRight ==
    /\ ix.total = Cardinality(UNION {{r} \X (1..Len(ix.hits[r]) * Weight(r)) : r \in Rec})
    /\ ix.total =< MaxTotalHits
    /\ \A l \in SameHits :
          /\ IsInjective(ix.lists[l])
          /\ ToSet(ix.lists[l]) = {r \in Rec : ix.hits[r] # <<>> /\ ListOf(Len(ix.hits[r])) = l}
    /\ \A k \in 0..MaxRecHits \div Quant : ix.lists[<<"big", k>>] # <<>> => k =< ix.top
    /\ \A n \in 1..LowHitsMax :
          ix.nlow[n] >= Cardinality({r \in DOMAIN ix.st.rc :
                                        Len(ix.hits[r]) = n /\ ix.st.rc[r].freq =< LowFreq})

\* The secondary cache (cache_fetch, cache_flush_block) counts its blocks, has each in one
\* list, and is over BFcachemaxsize only while no frequency area has two to choose from.
CacheIsBounded ==
    /\ ix.st.cachecnt = Cardinality(DOMAIN ix.st.blocks)
    /\ ix.st.cachecnt =< IF MaxCache > Areas THEN MaxCache ELSE Areas + 1
    /\ \A b \in DOMAIN ix.st.blocks : Contains(ix.st.lists[ix.st.blocks[b].fidx], b)

\* What rfbmap_searcher_read checks when a searcher opens the saved index: an entry for
\* every fragment of every record, none for another, and blocks that were written.
SavedIndexOpens ==
    ~indexing =>
        /\ DOMAIN ix.st.rfb = UNION {{<<r, f>> : f \in 0..saved.rc[r].nfrags - 1} : r \in DOMAIN saved.rc}
        /\ \A e \in DOMAIN ix.st.rfb : ix.st.rfb[e] \in 1..saved.blockcount - 1
        /\ DOMAIN ix.st.ref = 1..saved.blockcount - 1
=============================================================================
