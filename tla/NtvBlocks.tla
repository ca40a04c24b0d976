----------------------------- MODULE NtvBlocks -----------------------------
(***************************************************************************)
(* The blocks of the indexer (ntvblkbuf.c): the last fragment of every     *)
(* record shares a block of the secondary cache with others; a free list   *)
(* finds room; a block goes to the end of the reference file when it is    *)
(* full or the cache is, and its records are then "advanced": they go on   *)
(* in a new fragment and never look at the block again.  A fragment that   *)
(* was written is found by the rfbmap entry (record, fragment) -> block.   *)
(*                                                                         *)
(* The operators take the store, a record st, and return the next one:     *)
(*   rc      the record table: freq, nfrags, bitsize, lastdoc, blk         *)
(*   blocks  the cached blocks by number: fidx and the fragments in them   *)
(*   lists   their numbers by frequency area, used last first              *)
(*   free    the free list, entered last first                             *)
(*   cachecnt, blockcount, blockout, maxlen (ntvmaxentrylength)            *)
(*   ref, rfb  the reference file and the rfbmap file                      *)
(*   fault   an "Internal error" was logged                                *)
(* A size is a number of words; a sync header takes one.  Every cached     *)
(* block of an indexer is dirty from the moment it is made.                *)
(***************************************************************************)
EXTENDS Integers, Sequences, FiniteSets, SequencesExt

CONSTANTS BlockSize,            \* BFBLOCKSIZE without the count of records
          RecEnt,               \* sizeof(struct recentry)
          Areas,                \* BFNFREQ_AREAS
          MaxCache              \* BFcachemaxsize

ASSUME BlocksAssumption ==
    /\ {BlockSize, RecEnt, Areas, MaxCache} \subseteq Nat \ {0}
    /\ BlockSize > RecEnt + 1

FragMax == BlockSize - RecEnt
FreeTolerance == RecEnt + 1

Total(sizes) ==
    LET sum[i \in 0..Len(sizes)] == IF i = 0 THEN 0 ELSE sum[i - 1] + sizes[i] IN sum[Len(sizes)]
Room(recs) == BlockSize - Len(recs) * RecEnt - Total([i \in DOMAIN recs |-> recs[i].size])

\* (int)(log(freq) / log(ntvmaxentrylength + 1) * BFNFREQ_AREAS), which is less than
\* BFNFREQ_AREAS because no record has more hits than ntvmaxentrylength.
FIdx(st, r) ==
    Max({0} \cup {k \in 0..Areas - 1 : (st.maxlen + 1) ^ k =< st.rc[r].freq ^ Areas})

EmptyStore ==
    [rc |-> <<>>, blocks |-> <<>>, lists |-> [a \in 0..Areas - 1 |-> <<>>], free |-> <<>>,
     cachecnt |-> 0, blockcount |-> 1, blockout |-> 1, maxlen |-> 0,
     ref |-> <<>>, rfb |-> <<>>, fault |-> FALSE]

Fault(st) == [st EXCEPT !.fault = TRUE]
With(f, k, v) == [x \in DOMAIN f \cup {k} |-> IF x = k THEN v ELSE f[x]]
WithoutKey(f, k) == [x \in DOMAIN f \ {k} |-> f[x]]
----------------------------------------------------------------------------
(* The free list. *)

FreelistDel(st, b) == [st EXCEPT !.free = RemoveFirstMatch(@, LAMBDA e : e.blk = b)]

\* upd: the entry of the block, if it has one, is changed and keeps its area.
AddToFree(st, b, fidx, bytes, upd) ==
    LET old == {i \in DOMAIN st.free : upd /\ st.free[i].blk = b}
        entry == [blk |-> b, fidx |-> fidx, bytes |-> bytes]
    IN  IF bytes < FreeTolerance THEN IF upd THEN FreelistDel(st, b) ELSE st
        ELSE IF bytes >= FragMax + RecEnt + 2 THEN Fault(st)
        ELSE IF old = {} THEN [st EXCEPT !.free = <<entry>> \o @]
        ELSE LET i == CHOOSE j \in old : TRUE
             IN  [st EXCEPT !.free = <<[@[i] EXCEPT !.bytes = bytes]>> \o RemoveAt(@, i)]

\* A mutant of FreeBlockFor: the entry that points to the fragment needs no room.
FreeBlockForData(st, fidx, size) ==
    LET fits == {i \in DOMAIN st.free : st.free[i].fidx = fidx /\ st.free[i].bytes >= size}
    IN  IF fits = {} THEN 0 ELSE st.free[CHOOSE i \in fits : TRUE].blk

\* The block of the area with the least room that is enough, entered last; 0 without one.
FreeBlockFor(st, fidx, size) ==
    LET fits == {i \in DOMAIN st.free :
                    st.free[i].fidx = fidx /\ st.free[i].bytes >= size + RecEnt}
        best == {i \in fits : \A j \in fits :
                    \/ st.free[i].bytes < st.free[j].bytes
                    \/ st.free[i].bytes = st.free[j].bytes /\ i =< j}
    IN  IF fits = {} THEN 0 ELSE st.free[CHOOSE i \in best : TRUE].blk

\* A mutant of TakeRoom: the entry that points to the fragment takes room too.
TakeRoomOfData(st, b, size) ==
    LET i == CHOOSE j \in DOMAIN st.free : st.free[j].blk = b
    IN  [st EXCEPT !.free = <<[st.free[i] EXCEPT !.bytes = @ - size]>> \o RemoveAt(st.free, i)]

\* freeblock_get: the room is taken off the entry.
TakeRoom(st, b, size) ==
    LET i == CHOOSE j \in DOMAIN st.free : st.free[j].blk = b
        left == st.free[i].bytes - size - RecEnt
        rest == RemoveAt(st.free, i)
    IN  [st EXCEPT !.free = IF left < FreeTolerance THEN rest
                            ELSE <<[st.free[i] EXCEPT !.bytes = left]>> \o rest]
----------------------------------------------------------------------------
(* Writing blocks out. *)

\* A fragment of a record goes out with its block: the record goes on in the next one.
Advanced(rec) == [rec EXCEPT !.nfrags = @ + 1, !.bitsize = 0, !.blk = 0]

\* cache_block_out of one block after the other: they go to the end of the reference
\* file, their fragments into the rfbmap file.  Each has to be the last one of its record,
\* also when the next is written.
BlocksOut(st, order) ==
    LET Frags(i) == ToSet(st.blocks[order[i]].recs)
        out == UNION {Frags(i) : i \in DOMAIN order}
        Entry(i) == {<<e.rec, e.frag>> : e \in Frags(i)}
        last == \A i, j \in DOMAIN order :
                    \A m \in DOMAIN st.blocks[order[i]].recs, n \in DOMAIN st.blocks[order[j]].recs :
                        LET e == st.blocks[order[i]].recs[m]
                        IN  /\ e.frag = st.rc[e.rec].nfrags - 1
                            /\ e.rec = st.blocks[order[j]].recs[n].rec => i = j /\ m = n
    IN  [st EXCEPT
            !.rc = [r \in DOMAIN @ |-> IF \E e \in out : e.rec = r THEN Advanced(@[r]) ELSE @[r]],
            !.rfb = [k \in DOMAIN @ \cup {<<e.rec, e.frag>> : e \in out} |->
                        IF \E i \in DOMAIN order : k \in Entry(i)
                        THEN st.blockout - 1 + CHOOSE i \in DOMAIN order : k \in Entry(i)
                        ELSE @[k]],
            !.ref = [n \in DOMAIN @ \cup st.blockout..st.blockout + Len(order) - 1 |->
                        IF n < st.blockout THEN @[n] ELSE st.blocks[order[n - st.blockout + 1]].recs],
            !.blockout = @ + Len(order),
            !.fault = @ \/ ~last]

BlockOut(st, b) == BlocksOut(st, <<b>>)

Uncache(st, b) ==
    [st EXCEPT !.lists[st.blocks[b].fidx] = RemoveFirst(@, b), !.blocks = WithoutKey(@, b)]

\* A mutant of FlushBlock: the block is not taken off the count.
FlushBlockUncounted(st, b) ==
    IF b \notin DOMAIN st.blocks THEN Fault(st) ELSE Uncache(BlockOut(st, b), b)

\* cache_flush_block: a full fragment leaves the cache; the free list is left alone.
FlushBlock(st, b) ==
    IF b \notin DOMAIN st.blocks THEN Fault(st)
    ELSE Uncache([BlockOut(st, b) EXCEPT !.cachecnt = @ - 1], b)

\* The block used least recently of the lowest area that has another one makes room.
LeastImportant(st) ==
    LET areas == {a \in DOMAIN st.lists : Len(st.lists[a]) > 1}
    IN  IF areas = {} THEN 0
        ELSE Last(st.lists[CHOOSE a \in areas : \A o \in areas : a =< o])

MakeRoom(st) ==
    LET b == LeastImportant(st)
    IN  IF st.cachecnt < MaxCache \/ b = 0 THEN [st EXCEPT !.cachecnt = @ + 1]
        ELSE Uncache(BlockOut(FreelistDel(st, b), b), b)

FlushDirtyBlocks(st) ==
    BlocksOut(st, FlattenSeq([a \in 1..Areas |-> st.lists[a - 1]]))
----------------------------------------------------------------------------
(* The cache. *)

\* A block is new, or is read from the file.
Load(st, b, fidx) ==
    IF b # st.blockcount /\ b \notin DOMAIN st.ref THEN Fault(st)
    ELSE [st EXCEPT
            !.lists[fidx] = <<b>> \o @,
            !.blocks = With(@, b, [fidx |-> fidx,
                                   recs |-> IF b = st.blockcount THEN <<>> ELSE st.ref[b]]),
            !.blockcount = IF b = @ THEN @ + 1 ELSE @]

\* cache_fetch
Fetch(st, b, r) ==
    IF b \in DOMAIN st.blocks
    THEN [st EXCEPT !.lists[st.blocks[b].fidx] = <<b>> \o RemoveFirst(@, b)]
    ELSE Load(MakeRoom(st), b, FIdx(st, r))

\* The place of a fragment in a sequence of them, 0 when it is not there.
Place(recs, r, frag) ==
    LET at == {i \in DOMAIN recs : recs[i].rec = r /\ recs[i].frag = frag}
    IN  IF at = {} THEN 0 ELSE CHOOSE i \in at : TRUE

LastFrag(st, r) ==
    LET recs == st.blocks[st.rc[r].blk].recs IN recs[Place(recs, r, st.rc[r].nfrags - 1)]

\* What is done with a fragment once its block b has been fetched: it is put there,
\* overwritten, or deleted.  i is its place.
PutInto(st, b, e) ==
    IF st.fault \/ Room(st.blocks[b].recs) < e.size + RecEnt THEN Fault(st)
    ELSE [st EXCEPT !.blocks[b].recs = Append(@, e), !.rc[e.rec].blk = b]

OverwriteAt(st, b, i, e) ==
    IF st.fault \/ i = 0 THEN Fault(st) ELSE [st EXCEPT !.blocks[b].recs[i] = e]

DeleteAt(st, b, i, r) ==
    IF st.fault \/ i = 0 THEN Fault(st)
    ELSE AddToFree([st EXCEPT !.blocks[b].recs = RemoveAt(@, i), !.rc[r].blk = 0], b, FIdx(st, r),
                   Room(RemoveAt(st.blocks[b].recs, i)), TRUE)

\* BFrecord_frag_write of a fragment that has no block yet.
NewIn(st, found, fidx, e) ==
    IF found = 0
    THEN PutInto(Fetch(AddToFree(st, st.blockcount, fidx, BlockSize - e.size - RecEnt, FALSE),
                       st.blockcount, e.rec), st.blockcount, e)
    ELSE PutInto(Fetch(TakeRoom(st, found, e.size), found, e.rec), found, e)

NewFragment(st, e) == NewIn(st, FreeBlockFor(st, FIdx(st, e.rec), e.size), FIdx(st, e.rec), e)

\* The last fragment of e.rec, as big as it has to be by now, is overwritten.
OverwriteFragment(st, e) ==
    LET b == st.rc[e.rec].blk
        In(f) == OverwriteAt(f, b, Place(f.blocks[b].recs, e.rec, e.frag), e)
    IN  In(Fetch(st, b, e.rec))

WriteFragment(st, e) ==
    IF st.rc[e.rec].blk = 0 THEN NewFragment(st, e) ELSE OverwriteFragment(st, e)

\* _BFrecord_delete
DeleteFragment(st, r, frag) ==
    LET b == st.rc[r].blk
        In(f) == DeleteAt(f, b, Place(f.blocks[b].recs, r, frag), r)
    IN  In(Fetch(st, b, r))

\* BFrecord_frag_grow: in place, or else the fragment moves to another block.  (The branch
\* that would move a smaller one of another record instead is never taken: the least size
\* so far starts as ULONG_MAX put in a long, -1, and no size is less.)
GrowAt(st, b, i, size) ==
    LET recs == st.blocks[b].recs
        increment == size - recs[i].size
        grown == [recs[i] EXCEPT !.size = size]
    IN  IF b = 0 \/ st.fault \/ i = 0 THEN Fault(st)
        ELSE IF Room(recs) < increment
        THEN NewFragment(DeleteFragment(st, grown.rec, grown.frag), grown)
        ELSE AddToFree([st EXCEPT !.blocks[b].recs[i] = grown],
                       b, FIdx(st, grown.rec), Room(recs) - increment, TRUE)

GrowFragment(st, r, frag, size) ==
    LET b == st.rc[r].blk
        In(f) == GrowAt(f, b, Place(f.blocks[b].recs, r, frag), size)
    IN  In(Fetch(st, b, r))
=============================================================================
