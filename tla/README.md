# A TLA+ verification project for NexTrieve

NexTrieve is a full-text search engine in C: an indexer, a threaded search
server (`ntvsearchd`), a caching server (`ntvcached`) that stands in front of
several search servers, and scripts that keep an index up to date. This directory holds TLA+ modules that model the
parts whose correctness depends on the order in which things happen, the TLC
configurations that check them on small instances, and TLAPS proofs of what
holds for instances of any size. Paths below are relative to the repository
(`src/src/...` is the C code).

1. [The system](#the-system)
2. [What is hard about it](#what-is-hard-about-it)
3. [The modules](#the-modules)
4. [The runs](#the-runs)
5. [Bounds](#bounds)
6. [Fairness](#fairness)
7. [The proofs](#the-proofs)
8. [What the checks found](#what-the-checks-found)
9. [What is not modelled](#what-is-not-modelled)
10. [The plan](#the-plan)

## The system

| component | source | state it keeps | operations | what makes it correct |
|---|---|---|---|---|
| work queue of `ntvsearchd` | `ntvschd.c` (`work_addtoq`, `thrd_worker`) | list of requests, `g_work_nwork`, `g_work_nthrottledthreads`, two semaphores | put a request, sleep when over the limit, claim, take, wake the sleepers | a claimed request exists, no lost wakeup, bounded length, everything is taken |
| threads and connections of `ntvsearchd` | `ntvschd.c`, `ntvreq.c`, `ntvquery.c`, `ntvsearch.c` | request buffers and their freelist, `rrw->usage`, `rrw->mut_write`, `sem_coresearch` | accept, read, refuse, queue, search, answer, hang up | buffers are not shared, a connection is closed once, by its last user, locks are given back |
| block cache of `ntvsearchd` | `ntvblkbuf.c`, `ntvsearch.c` | cached blocks with pin counts, read-only list, queue of threads to prime for, throttled leaders | join, lead, read a batch, hand over, release, trim | no block is purged under a search, nobody is left in the queue, the cache is trimmed |
| event loop and clients of `ntvcached` | `ntvschd.c` (`cachingServerLoop`), `ncsclients.c` | list of clients with input, waiting requests and answers, `g_nRequests` | accept, read, take a query, answer from the cache, forward, write, close | limits hold, everybody who waits is served, what is being sent is there |
| query cache of `ntvcached` | `ncscache.c` | hash table, usage list, entries with usage counts | look up, add, store an answer, delete, rebuild, trim | list and table agree, usage counts are exact, no error is cached |
| servers behind `ntvcached` | `ncssubservers.c` | queue, servers with their slots, counts, dead list | start, delete, connect, send, receive, give up, retry | every request is answered once, counts are exact, servers with work are watched |
| routing by database | `ncssubdbs.c`, `ncsdbnamemap.c` | map from index names to collections and constraints | start or delete a request at the right collection | a request reaches one collection or is refused |
| hit cache of the indexer | `ntvindcache.c` | hits per record, lists of records by number of hits, counters | add a hit, flush a record, flush many | no hit lost, counters right |
| block allocation of the indexer | `ntvblkbuf.c`, `ntvchunkutils.c` | cached blocks by frequency area, free list, record table, files | grow, write, move, delete a fragment, write a block out, save, open | the free list tells the truth, records are where the table says, the saved index opens |
| indexer | `main.c`, `ntvindex.c`, `ntvtokenise.c` | dictionaries, documents, sync runs | add document, add word, encode | a search reads what was added |
| attributes and constraints | `ntvattr.c`, `ntvcompile.c`, engine in `ntvsearch.c` | attribute values per document; tree, code and labels while compiling | set, delete, compile, test | the code says what the constraint says, deleted documents do not match |
| maintenance scripts | `scripts/ntvincreindex`, `scripts/ntvfullreindex`, `skel/mailsimple/bin` | spool, archive, `inc.xml`, three index directories, `runblocked` | save a mail, absorb the spool, index, move into place, give up | no mail is lost, what is archived is indexed or on record |
| analysis and search | `ntvsearch.c`, `pld*.h`, `ntvquery.c` | per query | analyse, merge lists, rate, print | sequential within a worker |
| ultralite server, checker, parameters, utilities, character sets | `ntvultralite.c`, `ntvcheck.c`, `ntvparam.c`, ... | none of interest | | |

How they interact. In `ntvsearchd`, connector threads read queries and put
request buffers on the work queue; workers take them, prime the block cache
(waiting for one another in its queue), search under `sem_coresearch`, release
the blocks, and write the answer to the connection, which the connector may
have left in the meantime. All of this is shared memory under half a dozen mutexes and
five kinds of semaphores. In `ntvcached` there is one thread. A pass of its
loop walks the clients (some are closed), waits in `select`, accepts, walks the
clients for input and output (queries are looked up in the cache, answered or
started at a server), then the servers (an answer goes into the cache and from
there to everyone who waits), and trims the cache. The order of these walks,
and what one of them leaves behind for the next, is what there is to get wrong.
The indexer is one thread too: a hit waits in the primary cache, is encoded with
others into the last sync run of its word, and the runs share the blocks of a
secondary cache that are written behind one another into the reference file.
The scripts move mail from spool to archive, give its XML to the indexer and put
the index it makes in place of the one before; the shell runs them one command
at a time, and any command may be the last.

## What is hard about it

`PROJECT.json` lists the hazards with the line each bites at and the properties
that would catch it. In short:

- **Interleaving.** Connectors and workers change counters, lists and reference
  counts, the test that puts a thread to sleep is separated from the sleep, and
  the wakeup is given only at one exact value of a counter (`ntvschd.c:1767`,
  `ntvblkbuf.c:2305`).
- **Bookkeeping.** The indexer keeps the same facts in several places: hits in
  lists by their number and in counters, room in blocks and in a free list,
  fragments in blocks, in the record table and in two files. Flushes cut through
  all of them in the middle of other work.
- **Compilation.** The code for a constraint is made of opposite tests and jumps
  whose direction depends on what follows, after operands were sorted and merged.
- **Crashes.** The servers persist nothing, so there is no recovery to model in
  them. The scripts work on files and have to go on from wherever a run stopped.
- **Reference counts.** Three of them: uses of a connection, uses of a cache
  entry, pins of a block. Each is raised and lowered in several functions and on
  error paths.
- **Order.** An answer arrives for a cache entry that has been evicted, made
  again, or has an answer already; a client goes while it waits; the end of its
  input comes before its answer has gone out.
- **Failure.** A server breaks with queries unsent, half sent, sent, or answered
  and unread; a connect fails at once in the middle of handing out work; an
  answer cannot be taken apart.
- **Limits.** The work queue, the cache table, the outstanding requests, the
  clients, the pinned blocks.

## The modules

| module | models | builds on |
|---|---|---|
| `NtvWorkQueue` | the work queue of `ntvsearchd` | |
| `NtvSearchd` | its threads, request buffers and connections | extends `NtvWorkQueue`, and implements its `Spec` |
| `NtvPrimeQ` | the block cache and its queue of priming threads | |
| `NcsCacheOps` | the query cache as a value, its functions as operators | |
| `NcsCache` | the query cache as its callers may use it: an abstract specification | `NcsCacheOps` |
| `NcsLists` | linked lists as sequences, and what the members of a table have between them | |
| `NcsClients` | the event loop and the clients of `ntvcached` | extends `NcsCacheOps`, `NcsLists`; implements `NcsCache!CacheSpec` under a refinement mapping |
| `NcsBackend` | what the rest of `ntvcached` may expect of servers: an abstract specification | |
| `NcsSubServers` | the servers of one database | extends `NcsLists`; implements `NcsBackend!BackendSpec` under a refinement mapping |
| `NtvPostings` | what an index promises: an abstract specification | |
| `NtvBlocks` | the blocks of the indexer, its free list and files, as operators on a store | |
| `NtvIndCache` | the indexer from a hit to the saved index | extends `NtvBlocks`; implements `NtvPostings!PostingsSpec` under a refinement mapping |
| `NtvCompile` | the compiler of constraints and the engine that runs the code | |
| `NtvMaintenance` | the scripts that keep the index of a mailbox up to date | |
| `NtvSearchd_proofs`, `NtvPrimeQ_proofs`, `NcsCache_proofs`, `NcsLists_proofs`, `NcsClients_proofs`, `NcsSubServers_proofs`, `NtvIndCache_proofs`, `NtvMaintenance_proofs` | theorems and their proofs | each extends its module; `NtvSearchd_proofs` is about `NtvWorkQueue` too, `NcsLists_proofs` has what the others need about lists and counts, and `NcsClients_proofs` instantiates `NcsCache_proofs` |
| `MC...` | instances for TLC: bursts, server tables, symmetry | |

Beside some definitions stand mutants of them, named for the mistake they make
(`AddToQPostIfEmpty`, `HandOverToNobody`). `PROJECT.json` pairs each property
with one of them that breaks it, which shows that the property depends on the
code and is not true of any model.

### NtvWorkQueue

`queue`, `nwork`, `nthrottled`, `semWork` and `semThrottled` are
`g_work_head ..`, `g_work_nwork`, `g_work_nthrottledthreads`, `sem_work` and
`sem_work_throttled`; `cpc` and `wpc` say where each thread is. A section between
`MUTEX_LOCK(&mut_work)` and the next `MUTEX_UNLOCK` is one action; a wait on a
semaphore is an action of its own, because it happens outside the mutex.
`AddToQ` and `Recheck` end in `TestLimit`, the test of the `while` loop. A worker
takes the head (`RemoveHead`) without looking whether there is one, and posts the
throttled connectors when the count passes the limit (`WakeThrottled`).

### NtvSearchd

Adds everything a connector and a worker do around the queue, one action for
each stretch between two points where another thread can interfere: taking a
buffer from the freelist, reading a query into it, counting the connection's
use, queueing or refusing, writing under `mut_write`, `req_put`, and the look at
`ntvID` that decides whether the connection goes on. An action here is an action
of `NtvWorkQueue` with more said about it, or leaves the queue alone; property
`QueueSpec` is `NtvWorkQueue!Spec`. What a client sends is a verdict (`good`,
`refused`, `badxml`) and whether there is an id. The buffer of a connector that
looks at `ntvID` after giving it back is modelled as the code has it: another
thread may have it by then. `ConnectorRuns` and `WorkerRuns` are the steps a thread
takes by itself; `WriteRefusal` and `WriteAnswer`, which need a client that reads,
and `ClientStep`, which needs one that sends, are apart from them. A worker decides
whether its query needs the core search (`SkipCore` or `WantCore`) before it waits
for the semaphore (`EnterCore`).

### NtvPrimeQ

`BFcache_prime` in ten actions. A list is the number of fragments it has in each
block. `Enqueue` joins the queue and decides whether to go ahead alone; `Wake`
finds out whether somebody has primed for the thread or it has become the
leader; `Lead`, `Measure` and `Unthrottled` are the wait for room, with
`mut_primeQ` held all the while as in the code; `StartPriming`, `Fetch` (one
fragment, `cache_fetch`) and `EndPriming` run with `mut_cache` held; `HandOver`
sends the batch on its way and wakes the next leader. `StartRelease`, `Release`
(one handle) and `EndRelease` are `BFrecord_pinned_release`; `Trim` shrinks the
cache and calls sleeping leaders. `mut_syncreadslock`, which is always taken
inside `mut_cache` or with no other lock, is left out. The order of blocks in a
batch and in the read-only list is open, so every choice the code makes is among
those the model makes.

### NcsCacheOps and NcsCache

A cache is a record. Which bucket holds an entry is left out; what is kept is
what the functions do to table, list, counts and entries: `Touch`, `Add`,
`Delete`, `Rehashed`, `LookupAdd`, `Store`, `DropError`, `IncUsage`, `DecUsage`.
Entries are addresses: `memget` returns any address whose usage is 0, so that an
entry freed too early comes back as another entry. A result is absent, hits, or
`freed`, a pointer to memory given back, which is what
`cache_analyzeserverresult` leaves behind when it cannot take an answer apart.
Rebuilding the table puts the usage list into an order that depends on the hash
function, here any order.

`NcsCache` is the cache with the callers the operations allow: look up and pin,
unpin, forget, store an answer for a number of waiters, and clean up one entry
at a time.

### NcsClients

The loop of `ntvcached` as small steps of one thread; `phase` says where it is.
`clients` is the list in order, `todo` what is left of the present walk, `cur`
the client being visited. A connection has its input (complete queries and the
beginning of one), the requests that wait, and the answers going out with the
entries they pin. The server side is what this part sees of it: a queue of
requests, and how often each is out. Actions follow the functions
(`client_addselectfds`, `client_new`, `client_readable`,
`client_checkrequestcomplete`, `client_req_process`, `client_newresult`,
`client_writable`, `client_close`, `cache_newresult`, `cache_cleanup`). A closed
client takes the requests only it waited for back from cache and servers. A request
that comes to an empty queue may go out at once (`Queued`), and a server that is
given up gives its requests back to the head of the queue (`GiveBack`).

Counts over all clients are cardinalities of sets of tagged places: `OfAll(S, f)`
of `NcsLists` is what the members of `S` have, told apart by whose it is. Unlinking
an object from one of the lists is `Without` or `Picked`, which keep the rest in
order.

### NcsBackend and NcsSubServers

`pool` is the `SubServerCollection`: queue, the query in every slot of every
server, the slots still being sent, the counts, the list read from, the list of
servers given up, and what the network adds (the state of a connection and the
answers in it). Operators transform a pool, as the functions do
(`subserver_possibly_dead`, `subserver_connect`, `subserver_dishoutwork`,
`subserver_readable`, `subserver_writable`, ...); actions call them in the order
of a pass: before `select`, the clients' walk after it (`client_io`, where requests
are started and deleted), and `subdbs_io`. Servers and network act at any time.

`NcsBackend` counts how often each request is pending and sees the calls between the
servers and the rest of the program: `subserver_startreq` makes it one more,
`cache_newresult` one less, `subserver_deletereq` drops some, and with no such call
(`Inside`) nothing changes. `call` in `NcsSubServers` is the call of the last step,
and `Backend` maps `pending` to the number of times a request is queued, at a server,
or answered but unread. So a query that gets lost, or is sent to be answered twice,
when a server is given up or a query is handed out is a step of `NcsSubServers` that
`NcsBackend` does not have, and so is an answer that takes more than its own query
away.

### NtvPostings, NtvBlocks and NtvIndCache

`NtvPostings` says that each word has the positions it was added at, in order,
and that a search reads those of the last index saved. `NtvIndCache` implements
it: `Posting` reads the blocks that are on disk, the block in the cache and the
hits that wait.

`NtvBlocks` has the functions of `ntvblkbuf.c` as operators on a store: the
record table, the cached blocks in their frequency areas, the free list, the
reference file and the rfbmap file. `FlushBlock` (a full run) and `MakeRoom` (a
full cache) write a block out, which advances every record in it; `GrowFragment`
grows in place or moves; `Fetch` reads a block or makes a new one, and is where
`Internal error` is logged when the bookkeeping was wrong. `NtvIndCache` adds the
primary cache and `Encode`, which puts as many gaps into a sync run as it has
bits for and starts the next one. The loops of `encode_to_syncrun_freq` and
`indCacheFlushHits` are functions of the number of turns made (`Encode`, `FlushLow`,
`FlushLows`, `FlushList`, `FlushLevels`); the lists of records by their number of hits
are one function of `SameHits`, the small numbers and the quanta of the large ones. Encoded lengths are the real ones, with words
of two bits; the bits themselves and padding are left out, and the frequency area
is computed exactly where the code divides logarithms in floating point.

The program is sequential, so a step is a whole call (`Add`, `Save`, `Open`); what
is checked is every sequence of calls.

### NtvCompile

A constraint is the parse tree `booleanParse` leaves. `Optimise` gathers the
operands of nested ands and ors in clusters, sorts them by type and merges tests
of flags of one word (`InsertBranch`); `EvalExp` makes code of it, with the labels
to jump to and the operator whose operands follow as parameters, as `evalexp`
has; `CompileQuery` leaves a bare test of the document's flags to
`ntvsearch_core_search`. The engine is a state machine: `Consider` a document,
`Step` by an instruction, `Result`. `Says` is what the manual says a constraint
means. In `(X & *pc) == *pc++` the order of evaluation is left open by C; the
model reads the mask before it steps on, which is what gcc makes of it with and
without optimisation.

### NtvMaintenance

A step is a command that changes a file: `Start` a run, `ReadSpool`, `NextMail` of the
spool, `AppendXML` to `inc.xml`, `AppendArchive`, `Unlink`, `Prepare` the new directory,
`BuildIndex` in it, `DoneIdx`, `MoveOld`, `MoveNew`. `Deliver` and `Delivered` are
`saveit`, which writes under the final name; a mail read in between is a part of
a document. `Fail` and `ReadspoolFails` are commands whose result is tested and which
end in `ntverror`, which creates `runblocked`; `Kill` is the machine stopping, which
does not.

`readspool` forks a child for the XML of each mail, and there is much it does not
test. `FilterFails` is a name that does not get to the filter, or XML that does not
get into the file; `OpenXMLFails` a child that ends in `ntverror` without its parent
taking notice; `ForkFails` a filter in the place of `readspool`. When the filter cannot
be executed (`ExecFails`) the child goes on with the loop: it does the rest of the
spool while its parent waits (`parents`), and the parent then finds its mail
gone (`MailIsGone`), or does it again if the child could not remove it. A copy in the
archive may fall short, or be missing altogether, and the mail be removed from the
spool all the same (`AppendArchive`).

Two histories say what that costs. `short` are the mails whose last copy fell short:
read while `saveit` was writing, or hit by such an append. `missed` are the mails
of which the record got lost: their XML failed unseen, `ntvindex` was cut off from
them, or they were owed by a run (`owed`: it had removed the `inc.xml` that named
them, or was a full run that had archived them) that was ended by a failure or a
stop. A full run that ends well empties `missed`, but for what it was cut off from.

## The runs

| run | question |
|---|---|
| `workqueue` | Are the semaphores and counters of the queue right, is no wakeup lost, is the queue bounded, is every request taken and does some throttled connector always get out? |
| `searchd` | Are uses of connections exact, buffers in one place, the write lock given back, the queue used as specified, and do answers keep coming while any are due and clients read them? |
| `searchd_id_keeps_open` | Does a query with an id keep its connection open, as documented? **No.** |
| `primeq` | Are pins exact, does whoever searches hold all its lists, is the cache trimmed, is a throttled leader called, does every query get to search? |
| `cache_safety` | Do list, table and counts agree, are usage counts exact, can pinned entries be sent, are errors kept out, in a table that grows and is trimmed? |
| `clients_safety` | Do pins match answers, does the maximum of outstanding requests hold, is everybody who waits waiting for something, and is the cache used as `NcsCache` says? |
| `clients_liveness` | Is every request answered, or its connection gone? |
| `subservers` | Are the counts exact, is every query watched, does the pool implement `NcsBackend` (one answer for each start, nothing lost or doubled when servers die), is everything answered when servers stop failing? |
| `indexer` | Does a search find the hits that were added, whatever was flushed, moved and written out when; are free list, counters and lists right; is no internal error met; is the cache bounded; does the saved index open? |
| `constraints` | Does compiled code come to the result the constraint says, for every tree and document; are deleted documents kept out by their own flags? |
| `constraints_deleted` | Are they kept out of every constraint? **No.** |
| `maintenance` | Wherever a run stops and whatever fails: is mail that has left the spool in the archive whole, and is what is archived in the index or on record, but for the mails the fault itself hit? |

## Bounds

Most variables are bounded by the program itself. The rest are named:

- `Request` in `NtvWorkQueue` and `NtvSearchd`: a buffer the program would
  allocate when the freelist is empty is one of a fixed set. In `workqueue` there
  are six for two workers, three connectors and a limit of one, so that the queue
  goes two beyond the limit with all connectors asleep and fills again before
  they wake.
- `MaxPins` in `NcsCache`: the uses of one entry at a time. Two tell apart the
  last use from any other, which is all `cache_req_decusage` looks at. Three keys
  and an initial size of 3 (which `prime` makes 5) let the table grow, trimming
  to two makes the clean-up run, and with four addresses two entries can live on
  outside the table.
- `MaxInputs`, `MaxAccepts` and `Burst` in `NcsClients`: how often data arrives,
  how many connections are accepted, what one read can bring. Two reads over
  three clients are enough for two requests to meet in the cache, at a server and
  in answers, for a client to be over `maxclients`, and, with bursts of one query
  and part of the next, of two queries, of one followed by text that is no query,
  and of text that is too long, for every branch of
  `client_checkrequestcomplete`.
  In the cache the loop implements, `MaxPins` is `MaxRequests`: each request is
  answered from one entry, and no more of them are outstanding.
- `MaxPending` and `MaxFailures` in `NcsSubServers`: how often one request is
  pending (two: asked for again after an eviction), and how many connections fail
  (three, over two servers, so that one of them can fail, be retried and fail
  again with the other one down).
- `primeq`: four threads, so that a leader can take one thread with it and leave
  another, who then leads. A cache of one block: a query for one fragment of
  block 1 leaves room for one more thread in the batch, and one for fragments of
  blocks 2 and 3 is over the size on its own, which throttles the next leader and
  makes releases trim. Two queries for block 1 share its pins.

- `indexer`: `Docs` and `MaxRuns`. Blocks of eight words and a cache of two blocks in two
  frequency areas, five hits in the primary cache and three for one word: three
  documents for four words are enough to flush a record, the low hits, the lists,
  to share, fill and move blocks, to put blocks out for lack of room and to go on in a
  second run. The third document is number 25, a gap too long for the parameter of a run,
  so that a run needs a local one.
- `constraints`: `Constraints` and `Documents`. All trees of depth two over two flags of the document,
  one of a group, a set and a comparison, all combinations of two of those with and, or
  and not, the other comparisons to a depth of two, and over one flag and one comparison
  trees of depth four; documents with every
  combination of flags and three values, and deleted ones. Three levels reach every
  branch of `evalexp`, every case of `insertBranch` and every place an operand may
  have under another operator.
- `maintenance`: `MaxFaults`. Three mails, so that a run finds some archived, some
  in the spool and some being written, and two faults in any of any number of runs,
  so that one can hit the recovery from the other.

The passing runs take every action and every disjunct of the next-state
relations. Deadlock is checked in every run but `indexer`, which stops after
`MaxRuns` runs.

## Fairness

- Threads (`workqueue`, `searchd`, `primeq`): weak fairness for each thread that
  is not waiting for a client. The scheduler runs every thread, and no thread here
  competes for ever for one of the server's own mutexes: whoever holds one gives it
  back within a few steps, and the only one that sleeps with one (a throttled leader)
  keeps others from asking. This is not so of a connection's `mut_write`:
  `out_write_results` keeps it across a `SOCKET_FWRITE` that blocks and has no timeout,
  and a client that does not read its answer keeps the thread, and whoever waits for
  the mutex, for ever. So nothing is assumed of `WriteAnswer` and `WriteRefusal`, and
  `AnswersKeepComing` has to leave out the behaviours in which, from some time on,
  such clients are all there is to wait for (`HeldUpByClients`): every worker is held
  up by one, or each unanswered query is on the connection of one.
- `workqueue` has workers that finish what they took (`Finish` in its fairness). That
  is the queue on its own: in the server it is so as long as clients read their
  answers, and no property of `searchd` rests on it.
- The loop of `ntvcached`: weak fairness of its one thread; strong fairness of
  `select` returning with each set of ready sockets and of servers answering
  (`LoopFairness`), which stands for clients and servers that are alive. A request may
  be given back any number of times before it is answered.
- Servers (`subservers`): weak fairness of `select`, of the pass, of the clock
  that ends `retrydelay`, of a connect coming to an end, and of a server
  answering. Nothing is assumed of failures except that there are finitely many.
- The indexer, the compiler and the scripts are sequential and checked for
  safety; that the code of a constraint never leads back is part of
  `ConstraintIsRight`.

## The proofs

TLAPS checks, for any number of threads, requests, connections, blocks, entries,
keys, words, documents, runs, mails and faults, and any limits:

| theorem | module | of |
|---|---|---|
| `TypeCorrect` | `NtvSearchd_proofs` | `TypeOK`: no counter or semaphore falls below zero |
| `ClaimsCorrect` | | `ClaimsAreBacked` |
| `ThrottleCorrect` | | `NoLostWakeup` |
| `BoundCorrect` | | `QueueIsBounded` |
| `UsageCorrect` | | `UsageIsExact`, of connections |
| `FreelistCorrect` | | `FreelistIsSound` |
| `WriteLockCorrect` | | `WriteLockIsHeld` |
| `QueueIsImplemented` | | `QueueSpec`: the threads implement `NtvWorkQueue!Spec` |
| `PrimeQInvariance` | `NtvPrimeQ_proofs` | the invariant: one leader, at the head of the queue |
| `PinsCorrect` | | `PinsAreExact` |
| `SearchersCorrect` | | `SearchersHoldTheirLists` |
| `TrimCorrect` | | `CacheIsTrimmed` |
| `LeadersCorrect` | | `NoLeaderForgotten` |
| `UsageCorrect` | `NcsCache_proofs` | `UsageIsExact` |
| `PinnedCorrect` | | `PinnedCanBeSent` |
| `ErrorsCorrect` | | `ErrorsAreNotCached` |
| `ListCorrect` | | `LruMatchesTable` |
| `ClientsInvariance` | `NcsClients_proofs` | the invariant: the loop, its counts, who waits, and the cache |
| `RequestsBounded` | | `RequestsAreBounded` |
| `WaitersServed` | | `EveryWaiterIsServed` |
| `WaitersMissNothing` | | `NoWaiterMissesAResult` |
| `PinsExact` | | `PinsMatchUsage` |
| `CacheIsImplemented` | | `CacheIsUsedAsSpecified`: the loop implements `NcsCache!CacheSpec` |
| `SubServersInvariance` | `NcsSubServers_proofs` | the invariant: every field of a collection agrees with the others |
| `CountsExact` | | `CountsAreExact` |
| `QueriesWatched` | | `QueriesAreWatched` |
| `BackendIsImplemented` | | `RequestsAreServed`: the servers implement `NcsBackend!BackendSpec` |
| `IndCacheInv` | `NtvIndCache_proofs` | the invariant: the store, the files and the primary cache agree at every call |
| `NoInternalError` | | `NeverInternalError` |
| `FreeListKept` | | `FreeListIsExact` |
| `CacheKept` | | `CacheIsBounded` |
| `SavedIndexKept` | | `SavedIndexOpens` |
| `CountersKept` | | `CountersAreRight`, if `MaxTotalHits > 8` |
| `NoMailIsLost` | `NtvMaintenance_proofs` | `MailIsKeptWhole` |
| `IndexCatchesUp` | | `ArchiveIsAccountedFor` |

**The work queue.** The assumptions are that there are finitely many threads, that
the limit is a natural number, and that a request is not the value for "none".
None of the four properties is inductive on its own: that a sleeper has a reason
to sleep depends on the number of sleepers, which depends on which threads are in
which part of `work_addtoq`. The invariant adds to the type invariant, to
`ClaimsAreBacked` and to `WakeupsMatchSleepers` that connectors are counted in
`g_work_nthrottledthreads` only while the queue is over its limit
(`CountedOnlyOverLimit`): a worker resets the count exactly when the limit is
passed. From it follow the lost wakeup and, with an argument about the connectors
that are inside `work_addtoq`, the bound.

**The threads around it.** One assumption is added: "none" is not a connection. The
count of a connection is exact only if a buffer that is handed out names no
connection, and `FreelistIsSound` speaks of one place a buffer may be while
`req_get` draws on another, so the invariant `SInv` follows every buffer through
its life: it is on the freelist, on the queue, with one connector or with one
worker, and there once (`OneOwner`); it names a connection exactly from the moment
the query was read to the moment its answer is out (`RequestsNameConnections`);
and each thread has a connection and a buffer exactly where its place in the code
says so (`ThreadsAreInPlace`). `SInv` includes the invariant of the queue. That
part is not proved again: under `SInv` every step of the threads is a step of
`NtvWorkQueue` or leaves it alone (`StepQueue`), which is also the refinement. The
point is `Enqueue`: `NtvWorkQueue` assumes that a request put on the queue is one
nobody holds, and `OneOwner` is why that is so. So the four theorems about the
queue hold of the server. `FreelistIsSound` still allows a connector at `LookAtID`
to look into a buffer that is on the freelist or with another thread already, as
the code does.

**The block cache.** The assumptions are that threads and blocks are finitely many,
that the size is a natural number, and that "free" is not a thread. The invariant
has two halves. `QueueInv` is about the queue: its entries are the threads between
`Enqueue` and `HandOver` that nobody has primed for, each once (`QueueIsTheLine`);
whoever leads or has been called to lead is its head (`LeaderIsHead`), so there is
one leader (`OneLeader`), and what a leader measured still holds when it hands over,
because others only join at the tail; and the lists of its batch are pinned from
the end of the reading on (`BatchIsPrimed`), and remain so for each thread that was
told, until it wakes (`ToldHoldTheirLists`). `CacheInv` is about the counters. That
pins and handles agree is said with the set `Handles(b)`, not with a sum over the
threads, so that a step adds or removes one element. `NoLeaderForgotten` needs that
the sleeper, of which there is one as it holds `mut_primeQ`, is counted or called
(`SleeperIsCounted`), and `CacheIsTrimmed`: while blocks above the size are pinned
no block is read-only, so the release that makes room finds the cache one block
too large and brings it to exactly its size, the one moment the code calls.

**The query cache.** The assumptions are that sizes are natural numbers and that
"none" is neither a key nor an entry. `UsageIsExact` is not inductive: that
deleting a key lowers the count of the right entry needs that a key leads to its
own entry and two keys never to the same one (`KeysAreRight`), and that a new
entry is nobody's needs that its memory is free. `PinnedCanBeSent` needs in
addition that free memory holds no result and no error (`FreeIsClean`), and that
no entry of the table carries an error, except, within `cache_newresult`, the one
being told of (`CleanBut`). `IInv` is the conjunction. Every operator of
`NcsCacheOps` has a lemma that says what it keeps of it (`IncUsageKept`,
`DecUsageKept`, `DeleteKept`, `SameEntries`, `FreshKept`, `LookupAddKept`,
`StoreKept`), and every action follows from the lemmas of the operators it is
made of. These three say nothing about the usage list, and need nothing: whatever
key a clean-up picks, the counts stay exact. `ListCorrect` is a second pass over
the same steps, on top of `IInv`: that taking an entry out of the list leaves all
the others needs that it was there once (`ListsOnce`), that a new entry is not on
it yet needs that entries on the list are in use, which is `UsageIsExact`, and that
`cache_tab_used` is the length of the list needs that a rebuilt list is a
permutation of what the table holds (`AnyOrder`). That `cache_tab_rehash` uses
`prime` does not matter.

**Clients and event loop.** The assumptions are that clients and requests have a
maximum of at least 1, that the other limits are natural numbers, that what reads
bring is queries and parts of them, that the requests for unknown databases are
requests, and those of the query cache. None of the four invariants is inductive. `IInv`
has four parts. `Control` says what each phase may rely on: clients are listed once and
a walk visits listed ones (`WalkIsRight`), a check has taken no more queries than have
been read (`CheckIsRight`), and who was found writable has something to write until the
walk comes by (`WritersAreBusy`). `RequestsAreBounded` is the second part.
`Served(k)` is about one request: an entry without a result has an answer coming, and
so has whoever waits, who waits for no result that is there. `CacheIsRight` is the
invariant of `NcsCache_proofs`, instantiated with the refinement mapping. Most steps
are quiet (`QuietMove`): they leave every client the requests and the pinned answers it
had, and `QuietGood` settles them together. Each of the others has a lemma that counts
and, where it calls the cache, one that names the step of `NcsCache` it takes (`IsQuery`,
`IsUnpin`, `IsForget`, `IsNewResult`). Counts are cardinalities of `OfAll`, so that there are
three cases: one client changes (`LoadOne`), none does (`LoadSame`), or everybody who
waits for a request is answered, and what waited for it is pinned (`LoadGiven`).
That others keep waiting for what they waited for needs that a call of the cache leaves
the entries of other requests as they were (`UntouchedMeans`); that there is an entry to
evict while the cache is too large needs `LruMatchesTable`; and that no entry has more
than `MaxPins` pins needs `RequestsAreBounded`, because a pinned answer is an outstanding
request. So the theorems about the query cache hold of the running program.

**The servers behind ntvcached.** The assumptions are that the table of servers
lists each once, in the order of a `moq` that is at least 1, and that the bounds are
natural numbers. `CountsAreExact` is not inductive: giving up a server subtracts its
`noq` and puts back what its slots hold, and an answer lowers the counts for the
slot it names, so that slot must hold a query. The invariant `IInv` says that a
collection is `Whole`, which is the counts (`CountsOK`), that slots on the sending
list and slots with an answer waiting hold queries, that no slot is both and none has
two answers (`SlotsOK`), the lists (`WatchedOK`), and who has a connection
(`ConnectedBut`, with the one server an operation is about to connect to left out);
and that servers `select` named are still there to be read and written when the pass
comes to them (`PassOK`). Operators get lemmas that name every field of their result
(`PossiblyDeadFields`, `SendWorkFields`, `ExtractFields`) and, from those, that a
whole collection becomes a whole one with the same requests, or one less or more
(`GivenUpWhole`, `GivenWhole`, `ExtractedWhole`). `Count` is a cardinality, so
that a request moves when one slot or one place in the queue changes
(`HoldingChange`, `OccurrencesConcat`, `OccurrencesTail`); the queries of a server
that is given up come back each once because `InOrder` lists every slot once
(`BackFacts`). The loop of `subserver_dishoutwork` is a function of the number of
turns; that it never takes a request from an empty queue needs that there are never
more queries than slots (`RoomIsCounted`) and holds after each turn because there is
no first turn after which it would not (`HandedOutKeeps`). The refinement is then
read off: a step leaves all requests as they are, or adds, answers or drops those of
one kind (`StepHolds`).

**The indexer.** The assumptions are that sizes and limits are natural numbers, most of
them positive, that a block has room for an entry and more than a header, that there are
finitely many words (`RecAssumption`), and that a run has room for the code of the
gap between any two documents (`RunsAssumption`; a gap that no parameter brings into
a run would make `encode_to_syncrun_freq` try parameters for ever). No property of the
run is inductive. `IInv` has a part for the store and one for the primary cache.

`Sound` is about the store. Every cached block is in the list of its own area and in no
other (`ListsOK`). A fragment in a block is the last one of its record, the record names
the block, and no record has two there (`FragsOK`), which is why a block that is written
out may advance all its records and why nobody looks for them in it again. The free
list has, for every block with room enough, one entry with exactly that room, and no
others (`FreeFits`). The files hold the fragments before the last one of every record,
and those only (`FilesOK`). And the blocks are counted and no more than they may be
(`CountOK`), because a cache at its size that has no block to give up has one block at
most in each area. Half of these do not hold inside a call: room is taken
off the free list before the block is fetched, a fragment is deleted before
it is written elsewhere, a block is full before it is flushed. So the lemmas about
operators say what each does to the parts (`FetchCached`, `FetchNew`, `PlaceFacts`,
`SetAtFacts`, `CutAtFacts`, `NewFragmentFacts`, `DeleteFragmentFacts`,
`WriteFragmentFacts`), and `Body` is what always holds. The delicate case is
`NewFragmentInOld`: the free list hands out a block, and fetching it must not
write that very block out, which it does not because a block on the free list is cached
already; in `NewFragmentInNew` the entry is made before the block, under the number the
block will get. `EncodeFacts` follows a list of gaps through as many runs as it
takes; that a turn of the loop leaves fewer of them is `Advances`.

`CacheOK` is about the primary cache. The hits of a record ascend from its last document to
the present one (`HitOK`), so the gaps are positive and never fewer than the documents
("fucked" in the code is not reached); each list holds the records whose
number of hits is its own, once (`ListsAre`); the total is the sum of all weights
(`TotalIs`), which is again a cardinality; above `nSameHitsTop` nothing is listed
(`TopIs`). `LowOK`, that the counts of records never compressed are not short, is an
inequality, because the second part of `indCacheFlushHits` does not lower
them. Flushing a record changes one list and takes its hits from the total (`FlushRecFacts`,
`Flushes`), flushing any number of records takes away more (`Fewer`), and when the levels
are through, the total is at or under the mark (`LevelsDone`) as no list has
anything left above it (`EmptyFrom`). Between runs the store is `Closed`, every
record has gone out, and `saved` is what it says of them; `Open` makes of it a sound
store again.

A loop here is a function defined on the turns so far, and for the provers such a function
exists only if one can be shown. Each has a lemma that does it
(`EncodeStepsExist`, `ListStepsExist`, `FlatExists`, ...), by `UpTo`: what holds at 0 and is handed on
from each number below `n` to the next one holds up to `n`, which follows from
the numbers having a smallest exception, as in `HandedOutKeeps`.

`CountersKept` needs `MaxTotalHits > 8`. A full cache is brought down to nine tenths of
what it holds then, which may be two more than the limit, as a hit with a frequency
counts twice. Nine tenths of that are at or under the limit from nine on; under a smaller one
the cache may stay above it by one, which does not matter to the program, whose limits
are far larger. The run has a limit of five, which its instance does not pass.

**The maintenance scripts.** No assumption about the constants is needed.
`MailIsKeptWhole` needs that the copy about to be unlinked is the one in the archive
(`CopiedFirst`). For `ArchiveIsAccountedFor` the record of a mail moves. `Recorded`
says that `index` and `inc.xml` account for the archive until `doneidx` removes
`inc.xml`; they do so for a mail before it is in the archive, and also for the mail
of every process of `readspool` that waits for a child, unless the child has removed
it. `Owed` says that after that, and all through a full run, the run itself
accounts for it: what it would leave unrecorded if it ended now is in `owed`. `Built`
says that from the end of `ntvindex` on `index.new` has all of it but for what was cut,
and so does `index` after the moves. Steps come in three shapes, with a lemma each: a run
is over (`OverIInv`), a process of `readspool` ends and its parent goes on
(`ExitIInv`), and a mail goes from its XML to the archive (`ToArchiveIInv`).

**Only model-checked** are liveness (and fairness, which speaks of `ENABLED`), the
refinement of `NtvPostings` by `NtvIndCache`, and the module `NtvCompile`.
Liveness and induction over data are beyond the provers installed. That the indexer
implements `NtvPostings` (`HitsArePostings`) says that what is decoded from a chain of
fragments is the list of hits: an invariant about concatenations of unbounded numbers of
sequences, for which the theorems above are the ground, and which is not proved.
`NtvCompile` walks trees and has `RECURSIVE` operators, which the provers cannot use; no
module with a theorem reaches one.

## What the checks found

Each of these is a run that ends in a counterexample.

- `searchd_id_keeps_open`: `read_from_connection` (`ntvschd.c:790`) tests `ntvID`
  after `req_finished` has cleared it, so a refused query closes the connection
  even if it has an id; the manual (`ntvqueryxml.pod:90`) says it stays open.
- `constraints_deleted`: `testedAlready` (`ntvcompile.c:1209`) takes a test of a
  group of flags for one of the document's own byte, which has the bit that says
  the document exists. Deleting a document (`ntvindex.c:1441`) clears that byte
  only, so a deleted document is still found by its eighth and later flags.

Observations made while modelling. The modules reproduce these, and no run
checks them:

- An answer that cannot be taken apart is freed by `cache_analyzeserverresult`
  (`ncscache.c:821`, also 827 and 866), which leaves the pointer in the entry
  (`freed`); `cache_req_free` frees it again.
- `client_close` (`ncsclients.c:543`) never takes waiting requests off
  `g_nRequests`, so `RequestsAreBounded` bounds the outstanding requests by it and
  cannot say they are equal.
- A complete query that was read when the maximum was reached
  (`ncsclients.c:1221`) is not looked at again until more input arrives from its
  client, though `ntvcachecfgxml.pod:141` says it is blocked until others have
  been served.
- The loop of `subserver_dishoutwork` (`ncssubservers.c:774`) does not get past a
  dead server in the table, nor past one that has room for as many requests as
  there are turns; the servers behind it idle while requests wait.
- `out_write_results` (`ntvreq.c:1441`) writes with `mut_write` held and no timeout:
  as many clients as there are workers that do not read their answers stop
  `ntvsearchd` for all others.
- `inc.xml` is removed (`ntvincreindex:98`) before the new index is in place, and a
  full run removes it first of all: a run that fails or stops after that leaves mail
  in the archive that is not searchable and that no incremental run will index,
  though `tutgettingstarted.pod:407` says all mailboxes have been incorporated. These
  mails are in `missed`.
- `mailsimplereadspool` says "Remove from spool if all good" (line 55), but it does not
  test `print` and `close` of the archive (52 and 53): a mail of which nothing, or a
  part, was written is removed (`short`). `unlink ... || ntverror` (56) tests the name
  of the file.
- It does not test `print` and `close` of the pipe to the filter (36 and 37) either,
  and so not the filter's exit: a mail is archived without its XML, or `inc.xml` is
  torn and nothing that is appended after that will be read (`missed`). A child that
  cannot open `inc.xml` (31) ends alone; one that cannot execute the filter (32) goes on
  as a second `readspool`: it archives the mail without its XML and then the rest of the
  spool, and the first one, when it comes back to its own mail, finds it gone and ends
  in `ntverror`.
- A mail that `saveit` is still writing is read, archived and removed as far as it
  got (`short`); the rest goes to a file without a name.
- A client that is gone in `client_io` may leave its descriptor to a socket that is
  opened for a server in the same pass, which then looks ready in the sets `select`
  filled before; the server's socket does not block, so nothing comes of it.
- `main` (`main.c:706`) stops at the first XML it cannot index, saves and returns 0.
- After a stop between the two moves the next run finds no index, makes one from
  `inc.xml` only and empties `index.old`, the last place the postings were.
- `BFrecord_frag_grow` (`ntvblkbuf.c:2849`) puts `ULONG_MAX` into a `long`, so the branch
  that moves a smaller fragment instead of the growing one is never taken.
- The second part of `indCacheFlushHits` (`ntvindcache.c:540`) flushes records
  without lowering the counts of records never compressed.
- `client_io` (`ncsclients.c:1316`) closes a connection whose input has ended and
  that waits for nothing while its last answer is still going out; the test in
  `client_addselectfds` waits for it.
- After `req_put` the connector reads the buffer it gave back (`ntvschd.c:790`);
  another thread may have taken it and the connection's fate then depends on
  another query.
- `cache_tab_rehash` (`ncscache.c:502`) adds the entries to the usage list in the
  order of the old buckets, so the list is no longer in the order of use its
  comment (`ncscache.c:110`) promises.
- `client_grab_reqoutput` (`ncsclients.c:308`) copies from the new buffer into the
  old one (`*rd++ = *wr++`) when something is already going out; the next
  write ends the program.
- A thread that is alone on the priming queue is not throttled (`ntvblkbuf.c:1892`),
  so queries that come one at a time can pin more blocks than the cache is meant
  to hold.

Met while reading, outside of what is modelled:

- `subserver_possibly_dead` (`ncssubservers.c:515`) puts a request back with the very
  string `zap_query` frees next, when the database's constraint was added to it.
- `cache_generateclientresult` (`ncscache.c:671`) reads the hit at index
  `displayedhits+offset-1`, which is -1 for an answer without hits.
- `BFcache_prime` (`ntvblkbuf.c:1980`) grows its array by a number of bytes that
  forgets the size of an entry.
- `setBits` (`ntvcompile.c:1266`) and the engine take words of 32 bits, the code buffer has
  `unsigned long`; `1 << bitmask` (1989) is an `int`. `insertBranch` (1833) makes room for
  ten clusters more once, whatever number is asked for, and keeps `nextPointer` into
  memory `build` may move.
- `mailsimpleerror` exits with 1, so `"$ERR" ... && exit 1` in the scripts (`ntvincreindex:66`,
  79) reports and goes on. Nothing keeps two runs from going on at a time.
- `BFclose` (`ntvblkbuf.c:3147`) renames `rec.ntv` before the rfbmap file is complete.
- `clientmaxreadtime` and the size of the cache have other defaults in the code
  (none, and no limit) than in `ntvcachecfgxml.pod`.

## What is not modelled

- Text: parsing and printing of queries, answers, configuration and log. A
  property about the selection of hits (`cache_generateclientresult`) would need a
  model of answers; they are opaque so far.
- The search itself: scores are floating point, lists are compressed bit streams.
- A crash inside the indexer: it writes files in place in `index.new`, which a
  failed run leaves to the next one to empty (`NtvMaintenance`).
- The tokenizer, the dictionary and patterns, and reading a saved index into a
  search beyond the list of a word.
- The parser of constraints, attribute values of text and `ntvattr.c`; every tree the
  model takes is one the parser can make.
- The hooks of collections other than `mailsimple`, `ntvopt`, and the daemon that is
  restarted after a run. The files of an index are moved in one step, one run goes
  on at a time, and `rm` and the creation of `runblocked` work. That a mail appended
  after a short copy runs on from it in the mailbox is left out: a document is what
  one append wrote.
- The stand-alone programs: `ntvcheck`, `ntvultralite`, the filters under `utils`.
  They are sequential and keep nothing that outlives a call but their output.
- Several databases behind one `ntvcached`: the collections share nothing but the
  loop. A request for an unknown one is modelled in `NcsClients`.
- Constraints a database adds to a request: `req_srv` equals `req_key` in
  `NcsSubServers`.
- Sizes of memory: `memget` never fails, as in the code, which ends the program.
- Builds without threads (`ntvsearchd` then serves one connection at a time).
- Vendored code: expat, dlmalloc, getopt, the semaphores for BSD.

## The plan

Done, in this order: the work queue, the search server around it, the query cache,
the loop of the caching server, the servers behind it, the block cache; the
theorems about the work queue and the query cache; the indexer, constraints, and
the maintenance scripts; the theorems about the search server's threads, the block
cache and the maintenance scripts; those about the list of the query cache, about
the servers behind the caching server, and about its clients and event loop; those
about the indexer.

Left:

1. *Proofs.* The refinement of `NtvPostings` by `NtvIndCache`: what the fragments of a
   record hold is what was added, through `BlocksOut` and `Encode`.
2. *Composition.* `NcsClients` over `NcsBackend` instead of a queue of its own;
   `NcsSubServers` with a database's constraint,
   where a request given back to the queue keeps a pointer to memory that is freed
   (`ncssubservers.c:515`); the choice of a collection by name.
3. *The scripts.* Two runs at a time, the moves file by file, and the documents a full
   run may find twice; `ntvindex` as a process that may stop while it writes.
4. *Pure algorithms.* The hits `cache_generateclientresult` selects against their
   definition, with the boundary cases of offset and count.
