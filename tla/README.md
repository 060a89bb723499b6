# A TLA+ verification of monad-services

This directory holds TLA+ models of monad-services, TLC configurations that
check them on small instances, and TLAPS proofs of their main theorems for all
instances. Paths below are relative to `src/crates/`.

## 1. The system

monad-services is the set of processes that run beside a Monad node and serve
its history.

| part | where | state | operations | what makes it correct |
|---|---|---|---|---|
| query index writer | `monad-query-write`, driven by `monad-query-cli index` | eight tables (payload blobs and their locations, bitmap pages and statistics, three metadata tables, the state index) and the writer's buffer | open, append, a flush in about ten stages | a crash between any two writes loses nothing that was committed, and the index stays readable and exact |
| query stores | `monad-query-store` | blob and metadata stores | put, put_batch, get | a metadata batch is atomic, a blob batch is not |
| query validator | `monad-query-cli validate` | none | reads the index | reports an issue only where there is one |
| block archiver | `monad-archive`, `bin/monad-archiver` | objects per block, the *uploaded* marker | poll, upload concurrently, checkpoint | the marker covers only complete blocks and never moves back |
| indexer | `monad-archive`, `bin/monad-indexer` | transaction and log index, the *indexed* marker | follow the uploaded marker, index concurrently, checkpoint | the same, and no entry refers to data that is not there |
| file archivers | `bin/monad-archiver` (bft, generic folder, checkpointer) | cache of directories already walked | walk, upload, forget cold directories | every file that stays is uploaded in the end, and not as it was before it first came to rest |
| block writer | `bin/monad-block-writer` | the file `latest`, one file per block | follow the archive, write a range | the marker skips no block, through kills and retries |
| key value stores | `monad-archive/src/kvstore` | objects or documents | put, bulk put, get, delete, by five back ends | a get answers with something that was put, whole but where a store is known to tear |
| capped migration | `bin/monad-indexer/migrate_capped.rs` | phase and last id copied, two collections | rename, create, copy in batches, drop | no document is lost or goes back in time, wherever it stops |
| transaction index entries | `monad-archive/src/model`, `rlp_offset_scanner.rs` | entries in three forms, block objects in four | scan, index, read | an entry answers with its own transaction in every combination of versions |
| archive checker | `bin/monad-archive-checker` | faults per replica and chunk, the replica to repair each block from, progress per replica | compare replicas, recheck, fix | what is checked is reported in full, and repairs copy only sound blocks |
| archive reader | `monad-archive` | circuit breaker | read through primary or fallback | neither stays on the fallback for ever nor keeps asking a dead primary |
| txpool bridge | `monad-rpc/src/txpool`, `handlers/eth/txn.rs` | status table, address tables, eviction queue, channel to the bridge task | submit, follow pool events, evict, reconnect | the tables agree with each other and with the pool; a request is told the truth |
| block buffer | `monad-rpc/src/data/buffer` | ring of recent blocks by height and hash, index of their transactions | insert, replace, evict, look up | the maps describe the same blocks |
| data provider | `monad-rpc/src/data`, the lookup handlers | none of its own | read the buffer, then triedb, then the archive | a finalized block some source has is found, and answered exactly |
| execution handlers | `handlers/eth/call.rs`, `gas.rs`, `simulate.rs`, `debug.rs` | the request | resolve a block, run transactions on the engine, search, build trees | all runs on one block; estimates, filled transactions and call trees are right |
| request path | `handlers/mod.rs`, `data/eth_call_handler.rs`, `types` | permits, statistics, calls of a batch in flight | parse, admit, run side by side, cut, answer | permits come back, batches answer every call in its place, sizes are exact |
| event server, websockets | `monad-rpc/src/event`, `websocket` | broadcast channel, sessions, subscriptions | publish, lag, notify, close | a subscriber sees every event or is closed |

The processes interact through stores and markers rather than calls: the
archiver writes objects and then its marker; the indexer, another process, polls
that marker; the RPC server reads both, through the circuit breaker, and talks
to the node's pool over a socket.

The behaviours that are hard are those of any pipeline of this kind: a crash or
a failed write between two writes that belong together; blocks in flight that
finish in any order; a marker that is read while it is written; a node that dies
and comes back with another state; locks released between a check and its use.
`PROJECT.json` lists them under `hazards`, each at its line with the properties
that would catch it.

## 2. Modules

| module | models | composes |
|---|---|---|
| `QueryIndex` | what the index promises: a hash-linked log of blocks that grows at its head | |
| `QueryWriter` | the writer and its stores, one action per store operation | `QueryIndex` through a refinement mapping |
| `QueryValidator` | what `validate` reports about the writer's tables | extends `QueryWriter` |
| `BlockArchive` | objects and markers of the archive | |
| `ArchiveWorker`, `IndexWorker` | the loops of archiver and indexer | extend `BlockArchive` |
| `ArchivePipeline` | both workers and the growing chain | extends both workers |
| `TxIndex` | versions of stored objects and index entries, RLP scan, readers | |
| `KVStores` | the five back ends, request by request | |
| `FolderArchiver` | the folder and BFT file workers and the writers of the files | |
| `BlockWriter` | stream and range mode of the block writer | |
| `CappedMigration` | the migration, its writers and its restarts | |
| `CircuitBreaker` | breaker and the executor of every read | |
| `MCArchiveFiles` | one of the programs above from `TxIndex` on (`program`), chosen in the initial state | extends them |
| `BlockCheck` | what the checker concludes from a fetched chunk, as operators | |
| `ArchiveChecker` | checker, recheckers, fixer, late archivers | extends `BlockCheck` |
| `TxPoolBridge` | bridge task, requests, status tables, node | |
| `EventServer` | consensus events, event ring, block builder, broadcast channel | |
| `BlockBuffer` | the buffer of recent blocks that follows the broadcasts | extends `EventServer` |
| `EventClients` | websocket sessions and `eth_sendRawTransactionSync` on that channel | |
| `DataSources` | buffer (one map operation at a time), triedb and archive under one history | |
| `EthHandlers` | how contents become answers; the lookup handlers | extends `DataSources` |
| `DataProvider` | one request for chain data, one read per step | extends `EthHandlers` |
| `CallRequests`, `CallFrames` | conversion of call requests; trees of call frames | |
| `EthExecution` | one request that runs transactions while the head moves | extends `CallFrames` |
| `RpcTypes` | JSON lengths and hexadecimal text, beside what serde writes | |
| `RpcServer` | bodies, batches, permits, statistics, answers | extends `RpcTypes` |
| `RpcWire` | JSON forms of call frames, which contain frames; exactness of all forms | extends `RpcServer` |
| `MC...` | instances for TLC | |
| `...Proofs` | theorems about the module of that name; `ArchiveFilesProofs` is about the programs of `MCArchiveFiles`, `RpcServerProofs` also about `BlockBuffer`, `TransactionProofs` about `TxPoolBridge` and `EthExecution` | |

Definitions whose comment begins with *Mutant* are plausible bugs of the code;
no specification uses them. Substituted for the definition that follows them,
each one breaks the property it is listed with, which shows that the property
depends on that piece of code.

### QueryWriter

The variables are the eight tables, the fields of the `QueryWriter` struct and
the locals of `flush()` while one is in progress. `flush` is the sequence
`BeginFlush`, `AssignRange` for each pending block and `Assigned`; per family
`AppendItem`, `BeginPutPayload`, `PutPayload` for each partition, `FamilyDone`;
then `PutLocations`, `ReadPages`, `PutPage`, `PutStats`, `PutBlockHashes`,
`PutFamilies`, `PutBlockIndex` and, as the commit point, `PutState`.

* A blob batch reaches the store one object at a time and in any order: the file
  store writes sequentially and S3 concurrently; RocksDB, whose batch is atomic,
  is a special case. A metadata batch is one SQLite transaction.
* `FlushError` is a failed store operation as the library promises it (pending
  blocks are restored); the command line exits on it, which is `FlushError`
  followed by `Crash`. A write that landed without being acknowledged is the
  write followed by `Crash`.
* A record is a string of opaque bytes, because the location arithmetic cuts
  blobs by length. Families are numbers; family 0 holds the block headers, whose
  ids are heights, as in the code.
* A rejected append changes nothing and is a stutter. A flush may begin whenever
  something is pending, which is the end of a range.

### BlockArchive, ArchiveWorker, IndexWorker, ArchivePipeline

An object is a pair of kind and height: its content is a function of the block,
so writing it twice is the same with and without overwriting. A marker is a
height or `None`. Each worker is a loop *poll, process a window of blocks,
checkpoint*; `aHead`/`iHead` is the head of the buffered stream, and the window
behind it is what is in flight. `PutFails` and `IndexingFails` may have written
what they report as failed. A failed checkpoint is only logged and the loop goes
on, as in the code. A read error at start-up counts as an empty archive; the
indexer panics when there is no marker. Heights wrap at `U64_MOD`, which stands
for 2^64, since one subtraction in the indexer wraps. The command-line options
are chosen in the initial state.

### CircuitBreaker

One step per lock acquisition: `should_use_fallback` reads under the read lock
(`Check`) and acts under the write lock (`Upgrade`). Of the time since the
circuit opened only *none / recent / elapsed* matters. Cancelling a request (its
future is dropped) is possible at every await.

### TxPoolBridge

`status`, `addressed`, `addressHashes`, `queue` are the tables of
`EthTxPoolBridgeState`; a status of `"none"` is a missing entry. A `watch`
receiver is part of the request that holds it: the value, whether it has changed
since it was seen, and whether the sender is still in the table (`attached`).
`HandleEvent`, `ApplySnapshot`, `AddTx`, `Cleanup` are the four methods;
`TakeBatch` to `WatcherDies` are the branches of the bridge's `select!` and of
`try_create_ipc_client`. The select is biased; the model lets any ready branch
run, which allows more, because a branch may become ready after it was polled.
How many queue entries have reached the eviction age at a clean-up is left open.
Acquiring the in-flight guard and `try_send` form one step, since there is no
await between them. The node is external: it holds a pool, reports what happens
to its transactions in order, and loses the pool when it crashes. Its socket is
bound and listened on in one step.

### EventServer, BlockBuffer

Consensus and the event ring are external: blocks are proposed on a parent,
several at one height perhaps, voted, finalized along one chain, verified. Ring
and channel have a size; a reader that falls behind the ring gets a gap
(`ServerGap`, also for an expired payload) and starts afresh, a receiver that
falls behind the channel is told so (`RecvLagged`) and goes on. `lost` is a
history variable. A block stands for its hash; an entry of `txByHash` is the
block its location and receipt were taken from. `Insert` is the whole of
`BlockBuffer::insert`, replacement and eviction included, as one step; the same
insert in single map operations, with readers in between, is in `DataSources`.

### BlockCheck, ArchiveChecker

A copy of a block is its three objects (block with header, receipts, traces);
`Attr` gives of each what the code compares. `BlockCheck` is the pure part:
`verify_block`, the choice of the good replica, the kind of every fault. Equal
keys in `choose_good_replica` are possible only for undecodable traces, and then
the order of a hash map decides, so that the choice is a set.

In `ArchiveChecker` each read or write of the result store is a step, and a
fetch of a chunk lasts from `CheckBegin` or `RecheckBegin` to `FetchDone`: a
read in between returns any value its object has had since the fetch began
(`seen`), which covers every order of the reads and every write of the fixer and
of late archivers. A read error looks like a missing block, as in the code.
`Store` covers the read of the old faults before a deletion, since either
outcome is that of one write at the time of the read or of the deletion. The
recheckers are calls of `recheck_chunk_from_scratch`: the worker beside the
checker, standalone runs (`ForceRecheck` allows chunks without faults; a dry run
is a `Compare` that stores nothing), and the verification of the fixer. One
fixer runs at a time; it writes through `Write` the block, stored by its own
number, then receipts, then traces. Archivers write with
`WritePolicy::NoClobber`, the policy without the `unsafe` options. The object
that maps a block's hash to its number, the backups of old results, the registry
of replicas, metrics and the inspector are left out.

*Sound* is `SelfConsistent`: the three objects are there, the header has the
right number and the roots and counts match. `OneChain` is the assumption that
two sound copies of a block have the same number of transactions and the same
receipts root. It stands for finality: only finalized blocks are archived.
Without it, the parts of two sound copies need not fit together and a fix in
progress could be judged sound half-way.

### QueryValidator

The validator changes nothing, so that it is a set of operators:
`run_validation(from, to)` is the set of issues it would report of the tables as
they are. `ValidatorQuiet` evaluates it for every range in every state of the
writer. Reading all tables at one moment leaves out the check that the state row
did not change during a validation.

### TxIndex

Bytes matter here, since an entry refers to positions in an object. RLP is
scaled down: three constants give the number of single bytes, the longest short
length and the bytes of a length, in place of 128, 55 and 8; `decode_length` has
the same five cases as the code. Fields of a block are filler bytes of a given
length. An object is its bytes, and reading it is decoding them:
`decode_and_convert` looks at the two marker bytes, takes the rest apart as the
version they name, falls back to version 0, and converts to the latest version
(senders are recovered, first log numbers are counted). `rlp_list_slice` strips
the markers the code strips, which are not all of them. Initially the block may
be stored in any of the versions earlier releases wrote, with entries of the
first releases; then the objects may be archived again, with and without
overwriting, and indexed from the archive or from the fallback (triedb), which
has no offsets.

### KVStores, FolderArchiver, BlockWriter, CappedMigration

Every request to a service is a step, and may fail, be applied with its answer
lost, or be the last the process does.

* Stores. A value is a sequence of chunks. Nothing makes the puts of one key
  agree: the fixer overwrites the objects of a block with those of another
  replica. MongoDB's chunks are written before the main document, under ids that
  depend on the key only, so that an overwriting put replaces the chunks of the
  value before it in place; `torn` and `disturbed` record where that happened,
  and a reader carries whether its chunks may be of two puts (`mixed`). A file
  is opened, which cuts it, and then written. S3's client may be stuck until
  `maybe_recreate_client` replaces it. DynamoDB is only put to in bulk, which
  drops the errors of its batches.
* File workers. The folder worker is one step per directory listed; an upload is
  three awaits (`exists`, read, put). The workers know a file by its
  modification time, so `age` is only *new*, *old* or, after the clock was set
  back, *ahead* of the clock, for which `file_is_too_new` answers false. Other
  processes create, write, remove and create again at any time, `MaxWrites`
  times in all. `quiet` is the first version of a name that passed the age
  check. The hour a directory stays hot is a flag (`Cool`).
* Block writer. Its tasks finish in any order inside the window. A file, the
  marker included, is cut when it is opened and whole when it is written.
  `write-range` may be run over any range, also in a directory that has been
  streamed into; `recut` are the blocks it has opened and not written.
* Migration. Writers put documents by the collection's name at any time; a
  restart goes through `run_migrate_capped`, which opens the store and thereby
  creates a missing collection.

### DataSources, EthHandlers, DataProvider

The history of consensus is a sequence of events fixed in the initial state;
triedb, archive, index and buffer follow it at their own pace, triedb prunes,
and `MaxFaults` reads fail. `BufferStep` is one map operation of `insert`. A
request is one of the RPC methods with its reference (number, tag or hash); each
read of a source is a step. Contents keep what answers could confuse:
transaction, position, cumulative gas, first log index, sizes.

`eth_getLogs` reads the latest block, then resolves `from`, then `to`, each in a
step of its own while the head moves (`LogsLatest`, `LogsRange`), or looks a
hash up in triedb, twice when it is not there, and in the archive
(`LogsAtHash`). A range that ends behind the head is left to the index and, when
the index fails, to the scan of the blocks (`LogsLookupFails`); a block that
cannot be read is taken from the archive or fails the request (`LogsRowFails`).
`get_bloom_filtered_logs` holds the entry it looks at, so its scan of the buffer
is one step per block; `LogsExact` excepts the heights the buffer holds, whose
blocks may not be the finalized ones.

### CallRequests, CallFrames, EthExecution

A step is what happens between two awaits that can see different heads.
`get_block_header` asks the buffer first, which follows the node by itself: it
may be ahead of triedb or behind it (`BufferDrift`), and may not have the block.
The tracing and simulating handlers look up parent and grandparent and fail
without them; a fee history has at most 100 percentiles and fails with a block
it cannot read. The engine is external: for a request it is a record of the gas
the transaction needs, its outcome and the gas it refunds or holds back.
`estimate_gas_with_builder` is followed run by run. A trace is a flat list of
frames with depths; the tree that `build_call_tree` makes of it is compared with
the list; the engine gives the positions of logs in order.

### RpcTypes, RpcServer, RpcWire

`RpcTypes` has for every `JsonSerializedLen` the length that serde writes, and
for every parser of hexadecimal text what it accepts. `RpcServer` takes a body
from arrival to answer: a call is its method, whether its parameters parse, and
the length of its result; `Fibers` is the number of fibers of the execution
pool. A client may go away at any time, which drops the futures of its calls.
`RpcWire` adds the forms of call traces, the only recursive ones, and compares
every form with what is written. The texts it parses include every one that is
as long as a hash (scaled to two bytes).

### EventClients

The channel is a log with a position per receiver, of which the last
`ChannelSize` updates can still be read. Sessions subscribe, lag, are pinged,
exceed limits and close; a waiter subscribes, submits and waits.

## 3. What TLC checks

| run | instance | states | shows |
|---|---|---|---|
| `QueryWriter` | 3 linked blocks and one that does not link, 2 families, blobs of 2 ids, pages of 3, flush every 2 blocks, 3 crashes or failures | 25 thousand | see below |
| `ArchivePipeline` | 3 blocks, ranges of 2, 2 in flight, 1 failure, 4 x 2 option sets, with fairness | 310 thousand | markers cover complete blocks and entries resolve (`PromisesKept`), the uploaded marker does not go back, both workers catch up |
| `TxPoolBridge` | 2 transactions of one sender, 2 requests, 2 moves of the node by itself, 1 event in flight | 1.9 million | tables agree, answers are truthful, wake-ups are not lost, the bridge reconnects |
| `BlockBuffer` | 2 forks of 2 blocks, a transaction in both, ring of 1, channel of 2, capacity 2 | 2.1 million | the maps agree, no abandoned block is served as finalized |
| `ArchiveChecker` | 2 replicas in 4 states of disrepair, 2 chunks of 2 blocks, 1 rechecker, 1 failure | 240 thousand | marked chunks are reported in full and good replicas are sound (`ReportsSound`), nothing sound is spoilt |
| `DataProvider` | 4 blocks with a fork, 3 transactions, buffer of 2, one request of each method and reference, 1 fault | 2.6 million | finalized blocks are found and answered exactly, no state is invented, logs are exact |
| `EthExecution` | 4 blocks of which 3 are retained, a buffer one block off, engines and requests at the boundaries of every limit | 191 thousand | estimates, rewards of the fee history, pinned block, filled transactions, call trees |
| `RpcServer` | an HTTP and a websocket client, 2 permits, batches of up to 3 of which 2 run | 17 thousand | permits and statistics, batches, sizes and texts, every request is answered |
| `EventClients` | 2 sessions for 1 connection, 1 waiter, 2 blocks, 4 updates, channel of 2 | 1.4 million | notifications without holes, counted sessions, no missed receipt |
| `ArchiveFiles` | each program by itself: 5 stores with 2 writers, 2 values for one chunked key and 1 fault; 2 files each and 2 writes for the file workers, 1 fault; 4 blocks with 2 failures, a kill and 2 ranges to write; 3 documents and 2 stops; blocks of up to 3 transactions; 2 readers with a threshold of 2 and 3 changes of the primary; with fairness | 108 thousand | stores (`ReadsExact`), files (`StoredQuiet`), block files, documents and index entries are exact; the breaker's fields are consistent and it closes and opens again after the primary (`FollowsPrimary`); the programs make progress |
| `CappedMigration` | the migration alone | | **violation**, see Findings |
| `TxIndex` | the transaction index alone | | **violation**, see Findings |

Properties of `QueryWriter`: `Recoverable` (the writer can always be opened,
every committed record is inside a stored blob), `QueriesExact` (committed bits
are exactly the rows that match, statistics never understate, the block index
finds the block of every id), `ValidatorQuiet` (no false alarm about committed
blocks beyond the two it names), `CommittedStable` (a committed record keeps its
place and bytes), `ImplementsIndex` (the refinement: what a reader can read is
an append-only log) and `AllIndexed` (in the end everything is indexed).

Bounds. With blobs of 2 ids and batches of 2 blocks, batches end inside, at and
beyond a partition and page boundary, and the index starts inside a partition.
Three failures let a retried batch fail again in another stage. In the pipeline
a window of two is the least in which a later block finishes before an earlier
one, and the failure hits a put, a read, a checkpoint or a process. In the
bridge, two moves are a crash after an insertion or removal, or two crashes;
transactions may also be in the pool at the start. In the buffer two heights
reach the capacity, and a replaced height exceeds it, so that replacement and
eviction meet in every order. In the checker the defects are an altered header,
wrong receipts beside traces without an output, and objects that are late; most
are in the second chunk, so that the checker, the rechecker and the fixer are at
different chunks, and the replica with late blocks has a marker for the fixer to
move. The one failure is a crash of any job, an aborted fix, or a read of the
only good copy that fails. The fork in `DataProvider` is at the height where the
buffer's capacity is reached, so that replacing, evicting, pruning and archiving
meet in one lookup; one request is enough, since requests share nothing. In
`EthExecution` the gas values keep their real size (21000, 2300, the 1.5 percent
of the search), only the words are narrower; `MaxDepth` is more than the depth
of any trace of the instance. In `RpcServer` two permits and batches of three
let a batch take the last permit from itself. In `EventClients` four updates
overrun a channel of two. In `TxIndex` a transaction of each length class of RLP
occurs, below and above the inline limit (`MaxInlineLen`). In the stores the two values of the key have two and three chunks, so that
a put meets the longer and the shorter one; the fault is a put that dies among
its chunks, a lost answer or a delete. `write-range` is called with a range that
is longer than the window and one of a single block (`WriteRanges`). Two writes make
a file that is written again, or created again, around its upload. Of two readers one records an old result after the other's, or drops its probe.
`MaxFails`, `MaxFailures`, `MaxMoves`, `MaxFlips`, `MaxEvents`, `MaxKvFaults`,
`MaxWrites`, `MaxFileFaults`, `MaxBlockFails`, `MaxKills`, `MaxStops`,
`MaxFaults`, `BufferDrift` and `FailureCap` are bounds; none of the proofs
depends on their values.

Deadlock checking is off where the system may stop: when the chain that is given
has been processed, when a stop block is reached, when all requests have been
answered.

Fairness. A worker's loop keeps running and is restarted when it dies (the
systemd units under `src/debian` say `Restart=always`); failures are bounded, so
"in the end" means once failures stop. In `ArchiveFiles` strong fairness of
`AskPrimary` says that readers do not cancel every request. In the bridge the
task is scheduled and the node restarted. In `RpcServer` calls that have begun
are polled and end; in `ArchiveFiles` each program keeps running, a killed one
is started again, and requests that are repeated succeed once faults stop.
`FilesProgress` says that again and again all puts are settled, every file there
is is archived and the block writer has caught up.

## 4. What is proved

TLAPS checks these for every value of the constants that satisfies the named
assumptions (positive sizes, finite sets, blocks with exactly one header row, a
source in which a hash names one block and one block follows another).

* `QueryWriterProofs`: `TypeCorrect`, `AlwaysRecoverable`, `CommittedForever`,
  `WriterImplementsIndex`, `QueriesFindAll`, `ValidatorIsQuiet`. Recoverability
  is not inductive by itself. The invariant adds that the writer's memory agrees
  with the state row (`MemoryAgrees`), that the ids of a batch are contiguous
  from the committed frontier (`BatchShape`), that locations gathered so far are
  those of new ids inside the buffers (`NewLocations`), that every buffer
  extends the committed prefix of the blob it will replace (`BuffersExtend`;
  this is why a half-written batch does no harm), and that what earlier stages
  stored is there when the state row is put (`StagesStored`). The refinement
  `WriterImplementsIndex` needs a second invariant (`CInv`) about contents.
  Every committed height has one block of the source whose hash, ranges and
  bytes are the stored ones (`BlocksStored`); the hash in memory is that of the
  last committed block and pending blocks are linked to it (`HeadKnown`); the
  ranges of a batch tile the ids from the frontier to the cursor (`Assigns`);
  each prepared record lies in its buffer or blob between the end of its
  predecessor and its own location (`NewRows`, `BufferEnds`); and stored
  metadata are the batch's (`MetadataStored`). A reader's log is then unchanged
  by every step but `PutState`, which appends the batch. `QueriesFindAll` has to
  speak of blocks beyond the frontier, whose bits and keys an abandoned flush
  leaves behind. They are right because the same blocks follow again
  (`FinalityAssumption`; a block that does not link may still be offered, and is
  refused). The invariant says that there is a *run*, the part of the finalized
  chain past the frontier with the ids its records have had and will have again
  (`Run`, `RunAhead`), to which every bit and key beyond the frontier belongs
  (`Beyond`, `KeysKnown`); that the pages of a batch are the committed bits and
  the batch's (`PagesMade`, `PagesStored`); and that bits, ranges and keys of
  committed blocks are those of their records (`BitsStored`, `RangesOrdered`,
  `KeysStored`). The proof of a commit shows that the batch is the beginning of
  the run. `ValidatorIsQuiet` adds that the ranges of committed blocks join
  without a gap (`RangesJoin`, `IdsCovered`) and that nothing is stored below
  the first block (`RangesAbove`, `LocationsAbove`, `MarksAbove`); each check of
  the validator is then a lemma of its own.
* `ArchivePipelineProofs`: `MarkersTruthful`, `EntriesResolve`, `PromisesHold`
  (the run's `PromisesKept`: uploaded and indexed markers cover what they say
  and every entry resolves), `MarkerNeverBack`. Each position of a worker
  (start, head of the stream, the marker to be written) is justified by the
  archive or the index; the archiver's position is ahead of its marker; what was
  read for indexing is in the archive. `PromisesKept` excepts the marker that
  wrapped around below block 0.
* `TxPoolBridge`, in `TransactionProofs`: `TypeCorrect`, `TablesStayInStep`,
  `OkIsTruthful`, `WakesAreDelivered`, `CaughtUpIsCurrent`. The tables are
  inductive with the types: an entry is queued exactly when its status is new,
  and removal takes a transaction from all tables. That "ok" is truthful needs
  that pool, good statuses, good events in flight and the values requests hold
  all speak of transactions the pool has had. That the statuses are current once
  the bridge has caught up is generalised to every moment: the last event in
  flight about a transaction, or its status when there is none, says whether the
  pool has it (`CurrentInv`).
* `ArchiveCheckerProofs`: `TypeCorrect`, `ReportsComplete`, `GoodCopies`,
  `RecordsTrue` (both of these), `NothingSpoilt`, for any replicas, chunk size,
  number of recheckers and crashes, and any content of the archives. The
  argument turns on single objects: a copy is sound exactly when each of its
  objects is part of some sound copy (`PartsFit`, from `OneChain`), and a write
  never replaces such an object by another kind (`WriteKeeps`). So an object
  that was read while it was part of a sound copy still is one now (`SeenInv`),
  what a job concludes from a torn read still holds when it is stored, however
  late (`FoundInv`), the fixer holds sound copies (`FixInv`), and what the
  checker has stored, marked or left behind is complete (`ProgressInv`).

* `ArchiveFilesProofs`: `MigrationKeepsDocuments`, `MarkerSkipsNothing`,
  `FilesStoredQuiet`, `ReadsAreExact` and `AlwaysConsistent`, the safety
  properties of the programs of `MCArchiveFiles`. In the migration the renamed
  collection is filled once, what is at or below the last copied id is in the
  collection, and all of it is before the drop (`MigrationPhases`,
  `MigrationCopied`). In the block writer what is not whole in the current range
  is still to be done or has failed, and the number about to be written to
  `latest` is one up to which nothing is missing but what `write-range` has
  opened again (`RangeInv`). For the file workers: a file that is not new has a
  version that passed the age check, which is not later than the version it has
  (`AgeInv`); what was listed had one (`ListedInv`), so what is read later,
  whatever was written since, is no older than that version (`UploadInv`), nor
  is what the store keeps (`ObjectInv`); and what the caches know is stored
  (`KnownInv`). In the stores a main document is only there with all its chunks,
  since chunks go first and are never taken away (`MainInv`), and every chunk is
  the one of its number of some put (`ChunkInv`). The puts of a key may have any
  values: where no put replaced another's chunks the chunks are those of one
  put, and the invariant follows this through every writer (`PuttingInv`) and
  the reader (`ReadOk`). The breaker's fields are consistent inductively with
  their types.
* `EventClientsProofs`: `ClientsInvariant`, `SubscribersMissNothing`,
  `CountsAreExact`, `WaitersMissNothing`, for any number of sessions, waiters
  and updates and any channel size. What a session was told is kept update by
  update, so that it can be compared with the log position by position
  (`SessionsTold`); open sessions and their topics are a finite set whose size
  each step changes by one (`SessionsCounted`); and a waiter that has not been
  answered is not past its transaction (`WaitersUnread`).
* `RpcServerProofs`: `PermitsAccounted` and `BatchAnswered`, for any
  connections, bodies, permits and limits (a body of one call has one call:
  `BodyAssumption`). The invariant follows each request (`RunningInv`): calls
  are started in order, what is in the buffer fits its call (`SlotInv`), what
  was taken is the response in its place, and a request that is no batch has one
  call. No two requests at work share an id (`IdsApart`), so that taking an
  entry from the statistics takes the right one. That errors never outnumber
  requests is not inductive: errors and the calls that still run together do not
  (`StatsInv`). The calls that hold a permit are a finite set of pairs, of which
  each step adds one, removes one or removes those of one connection
  (`PairsMore`, `PairsLess`, `PairsGone`). Lengths of responses stay
  uninterpreted.
* The block buffer, also in `RpcServerProofs`: `TypeCorrect`,
  `HashesStayInStep`, `NoStaleEntry`, `NothingEscapesTheRing` and their
  conjunction `MapsStayInStep`, `FinalizedIsServed`. The maps agree only
  together: that a block is stored at its own height is what makes the removal
  of its hash hit the right entry. Replacing and evicting are two lemmas about
  any four consistent maps. `FinalizedIsServed` looks at the events that the
  buffer has not seen yet, the channel followed by the ring: read in order they
  never offer a proposal at a height after the finalized block of that height
  (`StreamInv`, `FinalInv`).
* `DataProviderProofs`: `SettledIsAnswered`, `StateIsNeverInvented` and
  `LogsAreExact`, for any histories, requests, number of faults and timing of
  pruning, archiving, indexing and the buffer task. Sources only go forward, so
  what they had when the request began they still have (`BegunInv`). The
  invariant follows the locals of a request from place to place (`At`): where a
  finalized block is to be read from triedb, the key is that of its height (a
  finalized key, whatever proposal was resolved on the way) and the position is
  that of the transaction asked for; where the archive is asked, triedb no
  longer has the block or has failed. An empty account that was read means that
  triedb did not have the state at that time, and then it does not have it later
  when it is asked again (`StateAt`): this is why the code checks the block
  after the state. That gas and log indices of a receipt come out right is a
  lemma about the running sums of a block (`UptoFacts`). Assumed are what
  consensus promises (blocks are finalized in order and without a gap, and the
  latest proposal is built on them: `HistoryAssumption`), that no transaction is
  executed twice on a chain (`SourcesAssumption`), and that requests have the
  forms the handlers make (`ProviderAssumption`). `LogsAreExact` has an
  invariant of its own (`LogInv`): the buffer holds a block under its own
  number, also in the middle of an insert (`BufferInv`); a block that a row of
  the scan has taken has the number of that row, and is the finalized one unless
  the buffer has held the number since the request began (`Taken`); what has
  been read of the range before it is complete is kept apart (`Ends`). What
  joining sequences gives is a lemma about `FlattenSeq` (`FlattenFacts`): where
  each part begins, and that every position belongs to one part. It is used
  three times, for the receipts of a block, for the blocks of a range that the
  index names, and for the logs of the blocks; as no two blocks taken have the
  same number, the logs of a number are one run of the answer (`JoinedLogs`).
* `EthExecution`, also in `TransactionProofs`: `RunsPinned`, `EstimatesExact`
  and `FilledIsSignable`, for any requests, engines, limits and pace of the
  chain. The invariant follows the locals of a request from place to place
  (`At`). The key of the block may change only while nothing has been run (`log`
  is empty at every place that sets it), and the header is that of the key, but
  for `eth_fillTransaction`, which takes it from the buffer (`HeaderFits`) and
  keeps the one it took (`SameBlock`); every run then fits (`RunsFit`). The gas
  of a request is bounded where the handlers bound it: by the provider's limit
  or, where the limit fills it in, by `FilledParams`; the sum of a simulation by
  an induction over blocks and calls (`BlockFilled`, `SimulationFilled`), stated
  about the set of lengths that are good (`Ascend`). In the search the least
  sufficient gas is always above the lower bound and not above the upper one
  (`Bracketed`), whether the second run succeeds or not. A transaction that is
  being filled keeps the list, the type and the caps of the request (`SameKind`)
  and pays the base fee that was read (`Pays`), through `Prices` and `Unsigned`.
  Assumed are widths of integers (`WidthAssumption`), that base fees have 64
  bits and a transfer fits in every limit (`LimitAssumption`), that a run needs
  the gas of a transfer or more and never uses more than it needs
  (`EngineAssumption`), and that requests have the types the handlers parse
  (`RequestAssumption`).

Only model-checked:

* all liveness properties (`AllIndexed`, `FollowsPrimary`, `RequestsAnswered`
  and the others of section 3): fairness is out of the prover's reach;
* `ReadingsExact` of `EthExecution` (call trees, sums of gas over sorted
  transactions), `WireExact` of `RpcWire` (lengths of nested call frames) and
  `IndexReadsExact` of `TxIndex` (encodings folded over sequences). The
  library's induction theorems cannot be instantiated by the installed provers,
  so every recursive definition needs an induction of its own, laid out by hand
  over sets of numbers, as is done for the sums and for `FlattenSeq`. It has not
  been done for call trees, sorted sums, nested frames and digit-wise encodings,
  some of which are `RECURSIVE` operators that no proof module may reach.

## 5. Findings

`CappedMigration` (`monad-archive/src/bin/monad-indexer/migrate_capped.rs:65`):
a migration that stops after the rename and before the phase *Copying* is
recorded takes the new, empty collection for a migrated one when it is started
again. It deletes its state and returns Ok with the documents left in the
renamed collection, though the module says it is crash-resumable.
`DocumentsKept` shows that nothing is lost: the documents are still there under
the other name.

`TxIndex` (`monad-archive/src/model/block_data_archive.rs:463`):
`rlp_list_slice` strips the markers of versions 0 and 1 and not that of version
2, which `encode_block` writes and `decode_and_convert` reads, though the
comment at line 149 says that extracting offsets is the same for all
representations. The scan then takes the marker bytes for RLP: it fails with
mismatched counts, or, in a block with one transaction, answers with a range
that covers the marker. The archiver writes version 1, so no block it writes
today is concerned.

The models also show these; they are noted at their hazards, and the properties
name them as exceptions rather than claim more than the code gives:

* the validator asks for the location in front of the first record of an index
  that starts inside a payload partition
  (`monad-query-cli/src/validate/mod.rs:351`), and takes the bits of a flush
  under way for orphans;
* `err_block - 1` wraps when block 0 cannot be indexed
  (`monad-archive/src/bin/monad-indexer/index_worker.rs:143`);
* a failed read of the marker at start-up lets the archiver write smaller
  markers over the larger one (`bin/monad-archiver/block_archive_worker.rs:80`);
* the breaker can be half-open before its timeout, since only the state, not the
  opening time, is checked again under the write lock
  (`monad-archive/src/failover_circuit_breaker.rs:81`);
* a transaction in stored blocks of two forks loses its entry when one of them
  is replaced (`monad-rpc/src/data/buffer/mod.rs:168`), and a lookup by hash can
  answer with the block that replaced it (`data/buffer/view.rs:67`);
* a legacy request loses its access list on conversion, so that the second run
  of `eth_createAccessList` goes without the list it reports
  (`monad-rpc/src/handlers/eth/call.rs:245`);
* the calls of one batch share an entry in the statistics of `eth_call`, which
  the first to end removes (`monad-rpc/src/data/eth_call_handler.rs:230`);
* a kill inside the write of the block writer's `latest` leaves text that no
  later start can parse, and a torn file survives `NoClobber`
  (`monad-archive/src/kvstore/fs.rs:171`);
* `write-range` over a directory that has been streamed into cuts blocks the
  marker vouches for while it writes them again
  (`bin/monad-block-writer/main.rs:106`);
* a MongoDB put that overwrites a value of several chunks replaces them one by
  one under its readers, and one that dies on the way leaves chunks of two
  values under one document; two `NoClobber` puts that both pass the check
  before either has written its document mix their chunks in the same way, and
  the one that is answered *skipped* may have left its own
  (`kvstore/mongo.rs:299`);
* `bulk_put` of DynamoDB drops the errors of its batches
  (`kvstore/dynamodb.rs:127`);
* a writer that pauses for longer than the minimum age, or a clock that is set
  back, gets a part of a file stored for good
  (`bin/monad-archiver/generic_folder_archiver.rs:366`);
* `eth_fillTransaction` may fill in fees from a header that is not that of the
  block it runs on (`monad-rpc/src/handlers/eth/gas.rs:504`).

One comment disagrees with its code without a property at stake: the BFT
worker's description says that a file is not to be inserted into the known set
when it is uploaded, and the code inserts it
(`bin/monad-archiver/bft_archive_worker.rs:36`).

## 6. Not modelled

* Execution itself, triedb and consensus are external; they are described by
  what this repository relies on.
* `migrate_logs.rs` (one sequential loop), the file checkpointer, the command
  lines and configuration (`cli.rs`), metrics, logging, displays.
* The checker's inspector, its backups, the registry of replicas and the search
  of fault chunks by key prefix, which is string matching on zero-padded
  numbers.
* Conversion of blocks for the query index (`read_finalized_block`,
  `compute_trace_addresses`) and the row encodings of the query schema.
* Decoding and signature recovery of raw transactions; the status methods of the
  txpool namespace, which read one table; timing middleware.
* SQL, connection pools and the clients of S3, MongoDB and DynamoDB below the
  request.
