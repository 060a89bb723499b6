----------------------------- MODULE QueryWriter -----------------------------
(***************************************************************************)
(* The query index writer (monad-query-write) as the `index` command of    *)
(* monad-query-cli drives it.                                              *)
(*                                                                         *)
(* The process opens the index, appends finalized blocks to a buffer and   *)
(* flushes the buffer in stages: payload blobs family by family, payload   *)
(* locations, bitmap pages, page statistics, three metadata tables and, as *)
(* the commit point, the state index.  A blob batch reaches the store one  *)
(* object at a time; a metadata batch is one transaction.  The process can *)
(* crash between any two writes, and any write can fail; what is on disk   *)
(* afterwards is what the next run starts from.                            *)
(*                                                                         *)
(* Bytes are opaque tokens; a row is the byte string of one stored record  *)
(* with the set of bitmap filters it matches.                              *)
(***************************************************************************)
EXTENDS Integers, Sequences, FiniteSets

CONSTANTS
  NumFamilies,     \* how many of the record families are modelled
  Blocks,          \* the blocks the block source may hand to the writer
  Hash,            \* block hashes
  NoHash,          \* last_block_hash = None
  Filter,          \* bitmap filter values
  Byte,            \* payload bytes
  StartBlock,      \* start_block of the service configuration
  FlushEvery,      \* flush_every_blocks of the service configuration
  ITEMS_PER_BLOB,  \* ids per payload blob
  PAGE_SPAN,       \* ids per bitmap page
  MaxFails         \* bound: crashes and failed writes in a behaviour

(* The discriminants of enum Family; block headers are the first. *)
Family == 0 .. NumFamilies - 1
BlockHeader == 0

Row == [bytes : Seq(Byte), filters : SUBSET Filter]
BlockType ==
  [number : Nat, hash : Hash, parent : Hash, rows : [Family -> Seq(Row)]]

ASSUME SizesAssumption ==
  /\ NumFamilies \in Nat \ {0}
  /\ StartBlock \in Nat
  /\ FlushEvery \in Nat \ {0}
  /\ ITEMS_PER_BLOB \in Nat \ {0}
  /\ PAGE_SPAN \in Nat \ {0}
  /\ MaxFails \in Nat

(* Every block carries exactly one header row. *)
ASSUME BlocksAssumption ==
  /\ \A b \in Blocks : b \in BlockType /\ Len(b.rows[BlockHeader]) = 1
  /\ NoHash \notin Hash

(* The source is finalized: a hash names one block, and one block follows  *)
(* another.  A block that does not link may still be offered.              *)
ASSUME FinalityAssumption ==
  /\ \A b, c \in Blocks : b.hash = c.hash => b = c
  /\ \A b, c \in Blocks :
       b.number = c.number /\ (b.parent = c.parent \/ b.number = StartBlock) => b = c

VARIABLES
  \* durable tables
  stateIndex,     \* state_index: [started, start, next]; a missing row reads as the default
  blob,           \* payload: <<family, partition>> -> bytes
  location,       \* payload_location: <<family, id>> -> end offset of the item in its blob
  bitmap,         \* bitmap_index: <<family, filter, page>> -> set of bits
  pageStats,      \* bitmap_page_stats: <<family, filter, page>> -> count
  blockHash,      \* metadata_block_hash: height -> hash
  familyRange,    \* metadata_family: <<family, height>> -> [first, count]
  blockIndex,     \* metadata_family_block_index: <<family, first id>> -> height
  \* the process
  up,             \* the process is running
  state,          \* QueryWriter.state
  lastHash,       \* QueryWriter.last_block_hash
  pending,        \* QueryWriter.pending
  \* locals of a flush in progress
  stage,          \* where flush() is
  ranges,         \* id ranges assigned to the pending blocks so far
  cursor,         \* next_tx / next_log / next_trace and the next block number
  fam,            \* the family payload::flush is working on
  nid,            \* the id of the next item of that family
  bufs,           \* blobs prepared for put_batch: partition -> bytes
  locs,           \* locations gathered so far: <<family, id>> -> end
  pages,          \* bitmap pages prepared for put_batch
  unput,          \* keys of the current put_batch that have not reached the store
  fails           \* crashes and failed writes so far

tables == <<stateIndex, blob, location, bitmap, pageStats, blockHash,
            familyRange, blockIndex>>
scratch == <<ranges, cursor, fam, nid, bufs, locs, pages, unput>>
vars == <<tables, up, state, lastHash, pending, stage, scratch, fails>>

-----------------------------------------------------------------------------
(* Tables are partial functions. *)
EmptyTable == [k \in {} |-> 0]
Put(table, key, value) ==
  [k \in DOMAIN table \cup {key} |-> IF k = key THEN value ELSE table[k]]
PutBatch(table, rows) ==
  [k \in DOMAIN table \cup DOMAIN rows |->
     IF k \in DOMAIN rows THEN rows[k] ELSE table[k]]

(* StateIndex::default(); `started` is indexed_start.is_some(). *)
DefaultState ==
  [started |-> FALSE, start |-> 0, next |-> [f \in Family |-> 0]]

Partition(id) == id \div ITEMS_PER_BLOB
Page(id) == (id \div PAGE_SPAN) * PAGE_SPAN

(* The head of the indexed chain, when there is one. *)
HasLastBlock(s) ==
  /\ s.next[BlockHeader] > 0
  /\ s.started => s.next[BlockHeader] - 1 >= s.start
LastBlockId(s) == s.next[BlockHeader] - 1

(* The last committed id of a family, when there is one. *)
HasCommitted(s, f) == IF f = BlockHeader THEN HasLastBlock(s) ELSE s.next[f] > 0

(* The committed ids of a family in a state index. *)
FirstId(s, f) == IF f = BlockHeader THEN s.start ELSE 0
CommittedIds(s, f) == FirstId(s, f) .. s.next[f] - 1

-----------------------------------------------------------------------------
ScratchCleared ==
  /\ ranges = <<>>
  /\ cursor = [f \in Family |-> 0]
  /\ fam = 0
  /\ nid = 0
  /\ bufs = EmptyTable
  /\ locs = EmptyTable
  /\ pages = EmptyTable
  /\ unput = {}

Init ==
  /\ stateIndex = DefaultState
  /\ blob = EmptyTable
  /\ location = EmptyTable
  /\ bitmap = EmptyTable
  /\ pageStats = EmptyTable
  /\ blockHash = EmptyTable
  /\ familyRange = EmptyTable
  /\ blockIndex = EmptyTable
  /\ up = FALSE
  /\ state = DefaultState
  /\ lastHash = NoHash
  /\ pending = <<>>
  /\ stage = "idle"
  /\ ScratchCleared
  /\ fails = 0

(***************************************************************************)
(* Start-up: QueryWriter::open, then start_at when nothing is indexed.     *)
(***************************************************************************)
StartAt(s) ==
  [s EXCEPT !.started = TRUE, !.start = StartBlock, !.next[BlockHeader] = StartBlock]

Openable == HasLastBlock(stateIndex) => LastBlockId(stateIndex) \in DOMAIN blockHash

(* Mutant: the hash of the last indexed block is not loaded. *)
OpenForgetsHash ==
  /\ ~up
  /\ Openable
  /\ up' = TRUE
  /\ state' = IF stateIndex.next[BlockHeader] = 0 THEN StartAt(stateIndex) ELSE stateIndex
  /\ lastHash' = NoHash
  /\ pending' = <<>>
  /\ UNCHANGED <<tables, stage, scratch, fails>>

Open ==
  /\ ~up
  /\ Openable
  /\ up' = TRUE
  /\ state' = IF stateIndex.next[BlockHeader] = 0 THEN StartAt(stateIndex) ELSE stateIndex
  /\ lastHash' = IF HasLastBlock(stateIndex)
                   THEN blockHash[LastBlockId(stateIndex)]
                   ELSE NoHash
  /\ pending' = <<>>
  /\ UNCHANGED <<tables, stage, scratch, fails>>

(***************************************************************************)
(* append(): the next block by number, extending the last block by hash.   *)
(* A rejected block changes nothing.                                       *)
(***************************************************************************)
NextBlockNumber == state.next[BlockHeader] + Len(pending)

PreviousHash == IF pending # <<>> THEN pending[Len(pending)].hash ELSE lastHash

Append1(b) ==
  /\ up /\ stage = "idle"
  /\ Len(pending) < FlushEvery
  /\ b.number = NextBlockNumber
  /\ PreviousHash # NoHash => b.parent = PreviousHash
  /\ pending' = Append(pending, b)
  /\ UNCHANGED <<tables, up, state, lastHash, stage, scratch, fails>>

(***************************************************************************)
(* flush(): prepare_flush assigns each pending block its id ranges.        *)
(***************************************************************************)
BeginFlush ==
  /\ up /\ stage = "idle"
  /\ pending # <<>>
  /\ stage' = "assign"
  /\ cursor' = state.next
  /\ UNCHANGED <<tables, up, state, lastHash, pending, ranges, fam, nid, bufs,
                 locs, pages, unput, fails>>

AssignRange ==
  /\ stage = "assign"
  /\ Len(ranges) < Len(pending)
  /\ LET b == pending[Len(ranges) + 1] IN
       /\ ranges' = Append(ranges,
            [f \in Family |->
               [first |-> IF f = BlockHeader THEN b.number ELSE cursor[f],
                count |-> Len(b.rows[f])]])
       /\ cursor' = [f \in Family |-> cursor[f] + Len(b.rows[f])]
  /\ UNCHANGED <<tables, up, state, lastHash, pending, stage, fam, nid, bufs,
                 locs, pages, unput, fails>>

Assigned ==
  /\ stage = "assign"
  /\ Len(ranges) = Len(pending)
  /\ stage' = "append"
  /\ fam' = BlockHeader
  /\ nid' = state.next[BlockHeader]
  /\ UNCHANGED <<tables, up, state, lastHash, pending, ranges, cursor, bufs,
                 locs, pages, unput, fails>>

(***************************************************************************)
(* payload::flush, one family at a time.  A partition's blob is read once, *)
(* cut back to the committed end and extended item by item.                *)
(***************************************************************************)
SharesPartition(f, p) ==
  /\ HasCommitted(state, f)
  /\ Partition(state.next[f] - 1) = p

(* The committed location exists and the blob reaches up to it. *)
Appendable(f, p) ==
  SharesPartition(f, p) =>
    /\ <<f, state.next[f] - 1>> \in DOMAIN location
    /\ <<f, p>> \in DOMAIN blob
    /\ location[<<f, state.next[f] - 1>>] <= Len(blob[<<f, p>>])

(* Mutant: a partition is always started from an empty blob. *)
NoPrefix(f, p) == <<>>

CommittedPrefix(f, p) ==
  IF SharesPartition(f, p)
    THEN SubSeq(blob[<<f, p>>], 1, location[<<f, state.next[f] - 1>>])
    ELSE <<>>

AppendItem ==
  /\ stage = "append"
  /\ nid < cursor[fam]
  /\ \E k \in 1 .. Len(ranges) :
     \E j \in 1 .. ranges[k][fam].count :
       LET p    == Partition(nid)
           base == IF p \in DOMAIN bufs THEN bufs[p] ELSE CommittedPrefix(fam, p)
           buf  == base \o pending[k].rows[fam][j].bytes
       IN /\ ranges[k][fam].first + j - 1 = nid
          /\ p \notin DOMAIN bufs => Appendable(fam, p)
          /\ bufs' = Put(bufs, p, buf)
          /\ locs' = Put(locs, <<fam, nid>>, Len(buf))
  /\ nid' = nid + 1
  /\ UNCHANGED <<tables, up, state, lastHash, pending, stage, ranges, cursor,
                 fam, pages, unput, fails>>

BeginPutPayload ==
  /\ stage = "append"
  /\ nid = cursor[fam]
  /\ stage' = "payload"
  /\ unput' = DOMAIN bufs
  /\ UNCHANGED <<tables, up, state, lastHash, pending, ranges, cursor, fam, nid,
                 bufs, locs, pages, fails>>

PutPayload(p) ==
  /\ stage = "payload"
  /\ p \in unput
  /\ blob' = Put(blob, <<fam, p>>, bufs[p])
  /\ unput' = unput \ {p}
  /\ UNCHANGED <<stateIndex, location, bitmap, pageStats, blockHash, familyRange,
                 blockIndex, up, state, lastHash, pending, stage, ranges, cursor,
                 fam, nid, bufs, locs, pages, fails>>

FamilyDone ==
  /\ stage = "payload"
  /\ unput = {}
  /\ bufs' = EmptyTable
  /\ IF fam + 1 < NumFamilies
       THEN stage' = "append" /\ fam' = fam + 1 /\ nid' = state.next[fam + 1]
       ELSE stage' = "location" /\ UNCHANGED <<fam, nid>>
  /\ UNCHANGED <<tables, up, state, lastHash, pending, ranges, cursor, locs,
                 pages, unput, fails>>

PutLocations ==
  /\ stage = "location"
  /\ location' = PutBatch(location, locs)
  /\ stage' = "bitmap_read"
  /\ UNCHANGED <<stateIndex, blob, bitmap, pageStats, blockHash, familyRange,
                 blockIndex, up, state, lastHash, pending, scratch, fails>>

(***************************************************************************)
(* bitmap_index::flush.                                                    *)
(***************************************************************************)
(* The rows of the batch in family f, with their ids. *)
Items(f) ==
  UNION {{[id |-> ranges[k][f].first + j - 1, row |-> pending[k].rows[f][j]] :
            j \in 1 .. ranges[k][f].count} : k \in 1 .. Len(ranges)}

TouchedPages ==
  UNION {UNION {{<<f, w, Page(item.id)>> : w \in item.row.filters} :
                  item \in Items(f)} : f \in Family}

PendingBits(f, w, page) ==
  {item.id - page : item \in {x \in Items(f) : w \in x.row.filters /\ Page(x.id) = page}}

(* Mutant: the last committed bit is dropped. *)
KeptBitsShort(f, w, page) ==
  LET committed == ranges[1][f].first IN
    IF committed <= page \/ <<f, w, page>> \notin DOMAIN bitmap
      THEN {}
      ELSE {bit \in bitmap[<<f, w, page>>] : bit < committed - page - 1}

(* Bits of ids that were already committed when the flush began. *)
KeptBits(f, w, page) ==
  LET committed == ranges[1][f].first IN
    IF committed <= page \/ <<f, w, page>> \notin DOMAIN bitmap
      THEN {}
      ELSE {bit \in bitmap[<<f, w, page>>] : bit < committed - page}

ReadPages ==
  /\ stage = "bitmap_read"
  /\ pages' = [k \in TouchedPages |->
                 KeptBits(k[1], k[2], k[3]) \cup PendingBits(k[1], k[2], k[3])]
  /\ unput' = TouchedPages
  /\ stage' = "bitmap"
  /\ UNCHANGED <<tables, up, state, lastHash, pending, ranges, cursor, fam, nid,
                 bufs, locs, fails>>

PutPage(k) ==
  /\ stage = "bitmap"
  /\ k \in unput
  /\ bitmap' = Put(bitmap, k, pages[k])
  /\ unput' = unput \ {k}
  /\ UNCHANGED <<stateIndex, blob, location, pageStats, blockHash, familyRange,
                 blockIndex, up, state, lastHash, pending, stage, ranges, cursor,
                 fam, nid, bufs, locs, pages, fails>>

PutStats ==
  /\ stage = "bitmap"
  /\ unput = {}
  /\ pageStats' = PutBatch(pageStats, [k \in DOMAIN pages |-> Cardinality(pages[k])])
  /\ stage' = "block_hash"
  /\ UNCHANGED <<stateIndex, blob, location, bitmap, blockHash, familyRange,
                 blockIndex, up, state, lastHash, pending, scratch, fails>>

(***************************************************************************)
(* metadata::flush, three transactions.                                    *)
(***************************************************************************)
(* Mutant: the last block of the batch is left out. *)
HeightsShort == {pending[k].number : k \in 1 .. Len(pending) - 1}

Heights == {pending[k].number : k \in 1 .. Len(pending)}
BlockOf(n) == CHOOSE k \in 1 .. Len(pending) : pending[k].number = n

PutBlockHashes ==
  /\ stage = "block_hash"
  /\ blockHash' = PutBatch(blockHash, [n \in Heights |-> pending[BlockOf(n)].hash])
  /\ stage' = "family"
  /\ UNCHANGED <<stateIndex, blob, location, bitmap, pageStats, familyRange,
                 blockIndex, up, state, lastHash, pending, scratch, fails>>

PutFamilies ==
  /\ stage = "family"
  /\ familyRange' = PutBatch(familyRange,
       [k \in Family \X Heights |-> ranges[BlockOf(k[2])][k[1]]])
  /\ stage' = "block_index"
  /\ UNCHANGED <<stateIndex, blob, location, bitmap, pageStats, blockHash,
                 blockIndex, up, state, lastHash, pending, scratch, fails>>

(* Blocks without rows in a family have no entry in its block index. *)
IndexedRanges ==
  {x \in Family \X (1 .. Len(ranges)) : ranges[x[2]][x[1]].count > 0}

PutBlockIndex ==
  /\ stage = "block_index"
  /\ blockIndex' = PutBatch(blockIndex,
       [key \in {<<x[1], ranges[x[2]][x[1]].first>> : x \in IndexedRanges} |->
          pending[CHOOSE k \in 1 .. Len(ranges) :
                    <<key[1], k>> \in IndexedRanges /\ ranges[k][key[1]].first = key[2]].number])
  /\ stage' = "state"
  /\ UNCHANGED <<stateIndex, blob, location, bitmap, pageStats, blockHash,
                 familyRange, up, state, lastHash, pending, scratch, fails>>

(***************************************************************************)
(* The commit point, and what flush() does once the put has succeeded.     *)
(***************************************************************************)
ClearScratch ==
  /\ ranges' = <<>>
  /\ cursor' = [f \in Family |-> 0]
  /\ fam' = 0
  /\ nid' = 0
  /\ bufs' = EmptyTable
  /\ locs' = EmptyTable
  /\ pages' = EmptyTable
  /\ unput' = {}

BatchState ==
  [started |-> TRUE,
   start   |-> IF state.started THEN state.start ELSE pending[1].number,
   next    |-> [cursor EXCEPT ![BlockHeader] = pending[Len(pending)].number + 1]]

PutState ==
  /\ stage = "state"
  /\ stateIndex' = BatchState
  /\ state' = BatchState
  /\ lastHash' = pending[Len(pending)].hash
  /\ pending' = <<>>
  /\ stage' = "idle"
  /\ ClearScratch
  /\ UNCHANGED <<blob, location, bitmap, pageStats, blockHash, familyRange,
                 blockIndex, up, fails>>

(***************************************************************************)
(* A write or a read of the flush fails: the blocks go back to `pending`   *)
(* and the id counters stay where they were.  The CLI then exits (Crash);  *)
(* a caller of the library may flush again.                                *)
(***************************************************************************)
(* Mutant: the id counters of the abandoned batch are kept. *)
FlushErrorKeepsIds ==
  /\ stage # "idle"
  /\ fails < MaxFails
  /\ fails' = fails + 1
  /\ stage' = "idle"
  /\ state' = [state EXCEPT !.next = cursor]
  /\ ClearScratch
  /\ UNCHANGED <<tables, up, lastHash, pending>>

FlushError ==
  /\ stage # "idle"
  /\ fails < MaxFails
  /\ fails' = fails + 1
  /\ stage' = "idle"
  /\ ClearScratch
  /\ UNCHANGED <<tables, up, state, lastHash, pending>>

Crash ==
  /\ up
  /\ fails < MaxFails
  /\ fails' = fails + 1
  /\ up' = FALSE
  /\ state' = DefaultState
  /\ lastHash' = NoHash
  /\ pending' = <<>>
  /\ stage' = "idle"
  /\ ClearScratch
  /\ UNCHANGED tables

-----------------------------------------------------------------------------
Flushing ==
  \/ BeginFlush
  \/ AssignRange
  \/ Assigned
  \/ AppendItem
  \/ BeginPutPayload
  \/ \E p \in unput : PutPayload(p)
  \/ FamilyDone
  \/ PutLocations
  \/ ReadPages
  \/ \E k \in unput : PutPage(k)
  \/ PutStats
  \/ PutBlockHashes
  \/ PutFamilies
  \/ PutBlockIndex
  \/ PutState

Next ==
  \/ Open
  \/ \E b \in Blocks : Append1(b)
  \/ Flushing
  \/ FlushError
  \/ Crash

Spec == Init /\ [][Next]_vars

(* The index loop polls the source for ever, and a failed process is       *)
(* started again by its supervisor.                                        *)
Fairness ==
  /\ WF_vars(Open)
  /\ WF_vars(\E b \in Blocks : Append1(b))
  /\ WF_vars(Flushing)

FairSpec == Spec /\ Fairness

-----------------------------------------------------------------------------
(***************************************************************************)
(* Properties.                                                             *)
(***************************************************************************)
Stages == {"idle", "assign", "append", "payload", "location", "bitmap_read",
           "bitmap", "block_hash", "family", "block_index", "state"}

StateType == [started : BOOLEAN, start : Nat, next : [Family -> Nat]]
IdRange == [first : Nat, count : Nat]

(* The variables keep their types: the tables the recovery path reads map  *)
(* keys of their schema to values of their schema, every buffered block is *)
(* one of the source, and no id, offset or counter goes negative.          *)
TypeOK ==
  /\ stateIndex \in StateType /\ state \in StateType
  /\ DOMAIN blob \subseteq Family \X Nat
  /\ \A k \in DOMAIN blob : blob[k] \in Seq(Byte)
  /\ DOMAIN location \subseteq Family \X Nat
  /\ \A k \in DOMAIN location : location[k] \in Nat
  /\ \A n \in DOMAIN blockHash : n \in Nat /\ blockHash[n] \in Hash
  /\ up \in BOOLEAN
  /\ lastHash \in Hash \cup {NoHash}
  /\ pending \in Seq(Blocks)
  /\ stage \in Stages
  /\ ranges \in Seq([Family -> IdRange])
  /\ cursor \in [Family -> Nat]
  /\ fam \in Family
  /\ nid \in Nat
  /\ DOMAIN bufs \subseteq Nat
  /\ \A p \in DOMAIN bufs : bufs[p] \in Seq(Byte)
  /\ DOMAIN locs \subseteq Family \X Nat
  /\ \A k \in DOMAIN locs : locs[k] \in Nat
  /\ fails \in Nat

(* Every committed record has a location, its blob reaches to its end, and *)
(* the ends within one blob are in id order.                               *)
CommittedLocated ==
  \A f \in Family : \A id \in CommittedIds(stateIndex, f) :
    /\ <<f, id>> \in DOMAIN location
    /\ <<f, Partition(id)>> \in DOMAIN blob
    /\ location[<<f, id>>] <= Len(blob[<<f, Partition(id)>>])
    /\ \A jd \in CommittedIds(stateIndex, f) :
         jd <= id /\ Partition(jd) = Partition(id) =>
           location[<<f, jd>>] <= location[<<f, id>>]

(* Whatever writes a crash or a failed flush left behind, the index can be *)
(* opened and extended: open() never refuses it with "indexed block is     *)
(* missing block hash", nor payload::flush with "missing committed payload *)
(* location" or "committed payload exceeds blob length".                   *)
Recoverable == Openable /\ CommittedLocated

(* A record that has been committed stays committed, at the same place and *)
(* with the same bytes, whatever the writer does next.                     *)
CommittedUnchanged ==
  \A f \in Family : \A id \in CommittedIds(stateIndex, f) :
    /\ id \in CommittedIds(stateIndex', f)
    /\ <<f, id>> \in DOMAIN location' /\ location'[<<f, id>>] = location[<<f, id>>]
    /\ \A i \in 1 .. location[<<f, id>>] :
         blob'[<<f, Partition(id)>>][i] = blob[<<f, Partition(id)>>][i]

CommittedStable == [][CommittedUnchanged]_vars

(* The committed part of the index as a reader puts it together: the hash  *)
(* table gives the block, the family table its ids, the locations the      *)
(* bounds of each record within its blob.                                  *)
PayloadStart(f, id) ==
  IF id = FirstId(stateIndex, f) \/ id % ITEMS_PER_BLOB = 0
    THEN 0
    ELSE location[<<f, id - 1>>]

ReadRow(f, id) ==
  SubSeq(blob[<<f, Partition(id)>>], PayloadStart(f, id) + 1, location[<<f, id>>])

ReadBlock(n) ==
  [number  |-> n,
   hash    |-> blockHash[n],
   payload |-> [f \in Family |->
                  [j \in 1 .. familyRange[<<f, n>>].count |->
                     ReadRow(f, familyRange[<<f, n>>].first + j - 1)]]]

ReadLog ==
  [i \in 1 .. stateIndex.next[BlockHeader] - stateIndex.start |->
     ReadBlock(stateIndex.start + i - 1)]

(* The staged flush implements an atomic append of whole blocks.           *)
Index == INSTANCE QueryIndex WITH log <- ReadLog
ImplementsIndex == Index!Spec

(* A query by filter finds exactly the committed records that match: no    *)
(* bit is missing and none is left over from an abandoned flush.           *)
BlockWithHash(h) == CHOOSE b \in Blocks : b.hash = h
BitmapsExact ==
  \A n \in stateIndex.start .. stateIndex.next[BlockHeader] - 1 :
  \A f \in Family, w \in Filter :
  \A j \in 1 .. familyRange[<<f, n>>].count :
    LET id  == familyRange[<<f, n>>].first + j - 1
        key == <<f, w, Page(id)>>
        row == BlockWithHash(blockHash[n]).rows[f][j]
    IN (w \in row.filters) <=> (key \in DOMAIN bitmap /\ id - Page(id) \in bitmap[key])

(* The statistics of a page never promise fewer records than a query can   *)
(* find on it, also while the bitmap is ahead of its statistics.           *)
StatsNeverUnderstate ==
  \A k \in DOMAIN bitmap :
    LET visible == {bit \in bitmap[k] : k[3] + bit \in CommittedIds(stateIndex, k[1])}
    IN visible # {} => /\ k \in DOMAIN pageStats
                       /\ Cardinality(visible) <= pageStats[k]

(* A record id leads to its block: the greatest key at or below it in the  *)
(* block index, left-over keys included, belongs to the block that has it. *)
SeekFindsBlock ==
  \A n \in stateIndex.start .. stateIndex.next[BlockHeader] - 1, f \in Family :
    LET r == familyRange[<<f, n>>] IN
    \A id \in r.first .. r.first + r.count - 1 :
      \E m \in 0 .. id :
        /\ <<f, m>> \in DOMAIN blockIndex /\ blockIndex[<<f, m>>] = n
        /\ \A o \in m + 1 .. id : <<f, o>> \notin DOMAIN blockIndex

(* What a query relies on: the bits of the committed records are exact,    *)
(* the statistics it prunes with never hide one of them, and the id of a   *)
(* record leads to its block.                                              *)
QueriesExact == BitmapsExact /\ StatsNeverUnderstate /\ SeekFindsBlock

(* Once crashes and failed writes stop, every block of the source up to    *)
(* the given height is indexed: nothing left over stands in the way.       *)
IndexedThrough(n) == <>(stateIndex.next[BlockHeader] = n + 1)
=============================================================================
