---------------------------- MODULE DataProvider ---------------------------
(***************************************************************************)
(* monad-rpc/src/data: one request for chain data.  Every method looks     *)
(* into the buffer, then into triedb, then into the archive; a step is one *)
(* read, so the sources move on between two reads of the same request.     *)
(***************************************************************************)
EXTENDS EthHandlers

CONSTANTS
  Requests,      \* requests that may be made
  StateSynced,   \* blocks below this number came by statesync: header only
  MaxBlockRange, \* limit of eth_getLogs on the range of blocks
  MaxLogs,       \* limit on the size of its response, in logs
  MinLogs,       \* extrapolates the size of the response from this size
  MinBlocks,     \* and this many blocks on
  CacheLen,      \* max_finalized_block_cache_len
  MaxFaults      \* bound: reads of triedb or the archive that fail in a request

ASSUME ProviderAssumption == StateSynced \in Nat /\ \A r \in Requests : Handled(r)

VARIABLES
  req,     \* the request
  pc,      \* where it is: "idle", the next read, or "done"
  loc,     \* locals: height, block, position, key and results found so far
  rows,    \* eth_getLogs: what is known of each block of the range
  ans,     \* the answer
  begun,   \* history variable: the sources when the request began
  touched, \* history variable: heights the buffer has held during the request
  faults

reqVars == <<req, pc, loc, rows, ans, begun, touched, faults>>
vars    == <<srcVars, reqVars>>

NoReq    == [m |-> "none"]
Fresh    == [h |-> 0, block |-> NoBlock, idx |-> 0, key |-> NoKey, out |-> << >>]
NotBegun == [fin |-> 0, arch |-> 0, index |-> 0]
NoAns    == [kind |-> "none"]

ByTx == {"tx", "receipt", "frame"}          \* by transaction hash

\* The entries a reader holds locked in the maps of the buffer.
Held == CASE pc = "bufferReceipts" -> {loc.h}
          [] pc = "bufferTx" -> {req.tx}
          [] OTHER -> {}

Goto(p, l) == /\ pc' = p /\ loc' = l
              /\ UNCHANGED <<req, rows, ans, begun, faults>>
Answer(a)  == /\ pc' = "done" /\ ans' = Response(req, a)
              /\ UNCHANGED <<req, loc, rows, begun, faults>>

HasTx(b, i) == b # NoBlock /\ i \in DOMAIN Txs[b]
DbBody(key) == DbHeader(key) /\ key.num >= StateSynced

(***************************************************************************)
(* The buffer: BlockBufferView.                                            *)
(***************************************************************************)
resolve_block_height_from_tag(ref) ==
  CASE ref.kind = "number" -> ref.num
    [] ref.kind = "latest" -> heights.proposed
    [] ref.kind = "safe" -> heights.voted
    [] ref.kind = "finalized" -> heights.finalized

get_block_by_height(n) == IF n \in AllHeights THEN byHeight[n] ELSE NoBlock

\* BlockBufferView::get_block_by_hash: the height it found may by now be
\* that of another block
get_block_by_hash ==
  /\ pc = "bufferHash"
  /\ Goto(IF get_block_by_height(loc.h) = NoBlock THEN "db" ELSE "bufferRead", loc)

\* a tag is resolved at once, a hash up to the first map it reads
resolve_block_height_from_buffer ==
  \/ /\ pc = "buffer"
     /\ IF req.ref.kind # "hash"
        THEN Goto("bufferRead", [loc EXCEPT !.h = resolve_block_height_from_tag(req.ref)])
        ELSE IF heightByHash[req.ref.block] = 0 THEN Goto("db", loc)
        ELSE Goto("bufferHash", [loc EXCEPT !.h = heightByHash[req.ref.block]])
  \/ get_block_by_hash

BufferBlock(V(_)) ==
  /\ pc = "bufferRead"
  /\ LET b == get_block_by_height(loc.h) IN
       IF b = NoBlock THEN Goto("db", loc) ELSE Answer(Found(V(b), "buffer"))

get_transaction_by_location(n, i, otherwise) ==
  LET b == get_block_by_height(n) IN
    IF HasTx(b, i) THEN Answer(Found(parse_tx_content(b, i), "buffer"))
    ELSE Goto("db", otherwise)

\* one entry of tx_by_hash after the other, holding the entry of the height
get_receipts_by_block_height ==
  \/ /\ pc = "bufferRead"
     /\ LET b == get_block_by_height(loc.h) IN
          IF b = NoBlock THEN Goto("db", loc)
          ELSE Goto("bufferReceipts", [loc EXCEPT !.block = b, !.idx = 1])
  \/ /\ pc = "bufferReceipts"
     /\ IF ~HasTx(loc.block, loc.idx) THEN Answer(Found(loc.out, "buffer"))
        ELSE LET e == txByHash[Txs[loc.block][loc.idx]] IN
          IF e = NoLoc THEN Goto("db", Fresh)
          ELSE Goto(pc, [loc EXCEPT !.idx = @ + 1,
                                    !.out = Append(@, get_receipt_from_triedb(e.block, e.idx))])

get_receipt_by_tx_hash ==
  /\ pc = "buffer"
  /\ LET e == txByHash[req.tx] IN
       IF e = NoLoc THEN Goto("db", loc)
       ELSE Answer(Found(get_receipt_from_triedb(e.block, e.idx), "buffer"))

\* the location, then whatever block is at that location
get_transaction_by_hash ==
  \/ /\ pc = "buffer"
     /\ LET e == txByHash[req.tx] IN
          IF e = NoLoc THEN Goto("db", loc)
          ELSE Goto("bufferTx", [loc EXCEPT !.h = Height[e.block], !.idx = e.idx])
  \/ pc = "bufferTx" /\ get_transaction_by_location(loc.h, loc.idx, Fresh)

NoBuffer == pc = "buffer" /\ Goto("db", loc)

(***************************************************************************)
(* Triedb.                                                                 *)
(***************************************************************************)
get_block_key_from_tag(ref) ==
  CASE ref.kind = "number" -> BlockKey(ref.num)
    [] ref.kind = "latest" -> LatestKey
    [] ref.kind = "safe" -> VotedKey
    [] ref.kind = "finalized" -> FinKey(FinHeight(dbAt))

\* try_get_block_key_from_tag_or_hash, TriedbDataSource::try_resolve: a tag
\* gives a key at once; a hash gives a number on the state of the latest
\* proposal and then the key of that number.  None says what follows when there is
\* nothing for the reference, Gone when there is a number and no key.
Resolve(None, Gone) ==
  \/ /\ pc = "db"
     /\ IF req.ref.kind # "hash"
        THEN LET key == get_block_key_from_tag(req.ref) IN
               IF key = NoKey THEN None ELSE Goto("dbRead", [loc EXCEPT !.key = key])
        ELSE LET n == DbNumber(req.ref.block) IN
               IF n = 0 THEN Goto("archive", loc) ELSE Goto("dbKey", [loc EXCEPT !.h = n])
  \/ /\ pc = "dbKey"
     /\ LET key == BlockKey(loc.h) IN
          IF key = NoKey THEN Gone ELSE Goto("dbRead", [loc EXCEPT !.key = key])

ToArchive == Goto("archive", loc)
GiveUp    == Answer(Missing)

\* TriedbDataSource as the first of the stack: whatever it cannot resolve is
\* left to the archive, the next source.
TriedbPointer == Resolve(ToArchive, ToArchive)


\* Mutant: reads the number at the latest key instead of the key of the number.
LocateLatest ==
  \/ /\ pc = "db"
     /\ LET l == DbLocation(req.tx) IN
          IF l = NoLoc THEN ToArchive
          ELSE Goto("dbKey", [loc EXCEPT !.h = Height[l.block], !.idx = l.idx])
  \/ pc = "dbKey" /\ Goto("dbRead", [loc EXCEPT !.key = LatestKey])

\* the location of a transaction on the state of the latest proposal, then the
\* key of the number that was found
Locate ==
  \/ /\ pc = "db"
     /\ LET l == DbLocation(req.tx) IN
          IF l = NoLoc THEN ToArchive
          ELSE Goto("dbKey", [loc EXCEPT !.h = Height[l.block], !.idx = l.idx])
  \/ /\ pc = "dbKey"
     /\ LET key == BlockKey(loc.h) IN
          IF key = NoKey THEN GiveUp ELSE Goto("dbRead", [loc EXCEPT !.key = key])

\* contents behind the key; a block without its transactions came by statesync
\* and is looked up in the archive
DbContents(V(_)) ==
  /\ pc = "dbRead"
  /\ IF DbBody(loc.key) THEN Answer(Found(V(DbBlock(loc.key)), "db")) ELSE ToArchive

DbTx(i, V(_, _)) ==
  /\ pc = "dbRead"
  /\ IF DbBody(loc.key) /\ HasTx(DbBlock(loc.key), i)
     THEN Answer(Found(V(DbBlock(loc.key), i), "db")) ELSE ToArchive

\* A read of triedb or of the archive fails, and with it the request.
ReadFails ==
  /\ pc \in {"db", "dbRead", "archive"} /\ req.m # "logs" /\ faults < MaxFaults
  /\ faults' = faults + 1 /\ pc' = "done" /\ ans' = Response(req, Failed)
  /\ UNCHANGED <<req, loc, rows, begun>>

\* Some methods ask the archive when triedb fails to give the contents.
FailsOver(p) ==
  /\ pc = p /\ faults < MaxFaults
  /\ faults' = faults + 1 /\ pc' = "archive"
  /\ UNCHANGED <<req, loc, rows, ans, begun>>

(***************************************************************************)
(* The archive, which has only finalized blocks.                           *)
(***************************************************************************)
get_block_from_archive(key) == IF key.final THEN try_get_block_by_number(key.num) ELSE NoBlock

\* ArchiveDataSource, through the pointer that was resolved first: any number
\* counts as finalized, a hash needs its number
ArchivePointer ==
  IF loc.key # NoKey THEN loc.key
  ELSE IF req.ref.kind = "number" THEN FinKey(req.ref.num)
  ELSE LET n == try_get_block_number_by_hash(req.ref.block)
       IN  IF n = 0 THEN NoKey ELSE FinKey(n)

\* the block of a key from triedb, or of the hash
ArchiveReference(key) ==
  IF req.ref.kind = "hash" THEN try_get_block_by_hash(req.ref.block) ELSE get_block_from_archive(key)

ArchiveContents(b, V(_)) ==
  pc = "archive" /\ Answer(IF b = NoBlock THEN Missing ELSE Found(V(b), "archive"))

ArchiveTx(V(_, _)) ==
  /\ pc = "archive"
  /\ LET l == get_tx_indexed_data(req.tx)
     IN  Answer(IF l = NoLoc THEN Missing ELSE Found(V(l.block, l.idx), "archive"))

(***************************************************************************)
(* The methods of DataProvider.                                            *)
(***************************************************************************)
get_transaction_receipt ==
  /\ req.m = "receipt"
  /\ \/ get_receipt_by_tx_hash
     \/ Locate
     \/ DbTx(loc.idx, get_receipt_from_triedb)
     \/ ArchiveTx(LAMBDA b, i : map_block_receipts(b)[i])

get_transaction ==
  /\ req.m = "tx"
  /\ \/ get_transaction_by_hash
     \/ Locate
     \/ DbTx(loc.idx, get_transaction_from_triedb)
     \/ ArchiveTx(parse_tx_content)

get_transaction_with_block_and_index ==
  /\ req.m = "txAt"
  /\ \/ resolve_block_height_from_buffer
     \/ pc = "bufferRead" /\ get_transaction_by_location(loc.h, req.idx, loc)
     \/ Resolve(GiveUp, GiveUp)
     \/ DbTx(req.idx, get_transaction_from_triedb)
     \/ /\ pc = "archive"
        /\ LET b == ArchiveReference(loc.key)
           IN  Answer(IF HasTx(b, req.idx) THEN Found(parse_tx_content(b, req.idx), "archive")
                      ELSE Missing)

HeaderOf(b) == [hash |-> b, num |-> Height[b]]

\* Mutant: a header without transactions ends the search.
HeadersOnly ==
  /\ req.m = "header"
  /\ \/ resolve_block_height_from_buffer \/ BufferBlock(HeaderOf)
     \/ TriedbPointer
     \/ /\ pc = "dbRead"
        /\ IF DbHeader(loc.key) THEN Answer(Found(HeaderOf(DbBlock(loc.key)), "db")) ELSE GiveUp
     \/ ArchiveContents(get_block_from_archive(ArchivePointer), HeaderOf)

get_block_header ==
  /\ req.m = "header"
  /\ \/ resolve_block_height_from_buffer \/ BufferBlock(HeaderOf)
     \/ TriedbPointer
     \/ /\ pc = "dbRead"
        /\ IF DbHeader(loc.key) THEN Answer(Found(HeaderOf(DbBlock(loc.key)), "db")) ELSE ToArchive
     \/ ArchiveContents(get_block_from_archive(ArchivePointer), HeaderOf)

get_block ==
  LET BlockOf(b) == parse_block_content(b, req.full) IN
  /\ req.m = "block"
  /\ \/ resolve_block_height_from_buffer \/ BufferBlock(BlockOf)
     \/ TriedbPointer
     \/ DbContents(BlockOf) \/ FailsOver("dbRead")
     \/ ArchiveContents(get_block_from_archive(ArchivePointer), BlockOf)

get_raw_receipts ==
  /\ req.m = "rawReceipts"
  /\ \/ resolve_block_height_from_buffer \/ get_receipts_by_block_height
     \/ Resolve(GiveUp, GiveUp)
     \/ DbContents(map_block_receipts) \/ FailsOver("dbRead")
     \/ ArchiveContents(get_block_from_archive(loc.key), map_block_receipts)

\* tags are resolved again for the archive
get_block_receipts ==
  /\ req.m = "receipts"
  /\ \/ resolve_block_height_from_buffer \/ get_receipts_by_block_height
     \/ Resolve(ToArchive, ToArchive)
     \/ req.ref.kind = "hash" /\ FailsOver("db")
     \/ DbContents(map_block_receipts) \/ FailsOver("dbRead")
     \/ ArchiveContents(ArchiveReference(get_block_key_from_tag(req.ref)), map_block_receipts)

FramesOf(b)   == [i \in DOMAIN Txs[b] |-> [hash |-> b, tx |-> Txs[b][i]]]
FrameOf(b, i) == FramesOf(b)[i]

get_block_call_frames ==
  /\ req.m = "frames"
  /\ \/ NoBuffer
     \/ Resolve(ToArchive, GiveUp)
     \/ DbContents(FramesOf) \/ FailsOver("dbRead")
     \/ ArchiveContents(ArchiveReference(get_block_key_from_tag(req.ref)), FramesOf)

get_transaction_call_frame ==
  /\ req.m = "frame"
  /\ NoBuffer \/ Locate \/ DbTx(loc.idx, FrameOf) \/ ArchiveTx(FrameOf)

(***************************************************************************)
(* State of an account (handlers/eth/account.rs).  Triedb reads state that *)
(* it no longer has, or never had, as an empty account.                    *)
(***************************************************************************)
EmptyState == Found(NoBlock, "db")

\* Mutant: asks whether the state is available before it reads it.
StateCheckedFirst ==
  /\ req.m = "state"
  /\ \/ NoBuffer
     \/ Resolve(GiveUp, GiveUp)
     \/ pc = "archive" /\ GiveUp
     \/ pc = "dbRead" /\ IF DbBody(loc.key) THEN Goto("stateRead", loc) ELSE GiveUp
     \/ pc = "stateRead" /\ Answer(IF DbBody(loc.key) THEN Found(DbBlock(loc.key), "db") ELSE EmptyState)

\* reads, one or two of them, and only then asks whether the state is there
get_state ==
  /\ req.m = "state"
  /\ \/ NoBuffer
     \/ Resolve(GiveUp, GiveUp)
     \/ pc = "archive" /\ GiveUp               \* not a block triedb knows
     \/ /\ pc = "dbRead"
        /\ LET got == IF DbBody(loc.key) THEN Found(DbBlock(loc.key), "db") ELSE EmptyState
           IN  Goto(IF Len(loc.out) + 1 < req.reads THEN pc ELSE "stateRead",
                    [loc EXCEPT !.out = Append(@, got)])
     \/ pc = "stateRead" /\ Answer(IF DbBody(loc.key) THEN Last(loc.out) ELSE Missing)

(***************************************************************************)
(* eth_getLogs.  A filter is the set of transactions whose logs match.     *)
(***************************************************************************)
Bloom(b)     == \E t \in Range(Txs[b]) : t \in req.filter
LogsIn(b)    == header_transactions_receipts_to_block_number_logs(b, req.filter)
Row(st, b)   == [st |-> st, block |-> b]
Canonical(n) == CanonAt(Len(history), n)

\* A response that is too large, or that would be too large if the rest of the
\* blocks were like the first k.
LimitAt(bs, k, total) ==
  LET size == FoldFunctionOnSet(+, 0, [i \in DOMAIN bs |-> Len(LogsIn(bs[i]))], 1 .. k)
  IN  \/ size > MaxLogs
      \/ /\ size >= MinLogs /\ k >= MinBlocks
         /\ (size * total) \div k > 2 * MaxLogs - (MaxLogs * k) \div total

try_collect_logs_stream_with_heuristic_response_limit(bs, via) ==
  IF \E k \in DOMAIN bs : LimitAt(bs, k, loc.idx + 1 - loc.h) THEN Failed
  ELSE [kind |-> "logs", from |-> loc.h, to |-> loc.idx, via |-> via,
        logs |-> FlattenSeq([i \in DOMAIN bs |-> LogsIn(bs[i])])]

\* The number of the latest block is read before anything else, and kept in
\* loc.idx until the range is known.
LogsLatest ==
  /\ pc = "buffer"
  /\ Goto(IF req.from.kind = "hash" THEN "logsHash" ELSE "logsFrom",
          [loc EXCEPT !.idx = LatestKey.num])

StartLogs(from, to) ==
  IF from > to \/ to - from > MaxBlockRange THEN Answer(Failed)
  ELSE /\ loc' = [loc EXCEPT !.h = from, !.idx = to]
       /\ pc' = IF req.indexed /\ to + CacheLen < loc.idx THEN "logsIndex" ELSE "logs"
       /\ rows' = [n \in from .. to |-> Row("buffer", NoBlock)]
       /\ UNCHANGED <<req, ans, begun, faults>>

\* the ends of the range, one after the other; the upper one is floored to the
\* latest block read before
LogsRange ==
  \/ /\ pc = "logsFrom"
     /\ LET key == get_block_key_from_tag(req.from)
        IN  IF key = NoKey THEN Answer(Failed)
            ELSE Goto("logsTo", [loc EXCEPT !.h = key.num])
  \/ /\ pc = "logsTo"
     /\ LET key == get_block_key_from_tag(req.to)
        IN  StartLogs(loc.h, IF key = NoKey THEN loc.idx ELSE Min({key.num, loc.idx}))

\* a block hash that triedb does not know is looked up once more, then in the
\* archive, and then has no logs
LogsAtHash ==
  LET b == req.from.block
      n == DbNumber(b)
      archivedAt == try_get_block_number_by_hash(b)
  IN \/ /\ pc = "logsHash"
        /\ IF n # 0 THEN StartLogs(n, n) ELSE Goto("logsAgain", loc)
     \/ /\ pc = "logsAgain"
        /\ IF n # 0
           THEN IF BlockKey(n).final THEN StartLogs(n, n) ELSE Answer(Failed)
           ELSE IF archivedAt # 0 THEN StartLogs(archivedAt, archivedAt)
           ELSE Answer([kind |-> "logs", from |-> 1, to |-> 0, via |-> "none", logs |-> << >>])

\* A hash that cannot be looked up ends the request; an index that cannot be
\* read leaves the range to the scan.
LogsLookupFails ==
  /\ faults < MaxFaults /\ faults' = faults + 1
  /\ \/ /\ pc \in {"logsHash", "logsAgain"}
        /\ pc' = "done" /\ ans' = Response(req, Failed)
     \/ /\ pc = "logsIndex" /\ pc' = "logs" /\ ans' = ans
  /\ UNCHANGED <<req, loc, rows, begun>>

\* LogsIndexArchiver::query_logs: the blocks with matching logs, in order
query_logs(from, to) ==
  LET Match(b) == IF Bloom(b) THEN <<b>> ELSE << >>
  IN  FlattenSeq([i \in 1 .. Min({to, indexed}) + 1 - from |-> Match(Canonical(from + i - 1))])

\* Mutant: takes what the index has, whether it covers the range or not.
LogsByIndexAnyway ==
  /\ pc = "logsIndex"
  /\ Answer(try_collect_logs_stream_with_heuristic_response_limit(query_logs(loc.h, loc.idx), "index"))

\* not unless the index covers the range
get_receipts_stream_using_index ==
  /\ pc = "logsIndex"
  /\ IF indexed < loc.idx THEN Goto("logs", loc)
     ELSE Answer(try_collect_logs_stream_with_heuristic_response_limit(
                   query_logs(loc.h, loc.idx), "index"))

SetRow(n, row) == /\ rows' = [rows EXCEPT ![n] = row]
                  /\ UNCHANGED <<req, pc, loc, ans, begun, faults>>

\* The receipts of a block in the buffer, whichever block they are from, have
\* to fit together: the first log of each where the ones before it end.
Fits(b) ==
  \A i \in DOMAIN Txs[b] :
    LET e == txByHash[Txs[b][i]]
    IN  e # NoLoc /\ (Emits[Txs[b][i]] > 0 =>
                        StartingLogIndex(e.block, e.idx) = StartingLogIndex(b, i))

get_bloom_filtered_header_transactions_receipts(n) ==
  /\ pc = "logs" /\ rows[n].st = "buffer"
  /\ LET b == get_block_by_height(n)
         usable == IF b = NoBlock THEN FALSE ELSE Bloom(b) => Fits(b)
     IN  SetRow(n, IF usable THEN Row("done", b) ELSE Row("db", NoBlock))

LogsFromDb(n) ==
  /\ pc = "logs" /\ rows[n].st = "db"
  /\ LET key == BlockKey(n) IN
       SetRow(n, IF key = NoKey THEN Row("error", NoBlock)
                 ELSE IF DbBody(key) \/ (DbHeader(key) /\ ~Bloom(DbBlock(key)))
                 THEN Row("done", DbBlock(key)) ELSE Row("archive", NoBlock))

fetch_bloom_filtered_header_transactions_receipts_from_archive(n) ==
  /\ pc = "logs" /\ rows[n].st = "archive"
  /\ LET b == IF DbBody(FinKey(n)) /\ n <= FinHeight(dbAt) THEN CanonAt(dbAt, n)
              ELSE try_get_block_by_number(n)
     IN  SetRow(n, IF b = NoBlock \/ (Bloom(b) /\ n > archived) THEN Row("error", NoBlock)
                   ELSE Row("done", b))

\* A block that cannot be read: its transactions are then taken from the
\* archive, anything else fails.
LogsRowFails(n) ==
  /\ pc = "logs" /\ rows[n].st \in {"db", "archive"}
  /\ faults < MaxFaults /\ faults' = faults + 1
  /\ \E st \in {"error"} \cup (IF rows[n].st = "db" THEN {"archive"} ELSE {}) :
       rows' = [rows EXCEPT ![n] = Row(st, NoBlock)]
  /\ UNCHANGED <<req, pc, loc, ans, begun>>

\* the blocks come in order
LogsCollect ==
  /\ pc = "logs"
  /\ \A n \in DOMAIN rows : rows[n].st \in {"done", "error"}
  /\ Answer(IF \E n \in DOMAIN rows : rows[n].st = "error" THEN Failed
            ELSE try_collect_logs_stream_with_heuristic_response_limit(
                   [i \in 1 .. loc.idx + 1 - loc.h |-> rows[loc.h + i - 1].block], "scan"))

get_logs ==
  /\ req.m = "logs"
  /\ \/ LogsLatest \/ LogsRange \/ LogsAtHash \/ get_receipts_stream_using_index
     \/ LogsLookupFails \/ LogsCollect
     \/ \E n \in DOMAIN rows :
          \/ get_bloom_filtered_header_transactions_receipts(n)
          \/ LogsFromDb(n)
          \/ fetch_bloom_filtered_header_transactions_receipts_from_archive(n)
          \/ LogsRowFails(n)

(***************************************************************************)
(* The system.                                                             *)
(***************************************************************************)
Begin(r) ==
  /\ pc = "idle"
  /\ req' = r /\ pc' = "buffer"
  /\ begun' = [fin |-> FinHeight(dbAt), arch |-> archived, index |-> indexed]
  /\ UNCHANGED <<loc, rows, ans, faults>>

Finish ==
  /\ pc = "done"
  /\ pc' = "idle" /\ req' = NoReq /\ loc' = Fresh /\ rows' = << >> /\ ans' = NoAns
  /\ begun' = NotBegun /\ faults' = 0

Init ==
  /\ SourcesInit
  /\ req = NoReq /\ pc = "idle" /\ loc = Fresh /\ rows = << >> /\ ans = NoAns
  /\ begun = NotBegun
  /\ touched = {} /\ faults = 0

HeldHeights == {n \in AllHeights : byHeight[n] # NoBlock}

Step ==
  \/ get_transaction_receipt \/ get_transaction \/ get_transaction_with_block_and_index
  \/ get_block_header \/ get_block \/ get_raw_receipts \/ get_block_receipts
  \/ get_block_call_frames \/ get_transaction_call_frame \/ get_state \/ get_logs
  \/ ReadFails

Next ==
  \/ /\ (\E r \in Requests : Begin(r)) \/ Step \/ Finish
     /\ touched' = IF pc = "idle" THEN HeldHeights ELSE IF pc = "done" THEN {} ELSE touched
     /\ UNCHANGED srcVars
  \/ /\ pc # "done" /\ Sources(Held)     \* an answer is delivered at once
     /\ touched' = IF pc = "idle" THEN {}
                   ELSE touched \cup {n \in AllHeights : byHeight'[n] # NoBlock}
     /\ UNCHANGED <<req, pc, loc, rows, ans, begun, faults>>

Spec == Init /\ [][Next]_vars

(***************************************************************************)
(* Properties.                                                             *)
(***************************************************************************)
\* The block a request is about, when that was finalized before the request
\* began: then its number, its hash and its transactions name one block.
Settled == {Canonical(n) : n \in 1 .. begun.fin}
Target  == IF req.m \in ByTx THEN {b \in Settled : req.tx \in Range(Txs[b])}
           ELSE IF req.m = "logs" THEN {}
           ELSE {b \in Settled :
                   \/ req.ref.kind = "number" /\ Height[b] = req.ref.num
                   \/ req.ref.kind = "hash" /\ b = req.ref.block}

\* A finalized block that triedb has in full (and gives without failing), or
\* that was archived (and, for a lookup by transaction, indexed) when the
\* request began, is never reported as missing by the methods that fall back to
\* the archive: pruning, statesync and the order of the reads do not open a gap
\* between the sources.
SettledFound ==
  ans.kind = "missing" =>
    \A b \in Target :
      \/ req.m = "txAt" /\ ~HasTx(b, req.idx)
      \/ /\ \/ req.m = "state"
            \/ Height[b] > (IF req.m \in ByTx THEN begun.index ELSE begun.arch)
            \/ /\ req.rpc \in {"debug_getRawHeader", "debug_getRawTransaction",
                               "debug_getRawBlock", "debug_getRawReceipts"}
               /\ faults > 0
         /\ Height[b] < dbLow \/ Height[b] < StateSynced \/ faults > 0

\* Receipts as they have to be: each names its transaction and its position,
\* the gas of that transaction alone, and logs numbered through the block.
ExactReceipts(rs, b, is) ==
  /\ \A i \in is : /\ rs[i].tx = Txs[b][i] /\ rs[i].idx = i - 1 /\ rs[i].gas = Gas[Txs[b][i]]
                   /\ Len(rs[i].logs) = Emits[Txs[b][i]]
  /\ \A i \in is, j \in is : i < j => \A k \in DOMAIN rs[i].logs, l \in DOMAIN rs[j].logs :
       rs[i].logs[k].log < rs[j].logs[l].log

\* What triedb and the archive answer about a finalized block is about that
\* block and nothing else, although hash, number, key and contents are read
\* one after the other; it is the transaction that was asked for, with its own
\* gas and position, whichever source the answer comes from.
SettledExact ==
  (ans.kind = "ok" /\ ans.via # "buffer") =>
    \A b \in Target :
      LET v == ans.value IN
      CASE req.m \in {"tx", "frame"} -> v.hash = b /\ v.tx = req.tx
        [] req.m = "receipt" -> /\ v.hash = b /\ v.tx = req.tx /\ v.gas = Gas[req.tx]
                                /\ Txs[b][v.idx + 1] = req.tx
        [] req.m = "txAt" -> v.hash = b /\ v.tx = Txs[b][req.idx]
        [] req.m \in {"receipts", "rawReceipts"} ->
             Len(v) = Len(Txs[b]) /\ ExactReceipts(v, b, DOMAIN Txs[b])
        [] req.m = "frames" -> [i \in DOMAIN v |-> v[i].tx] = Txs[b]
        [] req.rpc = "eth_getTransactionCount" -> v = Len(Txs[b])
        [] req.m = "state" -> TRUE
        [] OTHER -> v.hash = b

\* A finalized block that a source has is found, and what is found is right.
SettledAnswers == SettledFound /\ SettledExact

\* eth_getBalance and its kin never answer with the empty account that triedb
\* reads where the state is not available.
StateNotInvented == (ans.kind = "ok" /\ req.m = "state") => ans.value # NoBlock

\* Within the answer, the logs of a number are these, next to each other and in
\* this order.
Exactly(logs, n, own) ==
  \E k \in 0 .. Len(logs) :
    /\ {i \in DOMAIN logs : logs[i].num = n} = k + 1 .. k + Len(own)
    /\ SubSeq(logs, k + 1, k + Len(own)) = own

\* eth_getLogs answers with exactly the matching logs of the finalized blocks
\* that the buffer has not held, and the index gives what a scan would give
\* (the comparison check_dry_run_get_logs_index makes at run time).
LogsExact ==
  (req.m = "logs" /\ ans.kind = "logs") =>
    \A n \in ans.from .. ans.to :
      (ans.via = "index" \/ (n <= begun.fin /\ n \notin touched)) =>
        Exactly(ans.logs, n, LogsIn(Canonical(n)))
=============================================================================
