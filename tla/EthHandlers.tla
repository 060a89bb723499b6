---------------------------- MODULE EthHandlers ----------------------------
(***************************************************************************)
(* What blocks contain, how monad-rpc/src/data turns it into the objects   *)
(* of the JSON-RPC interface, and the handlers of monad-rpc/src/handlers   *)
(* that look them up.  Triedb, archive and events all store cumulative gas *)
(* and the index of a receipt's first log; gas per transaction and the     *)
(* index of each log are computed on the way out.                          *)
(***************************************************************************)
EXTENDS DataSources, Functions

CONSTANTS
  Gas,          \* gas a transaction uses
  Emits,        \* logs a transaction emits
  TxSize,       \* its encoded length
  HeaderSize,   \* encoded length of a header
  LengthWidth,  \* lengths from here on take an extra byte to encode
  MaxResponseSize

ASSUME ContentsAssumption ==
  /\ Gas \in [TxHashes -> Nat] /\ Emits \in [TxHashes -> Nat] /\ TxSize \in [TxHashes -> Nat]
  /\ HeaderSize \in Nat /\ LengthWidth \in Nat

Upto(f, b, i) ==
  LET Sum[k \in 0 .. Len(Txs[b])] == IF k = 0 THEN 0 ELSE Sum[k - 1] + f[Txs[b][k]]
  IN  Sum[i]
CumulativeGas(b, i)    == Upto(Gas, b, i)
StartingLogIndex(b, i) == Upto(Emits, b, i - 1)
length_of_length(n)    == IF n < LengthWidth THEN 1 ELSE 2

calculate_block_size(b) ==
  LET txs     == Upto(TxSize, b, Len(Txs[b]))
      payload == HeaderSize + length_of_length(txs) + txs + 1
  IN  length_of_length(payload) + payload

parse_tx_content(b, i) ==
  [hash |-> b, num |-> Height[b], tx |-> Txs[b][i], idx |-> i - 1]

parse_block_content(b, full) ==
  [hash |-> b, num |-> Height[b], size |-> calculate_block_size(b),
   txs |-> IF full THEN [i \in DOMAIN Txs[b] |-> parse_tx_content(b, i)] ELSE Txs[b]]

parse_receipt_envelope(b, i) ==
  [k \in 1 .. Emits[Txs[b][i]] |->
     [hash |-> b, num |-> Height[b], tx |-> Txs[b][i], idx |-> i - 1,
      log |-> StartingLogIndex(b, i) + k - 1]]

parse_tx_receipt(b, i, gas) ==
  [hash |-> b, num |-> Height[b], tx |-> Txs[b][i], idx |-> i - 1,
   gas |-> gas, logs |-> parse_receipt_envelope(b, i)]

map_block_receipts(b) ==
  [i \in DOMAIN Txs[b] |->
     parse_tx_receipt(b, i, CumulativeGas(b, i) - (IF i = 1 THEN 0 ELSE CumulativeGas(b, i - 1)))]

get_transaction_from_triedb(b, i) == parse_tx_content(b, i)

get_receipt_from_triedb(b, i) ==
  parse_tx_receipt(b, i, IF i > 1 THEN CumulativeGas(b, i) - CumulativeGas(b, i - 1)
                                  ELSE CumulativeGas(b, i))

\* The logs that pass a filter, a set of transactions here: all or none of the
\* logs of a receipt.
receipt_envelope_to_logs_iter(b, i, filter) ==
  IF Txs[b][i] \in filter THEN parse_receipt_envelope(b, i) ELSE << >>

header_transactions_receipts_to_block_number_logs(b, filter) ==
  FlattenSeq([i \in DOMAIN Txs[b] |-> receipt_envelope_to_logs_iter(b, i, filter)])

(***************************************************************************)
(* The handlers: which request each makes to the data provider, and what   *)
(* it makes of the result.  A result is a value,                           *)
(* ChainStateError::ResourceNotFound or another error.                     *)
(***************************************************************************)
Missing    == [kind |-> "missing"]
Failed     == [kind |-> "error"]
Found(v, via) == [kind |-> "ok", value |-> v, via |-> via]

Num(n)  == [kind |-> "number", num |-> n]
Tag(k)  == [kind |-> k]
Hash(b) == [kind |-> "hash", block |-> b]

monad_eth_getBlockByHash(b, full) ==
  [rpc |-> "eth_getBlock", m |-> "block", ref |-> Hash(b), full |-> full]
monad_eth_getBlockByNumber(ref, full) ==
  [rpc |-> "eth_getBlock", m |-> "block", ref |-> ref, full |-> full]
monad_eth_getBlockTransactionCountByHash(b) ==
  [rpc |-> "eth_getTransactionCount", m |-> "block", ref |-> Hash(b), full |-> TRUE]
monad_eth_getBlockTransactionCountByNumber(ref) ==
  [rpc |-> "eth_getTransactionCount", m |-> "block", ref |-> ref, full |-> TRUE]
monad_eth_getBlockReceipts(ref) ==
  [rpc |-> "eth_getBlockReceipts", m |-> "receipts", ref |-> ref]
monad_eth_getTransactionReceipt(t) ==
  [rpc |-> "eth_getTransactionReceipt", m |-> "receipt", tx |-> t]
monad_eth_getTransactionByHash(t) ==
  [rpc |-> "eth_getTransactionByHash", m |-> "tx", tx |-> t]
monad_eth_getTransactionByBlockHashAndIndex(b, i) ==
  [rpc |-> "eth_getTransactionByBlockAndIndex", m |-> "txAt", ref |-> Hash(b), idx |-> i]
monad_eth_getTransactionByBlockNumberAndIndex(ref, i) ==
  [rpc |-> "eth_getTransactionByBlockAndIndex", m |-> "txAt", ref |-> ref, idx |-> i]
monad_eth_getLogs(from, to, filter, index) ==
  [rpc |-> "eth_getLogs", m |-> "logs", from |-> from, to |-> to, filter |-> filter, indexed |-> index]
monad_debug_getRawBlock(ref) ==
  [rpc |-> "debug_getRawBlock", m |-> "block", ref |-> ref, full |-> TRUE]
monad_debug_getRawHeader(ref) ==
  [rpc |-> "debug_getRawHeader", m |-> "header", ref |-> ref]
monad_debug_getRawReceipts(ref) ==
  [rpc |-> "debug_getRawReceipts", m |-> "rawReceipts", ref |-> ref]
monad_debug_getRawTransaction(t) ==
  [rpc |-> "debug_getRawTransaction", m |-> "tx", tx |-> t]
monad_debug_traceBlock(ref) ==
  [rpc |-> "debug_traceBlock", m |-> "frames", ref |-> ref]
monad_debug_traceTransaction(t) ==
  [rpc |-> "debug_traceTransaction", m |-> "frame", tx |-> t]

\* Reads of the state behind a block: an account, a storage slot, or the code
\* of an account, which takes two reads.
monad_eth_getBalance(ref)          == [rpc |-> "eth_getBalance", m |-> "state", ref |-> ref, reads |-> 1]
monad_eth_getTransactionCount(ref) == [rpc |-> "eth_getNonce", m |-> "state", ref |-> ref, reads |-> 1]
monad_eth_getStorageAt(ref)        == [rpc |-> "eth_getStorageAt", m |-> "state", ref |-> ref, reads |-> 1]
monad_eth_getCode(ref)             == [rpc |-> "eth_getCode", m |-> "state", ref |-> ref, reads |-> 2]

\* The requests the handlers make.  Blocks are named by a number, a tag or a
\* hash, in debug_getRaw* by a number or a tag (DebugBlockParams).
IsTag(ref) == \/ ref.kind \in {"latest", "safe", "finalized"}
              \/ ref.kind = "number" /\ ref.num \in Nat
IsRef(ref) == IsTag(ref) \/ (ref.kind = "hash" /\ ref.block \in Blocks)

Handled(r) ==
  \/ r.m = "block" /\ r.rpc \in {"eth_getBlock", "eth_getTransactionCount"} /\ IsRef(r.ref)
  \/ r.m = "block" /\ r.rpc = "debug_getRawBlock" /\ IsTag(r.ref)
  \/ r.m = "header" /\ r.rpc = "debug_getRawHeader" /\ IsTag(r.ref)
  \/ r.m = "rawReceipts" /\ r.rpc = "debug_getRawReceipts" /\ IsTag(r.ref)
  \/ r.m = "receipts" /\ r.rpc = "eth_getBlockReceipts" /\ IsRef(r.ref)
  \/ r.m = "frames" /\ r.rpc = "debug_traceBlock" /\ IsRef(r.ref)
  \/ r.m = "txAt" /\ r.rpc = "eth_getTransactionByBlockAndIndex" /\ IsRef(r.ref)
  \/ r.m = "tx" /\ r.rpc \in {"eth_getTransactionByHash", "debug_getRawTransaction"} /\ r.tx \in TxHashes
  \/ r.m = "receipt" /\ r.rpc = "eth_getTransactionReceipt" /\ r.tx \in TxHashes
  \/ r.m = "frame" /\ r.rpc = "debug_traceTransaction" /\ r.tx \in TxHashes
  \/ /\ r.m = "state" /\ IsRef(r.ref) /\ r.reads \in {1, 2}
     /\ r.rpc \in {"eth_getBalance", "eth_getNonce", "eth_getStorageAt", "eth_getCode"}
  \/ /\ r.m = "logs" /\ r.rpc = "eth_getLogs"
     /\ IsRef(r.from) /\ (r.from.kind = "hash" \/ IsTag(r.to))

\* Raw blocks and receipts take two characters per byte, and are refused when
\* a prefix of them is already too large.
RawSize(items) == FoldFunction(+, 0, [i \in DOMAIN items |-> 2 * TxSize[items[i].tx]])

\* map_present_and_no_err: a resource that is not found is null, every other
\* error is an error.  The debug handlers report every error as not found.
Response(r, a) ==
  CASE r.rpc \in {"debug_getRawHeader", "debug_getRawTransaction"} ->
         IF a.kind = "ok" THEN a ELSE Missing
    [] r.rpc \in {"debug_getRawBlock", "debug_getRawReceipts"} ->
         IF a.kind # "ok" THEN Missing
         ELSE IF RawSize(IF r.m = "block" THEN a.value.txs ELSE a.value) > MaxResponseSize
         THEN Failed ELSE a
    [] r.rpc = "eth_getTransactionCount" ->
         IF a.kind = "ok" THEN [a EXCEPT !.value = Len(@.txs)] ELSE a
    [] OTHER -> a
=============================================================================
