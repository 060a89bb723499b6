------------------------------ MODULE TxIndex ------------------------------
(***************************************************************************)
(* The representations behind the transaction index: the objects of a      *)
(* block as they are stored (several versions, with and without a marker), *)
(* the scan of their RLP for the place of every transaction, the entries   *)
(* of the index (inline, or a reference to the block), and what a reader   *)
(* makes of an entry.  Objects may be archived again in the latest version *)
(* after they have been indexed: by the archiver, which does not overwrite,*)
(* and by the checker's fixer, which does.                                 *)
(*                                                                         *)
(* RLP is scaled down: single bytes are 0 .. RlpSingle - 1, short lengths  *)
(* 0 .. RlpShort, and a length takes up to RlpWidths bytes (128, 55, 8).   *)
(***************************************************************************)
EXTENDS Naturals, Sequences, SequencesExt

CONSTANTS
    RlpSingle, RlpShort, RlpWidths,
    IndexedBlocks,  \* the blocks: sequences of [code, size, logs, gas] records
    HeaderLen,      \* bytes of a block's header
    MaxInlineLen    \* max_inline_encoded_len

ASSUME TxIndexAssumption ==
    /\ RlpSingle \in Nat \ 0 .. 3 /\ RlpShort \in Nat /\ RlpWidths \in Nat \ {0}
    /\ {HeaderLen, MaxInlineLen} \subseteq Nat

VARIABLES
    content,     \* the transactions of the block
    stored,      \* "block", "receipts" and "traces" -> bytes, << >> when missing
    txEntry,     \* the index: a function from positions to entries
    scanned      \* history: the objects the offsets of the index are taken from

txIndexVars == <<content, stored, txEntry, scanned>>

Missing == << >>
NotIndexed == [marked |-> FALSE, marker |-> 9, body |-> [repr |-> "none"]]
Position == DOMAIN content

-----------------------------------------------------------------------------
(* RLP as the library writes it. *)
StringOffset == RlpSingle
ListOffset == RlpSingle + RlpShort + 1 + RlpWidths
RlpBase == ListOffset + RlpShort + 1 + RlpWidths

Digits[n \in Nat] == IF n < RlpBase THEN <<n>> ELSE Append(Digits[n \div RlpBase], n % RlpBase)
Prefixed(offset, bytes) ==
    IF Len(bytes) <= RlpShort THEN <<offset + Len(bytes)>> \o bytes
    ELSE <<offset + RlpShort + Len(Digits[Len(bytes)])>> \o Digits[Len(bytes)] \o bytes

RlpString(bytes) ==
    IF Len(bytes) = 1 /\ bytes[1] < RlpSingle THEN bytes ELSE Prefixed(StringOffset, bytes)
RlpUint(n) == RlpString(IF n = 0 THEN << >> ELSE Digits[n])
RlpList(items) == Prefixed(ListOffset, FlattenSeq(items))

Filler(n, byte) == [i \in 1 .. n |-> byte]

-----------------------------------------------------------------------------
(* RlpScanner.  Positions count from 0. *)
Err == [ok |-> FALSE]

decode_uint(bytes) ==
    LET value[k \in 0 .. Len(bytes)] == IF k = 0 THEN 0 ELSE value[k - 1] * RlpBase + bytes[k]
    IN IF Len(bytes) > 1 /\ bytes[1] = 0 THEN Err ELSE [ok |-> TRUE, n |-> value[Len(bytes)]]

ShortItem(length) == [ok |-> TRUE, content |-> length, total |-> 1 + length]
LongItem(width, length) ==
    IF ~length.ok THEN Err ELSE [ok |-> TRUE, content |-> length.n, total |-> 1 + width + length.n]

decode_length(data, pos) ==
    LET first == data[pos + 1]
        long(width) ==
          IF Len(data) - pos < 1 + width THEN Err
          ELSE LongItem(width, decode_uint(SubSeq(data, pos + 2, pos + 1 + width)))
    IN CASE pos >= Len(data) -> Err
         [] first < RlpSingle -> [ok |-> TRUE, content |-> 1, total |-> 1]
         [] first \in RlpSingle .. RlpSingle + RlpShort -> ShortItem(first - StringOffset)
         [] first \in RlpSingle + RlpShort + 1 .. ListOffset - 1 -> long(first - StringOffset - RlpShort)
         [] first \in ListOffset .. ListOffset + RlpShort -> ShortItem(first - ListOffset)
         [] OTHER -> long(first - ListOffset - RlpShort)

\* The ranges of the items from `from` up to `end`; the data is well-formed.
ItemRanges(data, from, end) ==
    LET ranges[pos \in Nat] ==
          IF pos >= end THEN << >>
          ELSE LET next == pos + decode_length(data, pos).total
               IN <<[start |-> pos, end |-> next]>> \o ranges[next]
    IN ranges[from]

ListItems(data, list) == ItemRanges(data, list.total - list.content, list.total)
get_rlp_list_ranges(data) == ListItems(data, decode_length(data, 0))

Cut(bytes, range) == SubSeq(bytes, range.start + 1, range.end)
ListOf(data) ==
    LET ranges == get_rlp_list_ranges(data) IN [i \in DOMAIN ranges |-> Cut(data, ranges[i])]

\* The list of transactions comes after the header, the first item of the block.
AfterItem(block, pos) == pos + decode_length(block, pos).total
TxsStart(block) ==
    LET PrefixLen(outer) == outer.total - outer.content
    IN AfterItem(block, PrefixLen(decode_length(block, 0)))

Shifted(ranges, by) ==
    [i \in DOMAIN ranges |-> [start |-> ranges[i].start + by, end |-> ranges[i].end + by]]

TxRanges(block, start) ==
    Shifted(get_rlp_list_ranges(SubSeq(block, start + 1, AfterItem(block, start))), start)

Offsets(txs, rs, ts) ==
    IF Len(txs) # Len(rs) \/ Len(txs) # Len(ts) THEN Err
    ELSE [ok |-> TRUE,
          offsets |-> [i \in DOMAIN txs |-> [tx |-> txs[i], receipt |-> rs[i], trace |-> ts[i]]]]

get_all_tx_offsets(block, receipts, traces) ==
    Offsets(TxRanges(block, TxsStart(block)), get_rlp_list_ranges(receipts), get_rlp_list_ranges(traces))

-----------------------------------------------------------------------------
(* The parts of a block, and what is stored of them.  Version 0 has        *)
(* neither senders nor the numbers of the first logs; version 2 differs    *)
(* from 1 in its marker.  archive_block writes version 1; encode_block, a  *)
(* public function, writes version 2.                                      *)
BLOCK_SENTINEL == 3
RECEIPT_SENTINEL == 3
MarkerOf(version) == CASE version = "V0" -> 0 [] version = "V1" -> 1 [] version = "V2" -> 2

LogsBefore[i \in Nat] == IF i <= 1 THEN 0 ELSE LogsBefore[i - 1] + content[i - 1].logs
GasUpTo[i \in Nat] == IF i = 0 THEN 0 ELSE GasUpTo[i - 1] + content[i].gas

\* Every account signs with a code of its own.
recover_signer(tx) == tx.code

TxOf(i) == [code |-> content[i].code, size |-> content[i].size]
WithSender(tx) == [tx |-> tx, sender |-> recover_signer(tx)]
ReceiptOf(i) ==
    [starting_log_index |-> LogsBefore[i], cumulative |-> GasUpTo[i],
     logs |-> Filler(content[i].logs, content[i].code)]
TraceOf(i) == Filler(content[i].logs + 1, content[i].code)

EncodedTx(version, t) ==
    LET tx == RlpString(Filler(t.tx.size, t.tx.code))
    IN IF version = "V0" THEN tx ELSE RlpList(<<tx, RlpUint(t.sender)>>)
EncodedReceipt(version, r) ==
    LET receipt == RlpList(<<RlpUint(r.cumulative), RlpString(r.logs)>>)
    IN IF version = "V0" THEN receipt ELSE RlpList(<<receipt, RlpUint(r.starting_log_index)>>)

EncodedItems(kind, version) ==
    [i \in Position |->
       CASE kind = "block" -> EncodedTx(version, WithSender(TxOf(i)))
         [] kind = "receipts" -> EncodedReceipt(version, ReceiptOf(i))
         [] kind = "traces" -> RlpString(TraceOf(i))]

RlpOf(kind, items) ==
    IF kind = "block" THEN RlpList(<<RlpList(<<RlpString(Filler(HeaderLen, 0))>>), items, RlpList(<< >>)>>)
    ELSE items
Rlp(kind, version) == RlpOf(kind, RlpList(EncodedItems(kind, version)))

\* BlockStorageRepr::encode and ReceiptStorageRepr::encode; traces have no marker.
Encoded(kind, version) ==
    CASE kind = "traces" \/ version = "raw" -> Rlp(kind, "V0")
      [] kind = "block" -> <<BLOCK_SENTINEL, MarkerOf(version)>> \o Rlp(kind, version)
      [] kind = "receipts" -> <<RECEIPT_SENTINEL, MarkerOf(version)>> \o Rlp(kind, version)

Marked(buf, sentinel, version) == Len(buf) >= 2 /\ buf[1] = sentinel /\ buf[2] = MarkerOf(version)
Unmarked(buf) == SubSeq(buf, 3, Len(buf))

-----------------------------------------------------------------------------
(* Decoding: the library checks that lists are where lists are expected.   *)
Payload(item) ==
    LET head == decode_length(item, 0)
    IN SubSeq(item, head.total - head.content + 1, head.total)
UintOf(item) == decode_uint(Payload(item)).n

IsList(item) == item # << >> /\ item[1] >= ListOffset
IsPair(item) == IsList(item) /\ Len(ListOf(item)) = 2

DecodedTx(item) == [code |-> Head(Payload(item)), size |-> Len(Payload(item))]
TxFrom(version, item) ==
    IF version = "V0" THEN WithSender(DecodedTx(item))
    ELSE [tx |-> DecodedTx(ListOf(item)[1]), sender |-> UintOf(ListOf(item)[2])]

\* The block of bytes without a marker, converted to the latest version: the
\* senders of version 0 are recovered.
TxsFrom(version, items) ==
    IF \E i \in DOMAIN items : IsPair(items[i]) # (version # "V0") THEN Err
    ELSE [ok |-> TRUE, txs |-> [i \in DOMAIN items |-> TxFrom(version, items[i])]]
BlockFrom(version, bytes) ==
    IF ~IsList(bytes) THEN Err
    ELSE IF Len(ListOf(bytes)) # 3 THEN Err ELSE TxsFrom(version, ListOf(ListOf(bytes)[2]))

\* decode_and_convert: by the marker, and as version 0 when that fails.
Repr(buf, sentinel, versions, From(_, _)) ==
    LET marked == {v \in versions : Marked(buf, sentinel, v) /\ From(v, Unmarked(buf)).ok}
    IN CASE Len(buf) < 2 -> Err
         [] marked # {} -> From(CHOOSE v \in marked : TRUE, Unmarked(buf))
         [] OTHER -> From("V0", buf)

DecodeBlock(buf) == Repr(buf, BLOCK_SENTINEL, {"V0", "V1", "V2"}, BlockFrom)

DecodedReceipt(item, first) ==
    [starting_log_index |-> first, cumulative |-> UintOf(ListOf(item)[1]), logs |-> Payload(ListOf(item)[2])]

\* Mutant: the logs of a receipt are counted before its first log is numbered.
convert_receipts_late(version, items) ==
    LET logs(i) == Len(DecodedReceipt(items[i], 0).logs)
        pre[i \in 0 .. Len(items)] == IF i = 0 THEN 0 ELSE pre[i - 1] + logs(i)
    IN [i \in DOMAIN items |->
          IF version = "V0" THEN DecodedReceipt(items[i], pre[i])
          ELSE DecodedReceipt(ListOf(items[i])[1], UintOf(ListOf(items[i])[2]))]

\* ReceiptStorageRepr::convert: version 0 is numbered by counting logs.
convert_receipts(version, items) ==
    LET logs(i) == Len(DecodedReceipt(items[i], 0).logs)
        pre[i \in 1 .. Len(items)] == IF i = 1 THEN 0 ELSE pre[i - 1] + logs(i - 1)
    IN [i \in DOMAIN items |->
          IF version = "V0" THEN DecodedReceipt(items[i], pre[i])
          ELSE DecodedReceipt(ListOf(items[i])[1], UintOf(ListOf(items[i])[2]))]

IsReceipt(version, item) == IsPair(item) /\ (version = "V0") = ~IsList(ListOf(item)[1])
ReceiptsFrom(version, bytes) ==
    IF ~IsList(bytes) THEN Err
    ELSE IF \E i \in DOMAIN ListOf(bytes) : ~IsReceipt(version, ListOf(bytes)[i]) THEN Err
    ELSE [ok |-> TRUE, receipts |-> convert_receipts(version, ListOf(bytes))]

DecodeReceipts(buf) ==
    IF buf = RlpList(<< >>) THEN [ok |-> TRUE, receipts |-> << >>]
    ELSE Repr(buf, RECEIPT_SENTINEL, {"V0", "V1"}, ReceiptsFrom)

DecodeTraces(buf) ==
    IF ~IsList(buf) THEN Err
    ELSE [ok |-> TRUE, traces |-> [i \in DOMAIN ListOf(buf) |-> Payload(ListOf(buf)[i])]]

rlp_list_slice(buf, sentinel) ==
    IF Marked(buf, sentinel, "V0") \/ Marked(buf, sentinel, "V1") THEN Unmarked(buf) ELSE buf

BlockDataWithOffsets(o, b, r, t) ==
    IF o.ok /\ b.ok /\ r.ok /\ t.ok
    THEN [ok |-> TRUE, txs |-> b.txs, receipts |-> r.receipts, traces |-> t.traces, offsets |-> o.offsets]
    ELSE Err

get_block_data_with_offsets ==
    IF Missing \in {stored["block"], stored["receipts"], stored["traces"]} THEN Err
    ELSE BlockDataWithOffsets(
           get_all_tx_offsets(rlp_list_slice(stored["block"], BLOCK_SENTINEL),
                              rlp_list_slice(stored["receipts"], RECEIPT_SENTINEL), stored["traces"]),
           DecodeBlock(stored["block"]), DecodeReceipts(stored["receipts"]), DecodeTraces(stored["traces"]))

-----------------------------------------------------------------------------
(* Entries of the index. *)
INLINE_V0_MARKER == 0
INLINE_V1_MARKER == 1
REFERENCE_V0_MARKER == 2

\* IndexDataStorageRepr::encode; the oldest entries are an InlineV0 without marker.
EncodeEntry(body) ==
    [marked |-> TRUE, body |-> body,
     marker |-> CASE body.repr = "InlineV0" -> INLINE_V0_MARKER
                  [] body.repr = "InlineV1" -> INLINE_V1_MARKER
                  [] body.repr = "ReferenceV0" -> REFERENCE_V0_MARKER]
RawEntry(body) == [marked |-> FALSE, marker |-> INLINE_V0_MARKER, body |-> body]

ReprOf(marker) ==
    CASE marker = INLINE_V0_MARKER -> "InlineV0"
      [] marker = INLINE_V1_MARKER -> "InlineV1"
      [] marker = REFERENCE_V0_MARKER -> "ReferenceV0"

\* The marker says what the body is; without one, or when that fails, InlineV0.
DecodeEntry(e) ==
    IF (e.marked /\ e.body.repr = ReprOf(e.marker)) \/ e.body.repr = "InlineV0"
    THEN [ok |-> TRUE, body |-> e.body] ELSE Err

HeaderSubset(i) == [time |-> "timestamp", tx_index |-> i, gas_used |-> GasUpTo[i] - GasUpTo[i - 1]]
HeaderSubsetV0(i) == [tx_index |-> i, gas_used |-> GasUpTo[i] - GasUpTo[i - 1]]
Converted(h, time) == [time |-> time, tx_index |-> h.tx_index, gas_used |-> h.gas_used]

\* What an index of the first version has about a transaction.
InlineV0(i) ==
    [repr |-> "InlineV0", tx |-> TxOf(i), trace |-> TraceOf(i), header |-> HeaderSubsetV0(i)]

InlineLen(data, i) ==
    Len(EncodedTx("V1", data.txs[i]) \o EncodedReceipt("V1", data.receipts[i]) \o RlpString(data.traces[i]))

\* TxIndexArchiver::index_block: the gas of a transaction is the difference of
\* two cumulative amounts, and what is too long becomes a reference.
IndexEntry(data, offsets, i) ==
    LET before == IF i = 1 THEN 0 ELSE data.receipts[i - 1].cumulative
        header == [time |-> "timestamp", tx_index |-> i,
                   gas_used |-> data.receipts[i].cumulative - before]
    IN EncodeEntry(
         IF InlineLen(data, i) > MaxInlineLen
         THEN [repr |-> "ReferenceV0", header |-> header,
               offsets |-> IF offsets = << >> THEN << >> ELSE <<offsets[i]>>]
         ELSE [repr |-> "InlineV1", tx |-> data.txs[i], trace |-> data.traces[i],
               receipt |-> data.receipts[i], header |-> header])

SameCounts(data, offsets) ==
    /\ Len(data.txs) = Len(data.traces) /\ Len(data.traces) = Len(data.receipts)
    /\ offsets # << >> => Len(offsets) = Len(data.receipts)

\* NoClobber, which DynamoDB does not follow: it overwrites.
index_block(data, offsets, overwrites) ==
    LET new == {i \in Position : overwrites \/ txEntry[i] = NotIndexed}
    IN /\ SameCounts(data, offsets)
       /\ txEntry' = [i \in Position |-> IF i \in new THEN IndexEntry(data, offsets, i) ELSE txEntry[i]]
       /\ scanned' = [i \in Position |-> IF i \in new THEN stored ELSE scanned[i]]

-----------------------------------------------------------------------------
(* Reading an entry: the parts it does not have come from the block.       *)
Ok(data, header) == [ok |-> TRUE, data |-> data, header |-> header]

BlockTime == IF DecodeBlock(stored["block"]).ok THEN "timestamp" ELSE "error"

Latest(r, i, b, rs, ts) ==
    CASE r.repr = "InlineV1" ->
           Ok([tx |-> r.tx, trace |-> r.trace, receipt |-> r.receipt], r.header)
      [] r.repr = "InlineV0" ->
           IF ~b.ok \/ ~rs.ok THEN Err
           ELSE Ok([tx |-> WithSender(r.tx), trace |-> r.trace, receipt |-> rs.receipts[i]],
                   Converted(r.header, BlockTime))
      [] r.repr = "ReferenceV0" ->
           IF ~b.ok \/ ~rs.ok \/ ~ts.ok THEN Err
           ELSE Ok([tx |-> b.txs[i], trace |-> ts.traces[i], receipt |-> rs.receipts[i]], r.header)
convert(r) ==
    Latest(r, r.header.tx_index, DecodeBlock(stored["block"]), DecodeReceipts(stored["receipts"]),
           DecodeTraces(stored["traces"]))

get_trace(r) ==
    CASE r.repr = "InlineV1" -> Ok(r.trace, r.header)
      [] r.repr = "InlineV0" ->
           IF BlockTime = "error" THEN Err ELSE Ok(r.trace, Converted(r.header, BlockTime))
      [] r.repr = "ReferenceV0" ->
           LET ts == DecodeTraces(stored["traces"])
           IN IF ts.ok THEN Ok(ts.traces[r.header.tx_index], r.header) ELSE Err

get_tx(r) ==
    LET b == DecodeBlock(stored["block"])
    IN CASE r.repr = "InlineV1" -> Ok(r.tx, r.header)
         [] ~b.ok -> Err
         [] r.repr = "InlineV0" -> Ok(b.txs[r.header.tx_index], Converted(r.header, BlockTime))
         [] r.repr = "ReferenceV0" -> Ok(b.txs[r.header.tx_index], r.header)

get_receipt(r) ==
    CASE r.repr = "InlineV1" -> Ok(r.receipt, r.header)
      [] r.repr = "InlineV0" ->
           LET latest == convert(r) IN IF latest.ok THEN Ok(latest.data.receipt, latest.header) ELSE Err
      [] r.repr = "ReferenceV0" ->
           LET rs == DecodeReceipts(stored["receipts"])
           IN IF rs.ok THEN Ok(rs.receipts[r.header.tx_index], r.header) ELSE Err

\* IndexReader: get_repr, then the reader of the part.
get_repr(i) == DecodeEntry(txEntry[i])
ReadEntry(Read(_), i) == LET r == get_repr(i) IN IF r.ok THEN Read(r.body) ELSE Err

-----------------------------------------------------------------------------
Kinds == {"block", "receipts", "traces"}
Versions(kind) ==
    CASE kind = "block" -> {"raw", "V0", "V1", "V2"}
      [] kind = "receipts" -> {"raw", "V0", "V1"}
      [] kind = "traces" -> {"raw"}

OldEntry(age, i) ==
    CASE age = "none" -> NotIndexed
      [] age = "raw" -> RawEntry(InlineV0(i))
      [] age = "V0" -> EncodeEntry(InlineV0(i))

\* What earlier versions may have left behind; an entry only for a whole block.
TxIndexInit(c) ==
    /\ content = c
    /\ \E old \in [Kinds -> BOOLEAN], block \in Versions("block"),
          receipts \in Versions("receipts"), age \in {"none", "raw", "V0"} :
         /\ age # "none" => \A kind \in Kinds : old[kind]
         /\ stored = [kind \in Kinds |->
              CASE ~old[kind] -> Missing
                [] kind = "block" -> Encoded(kind, block)
                [] kind = "receipts" -> Encoded(kind, receipts)
                [] kind = "traces" -> Encoded(kind, "raw")]
         /\ txEntry = [i \in Position |-> OldEntry(age, i)]
    /\ scanned = [i \in Position |-> stored]

\* archive_block, archive_receipts, archive_traces.
ArchiveObject(kind, policy) ==
    /\ policy = "NoClobber" => stored[kind] = Missing
    /\ stored' = [stored EXCEPT ![kind] = Encoded(kind, "V1")]
    /\ UNCHANGED <<content, txEntry, scanned>>

IndexArchived(overwrites) ==
    \E data \in {get_block_data_with_offsets} :
       /\ data.ok
       /\ index_block(data, data.offsets, overwrites)
       /\ UNCHANGED <<content, stored>>

\* The node's database gives the parts of a block, and no offsets.
IndexFromTriedb(overwrites) ==
    /\ index_block([txs |-> [i \in Position |-> WithSender(TxOf(i))],
                    receipts |-> [i \in Position |-> ReceiptOf(i)],
                    traces |-> [i \in Position |-> TraceOf(i)]], << >>, overwrites)
    /\ UNCHANGED <<content, stored>>

TxIndexNext ==
    \/ \E kind \in Kinds, policy \in {"NoClobber", "AllowOverwrite"} : ArchiveObject(kind, policy)
    \/ \E overwrites \in BOOLEAN : IndexArchived(overwrites) \/ IndexFromTriedb(overwrites)

-----------------------------------------------------------------------------
(* PROPERTIES *)

Truth(i) == [tx |-> WithSender(TxOf(i)), trace |-> TraceOf(i), receipt |-> ReceiptOf(i)]

AnswersWith(answer, data, i) ==
    answer = Ok(data, HeaderSubset(i)) \/ (~answer.ok /\ \E kind \in Kinds : stored[kind] = Missing)

RlpVersion(version) == IF version = "raw" THEN "V0" ELSE version

\* The bytes at an entry's offsets, in objects of these versions.
OffsetsLead(i, o, block, receipts) ==
    /\ Cut(Rlp("block", RlpVersion(block)), o.tx) = EncodedItems("block", RlpVersion(block))[i]
    /\ Cut(Rlp("receipts", RlpVersion(receipts)), o.receipt) = EncodedItems("receipts", RlpVersion(receipts))[i]
    /\ Cut(Rlp("traces", "V0"), o.trace) = EncodedItems("traces", "V0")[i]

OffsetsExact(i, o) ==
    \A block \in {"raw", "V0", "V1"}, receipts \in Versions("receipts") :
      (scanned[i]["block"] = Encoded("block", block) /\ scanned[i]["receipts"] = Encoded("receipts", receipts)) =>
        OffsetsLead(i, o, block, receipts)

(***************************************************************************)
(* What the index answers about a transaction is that transaction with its *)
(* own sender, receipt, trace, gas and log numbers, in whatever version    *)
(* entry, block and receipts are stored and whichever of them has been     *)
(* rewritten since; a reader only fails while a part of the block is       *)
(* missing.  The offsets of an entry lead to exactly the bytes of the      *)
(* transaction when the block was scanned without a marker or in version 0 *)
(* or 1, the one archive_block writes.                                     *)
(***************************************************************************)
IndexReadsExact ==
    \A i \in Position : txEntry[i] # NotIndexed =>
      /\ AnswersWith(ReadEntry(convert, i), Truth(i), i)
      /\ AnswersWith(ReadEntry(get_tx, i), Truth(i).tx, i)
      /\ AnswersWith(ReadEntry(get_trace, i), Truth(i).trace, i)
      /\ AnswersWith(ReadEntry(get_receipt, i), Truth(i).receipt, i)
      /\ (txEntry[i].body.repr = "ReferenceV0" /\ txEntry[i].body.offsets # << >>) =>
           OffsetsExact(i, txEntry[i].body.offsets[1])

(***************************************************************************)
(* "Extracting offsets is the same for all representations currently": the *)
(* offsets of a block whose objects are stored lead to its transactions,   *)
(* in every version that decodes.  They do not in version 2, whose marker  *)
(* rlp_list_slice leaves in front of the RLP.                              *)
(***************************************************************************)
OffsetsAlike ==
    \A block \in Versions("block"), receipts \in Versions("receipts") :
      stored = [kind \in Kinds |-> Encoded(kind, CASE kind = "block" -> block
                                                   [] kind = "receipts" -> receipts
                                                   [] kind = "traces" -> "raw")] =>
        /\ get_block_data_with_offsets.ok
        /\ \A i \in Position : OffsetsLead(i, get_block_data_with_offsets.offsets[i], block, receipts)
=============================================================================
