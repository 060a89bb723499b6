---------------------------- MODULE DataSources ----------------------------
(***************************************************************************)
(* The three places the RPC server reads chain data from: the buffer of    *)
(* recent blocks (monad-rpc/src/data/buffer), the node's triedb and the    *)
(* archive.  All of them follow the same history of consensus, each at its *)
(* own pace: the buffer may be ahead of triedb or behind it.  Triedb and   *)
(* the archive are external and described by what the RPC server relies on.*)
(* Here the buffer is written one map operation at a time, so that readers *)
(* can come in between.                                                    *)
(***************************************************************************)
EXTENDS Naturals, Sequences, FiniteSets, FiniteSetsExt, SequencesExt

CONSTANTS
  Blocks,        \* blocks, a block stands for its hash and its contents
  Height,        \* their numbers
  Parent,        \* their parents, NoBlock for the first
  Txs,           \* their transactions, a sequence
  NoBlock,
  Histories,     \* sequences of consensus events that may happen
  SyncedTo,      \* histories start with this many events behind everybody
  BufferCapacity \* blocks kept by the buffer

TxHashes == UNION {Range(Txs[b]) : b \in Blocks}

\* A block and its ancestors.
ChainTo[b \in Blocks \cup {NoBlock}] ==
  IF b = NoBlock THEN {} ELSE {b} \cup ChainTo[Parent[b]]

\* No transaction is executed twice on a chain.
ASSUME SourcesAssumption ==
  /\ NoBlock \notin Blocks
  /\ Height \in [Blocks -> Nat \ {0}]
  /\ Parent \in [Blocks -> Blocks \cup {NoBlock}]
  /\ \A b \in Blocks : Parent[b] # NoBlock => Height[b] = Height[Parent[b]] + 1
  /\ \A b \in Blocks : Txs[b] \in Seq(TxHashes)
  /\ \A x \in Blocks : \A b, c \in ChainTo[x] : b # c => Range(Txs[b]) \cap Range(Txs[c]) = {}
  /\ BufferCapacity \in Nat \ {0}

\* What consensus promises: blocks are finalized in the order of their numbers,
\* from 1 on and without a gap, and the latest proposal is built on every
\* finalized block.
ASSUME HistoryAssumption ==
  \A hist \in Histories :
    LET Made(state, k) == {i \in 1 .. k : hist[i].state = state}
    IN  /\ hist \in Seq([state : {"proposed", "voted", "finalized"}, block : Blocks])
        /\ SyncedTo \in 1 .. Len(hist)
        /\ \A state \in {"proposed", "voted", "finalized"} : Made(state, SyncedTo) # {}
        /\ \A i \in Made("finalized", Len(hist)) :
             /\ \A j \in Made("finalized", i - 1) : Height[hist[j].block] < Height[hist[i].block]
             /\ \A n \in 1 .. Height[hist[i].block] - 1 :
                  \E j \in Made("finalized", i - 1) : Height[hist[j].block] = n
        /\ \A k \in SyncedTo .. Len(hist) : \A i \in Made("finalized", k) :
             hist[i].block \in ChainTo[hist[Max(Made("proposed", k))].block]

VARIABLES
  history,     \* what consensus does, in order
  dbAt,        \* how much of it triedb has applied
  dbLow,       \* triedb has pruned the blocks below this number
  archived,    \* the archive holds the finalized blocks up to here
  indexed,     \* and has indexed them up to here
  bufAt,       \* how much of the history the buffer has taken
  heights,     \* the heights of block_states: proposed, voted, finalized
  byHeight,    \* block_by_height
  heightByHash,\* block_height_by_hash, 0 for none
  txByHash,    \* tx_by_hash: block and position, NoLoc for none
  ring,        \* block_heights, the newest first
  todo         \* map operations that the insert in progress still has to do

dbVars   == <<dbAt, dbLow, archived, indexed>>
bufVars  == <<bufAt, heights, byHeight, heightByHash, txByHash, ring, todo>>
srcVars  == <<history, dbVars, bufVars>>

NoLoc      == [block |-> NoBlock, idx |-> 0]
AllHeights == {Height[b] : b \in Blocks}

(***************************************************************************)
(* What has been finalized, voted and proposed after k events.             *)
(***************************************************************************)
Reached(state, k) ==
  {history[i].block : i \in {j \in 1 .. k : history[j].state = state}}

Newest(state, k) ==
  LET at == {i \in 1 .. k : history[i].state = state}
  IN  IF at = {} THEN NoBlock ELSE history[Max(at)].block

Finalized(k)  == Reached("finalized", k)
FinHeight(k)  == Max({0} \cup {Height[b] : b \in Finalized(k)})
CanonAt(k, n) == CHOOSE b \in Finalized(k) : Height[b] = n

(***************************************************************************)
(* Triedb (external).  A key names a finalized block by its number, or a   *)
(* proposal by number and id; the contents behind a key do not change, but *)
(* old blocks are pruned, and proposals go once their height is finalized. *)
(***************************************************************************)
FinKey(n)  == [final |-> TRUE, num |-> n, id |-> NoBlock]
PropKey(b) == [final |-> FALSE, num |-> Height[b], id |-> b]
NoKey      == [final |-> FALSE, num |-> 0, id |-> NoBlock]

KeyOfBlock(b) ==
  IF b \in Finalized(dbAt) THEN FinKey(Height[b]) ELSE PropKey(b)

LatestKey == KeyOfBlock(Newest("proposed", dbAt))
VotedKey  == KeyOfBlock(Newest("voted", dbAt))

\* Triedb::get_block_key: the finalized block of a number, or the proposal
\* it knows at that number; nothing above the latest proposal.
BlockKey(n) ==
  IF n \in 1 .. FinHeight(dbAt) THEN FinKey(n)
  ELSE IF VotedKey.num = n THEN VotedKey
  ELSE IF LatestKey.num = n THEN LatestKey ELSE NoKey

DbBlock(key) == IF key.final THEN CanonAt(dbAt, key.num) ELSE key.id

DbHeader(key) == /\ key # NoKey /\ key.num >= dbLow
                 /\ ~key.final => key.num > FinHeight(dbAt)

\* Triedb::get_block_number_by_hash and get_transaction_location_by_hash, both
\* on the state of the latest proposal.
LatestChain == {b \in ChainTo[Newest("proposed", dbAt)] : Height[b] >= dbLow}
DbNumber(b) == IF b \in LatestChain THEN Height[b] ELSE 0
DbLocation(t) ==
  LET bs == {b \in LatestChain : \E i \in DOMAIN Txs[b] : Txs[b][i] = t}
  IN  IF bs = {} THEN NoLoc
      ELSE LET b == CHOOSE x \in bs : TRUE
           IN  [block |-> b, idx |-> CHOOSE i \in DOMAIN Txs[b] : Txs[b][i] = t]

(***************************************************************************)
(* ArchiveReader: finalized blocks up to a marker, transactions and logs up *)
(* to another.  Each read goes through an executor with its fallback; a     *)
(* read that neither serves is a failed read.                               *)
(***************************************************************************)
try_get_block_by_number(n) ==
  IF n \in 1 .. archived THEN CanonAt(Len(history), n) ELSE NoBlock

InArchive(b) == Height[b] <= archived /\ b \in Finalized(Len(history))
try_get_block_number_by_hash(b) == IF InArchive(b) THEN Height[b] ELSE 0
try_get_block_by_hash(b)        == IF InArchive(b) THEN b ELSE NoBlock

get_tx_indexed_data(t) ==
  LET bs == {b \in Blocks : InArchive(b) /\ Height[b] <= indexed /\ t \in Range(Txs[b])}
  IN  IF bs = {} THEN NoLoc
      ELSE LET b == CHOOSE x \in bs : TRUE
           IN  [block |-> b, idx |-> CHOOSE i \in DOMAIN Txs[b] : Txs[b][i] = t]

DbFollows ==
  /\ dbAt < Len(history)
  /\ dbAt' = dbAt + 1
  /\ UNCHANGED <<history, dbLow, archived, indexed, bufVars>>

Prune ==
  /\ dbLow < FinHeight(dbAt)
  /\ dbLow' = dbLow + 1
  /\ UNCHANGED <<history, dbAt, archived, indexed, bufVars>>

Archive ==
  /\ archived < FinHeight(dbAt)
  /\ archived' = archived + 1
  /\ UNCHANGED <<history, dbAt, dbLow, indexed, bufVars>>

IndexLogs ==
  /\ indexed < archived
  /\ indexed' = indexed + 1
  /\ UNCHANGED <<history, dbAt, dbLow, archived, bufVars>>

(***************************************************************************)
(* BlockBuffer::insert as the sequence of its operations on shared maps.   *)
(***************************************************************************)
DropTxs(b) == [i \in DOMAIN Txs[b] |-> [op |-> "delTx", tx |-> Txs[b][i]]]
PutTxs(b)  == [i \in DOMAIN Txs[b] |->
                 [op |-> "putTx", tx |-> Txs[b][i], loc |-> [block |-> b, idx |-> i]]]

RemoveOld(old) == IF old = NoBlock THEN << >>
               ELSE <<[op |-> "delHash", block |-> old]>> \o DropTxs(old)

Evictions(b) ==
  LET rest == <<Height[b]>> \o ring
      out  == rest[Len(rest)]
      old  == IF out = Height[b] THEN b ELSE byHeight[out]
  IN  IF Len(rest) <= BufferCapacity \/ old = NoBlock THEN << >>
      ELSE <<[op |-> "delHeight", num |-> out]>> \o DropTxs(old)
             \o <<[op |-> "delHash", block |-> old]>>

InsertOps(b) ==
  <<[op |-> "putHeight", block |-> b]>> \o RemoveOld(byHeight[Height[b]])
    \o <<[op |-> "putHash", block |-> b]>> \o PutTxs(b) \o Evictions(b)

\* What the insert of an event does before it touches the maps.
BufferTake ==
  LET e == history[bufAt + 1]
      b == e.block
      known == e.state # "proposed" /\ heightByHash[b] # 0
  IN  /\ bufAt < Len(history) /\ todo = << >>
      /\ bufAt' = bufAt + 1
      /\ heights' = [heights EXCEPT ![e.state] = Max({@, Height[b]})]
      /\ todo' = IF known THEN << >> ELSE InsertOps(b)
      /\ ring' = IF known THEN ring
                 ELSE <<Height[b]>> \o SubSeq(ring, 1, Min({Len(ring), BufferCapacity - 1}))
      /\ UNCHANGED <<history, dbVars, byHeight, heightByHash, txByHash>>

\* The next map operation.  A reader that holds the entry of a height or of a
\* transaction keeps the writer from changing it.
BufferStep(held) ==
  /\ todo # << >>
  /\ LET o == Head(todo) IN
       /\ o.op = "putHeight" => Height[o.block] \notin held
       /\ o.op = "delHeight" => o.num \notin held
       /\ o.op \in {"putTx", "delTx"} => o.tx \notin held
       /\ byHeight' = CASE o.op = "putHeight" -> [byHeight EXCEPT ![Height[o.block]] = o.block]
                        [] o.op = "delHeight" -> [byHeight EXCEPT ![o.num] = NoBlock]
                        [] OTHER -> byHeight
       /\ heightByHash' = CASE o.op = "putHash" -> [heightByHash EXCEPT ![o.block] = Height[o.block]]
                            [] o.op = "delHash" -> [heightByHash EXCEPT ![o.block] = 0]
                            [] OTHER -> heightByHash
       /\ txByHash' = CASE o.op = "putTx" -> [txByHash EXCEPT ![o.tx] = o.loc]
                        [] o.op = "delTx" -> [txByHash EXCEPT ![o.tx] = NoLoc]
                        [] OTHER -> txByHash
  /\ todo' = Tail(todo)
  /\ UNCHANGED <<history, dbVars, bufAt, heights, ring>>

SourcesInit ==
  /\ history \in Histories
  /\ dbAt = SyncedTo /\ bufAt = SyncedTo
  /\ dbLow = 1 /\ archived = 1 /\ indexed = 0
  /\ heights = [proposed |-> 0, voted |-> 0, finalized |-> 0]
  /\ byHeight = [n \in AllHeights |-> NoBlock]
  /\ heightByHash = [b \in Blocks |-> 0]
  /\ txByHash = [t \in TxHashes |-> NoLoc]
  /\ ring = << >> /\ todo = << >>

Sources(held) ==
  DbFollows \/ Prune \/ Archive \/ IndexLogs \/ BufferTake \/ BufferStep(held)

SourcesTypeOK ==
  /\ history \in Histories
  /\ dbAt \in SyncedTo .. Len(history) /\ bufAt \in SyncedTo .. Len(history)
  /\ dbLow \in Nat /\ indexed <= archived
  /\ byHeight \in [AllHeights -> Blocks \cup {NoBlock}]
  /\ heightByHash \in [Blocks -> {0} \cup AllHeights]
  /\ \A t \in TxHashes : txByHash[t].block \in Blocks \cup {NoBlock}
  /\ Len(ring) <= BufferCapacity
=============================================================================
