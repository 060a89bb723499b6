----------------------------- MODULE BlockBuffer -----------------------------
(***************************************************************************)
(* monad-rpc's buffer of recent blocks, fed by the event server.  Blocks   *)
(* are stored by height; a later block of the same height replaces the     *)
(* earlier one, and a ring of heights decides what is evicted.  Two more   *)
(* maps lead from hashes of blocks and transactions to the stored blocks.  *)
(*                                                                         *)
(* A block stands for its hash, and a transaction's entry (its location    *)
(* and receipt) for the block it was taken from.                           *)
(***************************************************************************)
EXTENDS EventServer

CONSTANTS
  Tx,         \* transaction hashes
  Txs,        \* the transactions of each block
  NoBlock,    \* there is no such entry
  Capacity    \* block_heights_capacity

ASSUME BufferAssumption ==
  /\ Txs \in [Block -> SUBSET Tx]
  /\ NoBlock \notin Block
  /\ Capacity \in Nat \ {0}

Heights == {Height[b] : b \in Block}

VARIABLES
  proposed, voted, finalized,   \* block_states
  blockHeights,                 \* the ring, newest height first
  blockByHeight,
  heightByHash,                 \* the keys of block_height_by_hash
  txByHash

states == <<proposed, voted, finalized>>
maps == <<blockHeights, blockByHeight, heightByHash, txByHash>>
vars == <<chain, server, channel, lost, states, maps>>

Init ==
  /\ FeedInit
  /\ proposed = 0 /\ voted = 0 /\ finalized = 0
  /\ blockHeights = <<>>
  /\ blockByHeight = [h \in Heights |-> NoBlock]
  /\ heightByHash = {}
  /\ txByHash = [t \in Tx |-> NoBlock]

-----------------------------------------------------------------------------
FetchMax(old, new) == IF new > old THEN new ELSE old

TxsOf(b) == IF b = NoBlock THEN {} ELSE Txs[b]

(* Mutant: the old block's transactions stay behind. *)
ReplacedKeeps(b) == [t \in Tx |-> IF t \in Txs[b] THEN b ELSE txByHash[t]]

(* The transactions after the block at b's height has been replaced: those *)
(* of the old block are removed, whichever block they were entered for.    *)
Replaced(b) ==
  [t \in Tx |-> IF t \in Txs[b] THEN b
                ELSE IF t \in TxsOf(blockByHeight[Height[b]]) THEN NoBlock
                ELSE txByHash[t]]

Hashes(b) == (heightByHash \ {blockByHeight[Height[b]]}) \cup {b}

(* The oldest height leaves the ring and takes with it whatever block is   *)
(* now stored at that height.                                              *)
Evict(heights, byHeight, hashes, txs) ==
  IF Len(heights) > Capacity
    THEN LET h == heights[Len(heights)]
             b == byHeight[h] IN
           /\ blockHeights' = SubSeq(heights, 1, Len(heights) - 1)
           /\ blockByHeight' = [byHeight EXCEPT ![h] = NoBlock]
           /\ heightByHash' = hashes \ {b}
           /\ txByHash' = [t \in Tx |-> IF t \in TxsOf(b) THEN NoBlock ELSE txs[t]]
    ELSE /\ blockHeights' = heights
         /\ blockByHeight' = byHeight /\ heightByHash' = hashes /\ txByHash' = txs

Store(b) ==
  Evict(<<Height[b]>> \o blockHeights,
        [blockByHeight EXCEPT ![Height[b]] = b],
        Hashes(b),
        Replaced(b))

(* Mutant: a height that is taken counts as the block being there. *)
StoredHeight(b) == blockByHeight[Height[b]] # NoBlock

(* The check of voted and finalized blocks. *)
Stored(b) == b \in heightByHash

(* insert() of the next update; a gap and a verified block change nothing. *)
Insert ==
  /\ ~lagged
  /\ feed # <<>>
  /\ feed' = Tail(feed)
  /\ LET e == Head(feed) IN
       \/ /\ e.state \in {"gap", "verified"}
          /\ UNCHANGED <<states, maps>>
       \/ /\ e.state = "finalized"
          /\ finalized' = FetchMax(finalized, Height[e.block])
          /\ IF Stored(e.block) THEN UNCHANGED maps ELSE Store(e.block)
          /\ UNCHANGED <<proposed, voted>>
       \/ /\ e.state = "voted"
          /\ voted' = FetchMax(voted, Height[e.block])
          /\ IF Stored(e.block) THEN UNCHANGED maps ELSE Store(e.block)
          /\ UNCHANGED <<proposed, finalized>>
       \/ /\ e.state = "proposed"
          /\ proposed' = FetchMax(proposed, Height[e.block])
          /\ Store(e.block)
          /\ UNCHANGED <<voted, finalized>>
  /\ UNCHANGED <<chain, server, lagged, lost>>

(* The receiver is told how many updates it has missed, and goes on. *)
RecvLagged ==
  /\ lagged
  /\ lagged' = FALSE
  /\ UNCHANGED <<chain, server, feed, lost, states, maps>>

Next ==
  \/ Feed /\ UNCHANGED <<states, maps>>
  \/ Insert
  \/ RecvLagged

Spec == Init /\ [][Next]_vars

-----------------------------------------------------------------------------
(***************************************************************************)
(* Properties.                                                             *)
(***************************************************************************)

(* The variables keep their types. *)
TypeOK ==
  /\ commit \in [Block -> CommitStates] /\ head \in Block \cup {Genesis}
  /\ ring \in Seq(Event) /\ overrun \in BOOLEAN /\ known \subseteq Block
  /\ feed \in Seq(Event \cup {Gap}) /\ lagged \in BOOLEAN /\ lost \in BOOLEAN
  /\ proposed \in Nat /\ voted \in Nat /\ finalized \in Nat
  /\ blockHeights \in Seq(Heights) /\ Len(blockHeights) <= Capacity
  /\ blockByHeight \in [Heights -> Block \cup {NoBlock}]
  /\ heightByHash \subseteq Block
  /\ txByHash \in [Tx -> Block \cup {NoBlock}]

(* A block can be found by its hash exactly when it is stored at its       *)
(* height, through replacements, repeated updates and evictions.           *)
HashesAgree ==
  \A b \in Block : b \in heightByHash <=> blockByHeight[Height[b]] = b

(* A transaction's entry leads to a stored block that contains it, and its *)
(* receipt is from that block: nothing is left of a replaced block.        *)
EntriesResolve ==
  \A t \in Tx : txByHash[t] # NoBlock =>
    /\ t \in Txs[txByHash[t]]
    /\ blockByHeight[Height[txByHash[t]]] = txByHash[t]

(* Every stored block has a place in the ring, so that it is evicted some  *)
(* time and the buffer never holds more than its capacity.                 *)
RingCovers ==
  \A h \in Heights : blockByHeight[h] # NoBlock =>
    \E i \in 1 .. Len(blockHeights) : blockHeights[i] = h

(* The four maps of the buffer agree after every insert, replacement and   *)
(* eviction.                                                               *)
MapsAgree == HashesAgree /\ EntriesResolve /\ RingCovers

(* As long as no event has been lost, what the buffer serves at or below   *)
(* the finalized height is the finalized block, never an abandoned         *)
(* proposal of that height.                                                *)
FinalizedServed ==
  ~lost => \A h \in Heights :
    h <= finalized /\ blockByHeight[h] # NoBlock =>
      commit[blockByHeight[h]] \in {"finalized", "verified"}
=============================================================================
