----------------------------- MODULE EventServer -----------------------------
(***************************************************************************)
(* monad-rpc's event server: it reads the node's execution events from a   *)
(* shared-memory ring, puts blocks together and broadcasts one update per  *)
(* block and commit state.  Both the ring and the broadcast channel have a *)
(* fixed size, and a reader that falls behind loses the oldest entries.    *)
(*                                                                         *)
(* Consensus and the event ring are external: blocks are proposed on a     *)
(* parent, several at one height perhaps, then voted, finalized along one  *)
(* chain and verified.                                                     *)
(***************************************************************************)
EXTENDS Integers, Sequences, FiniteSets

CONSTANTS
  Block,        \* blocks, by hash
  Genesis,      \* the finalized block everything builds on
  Parent,       \* the parent of each block
  Height,       \* the height of each block
  RingSize,     \* events the event ring holds
  ChannelSize   \* BROADCAST_CHANNEL_SIZE

ASSUME ChainAssumption ==
  /\ Genesis \notin Block
  /\ Parent \in [Block -> Block \cup {Genesis}]
  /\ Height \in [Block -> Nat \ {0}]
  /\ \A b \in Block :
       Height[b] = IF Parent[b] = Genesis THEN 1 ELSE Height[Parent[b]] + 1
  /\ RingSize \in Nat \ {0} /\ ChannelSize \in Nat \ {0}

VARIABLES
  commit,    \* the commit state of each block
  head,      \* the last finalized block
  ring,      \* events the server has not read
  overrun,   \* the ring has overwritten events the server has not read
  known,     \* blocks the block builder has put together since its last reset
  feed,      \* updates in the broadcast channel
  lagged,    \* the channel has overwritten updates that were not received
  lost       \* history: some event has been lost

chain == <<commit, head>>
server == <<ring, overrun, known>>
channel == <<feed, lagged>>

CommitStates == {"none", "proposed", "voted", "finalized", "verified"}
Event == [state : CommitStates \ {"none"}, block : Block]
Gap == [state |-> "gap"]

FeedInit ==
  /\ commit = [b \in Block |-> "none"] /\ head = Genesis
  /\ ring = <<>> /\ overrun = FALSE /\ known = {}
  /\ feed = <<>> /\ lagged = FALSE /\ lost = FALSE

-----------------------------------------------------------------------------
(* Consensus and the ring (external). *)
HeadHeight == IF head = Genesis THEN 0 ELSE Height[head]

Record(state, b) ==
  /\ commit' = [commit EXCEPT ![b] = state]
  /\ IF Len(ring) < RingSize /\ ~overrun
       THEN ring' = Append(ring, [state |-> state, block |-> b]) /\ UNCHANGED <<overrun, lost>>
       ELSE overrun' = TRUE /\ lost' = TRUE /\ UNCHANGED ring
  /\ UNCHANGED <<known, channel>>

Propose(b) ==
  /\ commit[b] = "none"
  /\ Parent[b] # Genesis => commit[Parent[b]] # "none"
  /\ Height[b] > HeadHeight
  /\ Record("proposed", b)
  /\ UNCHANGED head

Vote(b) ==
  /\ commit[b] = "proposed"
  /\ Height[b] > HeadHeight
  /\ Record("voted", b)
  /\ UNCHANGED head

Finalize(b) ==
  /\ commit[b] = "voted"
  /\ Parent[b] = head
  /\ Record("finalized", b)
  /\ head' = b

Verify(b) ==
  /\ commit[b] = "finalized"
  /\ Record("verified", b)
  /\ UNCHANGED head

-----------------------------------------------------------------------------
(* The server. *)

(* A full channel drops its oldest update. *)
Broadcast(update) ==
  IF Len(feed) < ChannelSize
    THEN feed' = Append(feed, update) /\ UNCHANGED lagged
    ELSE feed' = Append(Tail(feed), update) /\ lagged' = TRUE

(* run() reads an event; the builder has an update for every state of a    *)
(* block it has seen proposed.                                             *)
ServerEvent ==
  /\ ~overrun
  /\ ring # <<>>
  /\ LET e == Head(ring) IN
       IF e.state = "proposed" \/ e.block \in known
         THEN /\ known' = known \cup {e.block}
              /\ Broadcast(e)
              /\ lost' = (lost \/ Len(feed) = ChannelSize)
         ELSE UNCHANGED <<known, channel, lost>>
  /\ ring' = Tail(ring)
  /\ UNCHANGED <<chain, overrun>>

(* A gap is broadcast; reader and builder start afresh. *)
ServerGap ==
  /\ overrun
  /\ overrun' = FALSE
  /\ ring' = <<>>
  /\ known' = {}
  /\ Broadcast(Gap)
  /\ UNCHANGED <<chain, lost>>

Feed ==
  \/ \E b \in Block : Propose(b) \/ Vote(b) \/ Finalize(b) \/ Verify(b)
  \/ ServerEvent
  \/ ServerGap
=============================================================================
