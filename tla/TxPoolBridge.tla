---------------------------- MODULE TxPoolBridge ----------------------------
(***************************************************************************)
(* monad-rpc's bridge to the node's transaction pool, and the requests     *)
(* that submit transactions through it (submit_to_txpool).                 *)
(*                                                                         *)
(* Requests put transactions into a bounded channel.  The bridge task      *)
(* takes them out, forwards them to the pool over a socket and follows the *)
(* pool's events in its status table.  When the node goes away the bridge  *)
(* reconnects, at once or when its socket watcher sees the socket appear,  *)
(* and starts again from a snapshot of the pool.                           *)
(*                                                                         *)
(* The branches of the bridge's select are polled one after the other      *)
(* while other tasks run, so any branch that is ready may be taken.        *)
(***************************************************************************)
EXTENDS Integers, Sequences, FiniteSets

CONSTANTS
  Tx,          \* transactions, by hash
  Address,
  Sender,      \* the sender address of each transaction
  Submitter,   \* requests
  NoSub,       \* the request behind a channel entry has given up
  Capacity,    \* ETH_TXPOOL_BRIDGE_CHANNEL_SIZE
  Clients,     \* clones of EthTxPoolBridgeClient, each of which holds tx_inflight
  MaxEvents,   \* bound: pool events in flight
  MaxMoves     \* bound: what the node does by itself (not asked by the bridge)

ASSUME BridgeAssumption ==
  /\ Sender \in [Tx -> Address]
  /\ NoSub \notin Submitter
  /\ IsFiniteSet(Tx) /\ IsFiniteSet(Submitter)
  /\ Capacity \in Nat /\ Clients \in Nat \ {0}
  /\ MaxEvents \in Nat /\ MaxMoves \in Nat

\* For small instances: one account sends every transaction.
OneSender == [t \in Tx |-> CHOOSE a \in Address : TRUE]

VARIABLES
  \* EthTxPoolBridgeState
  status,         \* the status of each transaction; "none" when it is not tracked
  addressed,      \* the keys of hash_address
  addressHashes,  \* address_hashes; a missing set reads as empty
  addresses,      \* the keys of address_hashes
  queue,          \* eviction_queue, oldest entry first
  \* the bridge task
  bridge,         \* "run", "feed" (forwarding a batch), "wait" (for the socket) or "dead"
  conn,           \* the ipc client: "up", "closed" by the node, or "none"
  channel,        \* tx_receiver
  batch,          \* what one turn has taken out of the channel
  watch,          \* events of the socket watcher
  \* the requests
  sub,
  \* the node's pool
  poolUp, pool, inbox, events, moves,
  accepted        \* history: transactions the pool has ever held

tracking == <<status, addressed, addressHashes, addresses, queue>>
task == <<bridge, conn, channel, batch, watch>>
node == <<poolUp, pool, inbox, events, moves, accepted>>
vars == <<tracking, task, sub, node>>

Statuses == {"unknown", "tracked", "dropped", "evicted", "committed"}
Idle == [pc |-> "idle", tx |-> NoSub, val |-> "unknown", changed |-> FALSE,
         attached |-> FALSE, answer |-> "none"]

(* The orders in which a hash table may yield its elements. *)
Arrangements(S) ==
  {q \in [1 .. Cardinality(S) -> S] :
     /\ \A x \in S : \E i \in DOMAIN q : q[i] = x
     /\ \A i, j \in DOMAIN q : q[i] = q[j] => i = j}

(* start(): the first connection and its snapshot. *)
Init ==
  /\ poolUp = TRUE /\ pool \in SUBSET Tx /\ accepted = pool
  /\ inbox = <<>> /\ events = <<>> /\ moves = 0
  /\ status = [t \in Tx |-> IF t \in pool THEN "tracked" ELSE "none"]
  /\ queue \in Arrangements(pool)
  /\ addressed = {} /\ addressHashes = [a \in Address |-> {}] /\ addresses = {}
  /\ bridge = "run" /\ conn = "up"
  /\ channel = <<>> /\ batch = <<>> /\ watch = <<>>
  /\ sub = [s \in Submitter |-> Idle]

-----------------------------------------------------------------------------
(***************************************************************************)
(* Requests.                                                               *)
(***************************************************************************)
Inflight == {s \in Submitter : sub[s].pc \notin {"idle", "done"}}

(* The request returns and drops its guard. *)
Answered(s, answer) ==
  [sub EXCEPT ![s] = [Idle EXCEPT !.pc = "done", !.tx = sub[s].tx, !.answer = answer]]

(* acquire_tx_inflight_guard, whose strong_count counts the clients as     *)
(* well as the guards, and try_send, with no await between them.           *)
Submit(s, t) ==
  /\ sub[s].pc = "idle"
  /\ IF /\ Clients + Cardinality(Inflight) + 1 <= Capacity
        /\ bridge # "dead" /\ Len(channel) < Capacity
       THEN /\ channel' = Append(channel, [tx |-> t, sub |-> s])
            /\ sub' = [sub EXCEPT ![s] = [Idle EXCEPT !.pc = "queued", !.tx = t]]
       ELSE sub' = Answered(s, "overloaded") /\ UNCHANGED channel
  /\ UNCHANGED <<tracking, bridge, conn, batch, watch, node>>

Abandon(entries, s) ==
  [i \in DOMAIN entries |->
     IF entries[i].sub = s THEN [entries[i] EXCEPT !.sub = NoSub] ELSE entries[i]]

(* No status receiver within a second, or its sender was dropped. *)
ReceiverTimeout(s) ==
  /\ sub[s].pc \in {"queued", "lost"}
  /\ sub' = Answered(s, "overloaded")
  /\ channel' = Abandon(channel, s)
  /\ batch' = Abandon(batch, s)
  /\ UNCHANGED <<tracking, bridge, conn, watch, node>>

AnswerFor(val) ==
  CASE val \in {"tracked", "committed"} -> "ok"
    [] val \in {"dropped", "evicted"} -> "error"
    [] val = "unknown" -> "overloaded"

(* The status changed, or a second passed: the latest value is the answer. *)
StatusReady(s) ==
  /\ sub[s].pc = "watching"
  /\ sub[s].changed \/ sub[s].attached
  /\ sub' = Answered(s, AnswerFor(sub[s].val))
  /\ UNCHANGED <<tracking, task, node>>

(* The status was removed from the table without another change. *)
StatusClosed(s) ==
  /\ sub[s].pc = "watching"
  /\ ~sub[s].changed /\ ~sub[s].attached
  /\ sub' = Answered(s, IF sub[s].val = "unknown" THEN "overloaded" ELSE "error")
  /\ UNCHANGED <<tracking, task, node>>

-----------------------------------------------------------------------------
(***************************************************************************)
(* The status table.  Every watcher of a transaction shares its channel.   *)
(***************************************************************************)
Watches(s, t) == sub[s].pc = "watching" /\ sub[s].attached /\ sub[s].tx = t

Notified(t, val) ==
  [s \in Submitter |->
     IF Watches(s, t) THEN [sub[s] EXCEPT !.val = val, !.changed = TRUE] ELSE sub[s]]

(* The closure `insert` of handle_events. *)
SetStatus(t, val) ==
  /\ status' = [status EXCEPT ![t] = val]
  /\ queue' = IF status[t] = "none" THEN Append(queue, t) ELSE queue
  /\ sub' = Notified(t, val)

EventStatus(kind) == IF kind = "insert" THEN "tracked" ELSE kind

(* Mutant: an address keeps only its latest transaction. *)
RecordAddressReplaces(t) ==
  /\ addressed' = addressed \cup {t}
  /\ addressHashes' = [addressHashes EXCEPT ![Sender[t]] = {t}]
  /\ addresses' = addresses \cup {Sender[t]}

RecordAddress(t) ==
  /\ addressed' = addressed \cup {t}
  /\ addressHashes' = [addressHashes EXCEPT ![Sender[t]] = @ \cup {t}]
  /\ addresses' = addresses \cup {Sender[t]}

(* handle_events; the events of one batch come one after the other. *)
HandleEvent ==
  /\ bridge = "run" /\ conn # "none"
  /\ events # <<>>
  /\ LET e == Head(events) IN
       /\ SetStatus(e.tx, EventStatus(e.kind))
       /\ IF e.kind = "insert"
            THEN RecordAddress(e.tx)
            ELSE UNCHANGED <<addressed, addressHashes, addresses>>
  /\ events' = Tail(events)
  /\ UNCHANGED <<task, poolUp, pool, inbox, moves, accepted>>

(* apply_snapshot: the retained entries become tracked without waking      *)
(* their watchers; all others are removed, and with them their senders.    *)
ApplySnapshot(snapshot) ==
  LET removed == {t \in Tx : status[t] # "none" /\ t \notin snapshot} IN
    /\ status' = [t \in Tx |-> IF t \in snapshot THEN "tracked" ELSE "none"]
    /\ queue' \in Arrangements(snapshot)
    /\ addressed' = addressed \ removed
    /\ addressHashes' = [a \in Address |->
         addressHashes[a] \ {t \in removed \cap addressed : Sender[t] = a}]
    /\ UNCHANGED addresses

(* What a snapshot does to the requests, and to those whose entries are    *)
(* taken out of the channel and dropped.                                   *)
AfterSnapshot(snapshot, dropped) ==
  [s \in Submitter |->
     CASE s \in dropped -> [sub[s] EXCEPT !.pc = "lost"]
       [] sub[s].pc = "watching" /\ sub[s].attached /\ sub[s].tx \in snapshot ->
            [sub[s] EXCEPT !.val = "tracked"]
       [] sub[s].pc = "watching" /\ sub[s].attached /\ sub[s].tx \notin snapshot ->
            [sub[s] EXCEPT !.attached = FALSE]
       [] OTHER -> sub[s]]

EntriesOf(entries) == {entries[i].sub : i \in DOMAIN entries} \ {NoSub}

(* cleanup, when the first `old` entries have reached TX_EVICT_DURATION. *)
Cleanup(old) ==
  /\ bridge = "run" /\ conn # "none"
  /\ LET removed == {queue[i] : i \in 1 .. old} IN
       /\ status' = [t \in Tx |-> IF t \in removed THEN "none" ELSE status[t]]
       /\ sub' = [s \in Submitter |->
            IF \E t \in removed : Watches(s, t)
              THEN [sub[s] EXCEPT !.attached = FALSE] ELSE sub[s]]
       /\ addressed' = addressed \ removed
       /\ addressHashes' = [a \in Address |->
            addressHashes[a] \ {t \in removed \cap addressed : Sender[t] = a}]
  /\ queue' = SubSeq(queue, old + 1, Len(queue))
  /\ addresses' = {a \in addresses : addressHashes'[a] # {}}
  /\ UNCHANGED <<task, node>>

-----------------------------------------------------------------------------
(***************************************************************************)
(* The bridge task.  A turn takes everything that is in the channel, and   *)
(* forwards it one transaction at a time.                                  *)
(***************************************************************************)
TakeBatch ==
  /\ bridge = "run" /\ conn # "none"
  /\ channel # <<>>
  /\ bridge' = "feed"
  /\ batch' = channel
  /\ channel' = <<>>
  /\ UNCHANGED <<tracking, conn, watch, sub, node>>

Known(t) == status[t] \notin {"none", "unknown"}

(* Mutant: a known status is handed out without marking it as changed. *)
ReceiverUnmarked(t) ==
  [pc |-> "watching", tx |-> t, changed |-> FALSE, attached |-> TRUE, answer |-> "none",
   val |-> IF status[t] = "none" THEN "unknown" ELSE status[t]]

(* Mutant: a new transaction counts as tracked right away. *)
ReceiverTracked(t) ==
  [pc |-> "watching", tx |-> t, changed |-> Known(t), attached |-> TRUE, answer |-> "none",
   val |-> IF Known(t) THEN status[t] ELSE "tracked"]

Receiver(t) ==
  [pc |-> "watching", tx |-> t, changed |-> Known(t), attached |-> TRUE, answer |-> "none",
   val |-> IF status[t] = "none" THEN "unknown" ELSE status[t]]

(* add_tx, then the feed, which is lost when the node has gone. *)
AddTx ==
  /\ bridge = "feed"
  /\ batch # <<>>
  /\ LET e == Head(batch) IN
       /\ status' = IF status[e.tx] = "none" THEN [status EXCEPT ![e.tx] = "unknown"] ELSE status
       /\ queue' = IF status[e.tx] = "none" THEN Append(queue, e.tx) ELSE queue
       /\ sub' = IF e.sub = NoSub THEN sub ELSE [sub EXCEPT ![e.sub] = Receiver(e.tx)]
       /\ inbox' = IF ~Known(e.tx) /\ conn = "up" THEN Append(inbox, e.tx) ELSE inbox
  /\ batch' = Tail(batch)
  /\ UNCHANGED <<addressed, addressHashes, addresses, bridge, conn, channel,
                 watch, poolUp, pool, events, moves, accepted>>

BatchDone ==
  /\ bridge = "feed"
  /\ batch = <<>>
  /\ bridge' = "run"
  /\ UNCHANGED <<tracking, conn, channel, batch, watch, sub, node>>

(* Mutant: the snapshot of the new connection is ignored. *)
TryReconnectOnly(dropped) ==
  /\ conn' = "up" /\ bridge' = "run"
  /\ UNCHANGED <<tracking, sub>>

(* try_reconnect, when the node listens. *)
TryReconnect(dropped) ==
  /\ conn' = "up" /\ bridge' = "run"
  /\ ApplySnapshot(pool)
  /\ sub' = AfterSnapshot(pool, dropped)

(* Mutant: the bridge goes on without a client and never looks for one. *)
GiveUp ==
  conn' = "none" /\ UNCHANGED <<bridge, tracking, sub>>

FallBack ==
  conn' = "none" /\ bridge' = "wait" /\ UNCHANGED <<tracking, sub>>

(* The event stream has ended: one try, then the socket watcher. *)
Reconnect ==
  /\ bridge = "run" /\ conn = "closed"
  /\ events = <<>>
  /\ IF poolUp THEN TryReconnect({}) ELSE FallBack
  /\ UNCHANGED <<channel, batch, watch, node>>

(* try_create_ipc_client: each time the socket is created, until it works; *)
(* what has piled up in the channel is then dropped.                       *)
WaitForSocket ==
  /\ bridge = "wait"
  /\ watch # <<>>
  /\ watch' = Tail(watch)
  /\ IF Head(watch) = "create" /\ poolUp
       THEN TryReconnect(EntriesOf(channel)) /\ channel' = <<>>
       ELSE UNCHANGED <<conn, bridge, channel, tracking, sub>>
  /\ UNCHANGED <<batch, node>>

(* While there is a client, socket events are only logged. *)
IgnoreSocket ==
  /\ bridge = "run" /\ conn # "none"
  /\ watch # <<>>
  /\ watch' = Tail(watch)
  /\ UNCHANGED <<tracking, bridge, conn, channel, batch, sub, node>>

(* The socket's directory is deleted or the socket is moved away. *)
WatcherDies ==
  /\ bridge \in {"run", "wait"}
  /\ bridge' = "dead"
  /\ conn' = "none"
  /\ channel' = <<>>
  /\ sub' = [s \in Submitter |->
       IF s \in EntriesOf(channel) THEN [sub[s] EXCEPT !.pc = "lost"] ELSE sub[s]]
  /\ events' = <<>> /\ inbox' = <<>>
  /\ UNCHANGED <<tracking, batch, watch, poolUp, pool, moves, accepted>>

-----------------------------------------------------------------------------
(***************************************************************************)
(* The node (external): a pool that accepts transactions from the bridge   *)
(* and from the network, reports what becomes of them in order, and may    *)
(* crash and come back with an empty pool.                                 *)
(***************************************************************************)
Emit(kind, t) ==
  IF conn = "up"
    THEN Len(events) < MaxEvents /\ events' = Append(events, [kind |-> kind, tx |-> t])
    ELSE UNCHANGED events

Move == moves < MaxMoves /\ moves' = moves + 1

(* A transaction from the network, or the next one of the bridge. *)
PoolInsert(t) ==
  /\ poolUp
  /\ t \notin pool
  /\ pool' = pool \cup {t}
  /\ accepted' = accepted \cup {t}
  /\ Emit("insert", t)
  /\ \/ Move /\ UNCHANGED inbox
     \/ inbox # <<>> /\ t = Head(inbox) /\ inbox' = Tail(inbox) /\ UNCHANGED moves
  /\ UNCHANGED <<tracking, task, sub, poolUp>>

PoolReject ==
  /\ poolUp
  /\ inbox # <<>>
  /\ inbox' = Tail(inbox)
  /\ Emit("dropped", Head(inbox))
  /\ UNCHANGED <<tracking, task, sub, poolUp, pool, moves, accepted>>

PoolRemove(t, kind) ==
  /\ poolUp
  /\ t \in pool
  /\ pool' = pool \ {t}
  /\ Emit(kind, t)
  /\ Move
  /\ UNCHANGED <<tracking, task, sub, poolUp, inbox, accepted>>

PoolCrash ==
  /\ poolUp
  /\ Move
  /\ poolUp' = FALSE
  /\ pool' = {} /\ inbox' = <<>>
  /\ conn' = IF conn = "up" THEN "closed" ELSE conn
  /\ UNCHANGED <<tracking, bridge, channel, batch, watch, sub, events, accepted>>

PoolRestart ==
  /\ ~poolUp
  /\ poolUp' = TRUE
  /\ watch' = watch \o <<"delete", "create">>
  /\ UNCHANGED <<tracking, bridge, conn, channel, batch, sub, pool, inbox,
                 events, moves, accepted>>

-----------------------------------------------------------------------------
Bridge ==
  \/ HandleEvent
  \/ TakeBatch
  \/ AddTx
  \/ BatchDone
  \/ Reconnect
  \/ WaitForSocket
  \/ IgnoreSocket

Request(s) ==
  \/ ReceiverTimeout(s)
  \/ StatusReady(s)
  \/ StatusClosed(s)

Node ==
  \/ \E t \in Tx : PoolInsert(t)
  \/ PoolReject
  \/ \E t \in Tx, kind \in {"committed", "dropped", "evicted"} : PoolRemove(t, kind)
  \/ PoolCrash
  \/ PoolRestart

Next ==
  \/ \E s \in Submitter, t \in Tx : Submit(s, t)
  \/ \E s \in Submitter : Request(s)
  \/ Bridge
  \/ \E old \in 0 .. Len(queue) : Cleanup(old)
  \/ WatcherDies
  \/ Node

Spec == Init /\ [][Next]_vars

(* The bridge task is scheduled, and the supervisor restarts the node. *)
Fairness == WF_vars(Bridge) /\ WF_vars(PoolRestart)

FairSpec == Spec /\ Fairness

-----------------------------------------------------------------------------
(***************************************************************************)
(* Properties.                                                             *)
(***************************************************************************)
SubType ==
  [pc : {"idle", "queued", "lost", "watching", "done"}, tx : Tx \cup {NoSub},
   val : Statuses, changed : BOOLEAN, attached : BOOLEAN,
   answer : {"none", "ok", "error", "overloaded"}]
Entry == [tx : Tx, sub : Submitter \cup {NoSub}]
Event == [kind : {"insert", "committed", "dropped", "evicted"}, tx : Tx]

(* The variables keep their types. *)
TypeOK ==
  /\ status \in [Tx -> Statuses \cup {"none"}]
  /\ addressed \subseteq Tx /\ addressHashes \in [Address -> SUBSET Tx]
  /\ addresses \subseteq Address
  /\ queue \in Seq(Tx)
  /\ bridge \in {"run", "feed", "wait", "dead"} /\ conn \in {"up", "closed", "none"}
  /\ channel \in Seq(Entry) /\ batch \in Seq(Entry) /\ watch \in Seq({"delete", "create"})
  /\ sub \in [Submitter -> SubType]
  /\ poolUp \in BOOLEAN /\ pool \subseteq Tx
  /\ accepted \subseteq Tx /\ inbox \in Seq(Tx) /\ events \in Seq(Event)
  /\ moves \in Nat

(* The three tables agree: every tracked transaction is in the eviction    *)
(* queue exactly once, so that none stays for ever and none is evicted     *)
(* early, and the two address tables are inverse and hold nothing else.    *)
TablesAgree ==
  /\ \A t \in Tx : status[t] # "none" <=> \E i \in 1 .. Len(queue) : queue[i] = t
  /\ \A i, j \in 1 .. Len(queue) : queue[i] = queue[j] => i = j
  /\ \A t \in addressed : status[t] # "none"
  /\ \A a \in Address : addressHashes[a] = {t \in addressed : Sender[t] = a}
  /\ \A t \in addressed : Sender[t] \in addresses

(* A request is told "ok" only for a transaction that the pool has held,   *)
(* through reconnects, lost feeds and other requests for the same one.     *)
OkMeansAccepted ==
  \A s \in Submitter : sub[s].answer = "ok" => sub[s].tx \in accepted

(* A request never waits on an answer that is already there: as long as it *)
(* has not been woken, its transaction is pending or alive.                *)
NoMissedWake ==
  \A s \in Submitter :
    sub[s].pc = "watching" /\ ~sub[s].changed => sub[s].val \in {"unknown", "tracked"}

(* Once the bridge has caught up with the node, also after a reconnect,    *)
(* what it calls tracked is in the pool, and what it calls committed or    *)
(* evicted is not.                                                         *)
StatusCurrent ==
  conn = "up" /\ events = <<>> =>
    \A t \in Tx : /\ status[t] = "tracked" => t \in pool
                  /\ status[t] \in {"committed", "evicted"} => t \notin pool

(* The bridge finds the node again unless its watcher dies. *)
Reconnects == <>(bridge = "dead") \/ <>[](conn = "up")
=============================================================================
