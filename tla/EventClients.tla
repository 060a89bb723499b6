---------------------------- MODULE EventClients ----------------------------
(***************************************************************************)
(* The readers of the event server's broadcast channel that answer to a    *)
(* client: WebSocket sessions, whose subscriptions are notified of blocks  *)
(* and logs, and eth_sendRawTransactionSync requests, which wait for the   *)
(* block that holds their transaction.                                     *)
(*                                                                         *)
(* The channel keeps the last ChannelSize updates; a receiver that is      *)
(* further behind is told so once.  Which updates the server sends, and    *)
(* when it reports a gap, is EventServer's; the execution of other methods *)
(* is RpcServer's and the submission of transactions TxPoolBridge's.       *)
(***************************************************************************)
EXTENDS Integers, Sequences, FiniteSets, FiniteSetsExt, SequencesExt

CONSTANTS
  Session,            \* clients that open WebSocket sessions
  Waiter,             \* clients of eth_sendRawTransactionSync
  Tx,                 \* transactions
  Decodes,            \* transactions that decode, are protected and of this chain
  Block,              \* blocks
  Height,             \* their numbers
  BlockLogs,          \* the logs of each block, by address
  Bloom,              \* the addresses its bloom filter admits
  Oversized,          \* blocks whose header exceeds max_response_size
  Filter,             \* filters of log subscriptions
  ConnectionLimit,    \* ws_conn_limit
  SubscriptionLimit,  \* ws_sub_per_conn_limit
  ChannelSize,        \* BROADCAST_CHANNEL_SIZE
  ClientTimeout,      \* heartbeat ticks without a sign of the client
  MaxEvents,          \* bound: updates broadcast
  MaxMessages         \* bound: requests of clients

NoFilter == [addresses |-> {}, from |-> 0, to |-> 0]
Kind == {"newHeads", "logs", "monadNewHeads", "monadLogs"}

ASSUME ClientsAssumption ==
  /\ IsFiniteSet(Session)
  /\ ConnectionLimit \in Nat \ {0} /\ SubscriptionLimit \in Nat
  /\ ChannelSize \in Nat \ {0} /\ ClientTimeout \in Nat \ {0}
  /\ \A b \in Block : \A i \in DOMAIN BlockLogs[b] : BlockLogs[b][i] \in Bloom[b]

VARIABLES
  log,          \* every update broadcast so far
  crashed,      \* the event server's task has ended
  commit,       \* what the server last said of each block, and its transactions
  pool,         \* transactions the node has received
  freePermits,  \* free connection permits
  metrics,      \* websocket connections and topics
  session,      \* the sessions
  waiter,       \* the synchronous requests
  messages      \* requests so far; also numbers the subscriptions

vars == <<log, crashed, commit, pool, freePermits, metrics, session, waiter, messages>>
serverVars == <<log, crashed, commit, pool>>

Gap == [state |-> "gap"]
Closed == [stage |-> "closed"]
Free == [stage |-> "free"]

Init ==
  /\ log = <<>> /\ crashed = FALSE /\ pool = {}
  /\ commit = [b \in Block |-> [state |-> "none", txs |-> {}]]
  /\ freePermits = ConnectionLimit /\ metrics = [connections |-> 0, topics |-> 0]
  /\ session = [s \in Session |-> Closed] /\ waiter = [w \in Waiter |-> Free]
  /\ messages = 0

-----------------------------------------------------------------------------
(* The event server (EventServer.tla) and the node (external). *)
Update(b, state, txs) ==
  /\ ~crashed /\ Len(log) < MaxEvents
  /\ commit' = [commit EXCEPT ![b] = [state |-> state, txs |-> txs]]
  /\ log' = Append(log, [state |-> state, block |-> b, txs |-> txs])
  /\ UNCHANGED <<crashed, pool>>
ProposeBlock(b) ==
  /\ commit[b].state = "none"
  /\ \A c \in Block : Height[c] < Height[b] => commit[c].state # "none"
  /\ \E txs \in SUBSET {t \in pool : \A c \in Block : t \notin commit[c].txs} :
       Update(b, "proposed", txs)
FinalizeBlock(b) ==
  /\ commit[b].state = "proposed"
  /\ Update(b, "finalized", commit[b].txs)
ServerGap ==
  /\ ~crashed /\ Len(log) < MaxEvents
  /\ log' = Append(log, Gap)
  /\ UNCHANGED <<crashed, commit, pool>>
ServerCrash ==
  /\ ~crashed
  /\ crashed' = TRUE
  /\ UNCHANGED <<log, commit, pool>>

(* EventServerClient: subscribing starts at the end of the channel and     *)
(* fails once the server's task has ended.  The client keeps a sender of   *)
(* its own, so that a receiver never sees the channel closed.              *)
CanSubscribe == ~crashed
Subscribed == Len(log)
Lagged(pos) == Len(log) - pos > ChannelSize
Ready(pos) == pos < Len(log)

-----------------------------------------------------------------------------
(* Sessions. *)
Open(s) == session[s].stage # "closed"
Listening(s) == session[s].stage = "listening"

(* ws_handler: a permit, the event server's subscription, and the session. *)
ws_handler(s) ==
  /\ ~Open(s)
  /\ messages < MaxMessages
  /\ messages' = messages + 1
  /\ IF freePermits = 0 \/ ~CanSubscribe
       THEN UNCHANGED <<freePermits, metrics, session>>
       ELSE /\ freePermits' = freePermits - 1
            /\ metrics' = [metrics EXCEPT !.connections = @ + 1]
            /\ session' = [session EXCEPT ![s] =
                 [stage |-> "listening", pos |-> Subscribed, subs |-> <<>>, beat |-> 0]]
  /\ UNCHANGED <<serverVars, waiter>>

(* The handler returns: the session is closed, its subscriptions leave the *)
(* metrics and its permit is dropped.                                      *)
CloseForgettingTopics(s) ==
  /\ session' = [session EXCEPT ![s] = Closed]
  /\ metrics' = [metrics EXCEPT !.connections = @ - 1]
  /\ freePermits' = freePermits + 1
Close(s) ==
  /\ session' = [session EXCEPT ![s] = Closed]
  /\ metrics' = [connections |-> metrics.connections - 1,
                 topics |-> metrics.topics - Len(session[s].subs)]
  /\ freePermits' = freePermits + 1

(* The interval ticks: a client that has been silent too long is closed,   *)
(* any other is pinged.                                                    *)
Heartbeat(s) ==
  /\ Listening(s)
  /\ IF session[s].beat >= ClientTimeout THEN Close(s)
     ELSE session' = [session EXCEPT ![s].beat = @ + 1] /\ UNCHANGED <<metrics, freePermits>>
  /\ UNCHANGED <<serverVars, waiter, messages>>

(* A ping or pong of the client. *)
Beat(s) ==
  /\ Listening(s) /\ session[s].beat > 0
  /\ session' = [session EXCEPT ![s].beat = 0]
  /\ UNCHANGED <<serverVars, metrics, freePermits, waiter, messages>>

(* A close message, a protocol error or the end of the stream. *)
Leave(s) ==
  /\ Listening(s)
  /\ Close(s)
  /\ UNCHANGED <<serverVars, waiter, messages>>

Request(s) ==
  /\ Listening(s)
  /\ messages < MaxMessages
  /\ messages' = messages + 1
  /\ UNCHANGED <<serverVars, waiter>>

(* eth_subscribe: above the limit an error is sent; otherwise the id is    *)
(* sent first and then the subscription added, and if it cannot be sent    *)
(* the session closes.                                                     *)
Subscribe(s, kind, filter) ==
  /\ Request(s)
  /\ kind \in {"newHeads", "monadNewHeads"} => filter = NoFilter
  /\ \/ /\ Len(session[s].subs) + 1 > SubscriptionLimit
        /\ session' = [session EXCEPT ![s].beat = 0]
        /\ UNCHANGED <<metrics, freePermits>>
     \/ /\ Len(session[s].subs) + 1 <= SubscriptionLimit
        /\ session' = [session EXCEPT
             ![s].subs = Append(@, [id |-> messages, kind |-> kind, filter |-> filter,
                                    since |-> session[s].pos, sent |-> <<>>]),
             ![s].beat = 0]
        /\ metrics' = [metrics EXCEPT !.topics = @ + 1]
        /\ UNCHANGED freePermits
     \/ Close(s)

(* eth_unsubscribe; the topic is counted down before the reply is sent.    *)
Unsubscribe(s, i) ==
  /\ Request(s)
  /\ i \in DOMAIN session[s].subs
  /\ \/ /\ session' = [session EXCEPT ![s].subs = RemoveAt(@, i), ![s].beat = 0]
        /\ metrics' = [metrics EXCEPT !.topics = @ - 1]
        /\ UNCHANGED freePermits
     \/ Close(s)

(* Anything else: an unreadable message, or one whose parameters are       *)
(* invalid, is answered at once; another method runs to its end before the *)
(* session looks at its events again.                                      *)
OtherRequest(s) ==
  /\ Request(s)
  /\ \E stage \in {"listening", "calling"} :
       session' = [session EXCEPT ![s].stage = stage, ![s].beat = 0]
  /\ UNCHANGED <<metrics, freePermits>>
Answered(s) ==
  /\ session[s].stage = "calling"
  /\ \/ session' = [session EXCEPT ![s].stage = "listening"] /\ UNCHANGED <<metrics, freePermits>>
     \/ Close(s)
  /\ UNCHANGED <<serverVars, waiter, messages>>

(* apply_logs_filter: the block range, the bloom filter, then each log. *)
Matches(filter, address) == filter.addresses = {} \/ address \in filter.addresses
apply_logs_filter(filter, b) ==
  IF filter = NoFilter THEN BlockLogs[b]
  ELSE IF Height[b] < filter.from \/ Height[b] > filter.to THEN <<>>
  ELSE IF filter.addresses # {} /\ filter.addresses \cap Bloom[b] = {} THEN <<>>
  ELSE SelectSeq(BlockLogs[b], LAMBDA a : Matches(filter, a))

(* send_notification: a notification that is too long is sent as an error. *)
Notice(b, what) == [block |-> b, what |-> what]
send_notification(b, what) == Notice(b, IF b \in Oversized THEN "too long" ELSE what)

Notifications(sub, event) ==
  LET logs == apply_logs_filter(sub.filter, event.block) IN
  CASE sub.kind = "monadNewHeads" -> <<send_notification(event.block, "head")>>
    [] sub.kind = "newHeads" ->
         IF event.state = "proposed" THEN <<send_notification(event.block, "head")>> ELSE <<>>
    [] sub.kind = "monadLogs" -> [i \in DOMAIN logs |-> Notice(event.block, logs[i])]
    [] sub.kind = "logs" ->
         IF event.state = "proposed"
           THEN [i \in DOMAIN logs |-> Notice(event.block, logs[i])] ELSE <<>>

(* What a subscription has been sent is kept update by update. *)
Notified(sub, event) == [sub EXCEPT !.sent = Append(@, Notifications(sub, event))]
handle_notification(s, event) ==
  session' = [session EXCEPT
    ![s].pos = @ + 1,
    ![s].subs = [i \in DOMAIN @ |-> Notified(@[i], event)]]

(* A receive: a session that lagged, was told of a gap, or whose client    *)
(* cannot be written to is closed.                                         *)
ReceiveIgnoringLag(s) ==
  /\ Listening(s) /\ Ready(session[s].pos)
  /\ IF Lagged(session[s].pos)
       THEN /\ session' = [session EXCEPT ![s].pos = Len(log) - ChannelSize]
            /\ UNCHANGED <<metrics, freePermits>>
       ELSE \/ log[session[s].pos + 1] = Gap /\ Close(s)
            \/ /\ log[session[s].pos + 1] # Gap
               /\ handle_notification(s, log[session[s].pos + 1])
               /\ UNCHANGED <<metrics, freePermits>>
  /\ UNCHANGED <<serverVars, waiter, messages>>
Receive(s) ==
  /\ Listening(s) /\ Ready(session[s].pos)
  /\ \/ (Lagged(session[s].pos) \/ log[session[s].pos + 1] = Gap) /\ Close(s)
     \/ /\ ~Lagged(session[s].pos) /\ log[session[s].pos + 1] # Gap
        /\ handle_notification(s, log[session[s].pos + 1])
        /\ UNCHANGED <<metrics, freePermits>>
     \/ session[s].subs # <<>> /\ Close(s)
  /\ UNCHANGED <<serverVars, waiter, messages>>

-----------------------------------------------------------------------------
(* eth_sendRawTransaction: a transaction that validate_and_decode_tx       *)
(* accepts reaches the node.                                               *)
validate_and_decode_tx(tx) == tx \in Decodes
SendRawTransaction(tx) ==
  /\ messages < MaxMessages /\ messages' = messages + 1
  /\ validate_and_decode_tx(tx)
  /\ pool' = pool \cup {tx}
  /\ UNCHANGED <<log, crashed, commit, freePermits, metrics, session, waiter>>

(* eth_sendRawTransactionSync subscribes before it submits. *)
Answer(w, answer) ==
  waiter' = [waiter EXCEPT ![w] = [stage |-> "answered", tx |-> waiter[w].tx, answer |-> answer]]
clientVars == <<log, crashed, commit, freePermits, metrics, session>>

SyncRequest(w, tx) ==
  /\ waiter[w].stage = "free"
  /\ messages < MaxMessages /\ messages' = messages + 1
  /\ waiter' = [waiter EXCEPT ![w] =
       IF ~validate_and_decode_tx(tx) THEN [stage |-> "answered", tx |-> tx, answer |-> "refused"]
       ELSE IF ~CanSubscribe THEN [stage |-> "answered", tx |-> tx, answer |-> "overloaded"]
       ELSE [stage |-> "submitting", tx |-> tx, pos |-> Subscribed, submitted |-> Subscribed]]
  /\ UNCHANGED <<clientVars, pool>>

(* The transaction reaches the node, and later the pool's verdict the      *)
(* request.  A refusal or a timeout ends the request.                      *)
SyncSubmit(w) ==
  /\ waiter[w].stage = "submitting"
  /\ pool' = pool \cup {waiter[w].tx}
  /\ waiter' = [waiter EXCEPT ![w].stage = "submitted", ![w].submitted = Len(log)]
  /\ UNCHANGED <<clientVars, messages>>
SubscribeLate(w) ==
  /\ waiter[w].stage = "submitted"
  /\ \/ waiter' = [waiter EXCEPT ![w].stage = "waiting", ![w].pos = Subscribed]
     \/ Answer(w, "overloaded")
  /\ UNCHANGED <<clientVars, pool, messages>>
SyncAccepted(w) ==
  /\ waiter[w].stage = "submitted"
  /\ \/ waiter' = [waiter EXCEPT ![w].stage = "waiting"]
     \/ Answer(w, "overloaded")
  /\ UNCHANGED <<clientVars, pool, messages>>

(* The loop: updates in turn, until one is a proposed block that holds the *)
(* transaction; a lag or a gap is reported, and so is the timeout.         *)
SyncReceive(w) ==
  /\ waiter[w].stage = "waiting" /\ Ready(waiter[w].pos)
  /\ LET event == log[waiter[w].pos + 1] IN
       IF Lagged(waiter[w].pos) \/ event = Gap THEN Answer(w, "overloaded")
       ELSE IF event.state = "proposed" /\ waiter[w].tx \in event.txs THEN Answer(w, "receipt")
       ELSE waiter' = [waiter EXCEPT ![w].pos = @ + 1]
  /\ UNCHANGED <<clientVars, pool, messages>>
SyncTimeout(w) ==
  /\ waiter[w].stage = "waiting"
  /\ Answer(w, "timeout")
  /\ UNCHANGED <<clientVars, pool, messages>>

-----------------------------------------------------------------------------
ServerNext ==
  /\ \/ \E b \in Block : ProposeBlock(b) \/ FinalizeBlock(b)
     \/ ServerGap
     \/ ServerCrash
  /\ UNCHANGED <<freePermits, metrics, session, waiter, messages>>
SessionNext(s) ==
  \/ ws_handler(s) \/ Heartbeat(s) \/ Beat(s) \/ Leave(s)
  \/ \E kind \in Kind, filter \in Filter \cup {NoFilter} : Subscribe(s, kind, filter)
  \/ \E i \in 1..SubscriptionLimit : Unsubscribe(s, i)
  \/ OtherRequest(s) \/ Answered(s) \/ Receive(s)
WaiterNext(w) ==
  \/ \E tx \in Tx : SyncRequest(w, tx)
  \/ SyncSubmit(w) \/ SyncAccepted(w) \/ SyncReceive(w) \/ SyncTimeout(w)
Next ==
  \/ ServerNext
  \/ \E s \in Session : SessionNext(s)
  \/ \E w \in Waiter : WaiterNext(w)
  \/ \E tx \in Tx : SendRawTransaction(tx)
Spec == Init /\ [][Next]_vars

-----------------------------------------------------------------------------
(* PROPERTIES *)

Between(from, to) == SubSeq(log, from + 1, to)
Expected(sub, events) == [k \in DOMAIN events |-> Notifications(sub, events[k])]

(* While a session is open each of its subscriptions has been notified of  *)
(* every update since it subscribed, in order, of its kind and no other:   *)
(* updates that the channel overwrote and updates the server lost close    *)
(* the session instead of leaving a hole (handler, handle_notification).   *)
NotificationsExact ==
  \A s \in Session : Open(s) =>
    \A i \in DOMAIN session[s].subs :
      LET sub == session[s].subs[i]
          events == Between(sub.since, session[s].pos) IN
      /\ \A k \in DOMAIN events : events[k] # Gap
      /\ sub.sent = Expected(sub, events)

OpenSessions == {s \in Session : Open(s)}
Topics == {p \in OpenSessions \X (1..SubscriptionLimit) : p[2] \in DOMAIN session[p[1]].subs}

(* Connection permits and the two metrics count the open sessions and      *)
(* their subscriptions however a session ended, and no session is above    *)
(* its limit (ws_handler).                                                 *)
SessionsCounted ==
  /\ freePermits + Cardinality(OpenSessions) = ConnectionLimit
  /\ metrics.connections = Cardinality(OpenSessions)
  /\ metrics.topics = Cardinality(Topics)
  /\ \A s \in OpenSessions : Len(session[s].subs) <= SubscriptionLimit

(* A request that still waits has not passed a proposed block that holds   *)
(* its transaction and was announced after the transaction was submitted:  *)
(* it cannot end in a timeout with the receipt lost                        *)
(* (monad_eth_sendRawTransactionSync).                                     *)
ReceiptNotMissed ==
  \A w \in Waiter : waiter[w].stage = "waiting" =>
    \A k \in waiter[w].submitted + 1..waiter[w].pos :
      log[k] # Gap /\ ~(log[k].state = "proposed" /\ waiter[w].tx \in log[k].txs)
=============================================================================
