------------------------- MODULE TransactionProofs --------------------------
(***************************************************************************)
(* Proofs about what becomes of transactions: about TxPoolBridge, for any  *)
(* number of transactions and requests, any channel size and any number of *)
(* node crashes; and about EthExecution, for any requests, engines, limits *)
(* and lengths of the chain.                                               *)
(***************************************************************************)
EXTENDS TxPoolBridge, EthExecution, FiniteSetTheorems, SequenceTheorems, TLAPS

(***************************************************************************)
(* TxPoolBridge.                                                           *)
(***************************************************************************)
(* A hash table's elements, in some order, form a sequence over it. *)
LEMMA ArrangementSeq ==
  ASSUME NEW S, S \subseteq Tx, NEW q \in Arrangements(S)
  PROVE  /\ q \in Seq(Tx)
         /\ \A t \in Tx : t \in S <=> \E i \in 1 .. Len(q) : q[i] = t
         /\ \A i, j \in 1 .. Len(q) : q[i] = q[j] => i = j
<1>1. Cardinality(S) \in Nat
  BY BridgeAssumption, FS_Subset, FS_CardinalityType
<1>2. q \in [1 .. Cardinality(S) -> S]
  BY DEF Arrangements
<1>3. q \in Seq(S) /\ Len(q) = Cardinality(S)
  BY <1>1, <1>2
<1>4. q \in Seq(Tx)
  BY <1>3
<1> QED
  BY <1>2, <1>3, <1>4 DEF Arrangements

LEMMA AppendType ==
  ASSUME NEW S, NEW q \in Seq(S), NEW x \in S
  PROVE  Append(q, x) \in Seq(S)
OBVIOUS

LEMMA TailType ==
  ASSUME NEW S, NEW q \in Seq(S), q # <<>>
  PROVE  Head(q) \in S /\ Tail(q) \in Seq(S)
OBVIOUS

LEMMA AnsweredType ==
  ASSUME TypeOK, NEW s \in Submitter, NEW answer \in {"none", "ok", "error", "overloaded"}
  PROVE  Answered(s, answer) \in [Submitter -> SubType]
BY DEF TypeOK, Answered, SubType, Idle, Statuses

LEMMA AbandonType ==
  ASSUME NEW entries \in Seq(Entry), NEW s \in Submitter
  PROVE  Abandon(entries, s) \in Seq(Entry)
<1>1. \A i \in 1 .. Len(entries) :
        (IF entries[i].sub = s THEN [entries[i] EXCEPT !.sub = NoSub] ELSE entries[i]) \in Entry
  <2>1. \A e \in Entry : [e EXCEPT !.sub = NoSub] \in Entry
    BY DEF Entry
  <2>2. \A i \in 1 .. Len(entries) : entries[i] \in Entry
    OBVIOUS
  <2> QED
    BY <2>1, <2>2
<1>2. DOMAIN entries = 1 .. Len(entries)
  OBVIOUS
<1>3. Abandon(entries, s) \in [1 .. Len(entries) -> Entry]
  BY <1>1, <1>2 DEF Abandon
<1> QED
  BY <1>3

LEMMA RequestTyped ==
  ASSUME TypeOK, NEW s \in Submitter, Request(s) \/ \E t \in Tx : Submit(s, t)
  PROVE  TypeOK'
<1> USE DEF TypeOK, tracking, task, node
<1>1. ASSUME NEW t \in Tx, Submit(s, t)
      PROVE  TypeOK'
  <2>1. Answered(s, "overloaded") \in [Submitter -> SubType]
    BY AnsweredType
  <2>2. [Idle EXCEPT !.pc = "queued", !.tx = t] \in SubType
    BY DEF SubType, Idle, Statuses
  <2>3. [tx |-> t, sub |-> s] \in Entry
    BY DEF Entry
  <2>4. sub' \in [Submitter -> SubType]
    BY <1>1, <2>1, <2>2 DEF Submit
  <2>5. channel' \in Seq(Entry)
    <3>1. channel' = Append(channel, [tx |-> t, sub |-> s]) \/ channel' = channel
      BY <1>1 DEF Submit
    <3>2. channel \in Seq(Entry)
      OBVIOUS
    <3> HIDE DEF TypeOK, tracking, task, node
    <3> QED
      BY <2>3, <3>1, <3>2, AppendType, Zenon
  <2> QED
    BY <1>1, <2>4, <2>5 DEF Submit
<1>2. CASE ReceiverTimeout(s)
  <2>1. sub' \in [Submitter -> SubType]
    BY <1>2, AnsweredType DEF ReceiverTimeout
  <2>2. channel' \in Seq(Entry) /\ batch' \in Seq(Entry)
    BY <1>2, AbandonType DEF ReceiverTimeout
  <2> QED
    BY <1>2, <2>1, <2>2 DEF ReceiverTimeout
<1>3. CASE StatusReady(s)
  <2>1. sub[s].val \in Statuses
    BY DEF SubType
  <2>2. AnswerFor(sub[s].val) \in {"none", "ok", "error", "overloaded"}
    BY <2>1 DEF AnswerFor, Statuses
  <2>3. sub' \in [Submitter -> SubType]
    BY <1>3, <2>2, AnsweredType DEF StatusReady
  <2> QED
    BY <1>3, <2>3 DEF StatusReady
<1>4. CASE StatusClosed(s)
  <2>1. sub' \in [Submitter -> SubType]
    BY <1>4, AnsweredType DEF StatusClosed
  <2> QED
    BY <1>4, <2>1 DEF StatusClosed
<1> QED
  BY <1>1, <1>2, <1>3, <1>4 DEF Request

LEMMA SubUpdates ==
  ASSUME NEW r \in SubType
  PROVE  /\ [r EXCEPT !.pc = "lost"] \in SubType
         /\ [r EXCEPT !.val = "tracked"] \in SubType
         /\ [r EXCEPT !.attached = FALSE] \in SubType
<1>1. [r EXCEPT !.pc = "lost"] \in SubType
  BY DEF SubType
<1>2. [r EXCEPT !.val = "tracked"] \in SubType
  BY DEF SubType, Statuses
<1>3. [r EXCEPT !.attached = FALSE] \in SubType
  BY DEF SubType
<1> QED
  BY <1>1, <1>2, <1>3

LEMMA SnapshotType ==
  ASSUME TypeOK, NEW dropped, TryReconnect(dropped)
  PROVE  /\ status' \in [Tx -> Statuses \cup {"none"}]
         /\ addressed' \subseteq Tx /\ addressHashes' \in [Address -> SUBSET Tx]
         /\ addresses' \subseteq Address
         /\ queue' \in Seq(Tx)
         /\ sub' \in [Submitter -> SubType]
<1> USE DEF TypeOK, TryReconnect, ApplySnapshot
<1>1. queue' \in Seq(Tx)
  BY ArrangementSeq
<1>2. ASSUME NEW s \in Submitter
      PROVE  AfterSnapshot(pool, dropped)[s] \in SubType
  <2>1. sub[s] \in SubType
    OBVIOUS
  <2> QED
    BY <2>1, SubUpdates DEF AfterSnapshot
<1>3. sub' \in [Submitter -> SubType]
  BY <1>2 DEF AfterSnapshot
<1>4. status' \in [Tx -> Statuses \cup {"none"}]
  BY DEF Statuses
<1> QED
  BY <1>1, <1>3, <1>4

LEMMA BridgeType ==
  ASSUME TypeOK, Bridge \/ WatcherDies \/ \E old \in 0 .. Len(queue) : Cleanup(old)
  PROVE  TypeOK'
<1> USE DEF TypeOK, tracking, task, node
<1>1. CASE HandleEvent
  <2> DEFINE e == Head(events)
  <2>1. e \in Event
    BY <1>1 DEF HandleEvent
  <2>2. e.tx \in Tx /\ EventStatus(e.kind) \in Statuses
    BY <2>1 DEF Event, EventStatus, Statuses
  <2>3. status' \in [Tx -> Statuses \cup {"none"}] /\ queue' \in Seq(Tx)
    BY <1>1, <2>2 DEF HandleEvent, SetStatus
  <2>a. \A r \in SubType : [r EXCEPT !.val = EventStatus(e.kind), !.changed = TRUE] \in SubType
    BY <2>2 DEF SubType
  <2>b. \A s \in Submitter : Notified(e.tx, EventStatus(e.kind))[s] \in SubType
    BY <2>a DEF Notified
  <2>c. sub' = Notified(e.tx, EventStatus(e.kind))
    BY <1>1 DEF HandleEvent, SetStatus
  <2>4. sub' \in [Submitter -> SubType]
    BY <2>b, <2>c DEF Notified
  <2>5. /\ addressed' \subseteq Tx /\ addressHashes' \in [Address -> SUBSET Tx]
        /\ addresses' \subseteq Address
    <3>1. Sender[e.tx] \in Address
      BY <2>2, BridgeAssumption
    <3>2. CASE RecordAddress(e.tx)
      BY <2>2, <3>1, <3>2 DEF RecordAddress
    <3>3. CASE UNCHANGED <<addressed, addressHashes, addresses>>
      BY <3>3
    <3> QED
      BY <1>1, <3>2, <3>3 DEF HandleEvent
  <2>6. events' \in Seq(Event)
    BY <1>1 DEF HandleEvent
  <2> QED
    BY <1>1, <2>3, <2>4, <2>5, <2>6 DEF HandleEvent
<1>2. CASE TakeBatch
  BY <1>2 DEF TakeBatch
<1>3. CASE AddTx
  <2> DEFINE e == Head(batch)
  <2>1. e \in Entry /\ batch' \in Seq(Entry)
    BY <1>3 DEF AddTx
  <2>2. e.tx \in Tx /\ e.sub \in Submitter \cup {NoSub}
    BY <2>1 DEF Entry
  <2>3. status' \in [Tx -> Statuses \cup {"none"}] /\ queue' \in Seq(Tx)
    BY <1>3, <2>2 DEF AddTx, Statuses
  <2>4. Receiver(e.tx) \in SubType
    BY <2>2 DEF Receiver, SubType, Known, Statuses
  <2>5. sub' \in [Submitter -> SubType]
    BY <1>3, <2>2, <2>4 DEF AddTx
  <2>6. inbox' \in Seq(Tx)
    BY <1>3, <2>2 DEF AddTx
  <2> QED
    BY <1>3, <2>1, <2>3, <2>5, <2>6 DEF AddTx
<1>4. CASE BatchDone
  BY <1>4 DEF BatchDone
<1>5. CASE Reconnect
  <2>1. CASE TryReconnect({})
    BY <1>5, <2>1, SnapshotType DEF Reconnect, TryReconnect
  <2>2. CASE FallBack
    BY <1>5, <2>2 DEF Reconnect, FallBack
  <2> QED
    BY <1>5, <2>1, <2>2 DEF Reconnect
<1>6. CASE WaitForSocket
  <2>0. watch' \in Seq({"delete", "create"})
    BY <1>6 DEF WaitForSocket
  <2>1. CASE TryReconnect(EntriesOf(channel)) /\ channel' = <<>>
    BY <1>6, <2>0, <2>1, SnapshotType DEF WaitForSocket, TryReconnect
  <2>2. CASE UNCHANGED <<conn, bridge, channel, tracking, sub>>
    BY <1>6, <2>0, <2>2 DEF WaitForSocket
  <2> QED
    BY <1>6, <2>1, <2>2 DEF WaitForSocket
<1>7. CASE IgnoreSocket
  BY <1>7 DEF IgnoreSocket
<1>8. CASE WatcherDies
  <2>0. sub \in [Submitter -> SubType]
    OBVIOUS
  <2>1. sub' \in [Submitter -> SubType]
    BY <1>8, <2>0, SubUpdates DEF WatcherDies
  <2> QED
    BY <1>8, <2>1 DEF WatcherDies
<1>9. ASSUME NEW old \in 0 .. Len(queue), Cleanup(old)
      PROVE  TypeOK'
  <2>1. sub' \in [Submitter -> SubType]
    BY <1>9, SubUpdates DEF Cleanup
  <2>2. queue' \in Seq(Tx)
    <3>1. queue \in Seq(Tx) /\ queue' = SubSeq(queue, old + 1, Len(queue))
      BY <1>9 DEF Cleanup
    <3> HIDE DEF TypeOK
    <3> QED
      BY <3>1
  <2>3. status' \in [Tx -> Statuses \cup {"none"}]
    BY <1>9 DEF Cleanup
  <2>4. /\ addressed' \subseteq Tx /\ addressHashes' \in [Address -> SUBSET Tx]
        /\ addresses' \subseteq Address
    BY <1>9 DEF Cleanup
  <2> QED
    BY <1>9, <2>1, <2>2, <2>3, <2>4 DEF Cleanup
<1> QED
  BY <1>1, <1>2, <1>3, <1>4, <1>5, <1>6, <1>7, <1>8, <1>9 DEF Bridge

LEMMA NodeType ==
  ASSUME TypeOK, Node
  PROVE  TypeOK'
<1> USE DEF TypeOK, tracking, task, node
<1>0. \A kind \in {"insert", "committed", "dropped", "evicted"}, t \in Tx :
        Emit(kind, t) => events' \in Seq(Event)
  <2>1. \A kind \in {"insert", "committed", "dropped", "evicted"}, t \in Tx :
          [kind |-> kind, tx |-> t] \in Event
    BY DEF Event
  <2>2. ASSUME NEW kind \in {"insert", "committed", "dropped", "evicted"}, NEW t \in Tx,
               Emit(kind, t)
        PROVE  events' \in Seq(Event)
    <3>1. events' = Append(events, [kind |-> kind, tx |-> t]) \/ events' = events
      BY <2>2 DEF Emit
    <3>2. events \in Seq(Event)
      OBVIOUS
    <3> HIDE DEF TypeOK, tracking, task, node
    <3> QED
      BY <2>1, <3>1, <3>2, AppendType, Zenon
  <2> QED
    BY <2>2
<1>1. ASSUME NEW t \in Tx, PoolInsert(t)
      PROVE  TypeOK'
  <2>1. inbox' \in Seq(Tx) /\ moves' \in Nat
    <3>1. inbox' = inbox \/ (inbox # <<>> /\ inbox' = Tail(inbox))
      BY <1>1 DEF PoolInsert
    <3>2. moves' = moves \/ moves' = moves + 1
      BY <1>1 DEF PoolInsert, Move
    <3>3. inbox' \in Seq(Tx)
      BY <3>1, TailType
    <3>4. moves' \in Nat
      BY <3>2
    <3> QED
      BY <3>3, <3>4
  <2>2. events' \in Seq(Event)
    BY <1>0, <1>1 DEF PoolInsert
  <2> QED
    BY <1>1, <2>1, <2>2 DEF PoolInsert
<1>2. CASE PoolReject
  <2>1. Head(inbox) \in Tx /\ inbox' \in Seq(Tx)
    BY <1>2 DEF PoolReject
  <2> QED
    BY <1>0, <1>2, <2>1 DEF PoolReject
<1>3. ASSUME NEW t \in Tx, NEW kind \in {"committed", "dropped", "evicted"}, PoolRemove(t, kind)
      PROVE  TypeOK'
  <2>1. events' \in Seq(Event)
    BY <1>0, <1>3 DEF PoolRemove
  <2> QED
    BY <1>3, <2>1 DEF PoolRemove, Move
<1>4. CASE PoolCrash
  <2>1. conn' \in {"up", "closed", "none"}
    BY <1>4 DEF PoolCrash
  <2>2. moves' \in Nat
    BY <1>4 DEF PoolCrash, Move
  <2>a. inbox' = <<>> /\ pool' = {} /\ poolUp' = FALSE
    BY <1>4 DEF PoolCrash
  <2>b. <<>> \in Seq(Tx)
    OBVIOUS
  <2>3. inbox' \in Seq(Tx) /\ pool' \subseteq Tx /\ poolUp' \in BOOLEAN
    BY <2>a, <2>b
  <2>4. UNCHANGED <<status, addressed, addressHashes, addresses, queue, bridge, channel, batch,
                    watch, sub, events, accepted>>
    BY <1>4 DEF PoolCrash
  <2> QED
    BY <2>1, <2>2, <2>3, <2>4
<1>5. CASE PoolRestart
  BY <1>5 DEF PoolRestart
<1> QED
  BY <1>1, <1>2, <1>3, <1>4, <1>5 DEF Node

LEMMA TypeStep ==
  ASSUME TypeOK, [Next]_vars
  PROVE  TypeOK'
<1>1. CASE UNCHANGED vars
  BY <1>1 DEF TypeOK, vars, tracking, task, node
<1>2. CASE Next
  BY <1>2, RequestTyped, BridgeType, NodeType DEF Next
<1> QED
  BY <1>1, <1>2

LEMMA TypeInit == Init => TypeOK
<1> SUFFICES ASSUME Init PROVE TypeOK
  OBVIOUS
<1>1. queue \in Seq(Tx)
  BY ArrangementSeq DEF Init
<1>2. sub \in [Submitter -> SubType]
  BY DEF Init, Idle, SubType, Statuses
<1> QED
  BY <1>1, <1>2 DEF Init, TypeOK, Statuses

(* The variables keep their types, whatever the bounds. *)
THEOREM TypeCorrect == Spec => []TypeOK
BY TypeInit, TypeStep, PTL DEF Spec

-----------------------------------------------------------------------------
(***************************************************************************)
(* The tables agree.                                                       *)
(***************************************************************************)
QueueAgree ==
  /\ \A t \in Tx : status[t] # "none" <=> \E i \in 1 .. Len(queue) : queue[i] = t
  /\ \A i, j \in 1 .. Len(queue) : queue[i] = queue[j] => i = j

AddressAgree ==
  /\ \A t \in addressed : status[t] # "none"
  /\ \A a \in Address : addressHashes[a] = {t \in addressed : Sender[t] = a}
  /\ \A t \in addressed : Sender[t] \in addresses

LEMMA TablesParts == TablesAgree <=> QueueAgree /\ AddressAgree
BY DEF TablesAgree, QueueAgree, AddressAgree

(* An entry is queued when, and only when, its status is new. *)
LEMMA PushQueue ==
  ASSUME TypeOK, QueueAgree, NEW t \in Tx, NEW val \in Statuses,
         status' = [status EXCEPT ![t] = val],
         queue' = IF status[t] = "none" THEN Append(queue, t) ELSE queue
  PROVE  QueueAgree'
<1>0. status \in [Tx -> Statuses \cup {"none"}] /\ queue \in Seq(Tx)
  BY DEF TypeOK
<1>1. val # "none"
  BY DEF Statuses
<1>2. CASE status[t] = "none"
  <2>1. queue' = Append(queue, t)
    BY <1>2
  <2>2. Len(queue') = Len(queue) + 1 /\ Len(queue) \in Nat
    BY <1>0, <2>1
  <2>3. \A i \in 1 .. Len(queue) : queue'[i] = queue[i]
    BY <1>0, <2>1
  <2>4. queue'[Len(queue) + 1] = t
    BY <1>0, <2>1
  <2>5. \A u \in Tx : status'[u] # "none" <=> status[u] # "none" \/ u = t
    BY <1>0, <1>1
  <2>6. ASSUME NEW u \in Tx
        PROVE  status'[u] # "none" <=> \E i \in 1 .. Len(queue') : queue'[i] = u
    <3>1. ASSUME NEW i \in 1 .. Len(queue'), queue'[i] = u
          PROVE  status'[u] # "none"
      <4>1. CASE i = Len(queue) + 1
        BY <2>4, <2>5, <3>1, <4>1
      <4>2. CASE i \in 1 .. Len(queue)
        BY <2>3, <2>5, <3>1, <4>2 DEF QueueAgree
      <4> QED
        BY <2>2, <4>1, <4>2
    <3>2. ASSUME status'[u] # "none"
          PROVE  \E i \in 1 .. Len(queue') : queue'[i] = u
      <4>1. CASE u = t
        BY <2>2, <2>4, <4>1
      <4>2. CASE status[u] # "none"
        <5>1. PICK i \in 1 .. Len(queue) : queue[i] = u
          BY <4>2 DEF QueueAgree
        <5> QED
          BY <2>2, <2>3, <5>1
      <4> QED
        BY <2>5, <3>2, <4>1, <4>2
    <3> QED
      BY <3>1, <3>2
  <2>7. \A i \in 1 .. Len(queue) : queue[i] # t
    BY <1>2 DEF QueueAgree
  <2>8. ASSUME NEW i \in 1 .. Len(queue'), NEW j \in 1 .. Len(queue'), queue'[i] = queue'[j]
        PROVE  i = j
    <3>1. i \in 1 .. Len(queue) \/ i = Len(queue) + 1
      BY <2>2
    <3>2. j \in 1 .. Len(queue) \/ j = Len(queue) + 1
      BY <2>2
    <3> QED
      BY <2>3, <2>4, <2>7, <2>8, <3>1, <3>2 DEF QueueAgree
  <2> QED
    BY <2>6, <2>8 DEF QueueAgree
<1>3. CASE status[t] # "none"
  <2>1. queue' = queue
    BY <1>3
  <2>2. \A u \in Tx : status'[u] # "none" <=> status[u] # "none"
    BY <1>0, <1>1, <1>3
  <2> QED
    BY <2>1, <2>2 DEF QueueAgree
<1> QED
  BY <1>2, <1>3

LEMMA EventTables ==
  ASSUME TypeOK, TablesAgree, HandleEvent
  PROVE  TablesAgree'
<1> DEFINE e == Head(events)
<1>1. e \in Event
  BY TailType DEF TypeOK, HandleEvent
<1>2. e.tx \in Tx /\ EventStatus(e.kind) \in Statuses
  BY <1>1 DEF Event, EventStatus, Statuses
<1>3. /\ status' = [status EXCEPT ![e.tx] = EventStatus(e.kind)]
      /\ queue' = IF status[e.tx] = "none" THEN Append(queue, e.tx) ELSE queue
  BY DEF HandleEvent, SetStatus
<1>4. QueueAgree'
  BY <1>2, <1>3, PushQueue, TablesParts
<1>5. \A u \in Tx : status[u] # "none" \/ u = e.tx => status'[u] # "none"
  BY <1>2, <1>3 DEF TypeOK, Statuses
<1>6. AddressAgree /\ addressed \subseteq Tx /\ addressHashes \in [Address -> SUBSET Tx]
  BY TablesParts DEF TypeOK
<1>7. Sender[e.tx] \in Address
  BY <1>2, BridgeAssumption
<1>8. AddressAgree'
  <2>1. CASE RecordAddress(e.tx)
    BY <1>2, <1>5, <1>6, <1>7, <2>1 DEF RecordAddress, AddressAgree
  <2>2. CASE UNCHANGED <<addressed, addressHashes, addresses>>
    BY <1>5, <1>6, <2>2 DEF AddressAgree
  <2> QED
    BY <2>1, <2>2 DEF HandleEvent
<1>9. TablesAgree' <=> QueueAgree' /\ AddressAgree'
  BY DEF TablesAgree, QueueAgree, AddressAgree
<1> QED
  BY <1>4, <1>8, <1>9

LEMMA AddTables ==
  ASSUME TypeOK, TablesAgree, AddTx
  PROVE  TablesAgree'
<1> DEFINE e == Head(batch)
           val == IF status[e.tx] = "none" THEN "unknown" ELSE status[e.tx]
<1>1. e \in Entry
  BY TailType DEF TypeOK, AddTx
<1>2. e.tx \in Tx
  BY <1>1 DEF Entry
<1>3. val \in Statuses /\ status \in [Tx -> Statuses \cup {"none"}]
  BY <1>2 DEF TypeOK, Statuses
<1>4. status' = IF status[e.tx] = "none" THEN [status EXCEPT ![e.tx] = "unknown"] ELSE status
  BY DEF AddTx
<1>5. status' = [status EXCEPT ![e.tx] = val]
  BY <1>2, <1>3, <1>4
<1>6. queue' = IF status[e.tx] = "none" THEN Append(queue, e.tx) ELSE queue
  BY DEF AddTx
<1> HIDE DEF val, e
<1>7. QueueAgree'
  BY <1>2, <1>3, <1>5, <1>6, PushQueue, TablesParts
<1>8. \A u \in Tx : status[u] # "none" => status'[u] # "none"
  BY <1>2, <1>3, <1>5 DEF Statuses
<1>9. AddressAgree'
  BY <1>8, TablesParts DEF AddTx, AddressAgree, TypeOK
<1>10. TablesAgree' <=> QueueAgree' /\ AddressAgree'
  BY DEF TablesAgree, QueueAgree, AddressAgree
<1> QED
  BY <1>7, <1>9, <1>10

(* What is removed from the status table is removed from both address      *)
(* tables.                                                                 *)
LEMMA SnapshotTables ==
  ASSUME TypeOK, TablesAgree, ApplySnapshot(pool)
  PROVE  TablesAgree'
<1> DEFINE removed == {t \in Tx : status[t] # "none" /\ t \notin pool}
<1>1. /\ queue' \in Seq(Tx)
      /\ \A t \in Tx : t \in pool <=> \E i \in 1 .. Len(queue') : queue'[i] = t
      /\ \A i, j \in 1 .. Len(queue') : queue'[i] = queue'[j] => i = j
  BY ArrangementSeq DEF ApplySnapshot, TypeOK
<1>2. \A t \in Tx : status'[t] # "none" <=> t \in pool
  BY DEF ApplySnapshot
<1>3. \A t \in addressed' : t \in addressed /\ t \in pool
  BY DEF ApplySnapshot, TablesAgree, TypeOK
<1>4. \A t \in addressed' : status'[t] # "none"
  BY <1>2, <1>3 DEF TypeOK
<1>5. \A a \in Address : addressHashes'[a] = {t \in addressed' : Sender[t] = a}
  BY DEF ApplySnapshot, TablesAgree, TypeOK
<1>6. \A t \in addressed' : Sender[t] \in addresses'
  BY <1>3 DEF ApplySnapshot, TablesAgree
<1> QED
  BY <1>1, <1>2, <1>4, <1>5, <1>6 DEF TablesAgree

LEMMA CleanupTables ==
  ASSUME TypeOK, TablesAgree, NEW old \in 0 .. Len(queue), Cleanup(old)
  PROVE  TablesAgree'
<1> DEFINE removed == {queue[i] : i \in 1 .. old}
<1>0. queue \in Seq(Tx) /\ Len(queue) \in Nat /\ old \in Nat /\ old <= Len(queue)
  BY DEF TypeOK
<1>1. queue' = SubSeq(queue, old + 1, Len(queue))
  BY DEF Cleanup
<1>2. Len(queue') = Len(queue) - old
  BY <1>0, <1>1
<1>3. \A i \in 1 .. Len(queue') : queue'[i] = queue[i + old]
  BY <1>0, <1>1, <1>2
<1>4. ASSUME NEW i \in 1 .. Len(queue'), NEW j \in 1 .. Len(queue'), queue'[i] = queue'[j]
      PROVE  i = j
  <2>1. i + old \in 1 .. Len(queue) /\ j + old \in 1 .. Len(queue)
    BY <1>0, <1>2
  <2>2. queue[i + old] = queue[j + old]
    BY <1>3, <1>4
  <2>3. i + old = j + old
    BY <2>1, <2>2 DEF TablesAgree
  <2> QED
    BY <1>0, <1>2, <2>3
<1>5. \A t \in Tx : status'[t] # "none" <=> status[t] # "none" /\ t \notin removed
  BY DEF Cleanup, TypeOK
<1>6. ASSUME NEW t \in Tx
      PROVE  status'[t] # "none" <=> \E i \in 1 .. Len(queue') : queue'[i] = t
  <2>1. ASSUME status'[t] # "none"
        PROVE  \E i \in 1 .. Len(queue') : queue'[i] = t
    <3>1. PICK k \in 1 .. Len(queue) : queue[k] = t
      BY <1>5, <2>1 DEF TablesAgree
    <3>2. k \notin 1 .. old
      BY <1>5, <2>1, <3>1
    <3>3. k - old \in 1 .. Len(queue') /\ (k - old) + old = k
      BY <1>0, <1>2, <3>2
    <3> QED
      BY <1>3, <3>1, <3>3
  <2>2. ASSUME NEW i \in 1 .. Len(queue'), queue'[i] = t
        PROVE  status'[t] # "none"
    <3>1. i + old \in 1 .. Len(queue) /\ i + old \notin 1 .. old
      BY <1>0, <1>2
    <3>2. queue[i + old] = t
      BY <1>3, <2>2
    <3>3. status[t] # "none"
      BY <3>1, <3>2 DEF TablesAgree
    <3>4. t \notin removed
      BY <1>0, <3>1, <3>2 DEF TablesAgree
    <3> QED
      BY <1>5, <3>3, <3>4
  <2> QED
    BY <2>1, <2>2
<1>7. addressed' = addressed \ removed /\ addressed \subseteq Tx
  BY DEF Cleanup, TypeOK
<1>8. \A t \in addressed' : status'[t] # "none"
  BY <1>5, <1>7 DEF TablesAgree
<1>9. \A a \in Address : addressHashes'[a] =
        addressHashes[a] \ {t \in removed \cap addressed : Sender[t] = a}
  BY DEF Cleanup
<1>10. \A a \in Address : addressHashes'[a] = {t \in addressed' : Sender[t] = a}
  <2> HIDE DEF removed
  <2> QED
    BY <1>7, <1>9 DEF TablesAgree
<1>11. ASSUME NEW t \in addressed'
       PROVE  Sender[t] \in addresses'
  <2>1. t \in addressed /\ t \in Tx /\ Sender[t] \in Address
    BY <1>7, BridgeAssumption
  <2>2. t \in addressHashes'[Sender[t]]
    BY <1>10, <2>1
  <2>3. addresses' = {a \in addresses : addressHashes'[a] # {}}
    BY DEF Cleanup
  <2> QED
    BY <2>1, <2>2, <2>3 DEF TablesAgree
<1> QED
  BY <1>4, <1>6, <1>8, <1>10, <1>11 DEF TablesAgree

LEMMA TablesStep ==
  ASSUME TypeOK, TablesAgree, [Next]_vars
  PROVE  TablesAgree'
<1>0. ASSUME UNCHANGED tracking
      PROVE  TablesAgree'
  BY <1>0 DEF TablesAgree, tracking
<1>1. CASE HandleEvent
  BY <1>1, EventTables
<1>2. CASE AddTx
  BY <1>2, AddTables
<1>3. CASE Reconnect \/ WaitForSocket
  <2>1. ApplySnapshot(pool) \/ UNCHANGED tracking
    BY <1>3 DEF Reconnect, WaitForSocket, TryReconnect, FallBack
  <2> QED
    BY <1>0, <2>1, SnapshotTables
<1>4. ASSUME NEW old \in 0 .. Len(queue), Cleanup(old)
      PROVE  TablesAgree'
  BY <1>4, CleanupTables
<1>5. CASE TakeBatch \/ BatchDone \/ IgnoreSocket \/ WatcherDies
  BY <1>0, <1>5 DEF TakeBatch, BatchDone, IgnoreSocket, WatcherDies
<1>6. CASE Node
  BY <1>0, <1>6 DEF Node, PoolInsert, PoolReject, PoolRemove, PoolCrash, PoolRestart
<1>7. ASSUME NEW s \in Submitter, Request(s) \/ \E t \in Tx : Submit(s, t)
      PROVE  TablesAgree'
  BY <1>0, <1>7 DEF Request, Submit, ReceiverTimeout, StatusReady, StatusClosed
<1>8. CASE UNCHANGED vars
  BY <1>0, <1>8 DEF vars
<1> QED
  BY <1>1, <1>2, <1>3, <1>4, <1>5, <1>6, <1>7, <1>8 DEF Next, Bridge

LEMMA TablesInit == Init => TablesAgree
<1> SUFFICES ASSUME Init PROVE TablesAgree
  OBVIOUS
<1>1. /\ \A t \in Tx : t \in pool <=> \E i \in 1 .. Len(queue) : queue[i] = t
      /\ \A i, j \in 1 .. Len(queue) : queue[i] = queue[j] => i = j
  BY ArrangementSeq DEF Init
<1> QED
  BY <1>1 DEF Init, TablesAgree

(* The status table, the eviction queue and the address tables agree after *)
(* any number of events, submissions, clean-ups and reconnects.            *)
THEOREM TablesStayInStep == Spec => []TablesAgree
BY TypeInit, TypeStep, TablesInit, TablesStep, PTL DEF Spec

-----------------------------------------------------------------------------
(***************************************************************************)
(* What a request is told.                                                 *)
(***************************************************************************)
Good == {"tracked", "committed"}

(* What a request holds is about a transaction the pool has had. *)
Truthful(r, S) == (r.val \in Good \/ r.answer = "ok") => r.tx \in S

(* A request that has not been woken waits for something still to come. *)
Awaits(r) == r.pc = "watching" /\ ~r.changed => r.val \in {"unknown", "tracked"}

AcceptedInv ==
  /\ pool \subseteq accepted
  /\ \A t \in Tx : status[t] \in Good => t \in accepted
  /\ \A i \in 1 .. Len(events) : EventStatus(events[i].kind) \in Good => events[i].tx \in accepted

RequestsInv == \A s \in Submitter : Truthful(sub[s], accepted) /\ Awaits(sub[s])

LEMMA AcceptedStep ==
  ASSUME TypeOK, AcceptedInv, [Next]_vars
  PROVE  AcceptedInv' /\ accepted \subseteq accepted'
<1> DEFINE EventsInv == \A i \in 1 .. Len(events) :
             EventStatus(events[i].kind) \in Good => events[i].tx \in accepted
<1>0. /\ events \in Seq(Event) /\ Len(events) \in Nat
      /\ status \in [Tx -> Statuses \cup {"none"}] /\ EventsInv
  BY DEF TypeOK, AcceptedInv
<1>a. ASSUME UNCHANGED <<status, pool, events, accepted>>
      PROVE  AcceptedInv' /\ accepted \subseteq accepted'
  BY <1>a DEF AcceptedInv
<1>b. ASSUME NEW kind \in {"insert", "committed", "dropped", "evicted"}, NEW t \in Tx,
             Emit(kind, t), accepted \subseteq accepted',
             EventStatus(kind) \in Good => t \in accepted'
      PROVE  EventsInv'
  <2>1. CASE events' = events
    BY <1>0, <1>b, <2>1
  <2>2. CASE events' = Append(events, [kind |-> kind, tx |-> t])
    <3> DEFINE e == [kind |-> kind, tx |-> t]
    <3>1. e.kind = kind /\ e.tx = t /\ events' = Append(events, e)
      BY <2>2
    <3> HIDE DEF e
    <3>2. /\ Len(events') = Len(events) + 1
          /\ \A i \in 1 .. Len(events) : events'[i] = events[i]
          /\ events'[Len(events) + 1] = e
      BY <1>0, <3>1
    <3>3. \A i \in 1 .. Len(events') : i \in 1 .. Len(events) \/ i = Len(events) + 1
      BY <1>0, <3>2
    <3> QED
      BY <1>0, <1>b, <3>1, <3>2, <3>3
  <2> QED
    BY <1>b, <2>1, <2>2 DEF Emit
<1>1. CASE HandleEvent
  <2> DEFINE e == Head(events)
  <2>1. events # <<>> /\ e \in Event /\ events' = Tail(events) /\ UNCHANGED <<pool, accepted>>
    BY <1>0, <1>1, TailType DEF HandleEvent
  <2>2. e = events[1] /\ 1 \in 1 .. Len(events)
    BY <1>0, <2>1
  <2>3. e.tx \in Tx /\ EventStatus(e.kind) # "none"
    BY <2>1 DEF Event, EventStatus
  <2>4. status' = [status EXCEPT ![e.tx] = EventStatus(e.kind)]
    BY <1>1 DEF HandleEvent, SetStatus
  <2>5. \A i \in 1 .. Len(events') : i + 1 \in 1 .. Len(events) /\ events'[i] = events[i + 1]
    BY <1>0, <2>1
  <2>6. EventsInv'
    BY <1>0, <2>1, <2>5
  <2>7. EventStatus(e.kind) \in Good => e.tx \in accepted
    BY <1>0, <2>2
  <2>8. \A t \in Tx : status'[t] \in Good => t \in accepted'
    BY <1>0, <2>1, <2>3, <2>4, <2>7 DEF AcceptedInv
  <2> QED
    BY <2>1, <2>6, <2>8 DEF AcceptedInv
<1>2. CASE AddTx
  <2>1. UNCHANGED <<pool, events, accepted>>
    BY <1>2 DEF AddTx
  <2>2. \A t \in Tx : status'[t] = status[t] \/ status'[t] = "unknown"
    BY <1>0, <1>2 DEF AddTx
  <2> QED
    BY <2>1, <2>2 DEF AcceptedInv, Good
<1>3. CASE Reconnect \/ WaitForSocket
  <2>1. UNCHANGED <<pool, events, accepted>>
    BY <1>3 DEF Reconnect, WaitForSocket, node
  <2>2. ApplySnapshot(pool) \/ UNCHANGED status
    BY <1>3 DEF Reconnect, WaitForSocket, TryReconnect, FallBack, tracking
  <2>3. CASE ApplySnapshot(pool)
    <3>1. \A t \in Tx : status'[t] \in Good => t \in pool
      BY <2>3 DEF ApplySnapshot, Good
    <3> QED
      BY <2>1, <3>1 DEF AcceptedInv
  <2> QED
    BY <1>a, <2>1, <2>2, <2>3
<1>4. ASSUME NEW old \in 0 .. Len(queue), Cleanup(old)
      PROVE  AcceptedInv' /\ accepted \subseteq accepted'
  <2>1. UNCHANGED <<pool, events, accepted>>
    BY <1>4 DEF Cleanup, node
  <2>2. \A t \in Tx : status'[t] = status[t] \/ status'[t] = "none"
    BY <1>4 DEF Cleanup
  <2> QED
    BY <2>1, <2>2 DEF AcceptedInv, Good
<1>5. CASE TakeBatch \/ BatchDone \/ IgnoreSocket
  BY <1>a, <1>5 DEF TakeBatch, BatchDone, IgnoreSocket, tracking, node
<1>6. CASE WatcherDies
  <2>1. UNCHANGED <<status, pool, accepted>> /\ events' = <<>>
    BY <1>6 DEF WatcherDies, tracking
  <2>2. Len(events') = 0
    BY <2>1
  <2> QED
    BY <2>1, <2>2 DEF AcceptedInv
<1>7. ASSUME NEW t \in Tx, PoolInsert(t)
      PROVE  AcceptedInv' /\ accepted \subseteq accepted'
  <2>1. /\ pool' = pool \cup {t} /\ accepted' = accepted \cup {t}
        /\ Emit("insert", t) /\ UNCHANGED status
    BY <1>7 DEF PoolInsert, tracking
  <2>2. EventsInv'
    BY <1>b, <2>1
  <2> QED
    BY <2>1, <2>2 DEF AcceptedInv
<1>8. CASE PoolReject
  <2>1. /\ UNCHANGED <<status, pool, accepted>>
        /\ Emit("dropped", Head(inbox)) /\ Head(inbox) \in Tx
    BY <1>8, TailType DEF PoolReject, tracking, TypeOK
  <2>2. EventsInv'
    BY <1>b, <2>1 DEF EventStatus, Good
  <2> QED
    BY <2>1, <2>2 DEF AcceptedInv
<1>9. ASSUME NEW t \in Tx, NEW kind \in {"committed", "dropped", "evicted"}, PoolRemove(t, kind)
      PROVE  AcceptedInv' /\ accepted \subseteq accepted'
  <2>1. /\ pool' = pool \ {t} /\ t \in accepted
        /\ UNCHANGED <<status, accepted>> /\ Emit(kind, t)
    BY <1>9 DEF PoolRemove, tracking, AcceptedInv
  <2>2. EventsInv'
    BY <1>b, <2>1
  <2> QED
    BY <2>1, <2>2 DEF AcceptedInv
<1>10. CASE PoolCrash
  BY <1>10 DEF PoolCrash, tracking, AcceptedInv
<1>11. CASE PoolRestart
  BY <1>a, <1>11 DEF PoolRestart, tracking
<1>12. ASSUME NEW s \in Submitter, Request(s) \/ \E t \in Tx : Submit(s, t)
       PROVE  AcceptedInv' /\ accepted \subseteq accepted'
  BY <1>a, <1>12 DEF Request, Submit, ReceiverTimeout, StatusReady, StatusClosed, tracking, node
<1>13. CASE UNCHANGED vars
  BY <1>a, <1>13 DEF vars, tracking, node
<1> QED
  BY <1>1, <1>2, <1>3, <1>4, <1>5, <1>6, <1>7, <1>8, <1>9, <1>10, <1>11, <1>12, <1>13
  DEF Next, Bridge, Node

(* A request's answer is "ok" only when its status is good. *)
LEMMA AnsweredHolds ==
  ASSUME TypeOK, RequestsInv, NEW s \in Submitter, NEW answer,
         answer = "ok" => sub[s].val \in Good, accepted \subseteq accepted',
         sub' = Answered(s, answer)
  PROVE  RequestsInv'
<1> DEFINE r == [Idle EXCEPT !.pc = "done", !.tx = sub[s].tx, !.answer = answer]
<1>1. /\ r.val = "unknown" /\ r.pc = "done" /\ r.answer = answer /\ r.tx = sub[s].tx
  BY DEF Idle
<1>2. sub' = [sub EXCEPT ![s] = r] /\ sub \in [Submitter -> SubType]
  BY DEF Answered, TypeOK
<1> HIDE DEF r
<1>3. Truthful(r, accepted') /\ Awaits(r)
  BY <1>1 DEF RequestsInv, Truthful, Awaits, Good
<1>4. ASSUME NEW x \in Submitter
      PROVE  Truthful(sub'[x], accepted') /\ Awaits(sub'[x])
  <2>1. CASE x = s
    BY <1>2, <1>3, <2>1
  <2>2. CASE x # s
    BY <1>2, <2>2 DEF RequestsInv, Truthful
  <2> QED
    BY <2>1, <2>2
<1> QED
  BY <1>4 DEF RequestsInv

LEMMA RequestsStep ==
  ASSUME TypeOK, AcceptedInv, RequestsInv, [Next]_vars
  PROVE  RequestsInv'
<1>0. AcceptedInv' /\ accepted \subseteq accepted' /\ sub \in [Submitter -> SubType]
  BY AcceptedStep DEF TypeOK
<1>a. ASSUME UNCHANGED sub
      PROVE  RequestsInv'
  BY <1>0, <1>a DEF RequestsInv, Truthful
<1>b. \A x \in Submitter : Truthful(sub[x], accepted') /\ Awaits(sub[x])
  BY <1>0 DEF RequestsInv, Truthful
<1>1. ASSUME NEW s \in Submitter, NEW t \in Tx, Submit(s, t)
      PROVE  RequestsInv'
  <2>1. CASE sub' = Answered(s, "overloaded")
    BY <1>0, <2>1, AnsweredHolds
  <2>2. CASE sub' = [sub EXCEPT ![s] = [Idle EXCEPT !.pc = "queued", !.tx = t]]
    <3>1. /\ [Idle EXCEPT !.pc = "queued", !.tx = t].val = "unknown"
          /\ [Idle EXCEPT !.pc = "queued", !.tx = t].answer = "none"
          /\ [Idle EXCEPT !.pc = "queued", !.tx = t].pc = "queued"
      BY DEF Idle
    <3>2. sub'[s].val = "unknown" /\ sub'[s].answer = "none" /\ sub'[s].pc = "queued"
      BY <1>0, <2>2, <3>1
    <3>3. \A x \in Submitter : x # s => sub'[x] = sub[x]
      BY <1>0, <2>2
    <3> QED
      BY <1>b, <3>2, <3>3 DEF RequestsInv, Truthful, Awaits, Good
  <2> QED
    BY <1>1, <2>1, <2>2 DEF Submit
<1>2. ASSUME NEW s \in Submitter, ReceiverTimeout(s)
      PROVE  RequestsInv'
  BY <1>0, <1>2, AnsweredHolds DEF ReceiverTimeout
<1>3. ASSUME NEW s \in Submitter, StatusReady(s)
      PROVE  RequestsInv'
  <2>1. sub[s].val \in Statuses
    BY <1>0 DEF SubType
  <2>2. AnswerFor(sub[s].val) = "ok" => sub[s].val \in Good
    BY <2>1 DEF AnswerFor, Good, Statuses
  <2> QED
    BY <1>0, <1>3, <2>2, AnsweredHolds DEF StatusReady
<1>4. ASSUME NEW s \in Submitter, StatusClosed(s)
      PROVE  RequestsInv'
  BY <1>0, <1>4, AnsweredHolds DEF StatusClosed
<1>5. CASE HandleEvent
  <2> DEFINE e == Head(events)
             v == EventStatus(e.kind)
  <2>1. events \in Seq(Event) /\ events # <<>> /\ e = events[1] /\ 1 \in 1 .. Len(events)
    BY <1>5 DEF TypeOK, HandleEvent
  <2>2. v \in Good => e.tx \in accepted'
    BY <1>0, <2>1 DEF AcceptedInv
  <2>3. sub' = Notified(e.tx, v)
    BY <1>5 DEF HandleEvent, SetStatus
  <2> HIDE DEF v, e
  <2>4. ASSUME NEW x \in Submitter
        PROVE  Truthful(sub'[x], accepted') /\ Awaits(sub'[x])
    <3>1. CASE Watches(x, e.tx)
      <4>1. sub'[x] = [sub[x] EXCEPT !.val = v, !.changed = TRUE]
        BY <2>3, <3>1 DEF Notified
      <4>2. sub[x] \in SubType /\ sub[x].tx = e.tx
        BY <1>0, <3>1 DEF Watches
      <4>3. /\ sub'[x].val = v /\ sub'[x].changed = TRUE
            /\ sub'[x].answer = sub[x].answer /\ sub'[x].tx = e.tx
        BY <4>1, <4>2 DEF SubType
      <4> QED
        BY <1>b, <2>2, <4>2, <4>3 DEF Truthful, Awaits
    <3>2. CASE ~Watches(x, e.tx)
      BY <1>b, <2>3, <3>2 DEF Notified
    <3> QED
      BY <3>1, <3>2
  <2> QED
    BY <2>4 DEF RequestsInv
<1>6. CASE AddTx
  <2> DEFINE e == Head(batch)
  <2>0. e \in Entry
    BY <1>6, TailType DEF AddTx, TypeOK
  <2>1. e.tx \in Tx /\ e.sub \in Submitter \cup {NoSub}
    BY <2>0 DEF Entry
  <2>2. sub' = IF e.sub = NoSub THEN sub ELSE [sub EXCEPT ![e.sub] = Receiver(e.tx)]
    BY <1>6 DEF AddTx
  <2> HIDE DEF e
  <2>3. Truthful(Receiver(e.tx), accepted')
    BY <1>0, <2>1 DEF Truthful, Receiver, AcceptedInv, Good
  <2>4. status[e.tx] \in Statuses \cup {"none"}
    BY <2>1 DEF TypeOK
  <2>5. Awaits(Receiver(e.tx))
    BY <2>4 DEF Awaits, Receiver, Known, Statuses
  <2>6. ASSUME NEW x \in Submitter
        PROVE  Truthful(sub'[x], accepted') /\ Awaits(sub'[x])
    <3>1. sub'[x] = sub[x] \/ sub'[x] = Receiver(e.tx)
      BY <1>0, <2>1, <2>2
    <3> QED
      BY <1>b, <2>3, <2>5, <3>1
  <2> QED
    BY <2>6 DEF RequestsInv
<1>c. ASSUME NEW dropped, TryReconnect(dropped)
      PROVE  RequestsInv'
  <2>1. ASSUME NEW x \in Submitter
        PROVE  Truthful(sub'[x], accepted') /\ Awaits(sub'[x])
    <3>1. sub'[x] = AfterSnapshot(pool, dropped)[x] /\ sub[x] \in SubType
      BY <1>0, <1>c DEF TryReconnect
    <3>2. \/ sub'[x] = [sub[x] EXCEPT !.pc = "lost"]
          \/ sub'[x] = [sub[x] EXCEPT !.val = "tracked"] /\ sub[x].tx \in pool
          \/ sub'[x] = [sub[x] EXCEPT !.attached = FALSE]
          \/ sub'[x] = sub[x]
      BY <3>1 DEF AfterSnapshot
    <3>3. CASE sub'[x] = [sub[x] EXCEPT !.pc = "lost"]
      BY <1>b, <3>1, <3>3 DEF SubType, Truthful, Awaits
    <3>4. CASE sub'[x] = [sub[x] EXCEPT !.val = "tracked"] /\ sub[x].tx \in pool
      <4>1. /\ sub'[x].val = "tracked" /\ sub'[x].tx = sub[x].tx
            /\ sub[x].tx \in accepted'
        BY <1>0, <3>1, <3>4 DEF SubType, AcceptedInv
      <4> QED
        BY <4>1 DEF Truthful, Awaits
    <3>5. CASE sub'[x] = [sub[x] EXCEPT !.attached = FALSE]
      BY <1>b, <3>1, <3>5 DEF SubType, Truthful, Awaits
    <3> QED
      BY <1>b, <3>2, <3>3, <3>4, <3>5
  <2> QED
    BY <2>1 DEF RequestsInv
<1>7. CASE Reconnect \/ WaitForSocket
  BY <1>a, <1>c, <1>7 DEF Reconnect, WaitForSocket, FallBack
<1>8. ASSUME NEW old \in 0 .. Len(queue), Cleanup(old)
      PROVE  RequestsInv'
  <2>1. ASSUME NEW x \in Submitter
        PROVE  Truthful(sub'[x], accepted') /\ Awaits(sub'[x])
    <3>1. sub'[x] = [sub[x] EXCEPT !.attached = FALSE] \/ sub'[x] = sub[x]
      BY <1>8 DEF Cleanup
    <3>2. sub[x] \in SubType
      BY <1>0
    <3> QED
      BY <1>b, <3>1, <3>2 DEF SubType, Truthful, Awaits
  <2> QED
    BY <2>1 DEF RequestsInv
<1>9. CASE WatcherDies
  <2>1. ASSUME NEW x \in Submitter
        PROVE  Truthful(sub'[x], accepted') /\ Awaits(sub'[x])
    <3>1. sub'[x] = [sub[x] EXCEPT !.pc = "lost"] \/ sub'[x] = sub[x]
      BY <1>9 DEF WatcherDies
    <3>2. sub[x] \in SubType
      BY <1>0
    <3> QED
      BY <1>b, <3>1, <3>2 DEF SubType, Truthful, Awaits
  <2> QED
    BY <2>1 DEF RequestsInv
<1>10. CASE TakeBatch \/ BatchDone \/ IgnoreSocket
  BY <1>a, <1>10 DEF TakeBatch, BatchDone, IgnoreSocket
<1>11. CASE Node
  BY <1>a, <1>11 DEF Node, PoolInsert, PoolReject, PoolRemove, PoolCrash, PoolRestart
<1>12. CASE UNCHANGED vars
  BY <1>a, <1>12 DEF vars
<1> QED
  BY <1>1, <1>2, <1>3, <1>4, <1>5, <1>6, <1>7, <1>8, <1>9, <1>10, <1>11, <1>12
  DEF Next, Request, Bridge

LEMMA AcceptedInit == Init => AcceptedInv /\ RequestsInv
<1> SUFFICES ASSUME Init PROVE AcceptedInv /\ RequestsInv
  OBVIOUS
<1>1. Len(events) = 0
  BY DEF Init
<1>2. AcceptedInv
  BY <1>1 DEF Init, AcceptedInv, Good
<1>3. \A s \in Submitter : sub[s].val = "unknown" /\ sub[s].answer = "none" /\ sub[s].pc = "idle"
  BY DEF Init, Idle
<1>4. RequestsInv
  BY <1>3 DEF RequestsInv, Truthful, Awaits, Good
<1> QED
  BY <1>2, <1>4

(* No request is told "ok" for a transaction the pool never held. *)
THEOREM OkIsTruthful == Spec => []OkMeansAccepted
<1>1. RequestsInv => OkMeansAccepted
  BY DEF RequestsInv, Truthful, OkMeansAccepted
<1> QED
  BY TypeInit, TypeStep, AcceptedInit, AcceptedStep, RequestsStep, <1>1, PTL DEF Spec

(* No request goes on waiting for a change that it has already missed. *)
THEOREM WakesAreDelivered == Spec => []NoMissedWake
<1>1. RequestsInv => NoMissedWake
  BY DEF RequestsInv, Awaits, NoMissedWake
<1> QED
  BY TypeInit, TypeStep, AcceptedInit, AcceptedStep, RequestsStep, <1>1, PTL DEF Spec

-----------------------------------------------------------------------------
(***************************************************************************)
(* What the status table says once the bridge has caught up.               *)
(***************************************************************************)
(* A status is right about what the pool holds now. *)
Fits(val, t) ==
  /\ val = "tracked" => t \in pool
  /\ val \in {"committed", "evicted"} => t \notin pool

Quiet(t) == \A i \in 1 .. Len(events) : events[i].tx # t
LastWord(i) == \A j \in i + 1 .. Len(events) : events[j].tx # events[i].tx

(* While there is a connection, the last event in flight about a           *)
(* transaction is right about the pool, and so is the status of one that   *)
(* no event in flight is about; without one nothing is in flight.          *)
CurrentInv ==
  /\ bridge \in {"wait", "dead"} => conn = "none"
  /\ conn = "none" => events = <<>>
  /\ conn = "up" =>
       /\ \A t \in Tx : Quiet(t) => Fits(status[t], t)
       /\ \A i \in 1 .. Len(events) :
            LastWord(i) => Fits(EventStatus(events[i].kind), events[i].tx)

LEMMA CurrentInit == Init => CurrentInv
BY DEF Init, CurrentInv, Fits

(* The pool changes for one transaction and says so. *)
LEMMA EmitCurrent ==
  ASSUME TypeOK, CurrentInv, NEW t \in Tx,
         NEW kind \in {"insert", "committed", "dropped", "evicted"},
         Emit(kind, t), UNCHANGED <<bridge, conn, status>>,
         \A u \in Tx : u # t => (u \in pool' <=> u \in pool),
         kind = "insert" => t \in pool',
         kind \in {"committed", "evicted"} => t \notin pool'
  PROVE  CurrentInv'
<1>1. CASE conn # "up"
  BY <1>1 DEF Emit, CurrentInv
<1>2. CASE conn = "up"
  <2> DEFINE n == Len(events)
             e == [kind |-> kind, tx |-> t]
  <2>1. events \in Seq(Event) /\ n \in Nat
    BY DEF TypeOK
  <2>2. events' = Append(events, e)
    BY <1>2 DEF Emit
  <2>3. /\ Len(events') = n + 1 /\ events'[n + 1] = e
        /\ \A i \in 1 .. n : events'[i] = events[i]
    BY <2>1, <2>2
  <2>4. e.kind = kind /\ e.tx = t
    OBVIOUS
  <2> HIDE DEF n, e
  <2>5. ASSUME NEW u \in Tx, Quiet(u)'
        PROVE  Fits(status[u], u)'
    <3>1. u # t
      BY <2>1, <2>3, <2>4, <2>5 DEF Quiet
    <3>2. Quiet(u)
      BY <2>1, <2>3, <2>5 DEF Quiet, n
    <3> QED
      BY <1>2, <3>1, <3>2 DEF CurrentInv, Fits
  <2>6. ASSUME NEW i \in 1 .. Len(events'), LastWord(i)'
        PROVE  Fits(EventStatus(events[i].kind), events[i].tx)'
    <3>1. CASE i = n + 1
      BY <2>3, <2>4, <3>1 DEF Fits, EventStatus
    <3>2. CASE i \in 1 .. n
      <4>0. events[i] \in Event
        BY <2>1, <3>2 DEF n
      <4>1. events'[i] = events[i] /\ events[i].tx \in Tx
        BY <2>3, <3>2, <4>0 DEF Event
      <4>2. events[i].tx # t
        BY <2>1, <2>3, <2>4, <2>6, <3>2, <4>1 DEF LastWord
      <4>3. LastWord(i)
        BY <2>1, <2>3, <2>6, <3>2 DEF LastWord, n
      <4>4. Fits(EventStatus(events[i].kind), events[i].tx)
        BY <1>2, <3>2, <4>3 DEF CurrentInv, n
      <4> QED
        BY <4>1, <4>2, <4>4 DEF Fits
    <3> QED
      BY <2>1, <2>3, <3>1, <3>2
  <2>7. conn' = "up" /\ bridge' = bridge
    BY <1>2
  <2> QED
    BY <2>5, <2>6, <2>7 DEF CurrentInv
<1> QED
  BY <1>1, <1>2

LEMMA HandleCurrent ==
  ASSUME TypeOK, CurrentInv, HandleEvent
  PROVE  CurrentInv'
<1> DEFINE n == Len(events)
           e == Head(events)
<1>1. events \in Seq(Event) /\ events # <<>> /\ n \in Nat
  BY DEF TypeOK, HandleEvent
<1>2. /\ n > 0 /\ e = events[1] /\ e \in Event
      /\ Len(Tail(events)) = n - 1
      /\ \A i \in 1 .. n - 1 : Tail(events)[i] = events[i + 1]
  BY <1>1
<1>3. /\ events' = Tail(events) /\ UNCHANGED <<bridge, conn, pool>>
      /\ status' = [status EXCEPT ![e.tx] = EventStatus(e.kind)]
  BY DEF HandleEvent, SetStatus, task
<1>4. status \in [Tx -> Statuses \cup {"none"}] /\ e.tx \in Tx
  BY <1>2 DEF TypeOK, Event
<1> HIDE DEF n, e
<1>5. ASSUME conn = "up", NEW u \in Tx, Quiet(u)'
      PROVE  Fits(status'[u], u)
  <2>1. \A i \in 2 .. n : events[i].tx # u
    <3> SUFFICES ASSUME NEW i \in 2 .. n PROVE events[i].tx # u
      OBVIOUS
    <3>1. i - 1 \in 1 .. n - 1 /\ events'[i - 1] = events[(i - 1) + 1] /\ (i - 1) + 1 = i
      BY <1>1, <1>2, <1>3
    <3> QED
      BY <1>2, <1>3, <1>5, <3>1 DEF Quiet
  <2>2. CASE u = e.tx
    <3>1. LastWord(1)
      BY <1>1, <1>2, <2>1, <2>2 DEF LastWord, n
    <3>2. Fits(EventStatus(e.kind), e.tx)
      BY <1>1, <1>2, <1>5, <3>1 DEF CurrentInv, n
    <3> QED
      BY <1>3, <1>4, <2>2, <3>2
  <2>3. CASE u # e.tx
    <3>1. Quiet(u)
      BY <1>1, <1>2, <2>1, <2>3 DEF Quiet, n
    <3> QED
      BY <1>3, <1>4, <1>5, <2>3, <3>1 DEF CurrentInv
  <2> QED
    BY <2>2, <2>3
<1>6. ASSUME conn = "up", NEW i \in 1 .. Len(events'), LastWord(i)'
      PROVE  Fits(EventStatus(events'[i].kind), events'[i].tx)
  <2>1. /\ i \in 1 .. n - 1 /\ events'[i] = events[i + 1] /\ i + 1 \in 1 .. n
    BY <1>1, <1>2, <1>3, <1>6
  <2>2. LastWord(i + 1)
    <3> SUFFICES ASSUME NEW j \in (i + 1) + 1 .. n PROVE events[j].tx # events[i + 1].tx
      BY DEF LastWord, n
    <3>1. j - 1 \in i + 1 .. n - 1 /\ j - 1 \in 1 .. n - 1 /\ (j - 1) + 1 = j
      BY <1>1, <2>1
    <3>2. events'[j - 1] = events[j]
      BY <1>2, <1>3, <3>1
    <3> QED
      BY <1>2, <1>3, <1>6, <2>1, <3>1, <3>2 DEF LastWord
  <2> QED
    BY <1>6, <2>1, <2>2 DEF CurrentInv, n
<1>7. conn # "none"
  BY DEF HandleEvent
<1> QED
  BY <1>3, <1>5, <1>6, <1>7 DEF CurrentInv, Fits

LEMMA CurrentStep == TypeOK /\ CurrentInv /\ [Next]_vars => CurrentInv'
<1> SUFFICES ASSUME TypeOK, CurrentInv, [Next]_vars PROVE CurrentInv'
  OBVIOUS
<1>0. ASSUME UNCHANGED <<bridge, conn, events, pool>>,
             \A t \in Tx : status'[t] = status[t] \/ status'[t] \in {"none", "unknown"}
      PROVE  CurrentInv'
  BY <1>0 DEF CurrentInv, Fits, Quiet, LastWord
<1>1. ASSUME NEW s \in Submitter, Request(s) \/ \E t \in Tx : Submit(s, t)
      PROVE  CurrentInv'
  BY <1>0, <1>1 DEF Request, ReceiverTimeout, StatusReady, StatusClosed, Submit, tracking,
     task, node
<1>2. CASE HandleEvent
  BY <1>2, HandleCurrent
<1>3. CASE TakeBatch \/ BatchDone
  BY <1>3 DEF TakeBatch, BatchDone, tracking, node, CurrentInv, Fits, Quiet, LastWord
<1>4. CASE AddTx
  BY <1>0, <1>4 DEF AddTx, TypeOK
<1>5. CASE IgnoreSocket
  BY <1>0, <1>5 DEF IgnoreSocket, tracking, node
<1>6. ASSUME NEW dropped, TryReconnect(dropped), events = <<>>, UNCHANGED <<pool, events>>
      PROVE  CurrentInv'
  BY <1>6 DEF TryReconnect, ApplySnapshot, CurrentInv, Fits, Quiet, LastWord
<1>7. CASE Reconnect
  <2>1. events = <<>> /\ UNCHANGED <<pool, events>>
    BY <1>7 DEF Reconnect, node
  <2>2. CASE poolUp
    BY <1>6, <1>7, <2>1, <2>2 DEF Reconnect
  <2>3. CASE ~poolUp
    BY <1>7, <2>1, <2>3 DEF Reconnect, FallBack, CurrentInv
  <2> QED
    BY <2>2, <2>3
<1>8. CASE WaitForSocket
  <2>1. events = <<>> /\ conn = "none" /\ UNCHANGED <<pool, events>>
    BY <1>8 DEF WaitForSocket, node, CurrentInv
  <2>2. CASE Head(watch) = "create" /\ poolUp
    BY <1>6, <1>8, <2>1, <2>2 DEF WaitForSocket
  <2>3. CASE ~(Head(watch) = "create" /\ poolUp)
    BY <1>8, <2>1, <2>3 DEF WaitForSocket, CurrentInv
  <2> QED
    BY <2>2, <2>3
<1>9. ASSUME NEW old \in 0 .. Len(queue), Cleanup(old)
      PROVE  CurrentInv'
  BY <1>0, <1>9 DEF Cleanup, task, node
<1>10. CASE WatcherDies
  BY <1>10 DEF WatcherDies, CurrentInv
<1>11. ASSUME NEW t \in Tx, PoolInsert(t)
       PROVE  CurrentInv'
  BY <1>11, EmitCurrent DEF PoolInsert, tracking, task
<1>12. CASE PoolReject
  <2>1. Head(inbox) \in Tx
    BY <1>12, TailType DEF PoolReject, TypeOK
  <2> QED
    BY <1>12, <2>1, EmitCurrent DEF PoolReject, tracking, task
<1>13. ASSUME NEW t \in Tx, NEW kind \in {"committed", "dropped", "evicted"},
              PoolRemove(t, kind)
       PROVE  CurrentInv'
  BY <1>13, EmitCurrent DEF PoolRemove, tracking, task
<1>14. CASE PoolCrash
  BY <1>14 DEF PoolCrash, tracking, CurrentInv
<1>15. CASE PoolRestart
  BY <1>0, <1>15 DEF PoolRestart, tracking
<1>16. CASE UNCHANGED vars
  BY <1>0, <1>16 DEF vars, tracking, task, node
<1> QED
  BY <1>1, <1>2, <1>3, <1>4, <1>5, <1>7, <1>8, <1>9, <1>10, <1>11, <1>12, <1>13, <1>14,
     <1>15, <1>16 DEF Next, Bridge, Node

(* Once no event is in flight, also after the node has crashed and the     *)
(* bridge has started again from a snapshot, "tracked" means that the pool *)
(* has the transaction, "committed" and "evicted" that it has not.         *)
THEOREM CaughtUpIsCurrent == Spec => []StatusCurrent
<1>1. CurrentInv => StatusCurrent
  BY DEF CurrentInv, StatusCurrent, Fits, Quiet
<1> QED
  BY <1>1, TypeCorrect, CurrentInit, CurrentStep, PTL DEF Spec

-----------------------------------------------------------------------------
(***************************************************************************)
(* EthExecution.                                                           *)
(***************************************************************************)
Headers == [num : 0..MaxBlock, base : 0..U64Max, limit : Nat]

LocalsInv ==
  /\ head \in 1..MaxBlock /\ req \in Requests /\ exec \in Executors
  /\ loc \in [key : Int, header : Headers, tx : RequestType, original : Int, lo : Int, hi : Int,
              used : Int, list : SUBSET Slots]
  /\ pc # "done" => ans = [kind |-> "none"]

\* The gas that one run of the request may have.
Allowed == CASE req.m \in {"estimate", "fill"} -> ProviderEstimate
             [] req.m = "simulate" -> ProviderSimulate
             [] OTHER -> ProviderCall

\* The header that was read is that of the block of the runs, except that
\* eth_fillTransaction reads them apart.
HeaderFits(num, key) == req.m # "fill" => num = key

\* A run on the block and with the header that these locals name.
RunFits(run, l) ==
  /\ run.key = l.key /\ run.gas <= Allowed
  /\ run.num = IF req.m = "fill" THEN l.header.num ELSE l.key

RunsFit(runs, l) ==
  /\ \E S : runs \in Seq(S)
  /\ \A i \in 1..Len(runs) : RunFits(runs[i], l)

\* The block and the header of the runs stay.
SameBlock(l) == l.key = loc.key /\ (req.m # "fill" \/ l.header = loc.header)

\* The kind of a transaction to be filled is that of the request.
Expected(t) == CASE t.legacy /\ t.listed -> 1
                 [] t.legacy /\ ~t.listed -> 0
                 [] ~t.legacy /\ t.auth -> 4
                 [] OTHER -> 2
SameKind(t) == /\ t.listed = req.tx.listed /\ t.list = req.tx.list
               /\ t.type \in {None, Expected(t)}

Normalized(t) == SameKind(t) /\ t.cap = req.tx.cap /\ t.gas # 0

\* It pays the base fee that was read.
Pays(t, base) ==
  IF t.legacy THEN base <= t.price
  ELSE t.cap # None /\ base <= t.cap /\ t.tip <= t.cap /\ req.tx.cap <= t.cap

\* The least sufficient gas lies between the bounds of the search.
Bracketed(l) ==
  /\ exec.out = "Success" /\ -1 <= l.lo /\ l.lo < exec.need
  /\ exec.need <= l.hi /\ l.hi <= ProviderEstimate

\* What is known of the locals at each place.
At(p, l) ==
  /\ p \in {"begin", "header", "key", "nonce", "locate"} => log = << >>
  /\ p \in {"prepare", "followUp", "execute", "trace", "transfer", "first", "second", "search", "nonce",
            "locate"} => l.key \in 0..head
  /\ p = "header" /\ req.m # "fill" => l.key \in 0..head
  /\ p \in {"execute", "trace", "transfer", "first", "second", "search", "nonce"} =>
       HeaderFits(l.header.num, l.key)
  /\ p \in {"execute", "trace"} =>
       IF req.m = "simulate" THEN l.original <= ProviderSimulate ELSE l.tx.gas \in 0..ProviderCall
  /\ p \in {"transfer", "first", "second"} => l.tx.gas \in 0..ProviderEstimate
  /\ p \in {"second", "search"} => Bracketed(l)
  /\ p = "header" /\ req.m = "estimate" => l.tx.gas <= ProviderEstimate
  /\ req.m = "fill" =>
       /\ p \in {"header", "key", "nonce"} => Normalized(l.tx)
       /\ p \in {"first", "second", "search"} => SameKind(l.tx) /\ Pays(l.tx, l.header.base)

ExecInv ==
  /\ LocalsInv /\ RunsFit(log, loc) /\ At(pc, loc)
  /\ EstimateExact /\ FilledSignable

-----------------------------------------------------------------------------
(***************************************************************************)
(* What becomes of a request before it is run.                             *)
(***************************************************************************)
Kept(t, u) == /\ t.legacy = u.legacy /\ t.listed = u.listed /\ t.list = u.list
              /\ t.type = u.type /\ t.auth = u.auth

LEMMA MergedInput ==
  ASSUME NEW t \in RequestType, merge_input(t).ok
  PROVE  /\ merge_input(t).v \in RequestType /\ Kept(merge_input(t).v, t)
         /\ merge_input(t).v.gas = t.gas /\ merge_input(t).v.cap = t.cap
<1> DEFINE x == IF t.input = None THEN t.data ELSE t.input
           w == [t EXCEPT !.input = x]
           u == [w EXCEPT !.data = None]
<1>1. merge_input(t).v = u
  BY DEF merge_input, Ok, Err
<1>2. x \in Optional
  BY DEF RequestType
<1>3. w \in RequestType /\ Kept(w, t) /\ w.gas = t.gas /\ w.cap = t.cap
  <2> HIDE DEF x
  <2> QED  BY <1>2 DEF RequestType, Kept
<1>4. u \in RequestType /\ Kept(u, w) /\ u.gas = w.gas /\ u.cap = w.cap
  <2> HIDE DEF w
  <2> QED  BY <1>3 DEF RequestType, Kept, Optional
<1> HIDE DEF u, w
<1> QED  BY <1>1, <1>3, <1>4 DEF Kept

LEMMA FilledPrices ==
  ASSUME NEW t \in RequestType, NEW base \in Nat, fill_gas_prices(t, base).ok
  PROVE  LET u == fill_gas_prices(t, base).v
         IN  /\ u \in RequestType /\ Kept(u, t) /\ u.gas = t.gas /\ u.tip = t.tip
             /\ t.legacy => base <= u.price
             /\ ~t.legacy /\ t.cap = None => u.cap = base + OrElse(t.tip, 0)
<1> DEFINE effective == base + OrElse(t.tip, 0)
           a == [t EXCEPT !.price = Larger(t.price, base)]
           b == [t EXCEPT !.cap = effective]
           c == [t EXCEPT !.cap = Smaller(t.cap, effective)]
           r == fill_gas_prices(t, base)
<1>0. effective \in Nat /\ t.price \in Nat /\ t.cap \in Optional
  BY DEF RequestType, Optional, None, OrElse
<1>1. CASE t.legacy
  <2>1. r.v = a
    BY <1>1 DEF fill_gas_prices, Ok
  <2>2. a \in RequestType /\ Kept(a, t) /\ a.gas = t.gas /\ a.tip = t.tip /\ base <= a.price
    BY <1>0 DEF RequestType, Kept, Larger
  <2> QED  BY <1>1, <2>1, <2>2
<1>2. CASE ~t.legacy /\ t.cap = None
  <2>1. r.v = b
    BY <1>2 DEF fill_gas_prices, Ok, Err
  <2>2. b \in RequestType /\ Kept(b, t) /\ b.gas = t.gas /\ b.tip = t.tip /\ b.cap = effective
    BY <1>0 DEF RequestType, Kept, Optional
  <2> QED  BY <1>2, <2>1, <2>2
<1>3. CASE ~t.legacy /\ t.cap # None
  <2>1. r.v = c
    BY <1>3 DEF fill_gas_prices, Ok, Err
  <2>2. c \in RequestType /\ Kept(c, t) /\ c.gas = t.gas /\ c.tip = t.tip
    BY <1>0, <1>3 DEF RequestType, Kept, Optional, Smaller
  <2> QED  BY <1>3, <2>1, <2>2
<1> QED  BY <1>1, <1>2, <1>3

LEMMA Quotient ==
  ASSUME NEW a \in Nat, NEW p \in Nat \ {0}
  PROVE  a \div p \in Nat
  OBVIOUS

LEMMA SenderAllowance ==
  ASSUME NEW t \in RequestType, NEW n \in 0..MaxBlock, NEW h \in Headers, NEW over \in Optional,
         sender_gas_allowance(t, n, h, over).ok
  PROVE  sender_gas_allowance(t, n, h, over).v \in Nat
<1> DEFINE price == max_fee_per_gas(t)
           balance == resolve_sender_balance(n, over)
           value == OrElse(t.value, 0)
           gas == (balance - value) \div price
           r == sender_gas_allowance(t, n, h, over)
<1>1. price \in Optional /\ balance \in Nat /\ value \in Nat /\ h.limit \in Nat
  BY LimitAssumption DEF RequestType, Optional, None, OrElse, Headers, max_fee_per_gas, resolve_sender_balance
<1>2. CASE t.from = None \/ price \in {None, 0}
  BY <1>1, <1>2 DEF sender_gas_allowance, Ok
<1>3. CASE ~(t.from = None \/ price \in {None, 0})
  <2>1. ~(balance = 0 \/ balance < value)
    BY <1>3 DEF sender_gas_allowance, Err
  <2>2. r.v = IF gas > U64Max THEN h.limit ELSE Smaller(gas, h.limit)
    BY <1>3, <2>1 DEF sender_gas_allowance, Ok
  <2>3. balance - value \in Nat /\ price \in Nat \ {0}
    BY <1>1, <1>3, <2>1 DEF Optional
  <2>4. gas \in Nat
    <3> HIDE DEF balance, value, price
    <3> QED  BY <2>3, Quotient
  <2> HIDE DEF gas
  <2> QED  BY <1>1, <2>2, <2>4 DEF Smaller
<1> QED  BY <1>2, <1>3

LEMMA FilledParams ==
  ASSUME NEW t \in RequestType, NEW n \in 0..MaxBlock, NEW h \in Headers, NEW over \in Optional,
         NEW limit \in Nat, fill_gas_params(t, n, h, over, limit).ok
  PROVE  LET f == fill_gas_params(t, n, h, over, limit).v
         IN  /\ f.tx \in RequestType /\ f.header \in Headers /\ f.header.num = h.num
             /\ f.tx.gas \in Nat
             /\ IF t.gas = None THEN f.tx.gas <= limit ELSE f.tx.gas = t.gas
<1> DEFINE r == fill_gas_params(t, n, h, over, limit)
<1>0. h.limit \in Nat /\ h.base \in Nat /\ 0 \in Nat /\ t.gas \in Optional
  BY WidthAssumption DEF Headers, RequestType
<1>1. CASE max_fee_per_gas(t) \notin {None, 0}
  <2> DEFINE q == fill_gas_prices(t, h.base)
             al == sender_gas_allowance(q.v, n, h, over)
             g == [q.v EXCEPT !.gas = Smaller(al.v, limit)]
  <2>1. q.ok
    BY <1>1 DEF fill_gas_params, Then
  <2>2. q.v \in RequestType /\ q.v.gas = t.gas
    BY <1>0, <2>1, FilledPrices
  <2>3. CASE t.gas # None
    <3>1. r.v = [tx |-> q.v, header |-> h]
      BY <1>1, <2>1, <2>2, <2>3 DEF fill_gas_params, Then, Ok
    <3>2. r.v.tx = q.v /\ r.v.header = h
      BY <3>1
    <3> HIDE DEF q
    <3>3. r.v.tx.gas \in Nat /\ r.v.tx.gas = t.gas
      BY <1>0, <2>2, <2>3, <3>2 DEF Optional
    <3> QED  BY <2>2, <2>3, <3>2, <3>3
  <2>4. CASE t.gas = None
    <3>1. al.ok
      BY <1>1, <2>1, <2>2, <2>4 DEF fill_gas_params, Then
    <3>2. r.v = [tx |-> g, header |-> h]
      BY <1>1, <2>1, <2>2, <2>4, <3>1 DEF fill_gas_params, Then, Ok
    <3>3. al.v \in Nat
      BY <2>2, <3>1, SenderAllowance
    <3>4. g \in RequestType /\ g.gas \in Nat /\ g.gas <= limit
      <4> HIDE DEF al, q
      <4> QED  BY <2>2, <3>3 DEF RequestType, Smaller, Optional
    <3>5. r.v.tx = g /\ r.v.header = h
      BY <3>2
    <3> HIDE DEF q, g
    <3> QED  BY <2>4, <3>4, <3>5
  <2> QED  BY <2>3, <2>4
<1>2. CASE max_fee_per_gas(t) \in {None, 0}
  <2> DEFINE q == fill_gas_prices(t, 0)
             g == [q.v EXCEPT !.gas = OrElse(q.v.gas, Smaller(h.limit, limit))]
             k == [h EXCEPT !.base = 0]
  <2>1. q.ok
    BY <1>2 DEF fill_gas_params, Then
  <2>2. q.v \in RequestType /\ q.v.gas = t.gas
    BY <1>0, <2>1, FilledPrices
  <2>3. r.v = [tx |-> g, header |-> k]
    BY <1>2, <2>1 DEF fill_gas_params, Then, Ok
  <2>4. g \in RequestType /\ g.gas \in Nat /\ IF t.gas = None THEN g.gas <= limit ELSE g.gas = t.gas
    <3> HIDE DEF q
    <3> QED  BY <1>0, <2>2 DEF RequestType, Smaller, Optional, OrElse
  <2>5. k \in Headers /\ k.num = h.num
    BY WidthAssumption DEF Headers
  <2>6. r.v.tx = g /\ r.v.header = k
    BY <2>3
  <2> HIDE DEF q, g, k
  <2> QED  BY <2>4, <2>5, <2>6
<1> QED  BY <1>1, <1>2

LEMMA CheckedChain ==
  ASSUME NEW t \in RequestType, check_chain_id(t).ok
  PROVE  check_chain_id(t).v \in RequestType /\ check_chain_id(t).v.gas = t.gas
<1> DEFINE u == [t EXCEPT !.chain = ChainId]
<1>1. check_chain_id(t).v = u
  BY DEF check_chain_id, Ok, Err
<1>2. u \in RequestType /\ u.gas = t.gas
  BY WidthAssumption DEF RequestType, Optional
<1> QED  BY <1>1, <1>2

LEMMA CheckedBalance ==
  ASSUME NEW t \in RequestType, NEW n, NEW over, check_value_transfer_balance(t, n, over).ok
  PROVE  check_value_transfer_balance(t, n, over).v = t
  BY DEF check_value_transfer_balance, Ok, Err

\* An envelope has the gas of the request, and its list unless it is legacy.
LEMMA Enveloped ==
  ASSUME NEW t \in RequestType, try_from(t).ok
  PROVE  /\ try_from(t).v.gas = OrElse(t.gas, U64Max)
         /\ DOMAIN try_from(t).v = {"type", "gas", "list", "cap", "tip"}
<1> DEFINE gas == OrElse(t.gas, U64Max)
<1>1. \A type : /\ Envelope(type, t, gas).gas = gas
                /\ DOMAIN Envelope(type, t, gas) = {"type", "gas", "list", "cap", "tip"}
  BY DEF Envelope
<1>2. \E type : try_from(t).v = Envelope(type, t, gas)
  BY DEF try_from, check_contract_creation_size, Then, Ok, Err
<1> QED  BY <1>1, <1>2

LEMMA Eip2930 ==
  ASSUME NEW t \in RequestType, build_fill_transaction_eip2930(t).ok
  PROVE  build_fill_transaction_eip2930(t).v = Envelope(1, t, OrElse(t.gas, 0))
  BY DEF build_fill_transaction_eip2930, check_contract_creation_size, Then, Ok, Err

LEMMA BuiltTx ==
  ASSUME NEW t \in RequestType, t.gas \in Nat, build_tx(t).ok
  PROVE  build_tx(t).v.gas = t.gas
<1>1. OrElse(t.gas, U64Max) = t.gas /\ OrElse(t.gas, 0) = t.gas
  BY DEF OrElse, None
<1>2. CASE req.m = "fill" /\ requires_eip2930_encoding(t)
  <2>1. build_tx(t) = build_fill_transaction_eip2930(t)
    BY <1>2 DEF build_tx, build_fill_transaction_envelope
  <2>2. build_tx(t).v = Envelope(1, t, t.gas)
    BY <1>1, <2>1, Eip2930
  <2> QED  BY <2>2 DEF Envelope
<1>3. CASE ~(req.m = "fill" /\ requires_eip2930_encoding(t))
  <2>1. build_tx(t) = try_from(t)
    BY <1>3 DEF build_tx, build_fill_transaction_envelope
  <2> QED  BY <1>1, <2>1, Enveloped
<1> QED  BY <1>2, <1>3

-----------------------------------------------------------------------------
(***************************************************************************)
(* eth_fillTransaction.                                                    *)
(***************************************************************************)
LEMMA NormalizedRequest ==
  ASSUME req.tx \in RequestType, normalize_fill_transaction_request(req.tx).ok
  PROVE  LET t == normalize_fill_transaction_request(req.tx).v
         IN  t \in RequestType /\ Normalized(t)
<1> DEFINE r == merge_input(req.tx)
           g == [r.v EXCEPT !.gas = IF r.v.gas = 0 THEN None ELSE r.v.gas]
<1>1. r.ok /\ normalize_fill_transaction_request(req.tx).v = g /\ g.type \in {None, Expected(g)}
  BY DEF normalize_fill_transaction_request, validate_fill_transaction_type, Then, Ok, Err, Expected
<1>2. r.v \in RequestType /\ Kept(r.v, req.tx) /\ r.v.cap = req.tx.cap
  BY <1>1, MergedInput
<1>3. g \in RequestType /\ Kept(g, r.v) /\ g.cap = r.v.cap /\ g.gas # 0
  <2> HIDE DEF r
  <2> QED  BY <1>2 DEF RequestType, Optional, None, Kept
<1> HIDE DEF g, r
<1> QED  BY <1>1, <1>2, <1>3 DEF Kept, Normalized, SameKind

LEMMA Prices ==
  ASSUME NEW t \in RequestType, NEW base \in 0..U64Max, Normalized(t), req.tx \in RequestType
  PROVE  LET fill == IF t.legacy THEN base ELSE Smaller(3 * base, U256Max) \div 2
             r    == fill_transaction_gas_price_details(t, base, fill, IF t.legacy THEN 0 ELSE TipSuggestion)
         IN  r.ok => /\ r.v \in RequestType /\ r.v.gas = t.gas
                     /\ SameKind(r.v) /\ Pays(r.v, base)
<1> DEFINE fill == IF t.legacy THEN base ELSE Smaller(3 * base, U256Max) \div 2
           suggestion == IF t.legacy THEN 0 ELSE TipSuggestion
           r == fill_transaction_gas_price_details(t, base, fill, suggestion)
           tip == OrElse(t.tip, suggestion)
<1>0. SUFFICES ASSUME r.ok PROVE r.v \in RequestType /\ r.v.gas = t.gas /\ SameKind(r.v) /\ Pays(r.v, base)
  OBVIOUS
<1>1. base \in Nat /\ fill \in Nat /\ base <= fill
  BY WidthAssumption DEF Smaller
<1>2. tip \in Nat /\ t.cap \in Optional /\ t.cap = req.tx.cap
  BY WidthAssumption DEF RequestType, Optional, OrElse, None, Normalized
<1>3. \A u : Kept(u, t) => SameKind(u)
  BY DEF Normalized, SameKind, Kept, Expected
<1>4. CASE t.legacy
  <2>1. r = fill_gas_prices(t, fill)
    BY <1>4 DEF fill_transaction_gas_price_details
  <2>2. r.v \in RequestType /\ Kept(r.v, t) /\ r.v.gas = t.gas /\ fill <= r.v.price
    <3> HIDE DEF fill, r
    <3> QED  BY <1>0, <1>1, <1>4, <2>1, FilledPrices
  <2>3. Pays(r.v, base)
    <3>1. r.v.legacy /\ r.v.price \in Nat
      BY <1>4, <2>2 DEF Kept, RequestType
    <3> HIDE DEF fill, r
    <3> QED  BY <1>1, <2>2, <3>1 DEF Pays
  <2> QED  BY <1>3, <2>2, <2>3
<1>5. CASE ~t.legacy /\ t.cap \notin {None, 0}
  <2> DEFINE c == Larger(t.cap, Larger(base, tip))
             u == [t EXCEPT !.cap = c]
             w == [u EXCEPT !.tip = tip]
  <2>1. r.v = w
    BY <1>5 DEF fill_transaction_gas_price_details, Ok
  <2>2. c \in Nat /\ base <= c /\ tip <= c /\ t.cap <= c
    <3> HIDE DEF tip
    <3> QED  BY <1>1, <1>2, <1>5 DEF Larger, Optional
  <2>3. u \in RequestType /\ Kept(u, t) /\ u.gas = t.gas /\ u.cap = c
    <3> HIDE DEF c
    <3> QED  BY <2>2 DEF RequestType, Optional, Kept
  <2>4. w \in RequestType /\ Kept(w, t) /\ w.gas = t.gas /\ w.cap = c /\ w.tip = tip
    <3> HIDE DEF u, tip, c
    <3> QED  BY <1>2, <2>3 DEF RequestType, Optional, Kept
  <2>5. Pays(w, base)
    <3> HIDE DEF w, tip, c
    <3> QED  BY <1>2, <1>5, <2>2, <2>4 DEF Pays, None, Kept
  <2> HIDE DEF w
  <2> QED  BY <1>3, <2>1, <2>4, <2>5
<1>6. CASE ~t.legacy /\ t.cap \in {None, 0}
  <2> DEFINE u == [t EXCEPT !.cap = None]
             w == [u EXCEPT !.tip = tip]
  <2>1. r = fill_gas_prices(w, fill)
    BY <1>6 DEF fill_transaction_gas_price_details
  <2>2. u \in RequestType /\ Kept(u, t) /\ u.gas = t.gas /\ u.cap = None
    BY DEF RequestType, Optional, Kept
  <2>3. w \in RequestType /\ Kept(w, t) /\ w.gas = t.gas /\ w.cap = None /\ w.tip = tip
    <3> HIDE DEF u, tip
    <3> QED  BY <1>2, <2>2 DEF RequestType, Optional, Kept
  <2>4. OrElse(tip, 0) = tip
    <3> HIDE DEF tip
    <3> QED  BY <1>2 DEF OrElse, None
  <2>5. /\ r.v \in RequestType /\ Kept(r.v, w) /\ r.v.gas = w.gas /\ r.v.tip = tip
        /\ r.v.cap = fill + tip
    <3>1. ~w.legacy
      BY <1>6, <2>3 DEF Kept
    <3> HIDE DEF w, fill, tip, r
    <3> QED  BY <1>0, <1>1, <2>1, <2>3, <2>4, <3>1, FilledPrices
  <2>6. Kept(r.v, t)
    <3> HIDE DEF w, r
    <3> QED  BY <2>3, <2>5 DEF Kept
  <2>7. Pays(r.v, base)
    <3>1. ~r.v.legacy /\ t.cap <= 0
      BY <1>6, <2>6 DEF Kept, None
    <3> HIDE DEF fill, tip, r
    <3> QED  BY <1>1, <1>2, <2>5, <3>1 DEF Pays, None, Optional
  <2> HIDE DEF w, r
  <2> QED  BY <1>3, <2>3, <2>5, <2>6, <2>7
<1> QED  BY <1>2, <1>4, <1>5, <1>6

\* What is signed says what the request says.
Signable(f, gas, base) ==
  /\ base <= f.raw.cap
  /\ ~f.tx.legacy => f.tx.tip <= f.tx.cap /\ req.tx.cap <= f.tx.cap
  /\ f.raw.gas = gas
  /\ f.tx.type # None => f.tx.type = f.raw.type
  /\ req.tx.listed => f.raw.list = req.tx.list

LEMMA Unsigned ==
  ASSUME NEW t \in RequestType, NEW gas \in Nat, NEW base \in Nat, SameKind(t), Pays(t, base),
         build_unsigned_transaction([t EXCEPT !.gas = gas]).ok
  PROVE  Signable(build_unsigned_transaction([t EXCEPT !.gas = gas]).v, gas, base)
<1> DEFINE u == [t EXCEPT !.gas = gas]
           r == build_unsigned_transaction(u)
           eip == requires_eip2930_encoding(u)
           type == IF eip THEN 1 ELSE IF u.legacy THEN 0 ELSE IF u.auth THEN 4 ELSE 2
           e == Envelope(type, u, gas)
<1>1. u \in RequestType /\ Kept(u, t) /\ u.gas = gas /\ u.cap = t.cap /\ u.tip = t.tip /\ u.price = t.price
  BY DEF RequestType, Optional, Kept
<1>2. SameKind(u) /\ Pays(u, base) /\ OrElse(u.gas, 0) = gas
  <2>1. SameKind(u)
    BY <1>1 DEF SameKind, Expected, Kept
  <2>2. Pays(u, base) /\ OrElse(u.gas, 0) = gas
    <3> HIDE DEF u
    <3> QED  BY <1>1 DEF Pays, OrElse, None, Kept
  <2> QED  BY <2>1, <2>2
<1> HIDE DEF u
<1>3. /\ r.v.raw = e
      /\ r.v.tx.legacy = u.legacy /\ r.v.tx.tip = u.tip /\ r.v.tx.cap = u.cap
      /\ r.v.tx.type = IF eip THEN 1 ELSE u.type
  <2> DEFINE g == OrElse(u.gas, 0)
             k == CASE u.legacy -> 0 [] ~u.legacy /\ u.auth -> 4 [] OTHER -> 2
             raw == IF eip THEN build_fill_transaction_eip2930(u)
                    ELSE IF ~FitsWidths(u, 0) \/ (k = 4 /\ u.to = None) THEN Err("invalid_params")
                    ELSE Ok(Envelope(k, u, g))
             w == [u EXCEPT !.gas = g, !.nonce = OrElse(@, 0), !.value = OrElse(@, 0),
                            !.chain = OrElse(@, ChainId), !.type = IF eip THEN 1 ELSE @]
  <2>1. r = IF raw.ok THEN Ok([raw |-> raw.v, tx |-> w]) ELSE raw
    BY DEF build_unsigned_transaction, Then
  <2>2. r.ok
    BY DEF u
  <2>3. raw.ok /\ r.v = [raw |-> raw.v, tx |-> w]
    <3> HIDE DEF raw, w, r
    <3> QED  BY <2>1, <2>2 DEF Ok
  <2>4. raw.v = e
    <3>1. CASE eip
      BY <1>1, <1>2, <2>3, <3>1, Eip2930
    <3>2. CASE ~eip
      <4>1. type = k
        BY <1>1, <3>2 DEF RequestType
      <4>2. raw.v = Envelope(k, u, g)
        <5> HIDE DEF k, g, eip
        <5> QED  BY <2>3, <3>2 DEF Ok, Err
      <4> QED  BY <1>2, <4>1, <4>2
    <3> QED  BY <3>1, <3>2
  <2>5. w.legacy = u.legacy /\ w.tip = u.tip /\ w.cap = u.cap /\ w.type = IF eip THEN 1 ELSE u.type
    BY <1>1 DEF RequestType
  <2> HIDE DEF raw, w
  <2> QED  BY <2>3, <2>4, <2>5
<1>4. e.gas = gas /\ e.type = type /\ e.list = IF type = 0 THEN {} ELSE u.list
  BY DEF Envelope
<1>5. base <= e.cap
  BY <1>1, <1>2 DEF Envelope, max_fee_per_gas, OrElse, None, Pays, RequestType
<1>6. r.v.tx.type # None => r.v.tx.type = type
  BY <1>1, <1>2, <1>3 DEF SameKind, Expected, requires_eip2930_encoding, RequestType, None
<1>7. req.tx.listed => e.list = req.tx.list
  BY <1>1, <1>2, <1>4 DEF SameKind, Expected, requires_eip2930_encoding, RequestType, None
<1>8. ~r.v.tx.legacy => r.v.tx.tip <= r.v.tx.cap /\ req.tx.cap <= r.v.tx.cap
  BY <1>2, <1>3 DEF Pays
<1> HIDE DEF e, r, type, eip
<1> QED  BY <1>3, <1>4, <1>5, <1>6, <1>7, <1>8 DEF Signable, r, u

-----------------------------------------------------------------------------
(***************************************************************************)
(* eth_simulateV1: the gas of all calls stays within the limit.            *)
(***************************************************************************)
LEMMA Ascend ==
  ASSUME NEW n \in Nat, NEW S, 0 \in S, \A k \in 1..n : k - 1 \in S => k \in S
  PROVE  0..n \subseteq S
<1> SUFFICES ASSUME (0..n) \ S # {} PROVE FALSE
  OBVIOUS
<1> DEFINE R == {ss \in Nat \X Nat : ss[1] < ss[2]}
           T == (0..n) \ S
<1>1. IsWellFoundedOn(R, Nat)
  BY NatLessThanWellFounded, Zenon DEF OpToRel
<1>2. \A x, y \in Nat : x < y => <<x, y>> \in R
  OBVIOUS
<1>3. T \subseteq Nat /\ T # {}
  OBVIOUS
<1> HIDE DEF R
<1>4. PICK m \in T : \A y \in T : ~(<<y, m>> \in R)
  <2> HIDE DEF T
  <2> QED  BY <1>1, <1>3, WFMin
<1>5. m \in 1..n /\ m - 1 \in Nat /\ m - 1 < m
  OBVIOUS
<1>6. m - 1 \in T
  BY <1>4, <1>5
<1>7. <<m - 1, m>> \in R
  <2> HIDE DEF T
  <2> QED  BY <1>2, <1>3, <1>5
<1>8. ~(<<m - 1, m>> \in R)
  <2> HIDE DEF T
  <2> QED  BY <1>4, <1>6
<1> QED  BY <1>7, <1>8

\* What has been filled so far, or an error.
FillGood(r) ==
  r.ok => r.v \in [gas : 0..ProviderSimulate, header : Headers, txs : Seq(RequestType)]

LEMMA CallFilled ==
  ASSUME NEW r, FillGood(r), NEW call \in RequestType, merge_input(call).ok, NEW key \in 0..MaxBlock,
         req.over \in Optional
  PROVE  FillGood(SimulateCall(r, call, key))
<1> DEFINE t == merge_input(call).v
           f == fill_gas_params(t, key, r.v.header, req.over, ProviderCall)
           q == SimulateCall(r, call, key)
           gas == r.v.gas + f.v.tx.gas
           txs == Append(r.v.txs, f.v.tx)
<1> SUFFICES ASSUME q.ok
             PROVE  q.v \in [gas : 0..ProviderSimulate, header : Headers, txs : Seq(RequestType)]
  BY DEF FillGood
<1>1. r.ok
  BY DEF SimulateCall, Then
<1>2. r.v.gas \in 0..ProviderSimulate /\ r.v.header \in Headers /\ r.v.txs \in Seq(RequestType)
  BY <1>1 DEF FillGood
<1>3. t \in RequestType /\ ProviderCall \in Nat /\ ProviderSimulate \in Nat
  BY MergedInput, LimitAssumption
<1>4. f.ok
  BY <1>1 DEF SimulateCall, Then
<1>5. f.v.tx \in RequestType /\ f.v.header \in Headers /\ f.v.tx.gas \in Nat
  <2> HIDE DEF t
  <2> QED  BY <1>2, <1>3, <1>4, FilledParams
<1>6. ~(gas > ProviderSimulate)
  BY <1>1, <1>4 DEF SimulateCall, Then, Err
<1>7. q.v = [gas |-> gas, header |-> f.v.header, txs |-> txs]
  BY <1>1, <1>4, <1>6 DEF SimulateCall, Then, Ok
<1>8. gas \in 0..ProviderSimulate
  <2> HIDE DEF f
  <2> QED  BY <1>2, <1>3, <1>5, <1>6
<1>9. txs \in Seq(RequestType)
  <2> HIDE DEF f
  <2> QED  BY <1>2, <1>5, AppendProperties
<1> HIDE DEF q, gas, txs, f
<1> QED  BY <1>5, <1>7, <1>8, <1>9

BlockFill(g, start, calls, key, n) ==
  g = [i \in 0..n |-> IF i = 0 THEN start ELSE SimulateCall(g[i - 1], calls[i], key)]

LEMMA BlockFilled ==
  ASSUME NEW r, FillGood(r), NEW calls \in Seq(RequestType), \A i \in DOMAIN calls : merge_input(calls[i]).ok,
         NEW key \in 0..MaxBlock, req.over \in Optional
  PROVE  FillGood(SimulateBlock(r, calls, key))
<1> DEFINE start == Then(r, LAMBDA acc : Ok([acc EXCEPT !.header = Header(key)]))
           N == Len(calls)
           S == {n \in 0..N : \E g : BlockFill(g, start, calls, key, n)}
           Filled[i \in 0..N] == IF i = 0 THEN start ELSE SimulateCall(Filled[i - 1], calls[i], key)
<1>1. N \in Nat /\ \A i \in 1..N : calls[i] \in RequestType /\ merge_input(calls[i]).ok
  BY LenProperties, ElementOfSeq
<1>8. SimulateBlock(r, calls, key) = Filled[N]
  BY DEF SimulateBlock
<1>2. FillGood(start)
  <2> DEFINE u == [r.v EXCEPT !.header = Header(key)]
  <2>0. Header(key) \in Headers
    BY LimitAssumption DEF Header, Headers
  <2>1. CASE r.ok
    <3>1. start.v = u
      BY <2>1 DEF Then, Ok
    <3>2. u \in [gas : 0..ProviderSimulate, header : Headers, txs : Seq(RequestType)]
      BY <2>0, <2>1 DEF FillGood
    <3> HIDE DEF start, u
    <3> QED  BY <3>1, <3>2 DEF FillGood
  <2>2. CASE ~r.ok
    BY <2>2 DEF Then, FillGood
  <2> QED  BY <2>1, <2>2
<1> HIDE DEF start, N
<1>3. 0 \in S
  <2> DEFINE g == [i \in 0..0 |-> start]
  <2>1. BlockFill(g, start, calls, key, 0)
    BY DEF BlockFill
  <2> HIDE DEF g
  <2> QED  BY <1>1, <2>1
<1>4. ASSUME NEW n \in 1..N, n - 1 \in S PROVE n \in S
  <2>1. PICK g : BlockFill(g, start, calls, key, n - 1)
    BY <1>4
  <2> DEFINE x == SimulateCall(g[n - 1], calls[n], key)
             h == [i \in 0..n |-> IF i = n THEN x ELSE g[i]]
  <2>3. n \in Nat /\ n > 0 /\ \A i \in 0..n : i # n => i \in 0..n - 1
    BY <1>1
  <2>4. \A i \in 0..n : h[i] = IF i = 0 THEN start ELSE SimulateCall(h[i - 1], calls[i], key)
    <3> SUFFICES ASSUME NEW i \in 0..n PROVE h[i] = IF i = 0 THEN start ELSE SimulateCall(h[i - 1], calls[i], key)
      OBVIOUS
    <3>1. i > 0 => h[i - 1] = g[i - 1]
      BY <2>3
    <3>2. CASE i = n
      BY <2>3, <3>1, <3>2
    <3>3. CASE i # n
      <4>1. i \in 0..n - 1 /\ h[i] = g[i]
        BY <2>3, <3>3
      <4>2. g[i] = IF i = 0 THEN start ELSE SimulateCall(g[i - 1], calls[i], key)
        BY <2>1, <4>1 DEF BlockFill
      <4> QED  BY <2>3, <3>1, <4>1, <4>2
    <3> QED  BY <3>2, <3>3
  <2>5. h = [i \in 0..n |-> h[i]]
    BY <2>3
  <2> HIDE DEF h
  <2>6. BlockFill(h, start, calls, key, n)
    BY <2>4, <2>5 DEF BlockFill
  <2> QED  BY <2>6
<1>5. N \in S
  <2> HIDE DEF S
  <2>1. 0..N \subseteq S
    BY <1>1, <1>3, <1>4, Ascend
  <2> QED  BY <1>1, <2>1
<1>6. PICK g : BlockFill(g, start, calls, key, N)
  BY <1>5
<1>7. Filled = [i \in 0..N |-> IF i = 0 THEN start ELSE SimulateCall(Filled[i - 1], calls[i], key)]
  BY <1>6 DEF BlockFill
<1> HIDE DEF Filled
<1>9. \A n \in 0..N : FillGood(Filled[n])
  <2> DEFINE T == {n \in 0..N : FillGood(Filled[n])}
  <2>1. 0 \in T
    BY <1>1, <1>2, <1>7
  <2>2. ASSUME NEW n \in 1..N, n - 1 \in T PROVE n \in T
    <3>1. Filled[n] = SimulateCall(Filled[n - 1], calls[n], key)
      BY <1>1, <1>7
    <3> QED  BY <1>1, <2>2, <3>1, CallFilled
  <2>3. 0..N \subseteq T
    <3> HIDE DEF T
    <3> QED  BY <1>1, <2>1, <2>2, Ascend
  <2> QED  BY <2>3
<1> QED  BY <1>1, <1>8, <1>9

AllFill(g, blocks, key, n) ==
  g = [i \in 0..n |-> IF i = 0 THEN Ok([gas |-> 0, header |-> Header(key), txs |-> << >>])
                      ELSE SimulateBlock(g[i - 1], blocks[i], key)]

LEMMA SimulationFilled ==
  ASSUME req.blocks \in Seq(Seq(RequestType)), req.over \in Optional, NEW key \in 0..MaxBlock,
         \A b \in DOMAIN req.blocks : \A i \in DOMAIN req.blocks[b] : merge_input(req.blocks[b][i]).ok
  PROVE  FillGood(SimulateFill(key))
<1> DEFINE blocks == req.blocks
           start == Ok([gas |-> 0, header |-> Header(key), txs |-> << >>])
           N == Len(blocks)
           S == {n \in 0..N : \E g : AllFill(g, blocks, key, n)}
           Filled[i \in 0..N] == IF i = 0 THEN start ELSE SimulateBlock(Filled[i - 1], blocks[i], key)
<1>1. /\ N \in Nat
      /\ \A b \in 1..N : blocks[b] \in Seq(RequestType) /\ \A i \in DOMAIN blocks[b] : merge_input(blocks[b][i]).ok
  BY LenProperties, ElementOfSeq
<1>2. SimulateFill(key) = Filled[N]
  BY DEF SimulateFill
<1>3. FillGood(start)
  <2>1. Header(key) \in Headers /\ 0 \in 0..ProviderSimulate
    BY LimitAssumption DEF Header, Headers
  <2>2. << >> \in Seq(RequestType)
    BY EmptySeq
  <2> QED  BY <2>1, <2>2 DEF FillGood, Ok
<1> HIDE DEF N, blocks
<1>4. 0 \in S
  <2> DEFINE g == [i \in 0..0 |-> start]
  <2>1. AllFill(g, blocks, key, 0)
    BY DEF AllFill
  <2> HIDE DEF g
  <2> QED  BY <1>1, <2>1
<1>5. ASSUME NEW n \in 1..N, n - 1 \in S PROVE n \in S
  <2>1. PICK g : AllFill(g, blocks, key, n - 1)
    BY <1>5
  <2> DEFINE x == SimulateBlock(g[n - 1], blocks[n], key)
             h == [i \in 0..n |-> IF i = n THEN x ELSE g[i]]
  <2>2. n \in Nat /\ n > 0 /\ \A i \in 0..n : i # n => i \in 0..n - 1
    BY <1>1
  <2> HIDE DEF start
  <2>3. \A i \in 0..n : h[i] = IF i = 0 THEN start ELSE SimulateBlock(h[i - 1], blocks[i], key)
    <3> SUFFICES ASSUME NEW i \in 0..n PROVE h[i] = IF i = 0 THEN start ELSE SimulateBlock(h[i - 1], blocks[i], key)
      OBVIOUS
    <3>1. i > 0 => h[i - 1] = g[i - 1]
      BY <2>2
    <3>2. CASE i = n
      BY <2>2, <3>1, <3>2
    <3>3. CASE i # n
      <4>1. i \in 0..n - 1 /\ h[i] = g[i]
        BY <2>2, <3>3
      <4>2. g[i] = IF i = 0 THEN start ELSE SimulateBlock(g[i - 1], blocks[i], key)
        BY <2>1, <4>1 DEF AllFill, start
      <4> QED  BY <2>2, <3>1, <4>1, <4>2
    <3> QED  BY <3>2, <3>3
  <2>4. h = [i \in 0..n |-> h[i]]
    BY <2>2
  <2> HIDE DEF h
  <2>5. AllFill(h, blocks, key, n)
    BY <2>3, <2>4 DEF AllFill, start
  <2> QED  BY <2>5
<1>6. N \in S
  <2> HIDE DEF S
  <2>1. 0..N \subseteq S
    BY <1>1, <1>4, <1>5, Ascend
  <2> QED  BY <1>1, <2>1
<1>7. PICK g : AllFill(g, blocks, key, N)
  BY <1>6
<1>8. Filled = [i \in 0..N |-> IF i = 0 THEN start ELSE SimulateBlock(Filled[i - 1], blocks[i], key)]
  BY <1>7 DEF AllFill
<1> HIDE DEF Filled, start
<1>9. \A n \in 0..N : FillGood(Filled[n])
  <2> DEFINE T == {n \in 0..N : FillGood(Filled[n])}
  <2>1. 0 \in T
    BY <1>1, <1>3, <1>8
  <2>2. ASSUME NEW n \in 1..N, n - 1 \in T PROVE n \in T
    <3>1. Filled[n] = SimulateBlock(Filled[n - 1], blocks[n], key)
      BY <1>1, <1>8
    <3>2. /\ FillGood(Filled[n - 1]) /\ blocks[n] \in Seq(RequestType)
          /\ \A i \in DOMAIN blocks[n] : merge_input(blocks[n][i]).ok
      BY <1>1, <2>2
    <3>3. FillGood(SimulateBlock(Filled[n - 1], blocks[n], key))
      BY <3>2, BlockFilled
    <3> QED  BY <1>1, <3>1, <3>3
  <2>3. 0..N \subseteq T
    <3> HIDE DEF T
    <3> QED  BY <1>1, <2>1, <2>2, Ascend
  <2> QED  BY <2>3
<1> QED  BY <1>1, <1>2, <1>9

-----------------------------------------------------------------------------
(***************************************************************************)
(* The steps of all requests.                                              *)
(***************************************************************************)
LEMMA RunsGrow ==
  ASSUME NEW runs, NEW l, RunsFit(runs, l), NEW run, RunFits(run, l)
  PROVE  RunsFit(Append(runs, run), l)
<1>1. PICK S : runs \in Seq(S)
  BY DEF RunsFit
<1> DEFINE T == S \cup {run}
<1>2. runs \in Seq(T) /\ run \in T
  <2>1. DOMAIN runs = 1..Len(runs) /\ Len(runs) \in Nat /\ \A i \in 1..Len(runs) : runs[i] \in T
    BY <1>1, LenProperties, ElementOfSeq
  <2> QED  BY <1>1, <2>1
<1> HIDE DEF T
<1>3. /\ Append(runs, run) \in Seq(T)
      /\ Len(Append(runs, run)) = Len(runs) + 1 /\ Len(runs) \in Nat
      /\ \A i \in 1..Len(runs) : Append(runs, run)[i] = runs[i]
      /\ Append(runs, run)[Len(runs) + 1] = run
  BY <1>2, AppendProperties, LenProperties
<1>4. ASSUME NEW i \in 1..Len(Append(runs, run)) PROVE RunFits(Append(runs, run)[i], l)
  <2>1. CASE i \in 1..Len(runs)
    BY <1>3, <2>1 DEF RunsFit
  <2>2. CASE i \notin 1..Len(runs)
    <3>1. i = Len(runs) + 1
      BY <1>3, <2>2
    <3> QED  BY <1>3, <3>1
  <2> QED  BY <2>1, <2>2
<1> QED  BY <1>3, <1>4 DEF RunsFit

Locals == [key : Int, header : Headers, tx : RequestType, original : Int, lo : Int, hi : Int,
           used : Int, list : SUBSET Slots]

\* A step to the next place of a request.
LEMMA GoesTo ==
  ASSUME ExecInv, NEW p, NEW l \in Locals, Goto(p, l), p # "done", pc # "done",
         SameBlock(l) \/ log = << >>, At(p, l)
  PROVE  ExecInv'
<1>1. /\ pc' = p /\ loc' = l /\ head' = head /\ req' = req /\ exec' = exec /\ log' = log /\ ans' = ans
      /\ ans = [kind |-> "none"]
  BY DEF Goto, ExecInv, LocalsInv
<1>2. LocalsInv'
  BY <1>1 DEF ExecInv, LocalsInv, Locals
<1>3. RunsFit(log, loc)'
  <2>1. CASE log = << >>
    BY <1>1, <2>1 DEF ExecInv, RunsFit
  <2>2. CASE SameBlock(l)
    BY <1>1, <2>2 DEF ExecInv, RunsFit, RunFits, SameBlock, Allowed
  <2> QED  BY <2>1, <2>2
<1>4. At(p, l)'
  BY <1>1 DEF At, HeaderFits, Bracketed, Normalized, SameKind, Expected, Pays
<1>5. (EstimateExact /\ FilledSignable)'
  BY <1>1 DEF EstimateExact, FilledSignable
<1> QED  BY <1>1, <1>2, <1>3, <1>4, <1>5 DEF ExecInv

\* The last step of a request.
LEMMA Ends ==
  ASSUME ExecInv, pc' = "done", UNCHANGED <<head, req, exec, loc>>,
         \/ log' = log
         \/ \E run : log' = Append(log, run) /\ RunFits(run, loc),
         EstimateExact', FilledSignable'
  PROVE  ExecInv'
<1>1. LocalsInv'
  BY DEF ExecInv, LocalsInv
<1>2. RunsFit(log', loc)
  BY RunsGrow DEF ExecInv
<1>3. RunsFit(log, loc)'
  BY <1>2 DEF RunsFit, RunFits, Allowed
<1>4. At(pc, loc)'
  BY DEF At
<1> QED  BY <1>1, <1>3, <1>4 DEF ExecInv

LEMMA Answers ==
  ASSUME ExecInv, NEW a, Answer(a), a.kind \notin {"gas", "filled"}
  PROVE  ExecInv'
<1>1. /\ pc' = "done" /\ UNCHANGED <<head, req, exec, loc>> /\ log' = log /\ ans' = a
  BY DEF Answer
<1>2. EstimateExact' /\ FilledSignable'
  BY <1>1 DEF EstimateExact, FilledSignable
<1> QED  BY <1>1, <1>2, Ends

LEMMA Rejects ==
  ASSUME ExecInv, NEW e, Reject(e)
  PROVE  ExecInv'
<1> DEFINE a == [kind |-> "error", err |-> e]
<1>1. Answer(a) /\ a.kind = "error"
  BY DEF Reject
<1> HIDE DEF a
<1> QED  BY <1>1, Answers

\* A run on the block of the request.
LEMMA RunOnBlock ==
  ASSUME NEW env, HeaderFits(loc.header.num, loc.key), env.gas <= Allowed
  PROVE  RunFits(Execution(env), loc)
  BY DEF RunFits, HeaderFits, Execution

LEMMA Runs ==
  ASSUME ExecInv, NEW env, NEW p, NEW l \in Locals, Executed(env, p, l), SameBlock(l),
         HeaderFits(loc.header.num, loc.key), env.gas <= Allowed, pc # "done",
         p \notin {"done", "begin", "header", "key", "nonce", "locate"}, At(p, l)
  PROVE  ExecInv'
<1>1. /\ pc' = p /\ loc' = l /\ head' = head /\ req' = req /\ exec' = exec /\ ans' = ans
      /\ log' = Append(log, Execution(env)) /\ ans = [kind |-> "none"]
  BY DEF Executed, ExecInv, LocalsInv
<1>2. LocalsInv'
  BY <1>1 DEF ExecInv, LocalsInv, Locals
<1>3. RunsFit(log', loc)
  BY <1>1, RunOnBlock, RunsGrow DEF ExecInv
<1>4. RunsFit(log, loc)'
  BY <1>1, <1>3 DEF RunsFit, RunFits, SameBlock, Allowed
<1>5. At(p, l)'
  BY <1>1 DEF At, HeaderFits, Bracketed, Normalized, SameKind, Expected, Pays
<1>6. (EstimateExact /\ FilledSignable)'
  BY <1>1 DEF EstimateExact, FilledSignable
<1> QED  BY <1>1, <1>2, <1>4, <1>5, <1>6 DEF ExecInv

LEMMA RunsLast ==
  ASSUME ExecInv, NEW env, NEW a, ExecutedLast(env, a),
         HeaderFits(loc.header.num, loc.key), env.gas <= Allowed, a.kind \notin {"gas", "filled"}
  PROVE  ExecInv'
<1>1. /\ pc' = "done" /\ UNCHANGED <<head, req, exec, loc>> /\ ans' = a
      /\ log' = Append(log, Execution(env))
  BY DEF ExecutedLast
<1>2. EstimateExact' /\ FilledSignable'
  BY <1>1 DEF EstimateExact, FilledSignable
<1> QED  BY <1>1, <1>2, RunOnBlock, Ends

LEMMA Keys ==
  ASSUME ExecInv, NEW ref \in References
  PROVE  get_block_key_from_tag_or_hash(ref) \in 0..head \cup {None}
  BY LimitAssumption DEF ExecInv, LocalsInv, References, get_block_key_from_tag_or_hash, None, Latest, FinalizedTag

\* The request that is being served.
LEMMA Served ==
  ASSUME ExecInv
  PROVE  /\ loc \in Locals /\ req \in Requests /\ exec \in Executors
         /\ head \in 1..MaxBlock /\ loc.tx \in RequestType /\ loc.header \in Headers
         /\ req.m \in {"call", "trace", "accessList", "estimate", "fill"} =>
              req.tx \in RequestType /\ req.ref \in References /\ req.over \in Optional
<1>1. loc \in Locals /\ req \in Requests /\ exec \in Executors /\ head \in 1..MaxBlock
  BY DEF ExecInv, LocalsInv, Locals
<1>2. loc.tx \in RequestType /\ loc.header \in Headers
  BY <1>1 DEF Locals
<1> QED  BY <1>1, <1>2, RequestAssumption

-----------------------------------------------------------------------------
(***************************************************************************)
(* eth_call and the requests that share its preparation.                   *)
(***************************************************************************)
CallMethod == req.m \in {"call", "trace", "accessList"}

LEMMA PrepareKey ==
  ASSUME ExecInv, CallMethod, pc = "begin", prepare_eth_call("prepare")
  PROVE  ExecInv'
<1> DEFINE key == get_block_key_from_tag_or_hash(req.ref)
           k == [loc EXCEPT !.key = key]
           l == [k EXCEPT !.tx = req.tx]
<1>0. /\ loc \in Locals /\ req.tx \in RequestType /\ req.ref \in References
      /\ log = << >> /\ head \in 1..MaxBlock
  BY Served DEF CallMethod, ExecInv, At
<1>1. CASE key = None
  BY <1>1, Rejects DEF prepare_eth_call
<1>2. CASE key # None
  <2>1. Goto("prepare", l)
    BY <1>2 DEF prepare_eth_call
  <2>2. key \in 0..head
    BY <1>0, <1>2, Keys
  <2>3. l \in Locals /\ l.key = key
    <3> HIDE DEF key
    <3>1. k \in Locals /\ k.key = key
      BY <1>0, <2>2 DEF Locals
    <3> HIDE DEF k
    <3> QED  BY <1>0, <3>1 DEF Locals
  <2>4. At("prepare", l)
    <3> HIDE DEF l, key
    <3> QED  BY <2>2, <2>3 DEF At
  <2> HIDE DEF l
  <2> QED  BY <1>0, <2>1, <2>3, <2>4, GoesTo
<1> QED  BY <1>1, <1>2

LEMMA PrepareRun ==
  ASSUME ExecInv, CallMethod, pc \in {"prepare", "followUp"}, NEW next \in {"execute", "trace"},
         prepare_eth_call_at_block(next)
  PROVE  ExecInv'
<1> DEFINE r == merge_input(loc.tx)
           g == IF r.v.gas > ProviderCall THEN ProviderCall ELSE r.v.gas
           tx == [r.v EXCEPT !.gas = g]
           header == Header(loc.key)
           limit == Smaller(ProviderCall, header.limit)
           f == fill_gas_params(tx, loc.key, header, req.over, limit)
           c == check_chain_id(f.v.tx)
           b == check_value_transfer_balance(c.v, loc.key, req.over)
           original == OrElse(tx.gas, header.limit)
           l1 == [loc EXCEPT !.tx = b.v]
           l2 == [l1 EXCEPT !.header = f.v.header]
           l3 == [l2 EXCEPT !.original = original]
<1>0. /\ loc \in Locals /\ loc.tx \in RequestType /\ req.over \in Optional
      /\ loc.key \in 0..head /\ head \in 1..MaxBlock
  <2>1. loc.key \in 0..head
    BY DEF ExecInv, At
  <2> QED  BY <2>1, Served DEF CallMethod
<1>1. \/ \E e : Reject(e)
      \/ r.ok /\ f.ok /\ c.ok /\ b.ok /\ Goto(next, l3)
  BY DEF prepare_eth_call_at_block, With, Then
<1>2. CASE \E e : Reject(e)
  BY <1>2, Rejects
<1>3. CASE r.ok /\ f.ok /\ c.ok /\ b.ok /\ Goto(next, l3)
  <2>1. r.v \in RequestType /\ ProviderCall \in Nat
    BY <1>0, <1>3, MergedInput, LimitAssumption
  <2>2. g \in Optional /\ g <= ProviderCall
    <3> HIDE DEF r
    <3> QED  BY <2>1 DEF RequestType, Optional, None
  <2>3. tx \in RequestType /\ tx.gas = g
    <3> HIDE DEF r, g
    <3> QED  BY <2>1, <2>2 DEF RequestType
  <2>4. /\ loc.key \in 0..MaxBlock /\ header \in Headers /\ header.num = loc.key
        /\ limit \in Nat /\ limit <= ProviderCall /\ original \in Int
    <3>1. loc.key \in 0..MaxBlock
      BY <1>0, LimitAssumption
    <3>2. header \in Headers /\ header.num = loc.key /\ header.limit \in Nat
      BY <3>1, LimitAssumption DEF Header, Headers
    <3>3. original \in Int
      <4> HIDE DEF tx, header, g
      <4> QED  BY <2>2, <2>3, <3>2 DEF OrElse, Optional, None
    <3> HIDE DEF header
    <3> QED  BY <2>1, <3>1, <3>2, <3>3 DEF Smaller
  <2>5. /\ f.v.tx \in RequestType /\ f.v.header \in Headers /\ f.v.header.num = loc.key
        /\ f.v.tx.gas \in 0..ProviderCall
    <3> HIDE DEF tx, header, limit, g
    <3>1. /\ f.v.tx \in RequestType /\ f.v.header \in Headers /\ f.v.header.num = header.num
          /\ f.v.tx.gas \in Nat
          /\ IF tx.gas = None THEN f.v.tx.gas <= limit ELSE f.v.tx.gas = tx.gas
      BY <1>0, <1>3, <2>3, <2>4, FilledParams
    <3> HIDE DEF f
    <3> QED  BY <2>1, <2>2, <2>3, <2>4, <3>1
  <2>6. b.v \in RequestType /\ b.v.gas = f.v.tx.gas
    <3> HIDE DEF f
    <3>1. c.v \in RequestType /\ c.v.gas = f.v.tx.gas
      BY <1>3, <2>5, CheckedChain
    <3> HIDE DEF c
    <3> QED  BY <1>3, <3>1, CheckedBalance
  <2>7. l3 \in Locals /\ l3.key = loc.key /\ l3.header = f.v.header /\ l3.tx = b.v
    <3> HIDE DEF b, f, original
    <3>1. l1 \in Locals /\ l1.key = loc.key /\ l1.tx = b.v
      BY <1>0, <2>6 DEF Locals
    <3> HIDE DEF l1
    <3>2. l2 \in Locals /\ l2.key = loc.key /\ l2.tx = b.v /\ l2.header = f.v.header
      BY <2>5, <3>1 DEF Locals
    <3> HIDE DEF l2
    <3> QED  BY <2>4, <3>2 DEF Locals
  <2> HIDE DEF l3, b, f
  <2>8. At(next, l3)
    BY <1>0, <2>5, <2>6, <2>7 DEF At, HeaderFits, CallMethod
  <2> QED  BY <1>3, <2>7, <2>8, GoesTo DEF SameBlock, CallMethod
<1> QED  BY <1>1, <1>2, <1>3

\* The envelope of a transaction with gas has that gas.
LEMMA EnvelopeGas ==
  ASSUME NEW t \in RequestType, t.gas \in Nat, try_from(t).ok
  PROVE  try_from(t).v.gas = t.gas
  BY Enveloped DEF OrElse, None

LEMMA ErrorKinds ==
  ASSUME NEW r, NEW a, NEW b, NEW c, NEW e
  PROVE  Failure(r).kind = "error" /\ OutOfGas(a, b, c, e).kind = "error"
  BY DEF Failure, OutOfGas

\* The run after the preparation, which ends the request.
LEMMA CallRun ==
  ASSUME ExecInv, req.m \in {"call", "trace", "accessList"}, pc \in {"execute", "trace"}, try_from(loc.tx).ok
  PROVE  HeaderFits(loc.header.num, loc.key) /\ try_from(loc.tx).v.gas <= Allowed
<1>1. /\ HeaderFits(loc.header.num, loc.key) /\ loc.tx.gas \in 0..ProviderCall
      /\ ProviderCall \in Nat
  BY LimitAssumption DEF ExecInv, At
<1>2. try_from(loc.tx).v.gas = loc.tx.gas
  BY <1>1, EnvelopeGas, Served
<1> QED  BY <1>1, <1>2 DEF Allowed

LEMMA CallStep ==
  ASSUME ExecInv, req.m = "call", monad_eth_call
  PROVE  ExecInv'
<1>1. CASE pc = "begin" /\ prepare_eth_call("prepare")
  BY <1>1, PrepareKey DEF CallMethod
<1>2. CASE pc = "prepare" /\ prepare_eth_call_at_block("execute")
  BY <1>2, PrepareRun DEF CallMethod
<1>3. CASE ~(pc \in {"begin", "prepare"})
  <2>1. /\ pc = "execute"
        /\ \/ \E e : Reject(e)
           \/ /\ try_from(loc.tx).ok
              /\ \E a : ExecutedLast(try_from(loc.tx).v, a) /\ a.kind \notin {"gas", "filled"}
    <3> DEFINE env == try_from(loc.tx).v
               r == eth_call(env)
               a == CASE r.code = "Success" -> [kind |-> "output"]
                      [] r.code = "OutOfGas" -> CallOutOfGas
                      [] OTHER -> Failure(r)
    <3>1. pc = "execute" /\ IF try_from(loc.tx).ok THEN ExecutedLast(env, a) ELSE \E e : Reject(e)
      BY <1>3 DEF monad_eth_call, With
    <3>2. a.kind \in {"output", "error"}
      BY ErrorKinds DEF CallOutOfGas
    <3> HIDE DEF a, env
    <3> QED  BY <3>1, <3>2 DEF env
  <2> QED  BY <2>1, Rejects, CallRun, RunsLast
<1> QED  BY <1>1, <1>2, <1>3 DEF monad_eth_call

LEMMA TraceCallStep ==
  ASSUME ExecInv, req.m = "trace", monad_debug_traceCall
  PROVE  ExecInv'
<1>1. CASE pc = "begin" /\ prepare_eth_call("prepare")
  BY <1>1, PrepareKey DEF CallMethod
<1>2. CASE pc = "prepare" /\ prepare_eth_call_at_block("execute")
  BY <1>2, PrepareRun DEF CallMethod
<1>3. CASE ~(pc \in {"begin", "prepare"})
  <2> DEFINE env == try_from(loc.tx).v
             r == eth_call(env)
             tree == decode_call_frame(req.frames, req.tracer)
             frames == IF ~tree.ok THEN [kind |-> "error", err |-> tree.err]
                       ELSE IF tree.v # << >> /\ TreeSize(tree.v[1]) > MaxResponse
                       THEN [kind |-> "error", err |-> "response_too_large"]
                       ELSE [kind |-> "tree", tree |-> tree.v]
             a == CASE r.code = "OutOfGas" -> CallOutOfGas
                    [] r.code \notin {"Success", "ExecutionError", "OutOfGas"} -> Failure(r)
                    [] r.code \in {"Success", "ExecutionError"} -> frames
  <2>1. pc = "execute" /\ IF try_from(loc.tx).ok THEN ExecutedLast(env, a) ELSE \E e : Reject(e)
    BY <1>3 DEF monad_debug_traceCall, With
  <2>2. a.kind \in {"tree", "error"}
    <3>1. frames.kind \in {"tree", "error"}
      <4> HIDE DEF tree
      <4> QED  OBVIOUS
    <3> HIDE DEF frames
    <3> QED  BY <3>1, ErrorKinds DEF CallOutOfGas
  <2> HIDE DEF a
  <2> QED  BY <2>1, <2>2, Rejects, CallRun, RunsLast
<1> QED  BY <1>1, <1>2, <1>3 DEF monad_debug_traceCall

LEMMA TraceBlockStep ==
  ASSUME ExecInv, monad_debug_traceBlock
  PROVE  ExecInv'
<1> DEFINE r == decode_block_call_frames(req.txs, req.traces, req.tracer, MaxResponse)
           a == [kind |-> "trees", trees |-> r.v]
<1>1. IF r.ok THEN Answer(a) ELSE \E e : Reject(e)
  BY DEF monad_debug_traceBlock, With
<1>2. a.kind = "trees"
  OBVIOUS
<1> HIDE DEF a
<1> QED  BY <1>1, <1>2, Rejects, Answers

LEMMA AccessListStep ==
  ASSUME ExecInv, req.m = "accessList", monad_createAccessList
  PROVE  ExecInv'
<1> DEFINE env == try_from(loc.tx).v
           r == eth_call(env)
<1>1. CASE pc = "begin" /\ prepare_eth_call("prepare")
  BY <1>1, PrepareKey DEF CallMethod
<1>2. CASE pc = "prepare" /\ prepare_eth_call_at_block("trace")
  BY <1>2, PrepareRun DEF CallMethod
<1>3. CASE pc = "followUp" /\ prepare_eth_call_at_block("execute")
  BY <1>3, PrepareRun DEF CallMethod
<1>4. CASE pc = "execute"
  <2> DEFINE a == from_follow_up_call_result(r)
  <2>1. IF try_from(loc.tx).ok THEN ExecutedLast(env, a) ELSE \E e : Reject(e)
    BY <1>4 DEF monad_createAccessList, With
  <2>2. a.kind \in {"accessList", "error"}
    BY ErrorKinds DEF from_follow_up_call_result
  <2> HIDE DEF a
  <2> QED  BY <1>4, <2>1, <2>2, Rejects, CallRun, RunsLast
<1>5. CASE pc = "trace"
  <2> DEFINE list == merge_access_lists(exec.touches, req.tx)
             t1 == [req.tx EXCEPT !.list = list]
             t2 == [t1 EXCEPT !.listed = TRUE]
             l1 == [loc EXCEPT !.list = exec.touches]
             l2 == [l1 EXCEPT !.tx = t2]
  <2>1. IF ~try_from(loc.tx).ok THEN \E e : Reject(e)
        ELSE \/ ExecutedLast(env, Failure(r))
             \/ Executed(env, "followUp", l2)
    BY <1>5 DEF monad_createAccessList, With
  <2>2. req.tx \in RequestType /\ exec.touches \in SUBSET Slots /\ loc \in Locals /\ loc.key \in 0..head
    <3>1. loc.key \in 0..head
      BY <1>5 DEF ExecInv, At
    <3> QED  BY <3>1, Served, EngineAssumption
  <2>3. t2 \in RequestType
    <3>1. list \in SUBSET Slots
      BY <2>2 DEF merge_access_lists, RequestType
    <3> HIDE DEF list
    <3>2. t1 \in RequestType
      BY <2>2, <3>1 DEF RequestType
    <3> HIDE DEF t1
    <3> QED  BY <3>2 DEF RequestType
  <2>4. l2 \in Locals /\ l2.key = loc.key
    <3> HIDE DEF t2
    <3>1. l1 \in Locals /\ l1.key = loc.key
      BY <2>2 DEF Locals
    <3> HIDE DEF l1
    <3> QED  BY <2>3, <3>1 DEF Locals
  <2> HIDE DEF l2
  <2>5. At("followUp", l2)
    BY <2>2, <2>4 DEF At
  <2>6. Failure(r).kind = "error"
    BY ErrorKinds
  <2> HIDE DEF r, env
  <2>7. CASE ~try_from(loc.tx).ok
    BY <2>1, <2>7, Rejects
  <2>8. CASE try_from(loc.tx).ok
    <3>1. HeaderFits(loc.header.num, loc.key) /\ env.gas <= Allowed
      BY <1>5, <2>8, CallRun DEF env
    <3>2. CASE ExecutedLast(env, Failure(r))
      BY <2>6, <3>1, <3>2, RunsLast
    <3>3. CASE Executed(env, "followUp", l2)
      BY <1>5, <2>4, <2>5, <3>1, <3>3, Runs DEF SameBlock
    <3> QED  BY <2>1, <2>8, <3>2, <3>3
  <2> QED  BY <2>7, <2>8
<1> QED  BY <1>1, <1>2, <1>3, <1>4, <1>5 DEF monad_createAccessList

-----------------------------------------------------------------------------
(***************************************************************************)
(* The search for the gas of a transaction.                                *)
(***************************************************************************)
LEMMA WithGas ==
  ASSUME NEW t \in RequestType, NEW g \in Nat
  PROVE  LET u == [t EXCEPT !.gas = g]
         IN  /\ u \in RequestType /\ u.gas = g
             /\ SameKind(t) => SameKind(u)
             /\ \A base : Pays(t, base) => Pays(u, base)
<1> DEFINE u == [t EXCEPT !.gas = g]
<1>1. /\ u \in RequestType /\ Kept(u, t) /\ u.gas = g /\ u.cap = t.cap /\ u.tip = t.tip /\ u.price = t.price
  BY DEF RequestType, Optional, Kept
<1> HIDE DEF u
<1>2. SameKind(t) => SameKind(u)
  BY <1>1 DEF SameKind, Expected, Kept
<1>3. \A base : Pays(t, base) => Pays(u, base)
  BY <1>1 DEF Pays, Kept
<1> QED  BY <1>1, <1>2, <1>3 DEF u

\* The answer of an estimate, which every run supports.
LEMMA Estimates ==
  ASSUME ExecInv, req.m \in {"estimate", "fill"}, NEW t \in RequestType, NEW gas \in Nat \ {0}, Estimated(t, gas),
         req.m = "fill" => SameKind(t) /\ Pays(t, loc.header.base),
         log # << >> => /\ exec.out = "Success" /\ exec.need <= gas
                        /\ exec.need = gas \/ exec.need * 1000 > gas * 985
  PROVE  ExecInv'
<1> DEFINE b == build_unsigned_transaction([t EXCEPT !.gas = gas])
<1>1. CASE req.m = "estimate"
  <2> DEFINE a == [kind |-> "gas", gas |-> gas]
  <2>1. pc' = "done" /\ UNCHANGED <<head, req, exec, loc>> /\ log' = log /\ ans' = a
    BY <1>1 DEF Estimated, Answer
  <2>2. a.kind = "gas" /\ a.gas = gas
    OBVIOUS
  <2> HIDE DEF a
  <2>3. EstimateExact' /\ FilledSignable'
    BY <2>1, <2>2 DEF EstimateExact, FilledSignable
  <2> QED  BY <2>1, <2>3, Ends
<1>2. CASE req.m = "fill"
  <2> DEFINE a == [kind |-> "filled", gas |-> gas, tx |-> b.v.tx, raw |-> b.v.raw]
  <2>1. IF b.ok THEN Answer(a) ELSE \E e : Reject(e)
    BY <1>2 DEF Estimated, With
  <2>2. CASE ~b.ok
    BY <2>1, <2>2, Rejects
  <2>3. CASE b.ok
    <3>1. pc' = "done" /\ UNCHANGED <<head, req, exec, loc>> /\ log' = log /\ ans' = a
      BY <2>1, <2>3 DEF Answer
    <3>2. a.kind = "filled" /\ a.gas = gas /\ a.tx = b.v.tx /\ a.raw = b.v.raw
      OBVIOUS
    <3>3. loc.header.base \in Nat
      BY Served, WidthAssumption DEF Headers
    <3>4. Signable(b.v, gas, loc.header.base)
      BY <1>2, <2>3, <3>3, Unsigned
    <3> HIDE DEF a, b
    <3>5. EstimateExact'
      BY <3>1, <3>2 DEF EstimateExact
    <3>6. FilledSignable'
      BY <3>1, <3>2, <3>4 DEF FilledSignable, Signable
    <3> QED  BY <3>1, <3>5, <3>6, Ends
  <2> QED  BY <2>2, <2>3
<1> QED  BY <1>1, <1>2

\* What a run of the search tells.
LEMMA EngineRun ==
  ASSUME ExecInv, NEW env, env.gas \in Nat
  PROVE  /\ exec.need \in Nat \ {0} /\ exec.used \in Nat /\ exec.refund \in Nat /\ exec.used <= exec.need
         /\ TransferGas <= exec.need
         /\ eth_call(env).code = "Success" =>
              /\ exec.out = "Success" /\ exec.need <= env.gas
              /\ eth_call(env).used = exec.used /\ eth_call(env).refund = exec.refund
         /\ eth_call(env).code # "Success" /\ exec.out = "Success" => env.gas < exec.need
<1>1. /\ exec.need \in Nat \ {0} /\ exec.used \in Nat /\ exec.refund \in Nat /\ exec.used <= exec.need
      /\ TransferGas <= exec.need
  BY Served, EngineAssumption, LimitAssumption
<1> QED  BY <1>1 DEF eth_call

LEMMA EstimateRun ==
  ASSUME ExecInv, req.m \in {"estimate", "fill"}, pc \in {"transfer", "first", "second", "search"},
         NEW t \in RequestType, t.gas \in 0..ProviderEstimate
  PROVE  /\ HeaderFits(loc.header.num, loc.key)
         /\ build_tx(t).ok => /\ build_tx(t).v.gas = t.gas /\ build_tx(t).v.gas <= Allowed
<1>1. HeaderFits(loc.header.num, loc.key)
  BY DEF ExecInv, At
<1>2. t.gas \in Nat /\ t.gas <= ProviderEstimate
  BY LimitAssumption
<1>3. Allowed = ProviderEstimate
  BY DEF Allowed
<1> QED  BY <1>1, <1>2, <1>3, BuiltTx

LEMMA FirstStep ==
  ASSUME ExecInv, req.m \in {"estimate", "fill"}, EstimateFirst
  PROVE  ExecInv'
<1> DEFINE ok == build_tx(loc.tx).ok
           env == build_tx(loc.tx).v
           r == eth_call(env)
           gas == ((r.used + r.refund + CallStipend) * 64) \div 63
           next == [loc.tx EXCEPT !.gas = gas]
           l1 == [loc EXCEPT !.tx = next]
           l2 == [l1 EXCEPT !.hi = env.gas]
           l3 == [l2 EXCEPT !.lo = r.used - 1]
           limit == GasLimit[loc.header.num]
           a == OutOfGas(Smaller(ProviderEstimate, limit), limit, loc.original, "out_of_gas")
<1>0. pc = "first" /\ loc \in Locals /\ loc.tx \in RequestType /\ loc.tx.gas \in 0..ProviderEstimate
      /\ loc.key \in 0..head
  <2>1. pc = "first"
    BY DEF EstimateFirst
  <2>2. loc.tx.gas \in 0..ProviderEstimate /\ loc.key \in 0..head
    BY <2>1 DEF ExecInv, At
  <2> QED  BY <2>1, <2>2, Served
<1>1. IF ~ok THEN \E e : Reject(e)
      ELSE \/ r.code = "Success" /\ Executed(env, IF next.gas < env.gas THEN "second" ELSE "search", l3)
           \/ ExecutedLast(env, a)
           \/ ExecutedLast(env, Failure(r))
  BY DEF EstimateFirst, With
<1>2. CASE ~ok
  BY <1>1, <1>2, Rejects
<1>3. CASE ok
  <2>1. HeaderFits(loc.header.num, loc.key) /\ env.gas = loc.tx.gas /\ env.gas <= Allowed
        /\ env.gas \in 0..ProviderEstimate /\ env.gas \in Nat
    <3> HIDE DEF env
    <3>1. HeaderFits(loc.header.num, loc.key) /\ env.gas = loc.tx.gas /\ env.gas <= Allowed
      BY <1>0, <1>3, EstimateRun DEF env
    <3> QED  BY <1>0, <3>1, LimitAssumption
  <2>2. CASE ExecutedLast(env, a) \/ ExecutedLast(env, Failure(r))
    <3>1. a.kind = "error" /\ Failure(r).kind = "error"
      BY ErrorKinds
    <3> HIDE DEF a, r, env
    <3> QED  BY <2>1, <2>2, <3>1, RunsLast
  <2>3. CASE r.code = "Success" /\ Executed(env, IF next.gas < env.gas THEN "second" ELSE "search", l3)
    <3>1. /\ exec.out = "Success" /\ exec.need <= env.gas /\ r.used = exec.used /\ r.refund = exec.refund
          /\ exec.need \in Nat /\ exec.used \in Nat /\ exec.refund \in Nat /\ exec.used <= exec.need
      <4> HIDE DEF env
      <4> QED  BY <2>1, <2>3, EngineRun
    <3>2. gas \in Nat
      <4>1. (r.used + r.refund + CallStipend) * 64 \in Nat
        BY <3>1, LimitAssumption
      <4> QED  BY <4>1, Quotient
    <3>3. next \in RequestType /\ next.gas = gas
          /\ (SameKind(loc.tx) => SameKind(next))
          /\ (\A base : Pays(loc.tx, base) => Pays(next, base))
      <4> HIDE DEF gas
      <4> QED  BY <1>0, <3>2, WithGas
    <3>4. l3 \in Locals /\ l3.tx = next /\ l3.hi = env.gas /\ l3.lo = exec.used - 1 /\ l3.key = loc.key
          /\ l3.header = loc.header
      <4> HIDE DEF next, env, r
      <4>1. l1 \in Locals /\ l1.tx = next /\ l1.key = loc.key /\ l1.header = loc.header
        BY <1>0, <3>3 DEF Locals
      <4> HIDE DEF l1
      <4>2. l2 \in Locals /\ l2.tx = next /\ l2.key = loc.key /\ l2.hi = env.gas /\ l2.header = loc.header
        BY <2>1, <4>1 DEF Locals
      <4> HIDE DEF l2
      <4> QED  BY <3>1, <4>2 DEF Locals
    <3>5. req.m = "fill" => SameKind(loc.tx) /\ Pays(loc.tx, loc.header.base)
      BY <1>0 DEF ExecInv, At
    <3> DEFINE p == IF next.gas < env.gas THEN "second" ELSE "search"
    <3> HIDE DEF l3, next, env, r, gas
    <3>6. Bracketed(l3)
      BY <2>1, <3>1, <3>4, LimitAssumption DEF Bracketed
    <3>7. p \in {"second", "search"} /\ (p = "second" => next.gas \in 0..ProviderEstimate)
      BY <2>1, <3>2, <3>3, LimitAssumption
    <3>8. Executed(env, p, l3)
      BY <2>3
    <3> HIDE DEF p
    <3>9. At(p, l3)
      <4>1. l3.key \in 0..head /\ HeaderFits(l3.header.num, l3.key)
        BY <1>0, <2>1, <3>4
      <4>2. req.m = "fill" => SameKind(l3.tx) /\ Pays(l3.tx, l3.header.base)
        BY <3>3, <3>4, <3>5
      <4> QED  BY <3>4, <3>6, <3>7, <4>1, <4>2 DEF At
    <3> QED  BY <1>0, <2>1, <3>4, <3>7, <3>8, <3>9, Runs DEF SameBlock
  <2> QED  BY <1>1, <1>3, <2>2, <2>3
<1> QED  BY <1>2, <1>3

LEMMA SecondStep ==
  ASSUME ExecInv, req.m \in {"estimate", "fill"}, EstimateSecond
  PROVE  ExecInv'
<1> DEFINE ok == build_tx(loc.tx).ok
           env == build_tx(loc.tx).v
           r == eth_call(env)
           low == [loc EXCEPT !.lo = r.used - 1]
           high == [low EXCEPT !.hi = env.gas]
           raised == [loc EXCEPT !.lo = env.gas]
           l == IF r.code = "Success" THEN high ELSE raised
<1>0. /\ pc = "second" /\ loc \in Locals /\ loc.tx \in RequestType /\ loc.tx.gas \in 0..ProviderEstimate
      /\ loc.key \in 0..head /\ Bracketed(loc)
      /\ req.m = "fill" => SameKind(loc.tx) /\ Pays(loc.tx, loc.header.base)
  <2>1. pc = "second"
    BY DEF EstimateSecond
  <2>2. /\ loc.tx.gas \in 0..ProviderEstimate /\ loc.key \in 0..head /\ Bracketed(loc)
        /\ req.m = "fill" => SameKind(loc.tx) /\ Pays(loc.tx, loc.header.base)
    BY <2>1 DEF ExecInv, At
  <2> QED  BY <2>1, <2>2, Served
<1>1. IF ok THEN Executed(env, "search", l) ELSE \E e : Reject(e)
  BY DEF EstimateSecond, With
<1>2. CASE ~ok
  BY <1>1, <1>2, Rejects
<1>3. CASE ok
  <2>1. /\ HeaderFits(loc.header.num, loc.key) /\ env.gas <= Allowed
        /\ env.gas \in 0..ProviderEstimate /\ env.gas \in Nat
    <3> HIDE DEF env
    <3>1. HeaderFits(loc.header.num, loc.key) /\ env.gas = loc.tx.gas /\ env.gas <= Allowed
      BY <1>0, <1>3, EstimateRun DEF env
    <3> QED  BY <1>0, <3>1, LimitAssumption
  <2>2. /\ exec.need \in Nat /\ exec.used \in Nat /\ exec.used <= exec.need /\ ProviderEstimate \in Nat
        /\ r.code = "Success" => exec.need <= env.gas /\ r.used = exec.used
        /\ r.code # "Success" => env.gas < exec.need
    <3> HIDE DEF env
    <3> QED  BY <1>0, <2>1, EngineRun, LimitAssumption DEF Bracketed
  <2>3. l \in Locals /\ l.tx = loc.tx /\ l.key = loc.key /\ l.header = loc.header /\ Bracketed(l)
    <3> HIDE DEF r, env
    <3>1. CASE r.code = "Success"
      <4>1. low \in Locals /\ low.tx = loc.tx /\ low.key = loc.key /\ low.header = loc.header
            /\ low.lo = exec.used - 1
        BY <1>0, <2>2, <3>1 DEF Locals
      <4> HIDE DEF low
      <4>2. high \in Locals /\ high.tx = loc.tx /\ high.key = loc.key /\ high.header = loc.header
            /\ high.lo = exec.used - 1 /\ high.hi = env.gas
        BY <2>1, <4>1 DEF Locals
      <4> HIDE DEF high
      <4> QED  BY <1>0, <2>1, <2>2, <3>1, <4>2 DEF Bracketed
    <3>2. CASE r.code # "Success"
      <4>1. raised \in Locals /\ raised.tx = loc.tx /\ raised.key = loc.key /\ raised.header = loc.header
            /\ raised.lo = env.gas /\ raised.hi = loc.hi
        BY <1>0, <2>1 DEF Locals
      <4> HIDE DEF raised
      <4> QED  BY <1>0, <2>1, <2>2, <3>2, <4>1 DEF Bracketed
    <3> QED  BY <3>1, <3>2
  <2> HIDE DEF l, env
  <2>4. At("search", l)
    BY <1>0, <2>1, <2>3 DEF At
  <2> QED  BY <1>0, <1>1, <1>3, <2>1, <2>3, <2>4, Runs DEF SameBlock
<1> QED  BY <1>2, <1>3

\* Bounds that are close enough.
LEMMA Close ==
  ASSUME NEW need \in Nat, NEW lo \in Int, NEW hi \in Int, lo < need, need <= hi,
         hi - lo <= 1 \/ (hi - lo) * 1000 < hi * 15
  PROVE  need = hi \/ need * 1000 > hi * 985
  OBVIOUS

LEMMA Middle ==
  ASSUME NEW lo \in Int, NEW hi \in Int, -1 <= lo, ~(hi - lo <= 1)
  PROVE  /\ (hi + lo) \div 2 \in Nat /\ lo < (hi + lo) \div 2 /\ (hi + lo) \div 2 < hi
  OBVIOUS

LEMMA SearchStep ==
  ASSUME ExecInv, req.m \in {"estimate", "fill"}, EstimateSearch
  PROVE  ExecInv'
<1> DEFINE close == loc.hi - loc.lo <= 1 \/ (loc.hi - loc.lo) * 1000 < loc.hi * 15
           mid == (loc.hi + loc.lo) \div 2
           t == [loc.tx EXCEPT !.gas = mid]
           ok == build_tx(t).ok
           env == build_tx(t).v
           less == [loc EXCEPT !.hi = mid]
           more == [loc EXCEPT !.lo = mid]
           lower == [less EXCEPT !.tx = t]
           upper == [more EXCEPT !.tx = t]
           l == IF eth_call(env).code = "Success" THEN lower ELSE upper
<1>0. /\ pc = "search" /\ loc \in Locals /\ loc.tx \in RequestType
      /\ loc.key \in 0..head /\ Bracketed(loc) /\ loc.lo \in Int /\ loc.hi \in Int
      /\ req.m = "fill" => SameKind(loc.tx) /\ Pays(loc.tx, loc.header.base)
  <2>1. pc = "search"
    BY DEF EstimateSearch
  <2>2. /\ loc.key \in 0..head /\ Bracketed(loc)
        /\ req.m = "fill" => SameKind(loc.tx) /\ Pays(loc.tx, loc.header.base)
    BY <2>1 DEF ExecInv, At
  <2>3. loc \in Locals /\ loc.tx \in RequestType
    BY Served
  <2> QED  BY <2>1, <2>2, <2>3 DEF Locals
<1>1. exec.need \in Nat \ {0} /\ ProviderEstimate \in Nat
  BY Served, EngineAssumption, LimitAssumption
<1>2. CASE close
  <2>1. Estimated(loc.tx, loc.hi)
    BY <1>2 DEF EstimateSearch
  <2>2. loc.hi \in Nat \ {0} /\ exec.out = "Success" /\ exec.need <= loc.hi /\ loc.lo < exec.need
    BY <1>0, <1>1 DEF Bracketed
  <2>3. exec.need = loc.hi \/ exec.need * 1000 > loc.hi * 985
    BY <1>0, <1>1, <1>2, <2>2, Close
  <2> QED  BY <1>0, <2>1, <2>2, <2>3, Estimates
<1>3. CASE ~close
  <2>1. IF ok THEN Executed(env, "search", l) ELSE \E e : Reject(e)
    BY <1>3 DEF EstimateSearch, With
  <2>2. mid \in Nat /\ loc.lo < mid /\ mid < loc.hi /\ mid <= ProviderEstimate
    <3>1. mid \in Nat /\ loc.lo < mid /\ mid < loc.hi
      BY <1>0, <1>3, Middle DEF Bracketed
    <3> HIDE DEF mid
    <3> QED  BY <1>0, <1>1, <3>1 DEF Bracketed
  <2> HIDE DEF mid
  <2>3. t \in RequestType /\ t.gas = mid
        /\ (SameKind(loc.tx) => SameKind(t))
        /\ (\A base : Pays(loc.tx, base) => Pays(t, base))
    BY <1>0, <2>2, WithGas
  <2> HIDE DEF t
  <2>4. CASE ~ok
    BY <2>1, <2>4, Rejects
  <2>5. CASE ok
    <3>1. HeaderFits(loc.header.num, loc.key) /\ env.gas = mid /\ env.gas <= Allowed
      BY <1>0, <1>1, <2>2, <2>3, <2>5, EstimateRun
    <3> HIDE DEF env
    <3>2. IF eth_call(env).code = "Success" THEN exec.need <= mid ELSE mid < exec.need
      BY <1>0, <2>2, <3>1, EngineRun DEF Bracketed
    <3>3. l \in Locals /\ l.tx = t /\ l.key = loc.key /\ l.header = loc.header /\ Bracketed(l)
      <4>1. CASE eth_call(env).code = "Success"
        <5>1. less \in Locals /\ less.key = loc.key /\ less.header = loc.header
              /\ less.lo = loc.lo /\ less.hi = mid
          BY <1>0, <2>2 DEF Locals
        <5> HIDE DEF less
        <5>2. lower \in Locals /\ lower.key = loc.key /\ lower.header = loc.header
              /\ lower.lo = loc.lo /\ lower.hi = mid /\ lower.tx = t
          BY <2>3, <5>1 DEF Locals
        <5> HIDE DEF lower
        <5> QED  BY <1>0, <2>2, <3>2, <4>1, <5>2 DEF Bracketed
      <4>2. CASE eth_call(env).code # "Success"
        <5>1. more \in Locals /\ more.key = loc.key /\ more.header = loc.header
              /\ more.lo = mid /\ more.hi = loc.hi
          BY <1>0, <2>2 DEF Locals
        <5> HIDE DEF more
        <5>2. upper \in Locals /\ upper.key = loc.key /\ upper.header = loc.header
              /\ upper.lo = mid /\ upper.hi = loc.hi /\ upper.tx = t
          BY <2>3, <5>1 DEF Locals
        <5> HIDE DEF upper
        <5> QED  BY <1>0, <2>2, <3>2, <4>2, <5>2 DEF Bracketed
      <4> QED  BY <4>1, <4>2
    <3> HIDE DEF l
    <3>4. At("search", l)
      BY <1>0, <2>3, <3>1, <3>3 DEF At
    <3> QED  BY <1>0, <2>1, <2>5, <3>1, <3>3, <3>4, Runs DEF SameBlock
  <2> QED  BY <2>4, <2>5
<1> QED  BY <1>2, <1>3

LEMMA SearchSteps ==
  ASSUME ExecInv, req.m \in {"estimate", "fill"}, estimate_gas_with_builder
  PROVE  ExecInv'
  BY FirstStep, SecondStep, SearchStep DEF estimate_gas_with_builder

-----------------------------------------------------------------------------
(***************************************************************************)
(* eth_estimateGas and eth_fillTransaction.                                *)
(***************************************************************************)
LEMMA EstimateBegins ==
  ASSUME ExecInv, req.m = "estimate", pc = "begin", monad_eth_estimateGas
  PROVE  ExecInv'
<1> DEFINE t == merge_input(req.tx)
           key == get_block_key_from_tag_or_hash(req.ref)
           k == [loc EXCEPT !.key = key]
           l == [k EXCEPT !.tx = t.v]
<1>0. /\ loc \in Locals /\ req.tx \in RequestType /\ req.ref \in References
      /\ log = << >> /\ head \in 1..MaxBlock
  BY Served DEF ExecInv, At
<1>1. \/ \E e : Reject(e)
      \/ t.ok /\ ~(t.v.gas > ProviderEstimate) /\ key # None /\ Goto("header", l)
  BY DEF monad_eth_estimateGas, estimate_gas_with_builder, EstimateFirst, EstimateSecond, EstimateSearch, With
<1>2. CASE t.ok /\ ~(t.v.gas > ProviderEstimate) /\ key # None /\ Goto("header", l)
  <2>1. t.v \in RequestType /\ t.v.gas \in Optional /\ t.v.gas <= ProviderEstimate
    <3>1. t.v \in RequestType
      BY <1>0, <1>2, MergedInput
    <3> HIDE DEF t
    <3> QED  BY <1>2, <3>1, LimitAssumption DEF RequestType, Optional, None
  <2>2. key \in 0..head
    BY <1>0, <1>2, Keys
  <2>3. l \in Locals /\ l.key = key /\ l.tx = t.v
    <3> HIDE DEF key, t
    <3>1. k \in Locals /\ k.key = key
      BY <1>0, <2>2 DEF Locals
    <3> HIDE DEF k
    <3> QED  BY <2>1, <3>1 DEF Locals
  <2> HIDE DEF l, key, t
  <2>4. At("header", l)
    BY <1>0, <2>1, <2>2, <2>3 DEF At
  <2> QED  BY <1>0, <1>2, <2>3, <2>4, GoesTo
<1> QED  BY <1>1, <1>2, Rejects

LEMMA EstimateHeader ==
  ASSUME ExecInv, req.m = "estimate", pc = "header", monad_eth_estimateGas
  PROVE  ExecInv'
<1> DEFINE header == Header(loc.key)
           limit == Smaller(ProviderEstimate, header.limit)
           f == fill_gas_params(loc.tx, loc.key, header, req.over, limit)
           c == check_chain_id(f.v.tx)
           original == OrElse(loc.tx.gas, header.limit)
           l1 == [loc EXCEPT !.tx = c.v]
           l2 == [l1 EXCEPT !.header = f.v.header]
           l3 == [l2 EXCEPT !.original = original]
<1>0. /\ loc \in Locals /\ loc.tx \in RequestType /\ req.over \in Optional
      /\ loc.key \in 0..head /\ head \in 1..MaxBlock /\ loc.tx.gas <= ProviderEstimate
      /\ log = << >>
  <2>1. loc.key \in 0..head /\ loc.tx.gas <= ProviderEstimate /\ log = << >>
    BY DEF ExecInv, At
  <2> QED  BY <2>1, Served
<1>1. \/ \E e : Reject(e)
      \/ f.ok /\ c.ok /\ Goto("transfer", l3)
  BY DEF monad_eth_estimateGas, estimate_gas_with_builder, EstimateFirst, EstimateSecond, EstimateSearch, With
<1>2. CASE f.ok /\ c.ok /\ Goto("transfer", l3)
  <2>1. /\ loc.key \in 0..MaxBlock /\ header \in Headers /\ header.num = loc.key
        /\ limit \in Nat /\ limit <= ProviderEstimate /\ original \in Int
    <3>1. loc.key \in 0..MaxBlock
      BY <1>0, LimitAssumption
    <3>2. header \in Headers /\ header.num = loc.key /\ header.limit \in Nat
      BY <3>1, LimitAssumption DEF Header, Headers
    <3> HIDE DEF header
    <3>3. original \in Int
      BY <1>0, <3>2 DEF OrElse, Optional, None, RequestType
    <3> QED  BY <3>1, <3>2, <3>3, LimitAssumption DEF Smaller
  <2>2. /\ f.v.tx \in RequestType /\ f.v.header \in Headers /\ f.v.header.num = loc.key
        /\ f.v.tx.gas \in 0..ProviderEstimate
    <3> HIDE DEF header, limit
    <3>1. /\ f.v.tx \in RequestType /\ f.v.header \in Headers /\ f.v.header.num = header.num
          /\ f.v.tx.gas \in Nat
          /\ IF loc.tx.gas = None THEN f.v.tx.gas <= limit ELSE f.v.tx.gas = loc.tx.gas
      BY <1>0, <1>2, <2>1, FilledParams
    <3> HIDE DEF f
    <3> QED  BY <1>0, <2>1, <3>1, LimitAssumption
  <2>3. c.v \in RequestType /\ c.v.gas = f.v.tx.gas
    <3> HIDE DEF f
    <3> QED  BY <1>2, <2>2, CheckedChain
  <2>4. l3 \in Locals /\ l3.key = loc.key /\ l3.header = f.v.header /\ l3.tx = c.v
    <3> HIDE DEF c, f, original
    <3>1. l1 \in Locals /\ l1.key = loc.key /\ l1.tx = c.v
      BY <1>0, <2>3 DEF Locals
    <3> HIDE DEF l1
    <3>2. l2 \in Locals /\ l2.key = loc.key /\ l2.tx = c.v /\ l2.header = f.v.header
      BY <2>2, <3>1 DEF Locals
    <3> HIDE DEF l2
    <3> QED  BY <2>1, <3>2 DEF Locals
  <2> HIDE DEF l3, c, f
  <2>5. At("transfer", l3)
    BY <1>0, <2>2, <2>3, <2>4 DEF At, HeaderFits
  <2> QED  BY <1>2, <2>4, <2>5, GoesTo DEF SameBlock
<1> QED  BY <1>1, <1>2, Rejects

LEMMA EstimateTransfer ==
  ASSUME ExecInv, req.m = "estimate", pc = "transfer", monad_eth_estimateGas
  PROVE  ExecInv'
<1> DEFINE t == [loc.tx EXCEPT !.gas = TransferGas]
           env == try_from(t).v
           a == [kind |-> "gas", gas |-> TransferGas]
<1>0. /\ loc \in Locals /\ loc.tx \in RequestType /\ HeaderFits(loc.header.num, loc.key)
      /\ At("first", loc) /\ TransferGas \in Nat \ {0} /\ TransferGas <= ProviderEstimate
  <2>1. HeaderFits(loc.header.num, loc.key) /\ At("first", loc)
    BY DEF ExecInv, At
  <2> QED  BY <2>1, Served, LimitAssumption
<1>1. \/ Goto("first", loc)
      \/ \E e : Reject(e)
      \/ /\ try_from(t).ok
         /\ IF eth_call(env).code = "Success" THEN ExecutedLast(env, a) ELSE Executed(env, "first", loc)
  BY DEF monad_eth_estimateGas, estimate_gas_with_builder, EstimateFirst, EstimateSecond, EstimateSearch, With
<1>2. CASE Goto("first", loc)
  BY <1>0, <1>2, GoesTo DEF SameBlock
<1>3. CASE \E e : Reject(e)
  BY <1>3, Rejects
<1>4. CASE /\ try_from(t).ok
           /\ IF eth_call(env).code = "Success" THEN ExecutedLast(env, a) ELSE Executed(env, "first", loc)
  <2>1. t \in RequestType /\ t.gas = TransferGas
    BY <1>0, WithGas
  <2>2. env.gas = TransferGas /\ env.gas <= Allowed
    <3> HIDE DEF t
    <3>1. env.gas = TransferGas
      BY <1>0, <1>4, <2>1, EnvelopeGas
    <3> QED  BY <1>0, <3>1 DEF Allowed
  <2> HIDE DEF env, t
  <2>3. CASE eth_call(env).code = "Success"
    <3>1. exec.out = "Success" /\ exec.need = TransferGas
      <4>1. exec.out = "Success" /\ exec.need <= env.gas /\ TransferGas <= exec.need /\ exec.need \in Nat
        BY <1>0, <2>2, <2>3, EngineRun
      <4> QED  BY <1>0, <2>2, <4>1
    <3>2. /\ pc' = "done" /\ UNCHANGED <<head, req, exec, loc>> /\ ans' = a
          /\ log' = Append(log, Execution(env))
      BY <1>4, <2>3 DEF ExecutedLast
    <3>3. a.kind = "gas" /\ a.gas = TransferGas
      OBVIOUS
    <3> HIDE DEF a
    <3>4. EstimateExact' /\ FilledSignable'
      BY <1>0, <3>1, <3>2, <3>3 DEF EstimateExact, FilledSignable
    <3> QED  BY <1>0, <2>2, <3>2, <3>4, RunOnBlock, Ends
  <2>4. CASE eth_call(env).code # "Success"
    BY <1>0, <1>4, <2>2, <2>4, Runs DEF SameBlock
  <2> QED  BY <2>3, <2>4
<1> QED  BY <1>1, <1>2, <1>3, <1>4

LEMMA EstimateStep ==
  ASSUME ExecInv, req.m = "estimate", monad_eth_estimateGas
  PROVE  ExecInv'
<1>1. pc \in {"begin", "header", "transfer"} \/ estimate_gas_with_builder
  BY DEF monad_eth_estimateGas
<1> QED  BY <1>1, EstimateBegins, EstimateHeader, EstimateTransfer, SearchSteps

LEMMA FillBegins ==
  ASSUME ExecInv, req.m = "fill", pc = "begin", monad_eth_fillTransaction
  PROVE  ExecInv'
<1> DEFINE n == normalize_fill_transaction_request(req.tx)
           t1 == [n.v EXCEPT !.value = OrElse(n.v.value, 0)]
           t2 == [t1 EXCEPT !.chain = ChainId]
           l == [loc EXCEPT !.tx = t2]
<1>0. loc \in Locals /\ req.tx \in RequestType /\ log = << >>
  BY Served DEF ExecInv, At
<1>1. \/ \E e : Reject(e)
      \/ n.ok /\ Goto("header", l)
  BY DEF monad_eth_fillTransaction, estimate_gas_with_builder, EstimateFirst, EstimateSecond, EstimateSearch, With
<1>2. CASE n.ok /\ Goto("header", l)
  <2>1. n.v \in RequestType /\ Normalized(n.v)
    BY <1>0, <1>2, NormalizedRequest
  <2> HIDE DEF n
  <2>2. t1 \in RequestType /\ Kept(t1, n.v) /\ t1.gas = n.v.gas /\ t1.cap = n.v.cap
    BY <2>1 DEF RequestType, Optional, OrElse, None, Kept
  <2> HIDE DEF t1
  <2>3. t2 \in RequestType /\ Kept(t2, t1) /\ t2.gas = t1.gas /\ t2.cap = t1.cap
    BY <2>2, WidthAssumption DEF RequestType, Optional, Kept
  <2> HIDE DEF t2
  <2>4. Normalized(t2)
    BY <2>1, <2>2, <2>3 DEF Normalized, SameKind, Kept, Expected
  <2>5. l \in Locals /\ l.tx = t2 /\ l.key = loc.key
    BY <1>0, <2>3 DEF Locals
  <2> HIDE DEF l
  <2>6. At("header", l)
    BY <1>0, <2>4, <2>5 DEF At
  <2> QED  BY <1>0, <1>2, <2>5, <2>6, GoesTo
<1> QED  BY <1>1, <1>2, Rejects

LEMMA FillHeader ==
  ASSUME ExecInv, req.m = "fill", pc = "header", monad_eth_fillTransaction
  PROVE  ExecInv'
<1>0. loc \in Locals /\ log = << >> /\ Normalized(loc.tx)
  BY Served DEF ExecInv, At
<1>a. PICK n \in get_block_header(Latest) :
        IF n = None THEN Reject("block_not_found") ELSE Goto("key", [loc EXCEPT !.header = Header(n)])
  BY DEF monad_eth_fillTransaction, estimate_gas_with_builder, EstimateFirst, EstimateSecond, EstimateSearch
<1>b. CASE n = None
  BY <1>a, <1>b, Rejects
<1>c. SUFFICES ASSUME n # None PROVE ExecInv'
  BY <1>b
<1> DEFINE header == Header(n)
           l == [loc EXCEPT !.header = header]
<1>1. Goto("key", l)
  BY <1>a, <1>c
<1>2. header \in Headers
  BY <1>a, <1>c, LimitAssumption DEF get_block_header, Header, Headers
<1> HIDE DEF header
<1>3. l \in Locals /\ l.tx = loc.tx /\ l.key = loc.key /\ l.header = header
  BY <1>0, <1>2 DEF Locals
<1> HIDE DEF l
<1>4. At("key", l)
  BY <1>0, <1>2, <1>3 DEF At
<1> QED  BY <1>0, <1>1, <1>3, <1>4, GoesTo

LEMMA FillKey ==
  ASSUME ExecInv, req.m = "fill", pc = "key", monad_eth_fillTransaction
  PROVE  ExecInv'
<1> DEFINE key == get_block_key_from_tag_or_hash(Latest)
           l == [loc EXCEPT !.key = key]
<1>0. loc \in Locals /\ log = << >> /\ Normalized(loc.tx) /\ head \in 1..MaxBlock
  BY Served DEF ExecInv, At
<1>1. Goto("nonce", l)
  BY DEF monad_eth_fillTransaction, estimate_gas_with_builder, EstimateFirst, EstimateSecond, EstimateSearch
<1>2. key = head
  BY DEF get_block_key_from_tag_or_hash, Latest, FinalizedTag
<1> HIDE DEF key
<1>3. l \in Locals /\ l.tx = loc.tx /\ l.key = head /\ l.header = loc.header
  BY <1>0, <1>2 DEF Locals
<1> HIDE DEF l
<1>4. At("nonce", l)
  BY <1>0, <1>3 DEF At, HeaderFits
<1> QED  BY <1>0, <1>1, <1>3, <1>4, GoesTo

LEMMA FillNonce ==
  ASSUME ExecInv, req.m = "fill", pc = "nonce", monad_eth_fillTransaction
  PROVE  ExecInv'
<1> DEFINE base == loc.header.base
           nonce == OrElse(loc.tx.nonce, loc.key)
           tx == [loc.tx EXCEPT !.nonce = nonce]
           fill == IF tx.legacy THEN base ELSE Smaller(3 * base, U256Max) \div 2
           f == fill_transaction_gas_price_details(tx, base, fill, IF tx.legacy THEN 0 ELSE TipSuggestion)
           t == f.v
           gas == Smaller(ProviderEstimate, loc.header.limit)
           u == [t EXCEPT !.gas = gas]
           l1 == [loc EXCEPT !.tx = u]
           l2 == [l1 EXCEPT !.original = loc.header.limit]
<1>0. /\ loc \in Locals /\ loc.tx \in RequestType /\ log = << >> /\ Normalized(loc.tx) /\ loc.key \in 0..head
      /\ HeaderFits(loc.header.num, loc.key) /\ loc.header \in Headers /\ req.tx \in RequestType
  <2>1. log = << >> /\ Normalized(loc.tx) /\ loc.key \in 0..head /\ HeaderFits(loc.header.num, loc.key)
    BY DEF ExecInv, At
  <2> QED  BY <2>1, Served
<1>1. \/ \E e : Reject(e)
      \/ f.ok /\ IF t.gas # None THEN Estimated(t, t.gas) ELSE Goto("first", l2)
  BY DEF monad_eth_fillTransaction, estimate_gas_with_builder, EstimateFirst, EstimateSecond, EstimateSearch, With
<1>2. CASE f.ok /\ IF t.gas # None THEN Estimated(t, t.gas) ELSE Goto("first", l2)
  <2>1. tx \in RequestType /\ Normalized(tx)
    <3>1. nonce \in Optional
      BY <1>0, Served DEF RequestType, Optional, OrElse, None
    <3> HIDE DEF nonce
    <3>2. tx \in RequestType /\ Kept(tx, loc.tx) /\ tx.gas = loc.tx.gas /\ tx.cap = loc.tx.cap
      BY <1>0, <3>1 DEF RequestType, Kept
    <3> HIDE DEF tx
    <3> QED  BY <1>0, <3>2 DEF Normalized, SameKind, Kept, Expected
  <2> HIDE DEF tx
  <2>2. base \in 0..U64Max /\ loc.header.limit \in Nat /\ ProviderEstimate \in Nat
    BY <1>0, LimitAssumption DEF Headers
  <2>3. t \in RequestType /\ t.gas = tx.gas /\ SameKind(t) /\ Pays(t, base)
    <3> HIDE DEF base
    <3> QED  BY <1>0, <1>2, <2>1, <2>2, Prices
  <2> HIDE DEF t, f
  <2>4. CASE t.gas # None
    <3>1. t.gas \in Nat \ {0}
      BY <2>1, <2>3, <2>4 DEF Normalized, RequestType, Optional
    <3> QED  BY <1>0, <1>2, <2>3, <2>4, <3>1, Estimates
  <2>5. CASE t.gas = None
    <3>1. gas \in 0..ProviderEstimate /\ gas \in Nat
      BY <2>2 DEF Smaller
    <3> HIDE DEF gas
    <3>2. u \in RequestType /\ u.gas = gas /\ SameKind(u) /\ Pays(u, base)
      BY <2>3, <3>1, WithGas
    <3> HIDE DEF u
    <3>3. l1 \in Locals /\ l1.key = loc.key /\ l1.tx = u /\ l1.header = loc.header
      BY <1>0, <3>2 DEF Locals
    <3> HIDE DEF l1
    <3>4. l2 \in Locals /\ l2.key = loc.key /\ l2.tx = u /\ l2.header = loc.header
      BY <2>2, <3>3 DEF Locals
    <3> HIDE DEF l2
    <3>5. At("first", l2)
      BY <1>0, <3>1, <3>2, <3>4 DEF At
    <3> QED  BY <1>0, <1>2, <2>5, <3>4, <3>5, GoesTo
  <2> QED  BY <2>4, <2>5
<1> QED  BY <1>1, <1>2, Rejects

LEMMA FillStep ==
  ASSUME ExecInv, req.m = "fill", monad_eth_fillTransaction
  PROVE  ExecInv'
<1>1. pc \in {"begin", "header", "key", "nonce"} \/ estimate_gas_with_builder
  BY DEF monad_eth_fillTransaction
<1> QED  BY <1>1, FillBegins, FillHeader, FillKey, FillNonce, SearchSteps

-----------------------------------------------------------------------------
(***************************************************************************)
(* eth_simulateV1, replayed traces, eth_gasPrice and eth_feeHistory.       *)
(***************************************************************************)
LEMMA SimulateBegins ==
  ASSUME ExecInv, req.m = "simulate", pc = "begin", monad_simulate_v1
  PROVE  ExecInv'
<1> DEFINE key == get_block_key_from_tag_or_hash(req.ref)
           l == [loc EXCEPT !.key = key]
<1>0. loc \in Locals /\ req.ref \in References /\ log = << >>
  BY Served, RequestAssumption DEF ExecInv, At
<1>1. \/ \E e : Reject(e)
      \/ key # None /\ Goto("header", l)
  BY DEF monad_simulate_v1
<1>2. CASE key # None /\ Goto("header", l)
  <2>1. key \in 0..head
    BY <1>0, <1>2, Keys
  <2> HIDE DEF key
  <2>2. l \in Locals /\ l.key = key
    BY <1>0, <2>1 DEF Locals
  <2> HIDE DEF l
  <2>3. At("header", l)
    BY <1>0, <2>1, <2>2 DEF At
  <2> QED  BY <1>0, <1>2, <2>2, <2>3, GoesTo
<1> QED  BY <1>1, <1>2, Rejects

LEMMA SimulateHeader ==
  ASSUME ExecInv, req.m = "simulate", pc = "header", monad_simulate_v1
  PROVE  ExecInv'
<1> DEFINE merged == \A b \in DOMAIN req.blocks : \A i \in DOMAIN req.blocks[b] : merge_input(req.blocks[b][i]).ok
           f == SimulateFill(loc.key)
           header == Header(loc.key)
           l1 == [loc EXCEPT !.header = header]
           l2 == [l1 EXCEPT !.original = f.v.gas]
<1>0. /\ loc \in Locals /\ log = << >> /\ loc.key \in 0..head /\ head \in 1..MaxBlock
      /\ req.blocks \in Seq(Seq(RequestType)) /\ req.over \in Optional
  <2>1. log = << >> /\ loc.key \in 0..head
    BY DEF ExecInv, At
  <2> QED  BY <2>1, Served, RequestAssumption
<1>1. \/ \E e : Reject(e)
      \/ merged /\ f.ok /\ Goto("execute", l2)
  BY DEF monad_simulate_v1, With
<1>2. CASE merged /\ f.ok /\ Goto("execute", l2)
  <2>1. loc.key \in 0..MaxBlock
    BY <1>0, LimitAssumption
  <2>2. FillGood(f)
    BY <1>0, <1>2, <2>1, SimulationFilled
  <2> HIDE DEF f
  <2>3. f.v.gas \in 0..ProviderSimulate
    BY <1>2, <2>2 DEF FillGood
  <2>4. header \in Headers /\ header.num = loc.key
    BY <2>1, LimitAssumption DEF Header, Headers
  <2> HIDE DEF header
  <2>5. l1 \in Locals /\ l1.key = loc.key /\ l1.header = header
    BY <1>0, <2>4 DEF Locals
  <2> HIDE DEF l1
  <2>6. l2 \in Locals /\ l2.key = loc.key /\ l2.header = header /\ l2.original \in 0..ProviderSimulate
    BY <2>3, <2>5 DEF Locals
  <2> HIDE DEF l2
  <2>7. At("execute", l2)
    BY <1>0, <2>4, <2>6 DEF At, HeaderFits
  <2> QED  BY <1>0, <1>2, <2>6, <2>7, GoesTo
<1> QED  BY <1>1, <1>2, Rejects

LEMMA SimulateStep ==
  ASSUME ExecInv, req.m = "simulate", monad_simulate_v1
  PROVE  ExecInv'
<1>1. CASE pc = "execute"
  <2> DEFINE env == [gas |-> loc.original, list |-> {}]
             a == IF exec.out = "OtherError" THEN [kind |-> "error", err |-> "simulate_error"] ELSE [kind |-> "output"]
  <2>1. (\E e : Reject(e)) \/ ExecutedLast(env, a)
    BY <1>1 DEF monad_simulate_v1
  <2>2. a.kind \in {"error", "output"} /\ env.gas = loc.original
    OBVIOUS
  <2>3. HeaderFits(loc.header.num, loc.key) /\ loc.original <= ProviderSimulate
    BY <1>1 DEF ExecInv, At
  <2>4. env.gas <= Allowed
    BY <2>2, <2>3 DEF Allowed
  <2> HIDE DEF a, env
  <2> QED  BY <2>1, <2>2, <2>3, <2>4, RunsLast, Rejects
<1>2. pc \in {"begin", "header", "execute"}
  BY DEF monad_simulate_v1
<1> QED  BY <1>1, <1>2, SimulateBegins, SimulateHeader

LEMMA ReplayStep ==
  ASSUME ExecInv, req.m = "replay", monad_debug_trace_replay
  PROVE  ExecInv'
<1>0. loc \in Locals /\ req.ref \in Nat
  BY Served, RequestAssumption
<1>1. CASE pc = "begin"
  <2> DEFINE ref == IF req.hashed THEN Latest ELSE req.ref
             key == get_block_key_from_tag_or_hash(ref)
             l == [loc EXCEPT !.key = key]
  <2>1. \/ \E e : Reject(e)
        \/ key # None /\ Goto("locate", l)
    BY <1>1 DEF monad_debug_trace_replay
  <2>2. log = << >> /\ ref \in References
    BY <1>0, <1>1 DEF ExecInv, At, References
  <2>3. CASE key # None /\ Goto("locate", l)
    <3>1. key \in 0..head
      <4> HIDE DEF ref
      <4> QED  BY <2>2, <2>3, Keys
    <3> HIDE DEF key
    <3>2. l \in Locals /\ l.key = key
      BY <1>0, <3>1 DEF Locals
    <3> HIDE DEF l
    <3>3. At("locate", l)
      BY <2>2, <3>1, <3>2 DEF At
    <3> QED  BY <1>1, <2>2, <2>3, <3>2, <3>3, GoesTo
  <2> QED  BY <2>1, <2>3, Rejects
<1>2. CASE pc = "locate"
  <2> DEFINE key == IF req.hashed THEN req.ref ELSE loc.key
             l == [loc EXCEPT !.key = key]
  <2>1. \/ \E e : Reject(e)
        \/ Goto("replay", l)
    BY <1>2 DEF monad_debug_trace_replay
  <2>2. log = << >> /\ key \in Int
    BY <1>0, <1>2 DEF ExecInv, At, Locals
  <2> HIDE DEF key
  <2>3. l \in Locals
    BY <1>0, <2>2 DEF Locals
  <2> HIDE DEF l
  <2>4. At("replay", l)
    BY DEF At
  <2> QED  BY <1>2, <2>1, <2>2, <2>3, <2>4, GoesTo, Rejects
<1>3. CASE pc = "replay"
  <2> DEFINE run == [key |-> loc.key, num |-> loc.key, gas |-> 0, list |-> {}]
             a == IF exec.out = "OtherError" THEN [kind |-> "error", err |-> "eth_call_error"]
                  ELSE IF Len(req.frames) > MaxResponse THEN [kind |-> "error", err |-> "response_too_large"]
                  ELSE [kind |-> "output"]
  <2>1. \/ \E e : Reject(e)
        \/ pc' = "done" /\ log' = Append(log, run) /\ ans' = a /\ UNCHANGED <<head, req, exec, loc>>
    BY <1>3 DEF monad_debug_trace_replay
  <2>2. RunFits(run, loc)
    BY LimitAssumption DEF RunFits, Allowed
  <2>3. a.kind \in {"error", "output"}
    OBVIOUS
  <2> HIDE DEF run, a
  <2>4. CASE pc' = "done" /\ log' = Append(log, run) /\ ans' = a /\ UNCHANGED <<head, req, exec, loc>>
    <3>1. EstimateExact' /\ FilledSignable'
      BY <2>3, <2>4 DEF EstimateExact, FilledSignable
    <3> QED  BY <2>2, <2>4, <3>1, Ends
  <2> QED  BY <2>1, <2>4, Rejects
<1> QED  BY <1>1, <1>2, <1>3 DEF monad_debug_trace_replay

LEMMA GasPriceStep ==
  ASSUME ExecInv, monad_eth_gasPrice
  PROVE  ExecInv'
<1> DEFINE a(n) == [kind |-> "price", price |-> Smaller(BaseFee[n] + TipSuggestion, U64Max)]
<1>1. (\E e : Reject(e)) \/ \E n : Answer(a(n))
  BY DEF monad_eth_gasPrice
<1>2. \A n : a(n).kind = "price"
  OBVIOUS
<1> HIDE DEF a
<1> QED  BY <1>1, <1>2, Answers, Rejects

LEMMA FeeHistoryStep ==
  ASSUME ExecInv, req.m = "feeHistory", monad_eth_feeHistory
  PROVE  ExecInv'
<1>1. CASE pc = "begin"
  <2> DEFINE none == [kind |-> "history", oldest |-> 0, base |-> << >>, rewards |-> << >>]
             first(n) == Larger(n - (req.count - 1), 0)
             l1(n) == [loc EXCEPT !.key = n]
             l2(n) == [l1(n) EXCEPT !.lo = first(n)]
  <2>0. loc \in Locals /\ req.ref \in References /\ req.count \in Nat /\ log = << >>
    BY <1>1, Served, RequestAssumption DEF ExecInv, At
  <2>1. \/ \E e : Reject(e)
        \/ Answer(none)
        \/ \E n \in get_block_header(req.ref) : n # None /\ Goto("blocks", l2(n))
    BY <1>1 DEF monad_eth_feeHistory
  <2>2. CASE Answer(none)
    <3>1. none.kind = "history"
      OBVIOUS
    <3> HIDE DEF none
    <3> QED  BY <2>2, <3>1, Answers
  <2>3. CASE \E n \in get_block_header(req.ref) : n # None /\ Goto("blocks", l2(n))
    <3>0. PICK n \in get_block_header(req.ref) : n # None /\ Goto("blocks", l2(n))
      BY <2>3
    <3>1. n \in Int
      BY <3>0 DEF get_block_header
    <3>2. first(n) \in Int
      BY <2>0, <3>1 DEF Larger
    <3> HIDE DEF first
    <3>3. l1(n) \in Locals
      BY <2>0, <3>1 DEF Locals
    <3> HIDE DEF l1
    <3>4. l2(n) \in Locals
      BY <3>2, <3>3 DEF Locals
    <3> HIDE DEF l2
    <3>5. At("blocks", l2(n))
      BY DEF At
    <3> QED  BY <1>1, <2>0, <3>0, <3>4, <3>5, GoesTo
  <2> QED  BY <2>1, <2>2, <2>3, Rejects
<1>2. CASE pc = "blocks"
  <2>1. Goto("next", loc) \/ \E e : Reject(e)
    BY <1>2 DEF monad_eth_feeHistory
  <2>2. At("next", loc)
    BY DEF At
  <2> QED  BY <1>2, <2>1, <2>2, Served, GoesTo, Rejects DEF SameBlock
<1>3. CASE pc = "next"
  <2> DEFINE range == [i \in 1..loc.key - loc.lo + 1 |-> loc.lo + i - 1]
             Rewards(b) == calculate_fee_history_rewards(BlockTxs[b], BaseFee[b], req.percentiles)
             base(next) == Append([i \in DOMAIN range |-> BaseFee[range[i]]], next)
             rewards == IF req.percentiles = << >> THEN << >> ELSE [i \in DOMAIN range |-> Rewards(range[i])]
             a(next) == [kind |-> "history", oldest |-> loc.lo, base |-> base(next), rewards |-> rewards]
  <2>1. (\E e : Reject(e)) \/ \E next : Answer(a(next))
    BY <1>3, Zenon DEF monad_eth_feeHistory
  <2> HIDE DEF rewards, base
  <2>2. \A next : a(next).kind = "history"
    OBVIOUS
  <2> HIDE DEF a
  <2> QED  BY <2>1, <2>2, Answers, Rejects
<1> QED  BY <1>1, <1>2, <1>3 DEF monad_eth_feeHistory

-----------------------------------------------------------------------------
LEMMA ExecStarts ==
  ASSUME ExecutionInit
  PROVE  ExecInv
<1>0. /\ head = 2 /\ req \in Requests /\ exec \in Executors /\ pc = "begin" /\ loc = Fresh
      /\ log = << >> /\ ans = [kind |-> "none"]
  BY DEF ExecutionInit
<1>1. Header(0) \in Headers
  BY LimitAssumption DEF Header, Headers
<1>2. CallRequest \in RequestType
  BY DEF CallRequest, RequestType, Optional, None
<1>3. Fresh \in Locals
  <2>1. None \in Int
    BY DEF None
  <2> QED  BY <1>1, <1>2, <2>1 DEF Fresh, Locals
<1>4. LocalsInv
  BY <1>0, <1>3, LimitAssumption DEF LocalsInv, Locals
<1>5. RunsFit(log, loc)
  <2>1. << >> \in Seq({}) /\ Len(<< >>) = 0
    BY EmptySeq
  <2> QED  BY <1>0, <2>1 DEF RunsFit
<1>6. At(pc, loc)
  BY <1>0 DEF At
<1>7. EstimateExact /\ FilledSignable
  BY <1>0 DEF EstimateExact, FilledSignable
<1> QED  BY <1>4, <1>5, <1>6, <1>7 DEF ExecInv

\* The chain grows while a request is served.
LEMMA ChainGrows ==
  ASSUME ExecInv, Advance
  PROVE  ExecInv'
<1>1. /\ head' = head + 1 /\ head < MaxBlock /\ UNCHANGED <<req, exec, pc, loc, log, ans>>
      /\ head \in 1..MaxBlock
  BY DEF Advance, ExecInv, LocalsInv
<1>2. LocalsInv'
  BY <1>1, LimitAssumption DEF ExecInv, LocalsInv
<1>3. RunsFit(log, loc)'
  BY <1>1 DEF ExecInv, RunsFit, RunFits, Allowed
<1>4. loc.key \in 0..head => loc.key \in 0..head'
  BY <1>1
<1>5. At(pc, loc)'
  <2>1. At(pc, loc)
    BY DEF ExecInv
  <2> QED  BY <1>1, <1>4, <2>1 DEF At, HeaderFits, Bracketed, Normalized, SameKind, Expected, Pays
<1>6. (EstimateExact /\ FilledSignable)'
  BY <1>1 DEF ExecInv, EstimateExact, FilledSignable
<1> QED  BY <1>2, <1>3, <1>5, <1>6 DEF ExecInv

LEMMA Unchanged ==
  ASSUME ExecInv, UNCHANGED executionVars
  PROVE  ExecInv'
<1>1. UNCHANGED <<head, req, exec, pc, loc, log, ans>>
  BY DEF executionVars
<1>2. LocalsInv'
  BY <1>1 DEF ExecInv, LocalsInv
<1>3. RunsFit(log, loc)'
  BY <1>1 DEF ExecInv, RunsFit, RunFits, Allowed
<1>4. At(pc, loc)'
  BY <1>1 DEF ExecInv, At, HeaderFits, Bracketed, Normalized, SameKind, Expected, Pays
<1>5. (EstimateExact /\ FilledSignable)'
  BY <1>1 DEF ExecInv, EstimateExact, FilledSignable
<1> QED  BY <1>2, <1>3, <1>4, <1>5 DEF ExecInv

LEMMA ExecSteps ==
  ASSUME ExecInv, [ExecutionNext]_executionVars
  PROVE  ExecInv'
<1>1. CASE UNCHANGED executionVars \/ Done
  BY <1>1, Unchanged DEF Done
<1>2. CASE Advance
  BY <1>2, ChainGrows
<1>3. CASE req.m = "call" /\ monad_eth_call
  BY <1>3, CallStep
<1>4. CASE req.m = "trace" /\ monad_debug_traceCall
  BY <1>4, TraceCallStep
<1>5. CASE req.m = "traceBlock" /\ monad_debug_traceBlock
  BY <1>5, TraceBlockStep
<1>6. CASE req.m = "accessList" /\ monad_createAccessList
  BY <1>6, AccessListStep
<1>7. CASE req.m = "estimate" /\ monad_eth_estimateGas
  BY <1>7, EstimateStep
<1>8. CASE req.m = "fill" /\ monad_eth_fillTransaction
  BY <1>8, FillStep
<1>9. CASE req.m = "simulate" /\ monad_simulate_v1
  BY <1>9, SimulateStep
<1>10. CASE req.m = "replay" /\ monad_debug_trace_replay
  BY <1>10, ReplayStep
<1>11. CASE req.m = "gasPrice" /\ monad_eth_gasPrice
  BY <1>11, GasPriceStep
<1>12. CASE req.m = "feeHistory" /\ monad_eth_feeHistory
  BY <1>12, FeeHistoryStep
<1> QED  BY <1>1, <1>2, <1>3, <1>4, <1>5, <1>6, <1>7, <1>8, <1>9, <1>10, <1>11, <1>12 DEF ExecutionNext

LEMMA ExecImplies ==
  ASSUME ExecInv
  PROVE  PinnedBlock
<1>1. PICK S : log \in Seq(S)
  BY DEF ExecInv, RunsFit
<1>2. DOMAIN log = 1..Len(log) /\ Len(log) \in Nat
  BY <1>1, LenProperties
<1>3. ASSUME NEW i \in DOMAIN log
      PROVE  /\ log[i].key = log[1].key /\ log[i].num = log[1].num
             /\ HeaderFits(log[i].num, log[i].key) /\ log[i].gas <= Allowed
  <2>1. 1 \in 1..Len(log) /\ i \in 1..Len(log)
    BY <1>2, <1>3
  <2> QED  BY <2>1 DEF ExecInv, RunsFit, RunFits, HeaderFits
<1> QED  BY <1>3 DEF PinnedBlock, HeaderFits, Allowed

\* All runs of a request are on one block, with one header and within the gas
\* the provider allows, whatever blocks arrive meanwhile; the header is that of
\* the block except for eth_fillTransaction, whose header may come from a
\* buffer that is ahead of triedb or behind it.
THEOREM RunsPinned == ExecutionSpec => []PinnedBlock
<1>1. ExecutionInit => ExecInv
  BY ExecStarts
<1>2. ExecInv /\ [ExecutionNext]_executionVars => ExecInv'
  BY ExecSteps
<1>3. ExecInv => PinnedBlock
  BY ExecImplies
<1> QED  BY <1>1, <1>2, <1>3, PTL DEF ExecutionSpec

\* The gas that eth_estimateGas and eth_fillTransaction answer with after runs
\* suffices, and is within 1.5 percent of the least that does.
THEOREM EstimatesExact == ExecutionSpec => []EstimateExact
<1>1. ExecutionInit => ExecInv
  BY ExecStarts
<1>2. ExecInv /\ [ExecutionNext]_executionVars => ExecInv'
  BY ExecSteps
<1>3. ExecInv => EstimateExact
  BY DEF ExecInv
<1> QED  BY <1>1, <1>2, <1>3, PTL DEF ExecutionSpec

\* What eth_fillTransaction answers with can be signed and pays the base fee
\* it saw, with the caps and the list that the user gave.
THEOREM FilledIsSignable == ExecutionSpec => []FilledSignable
<1>1. ExecutionInit => ExecInv
  BY ExecStarts
<1>2. ExecInv /\ [ExecutionNext]_executionVars => ExecInv'
  BY ExecSteps
<1>3. ExecInv => FilledSignable
  BY DEF ExecInv
<1> QED  BY <1>1, <1>2, <1>3, PTL DEF ExecutionSpec
=============================================================================
