------------------------- MODULE EventClientsProofs -------------------------
(***************************************************************************)
(* Proofs about the clients of the event server: what sessions have been   *)
(* told, how they are counted, and that a request waiting for a receipt    *)
(* has not read past it.                                                   *)
(***************************************************************************)
EXTENDS EventClients, FiniteSetTheorems, TLAPS

-----------------------------------------------------------------------------
(* Types. *)
Event == {Gap} \cup [state : {"proposed", "finalized"}, block : Block, txs : SUBSET Tx]
Filters == Filter \cup {NoFilter}
Batch == {Notifications(t, e) : t \in [kind : Kind, filter : Filters], e \in Event}
Sub == [id : Nat, kind : Kind, filter : Filters, since : Nat, sent : Seq(Batch)]
OpenSession == [stage : {"listening", "calling"}, pos : Nat, subs : Seq(Sub), beat : Nat]
Pending == [stage : {"submitting", "submitted", "waiting"}, tx : Tx, pos : Nat, submitted : Nat]
Ended == [stage : {"answered"}, tx : Tx, answer : {"refused", "overloaded", "receipt", "timeout"}]

ServerType ==
  /\ log \in Seq(Event)
  /\ pool \subseteq Tx
  /\ commit \in [Block -> [state : {"none", "proposed", "finalized"}, txs : SUBSET Tx]]
SessionType ==
  /\ session \in [Session -> {Closed} \cup OpenSession]
  /\ freePermits \in Int
  /\ metrics \in [connections : Int, topics : Int]
  /\ messages \in Nat
WaiterType == waiter \in [Waiter -> {Free} \cup Pending \cup Ended]

(* What a subscription of a session that has read up to pos has been sent. *)
Told(sub, pos) ==
  /\ sub.since <= pos
  /\ Len(sub.sent) = pos - sub.since
  /\ \A k \in 1..Len(sub.sent) :
       /\ log[sub.since + k] # Gap
       /\ sub.sent[k] = Notifications(sub, log[sub.since + k])
SessionTold(r) ==
  r # Closed => /\ r.pos <= Len(log)
                /\ \A i \in 1..Len(r.subs) : Told(r.subs[i], r.pos)
SessionsTold == \A s \in Session : SessionTold(session[s])

(* What a request that waits has read. *)
Unread(r) ==
  /\ r.pos <= Len(log) /\ r.submitted <= Len(log)
  /\ r.stage \in {"submitting", "submitted"} => r.pos <= r.submitted
  /\ r.stage = "waiting" =>
       \A k \in r.submitted + 1..r.pos :
         log[k] # Gap /\ ~(log[k].state = "proposed" /\ r.tx \in log[k].txs)
WaitersUnread == \A w \in Waiter : waiter[w] \in Pending => Unread(waiter[w])

TypeInv == ServerType /\ SessionType /\ WaiterType
ClientsInv == TypeInv /\ SessionsTold /\ SessionsCounted /\ WaitersUnread

-----------------------------------------------------------------------------
(* Notifications depend on the kind and the filter of a subscription. *)
LEMMA SameTopic ==
  ASSUME NEW x, NEW y, NEW e, x.kind = y.kind, x.filter = y.filter
  PROVE  Notifications(x, e) = Notifications(y, e)
BY DEF Notifications

LEMMA BatchOfSub ==
  ASSUME NEW x \in Sub, NEW e \in Event
  PROVE  Notifications(x, e) \in Batch
<1>1. PICK t : t = [kind |-> x.kind, filter |-> x.filter]
  OBVIOUS
<1>2. t \in [kind : Kind, filter : Filters] /\ t.kind = x.kind /\ t.filter = x.filter
  BY <1>1 DEF Sub
<1>3. Notifications(t, e) = Notifications(x, e)
  BY <1>2, SameTopic
<1>. QED
  BY <1>2, <1>3 DEF Batch

(* An open session is a record, and no record of an open session is        *)
(* Closed.                                                                 *)
LEMMA OpenIsSession ==
  ASSUME NEW r \in {Closed} \cup OpenSession
  PROVE  /\ r.stage # "closed" <=> r \in OpenSession
         /\ r # Closed <=> r \in OpenSession
<1>1. Closed.stage = "closed"
  BY DEF Closed
<1>2. \A q \in OpenSession : q.stage \in {"listening", "calling"}
  BY DEF OpenSession
<1>3. \A q \in OpenSession : q.stage # "closed" /\ q # Closed
  BY <1>1, <1>2
<1>. QED
  BY <1>1, <1>3

(* Appending to the log leaves what was read of it as it was. *)
LEMMA LogGrows ==
  ASSUME TypeInv, SessionsTold, WaitersUnread, NEW e \in Event, log' = Append(log, e),
         UNCHANGED <<session, waiter>>
  PROVE  SessionsTold' /\ WaitersUnread'
<1>1. /\ Len(log') = Len(log) + 1 /\ Len(log) \in Nat
      /\ \A k \in 1..Len(log) : log'[k] = log[k]
  BY DEF TypeInv, ServerType
<1>2. ASSUME NEW s \in Session PROVE SessionTold(session[s])'
  <2>1. SUFFICES ASSUME session[s] \in OpenSession
                 PROVE  /\ session[s].pos <= Len(log')
                        /\ \A i \in 1..Len(session[s].subs) : Told(session[s].subs[i], session[s].pos)'
    BY OpenIsSession DEF SessionTold, TypeInv, SessionType
  <2>2. SessionTold(session[s]) /\ session[s] # Closed
    BY <2>1, OpenIsSession DEF SessionsTold
  <2>3. session[s].pos \in Nat /\ session[s].pos <= Len(log) /\ session[s].subs \in Seq(Sub)
    BY <2>1, <2>2 DEF SessionTold, OpenSession
  <2>4. ASSUME NEW i \in 1..Len(session[s].subs) PROVE Told(session[s].subs[i], session[s].pos)'
    <3>1. PICK sub \in Sub : sub = session[s].subs[i]
      BY <2>3
    <3>2. PICK pos \in Nat : pos = session[s].pos
      BY <2>3
    <3>3. Told(sub, pos) /\ sub.since \in Nat /\ sub.sent \in Seq(Batch) /\ pos <= Len(log)
      BY <2>2, <2>3, <3>1, <3>2 DEF SessionTold, Sub
    <3>4. \A k \in 1..Len(sub.sent) : sub.since + k \in 1..Len(log)
      BY <1>1, <3>3 DEF Told
    <3>5. \A k \in 1..Len(sub.sent) : log'[sub.since + k] = log[sub.since + k]
      BY <1>1, <3>4
    <3>. QED
      BY <3>1, <3>2, <3>3, <3>5 DEF Told
  <2>. QED
    BY <1>1, <2>3, <2>4
<1>3. ASSUME NEW w \in Waiter, waiter[w] \in Pending PROVE Unread(waiter[w])'
  <2>1. PICK r \in Pending : r = waiter[w]
    BY <1>3
  <2>2. Unread(r) /\ r.pos \in Nat /\ r.submitted \in Nat
    BY <1>3, <2>1 DEF WaitersUnread, Pending
  <2>3. \A k \in r.submitted + 1..r.pos : k \in 1..Len(log)
    BY <1>1, <2>2 DEF Unread
  <2>4. \A k \in r.submitted + 1..r.pos : log'[k] = log[k]
    BY <1>1, <2>3
  <2>. QED
    BY <1>1, <2>1, <2>2, <2>4 DEF Unread
<1>. QED
  BY <1>2, <1>3 DEF SessionsTold, WaitersUnread

-----------------------------------------------------------------------------
(* Counting. *)
LEMMA CountsFinite ==
  /\ IsFiniteSet(OpenSessions) /\ Cardinality(OpenSessions) \in Nat
  /\ IsFiniteSet(Topics) /\ Cardinality(Topics) \in Nat
<1>1. IsFiniteSet(OpenSessions)
  BY FS_Subset, ClientsAssumption DEF OpenSessions
<1>2. IsFiniteSet(1..SubscriptionLimit)
  BY FS_Interval, ClientsAssumption
<1>3. IsFiniteSet(OpenSessions \X (1..SubscriptionLimit))
  BY <1>1, <1>2, FS_Product
<1>4. Topics \subseteq OpenSessions \X (1..SubscriptionLimit)
  BY DEF Topics
<1>5. IsFiniteSet(Topics)
  BY <1>3, <1>4, FS_Subset
<1>. QED
  BY <1>1, <1>5, FS_CardinalityType

(* The subscriptions of one session are as many topics. *)
LEMMA TopicsOfOne ==
  ASSUME NEW s, NEW n \in Nat
  PROVE  IsFiniteSet({s} \X (1..n)) /\ Cardinality({s} \X (1..n)) = n
<1>1. IsFiniteSet({s}) /\ Cardinality({s}) = 1
  BY FS_Singleton
<1>2. IsFiniteSet(1..n) /\ Cardinality(1..n) = n
  BY FS_Interval
<1>3. IsFiniteSet({s} \X (1..n)) /\ Cardinality({s} \X (1..n)) = Cardinality({s}) * Cardinality(1..n)
  BY <1>1, <1>2, FS_Product
<1>. QED
  BY <1>1, <1>2, <1>3

(* Only session s moves, to r. *)
Moves(s, r) ==
  /\ session' \in [Session -> {Closed} \cup OpenSession]
  /\ session'[s] = r
  /\ \A t \in Session \ {s} : session'[t] = session[t]

LEMMA CountSame ==
  ASSUME TypeInv, NEW s \in Session, NEW r \in OpenSession, Moves(s, r),
         session[s] \in OpenSession, Len(r.subs) = Len(session[s].subs)
  PROVE  OpenSessions' = OpenSessions /\ Topics' = Topics
<1>1. session \in [Session -> {Closed} \cup OpenSession]
  BY DEF TypeInv, SessionType
<1>2. \A t \in Session : Open(t)' <=> Open(t)
  BY <1>1, OpenIsSession DEF Open, Moves
<1>3. OpenSessions' = OpenSessions
  BY <1>2 DEF OpenSessions
<1>4. r.subs \in Seq(Sub) /\ session[s].subs \in Seq(Sub)
  BY DEF OpenSession
<1>5. DOMAIN r.subs = DOMAIN session[s].subs
  BY <1>4
<1>6. \A t \in Session : DOMAIN session'[t].subs = DOMAIN session[t].subs
  BY <1>5 DEF Moves
<1>7. OpenSessions \subseteq Session
  BY DEF OpenSessions
<1>8. ASSUME NEW p \in OpenSessions \X (1..SubscriptionLimit)
      PROVE  DOMAIN session'[p[1]].subs = DOMAIN session[p[1]].subs
  BY <1>6, <1>7
<1>. QED
  BY <1>3, <1>8 DEF Topics

LEMMA CountOpened ==
  ASSUME TypeInv, NEW s \in Session, NEW r \in OpenSession, Moves(s, r),
         session[s] = Closed, r.subs = <<>>
  PROVE  /\ Cardinality(OpenSessions') = Cardinality(OpenSessions) + 1
         /\ Cardinality(Topics') = Cardinality(Topics)
<1>1. session \in [Session -> {Closed} \cup OpenSession] /\ ~Open(s)
  BY DEF TypeInv, SessionType, Open, Closed
<1>2. Open(s)' /\ \A t \in Session \ {s} : Open(t)' <=> Open(t)
  BY <1>1, OpenIsSession DEF Open, Moves
<1>3. OpenSessions' = OpenSessions \cup {s} /\ s \notin OpenSessions
  BY <1>1, <1>2 DEF OpenSessions
<1>4. Cardinality(OpenSessions') = Cardinality(OpenSessions) + 1
  BY <1>3, CountsFinite, FS_AddElement
<1>5. DOMAIN session'[s].subs = {}
  BY DEF Moves
<1>6. \A t \in OpenSessions : t \in Session /\ t # s /\ session'[t] = session[t]
  BY <1>3 DEF OpenSessions, Moves
<1>7. ASSUME NEW t, NEW i \in 1..SubscriptionLimit
      PROVE  <<t, i>> \in Topics' <=> <<t, i>> \in Topics
  BY <1>3, <1>5, <1>6 DEF Topics
<1>8. Topics' = Topics
  BY <1>7 DEF Topics
<1>. QED
  BY <1>4, <1>8

LEMMA CountClosed ==
  ASSUME TypeInv, NEW s \in Session, Moves(s, Closed), session[s] \in OpenSession,
         Len(session[s].subs) <= SubscriptionLimit
  PROVE  /\ Cardinality(OpenSessions') = Cardinality(OpenSessions) - 1
         /\ Cardinality(Topics') = Cardinality(Topics) - Len(session[s].subs)
<1>1. session \in [Session -> {Closed} \cup OpenSession] /\ Open(s)
  BY OpenIsSession DEF TypeInv, SessionType, Open
<1>2. ~Open(s)' /\ \A t \in Session \ {s} : Open(t)' <=> Open(t)
  BY <1>1 DEF Open, Moves, Closed
<1>3. OpenSessions' = OpenSessions \ {s} /\ s \in OpenSessions
  BY <1>1, <1>2 DEF OpenSessions
<1>4. Cardinality(OpenSessions') = Cardinality(OpenSessions) - 1
  BY <1>3, CountsFinite, FS_RemoveElement
<1>5. PICK n \in Nat : n = Len(session[s].subs)
  BY DEF OpenSession
<1>6. DOMAIN session[s].subs = 1..n
  BY <1>5 DEF OpenSession
<1>7. \A t \in OpenSessions' : t \in OpenSessions /\ t # s /\ session'[t] = session[t]
  BY <1>3 DEF OpenSessions, Moves
<1>8. PICK own : own = {s} \X (1..n)
  OBVIOUS
<1>9. ASSUME NEW t, NEW i \in 1..SubscriptionLimit
      PROVE  <<t, i>> \in Topics' <=> <<t, i>> \in Topics \ own
  BY <1>3, <1>6, <1>7, <1>8 DEF Topics
<1>10. Topics' = Topics \ own
  BY <1>9 DEF Topics
<1>11. own \subseteq Topics
  BY <1>3, <1>5, <1>6, <1>8, ClientsAssumption DEF Topics
<1>12. Cardinality(Topics') = Cardinality(Topics) - Cardinality(Topics \cap own)
  BY <1>10, CountsFinite, FS_Difference
<1>13. Topics \cap own = own
  BY <1>11
<1>14. Cardinality(own) = n
  BY <1>8, TopicsOfOne
<1>. QED
  BY <1>4, <1>5, <1>12, <1>13, <1>14

LEMMA CountSubscribed ==
  ASSUME TypeInv, NEW s \in Session, NEW r \in OpenSession, Moves(s, r),
         session[s] \in OpenSession, Len(r.subs) = Len(session[s].subs) + 1,
         Len(session[s].subs) + 1 <= SubscriptionLimit
  PROVE  OpenSessions' = OpenSessions /\ Cardinality(Topics') = Cardinality(Topics) + 1
<1>1. session \in [Session -> {Closed} \cup OpenSession]
  BY DEF TypeInv, SessionType
<1>2. Open(s) /\ \A t \in Session : Open(t)' <=> Open(t)
  BY <1>1, OpenIsSession DEF Open, Moves
<1>3. OpenSessions' = OpenSessions /\ s \in OpenSessions
  BY <1>2 DEF OpenSessions
<1>4. PICK n \in Nat : n = Len(session[s].subs)
  BY DEF OpenSession
<1>5. DOMAIN session[s].subs = 1..n /\ DOMAIN session'[s].subs = 1..n + 1
  BY <1>4 DEF OpenSession, Moves
<1>6. \A t \in OpenSessions \ {s} : session'[t] = session[t]
  BY DEF OpenSessions, Moves
<1>7. n + 1 \in 1..SubscriptionLimit /\ \A i \in 1..n + 1 : i \in 1..n \/ i = n + 1
  BY <1>4, ClientsAssumption
<1>8. ASSUME NEW t, NEW i \in 1..SubscriptionLimit
      PROVE  <<t, i>> \in Topics' <=> <<t, i>> \in Topics \cup {<<s, n + 1>>}
  BY <1>3, <1>5, <1>6, <1>7 DEF Topics
<1>9. Topics' = Topics \cup {<<s, n + 1>>}
  BY <1>3, <1>7, <1>8 DEF Topics
<1>10. <<s, n + 1>> \notin Topics
  BY <1>5 DEF Topics
<1>. QED
  BY <1>3, <1>9, <1>10, CountsFinite, FS_AddElement

LEMMA CountUnsubscribed ==
  ASSUME TypeInv, NEW s \in Session, NEW r \in OpenSession, Moves(s, r),
         session[s] \in OpenSession, Len(r.subs) = Len(session[s].subs) - 1,
         Len(session[s].subs) \in 1..SubscriptionLimit
  PROVE  OpenSessions' = OpenSessions /\ Cardinality(Topics') = Cardinality(Topics) - 1
<1>1. session \in [Session -> {Closed} \cup OpenSession]
  BY DEF TypeInv, SessionType
<1>2. Open(s) /\ \A t \in Session : Open(t)' <=> Open(t)
  BY <1>1, OpenIsSession DEF Open, Moves
<1>3. OpenSessions' = OpenSessions /\ s \in OpenSessions
  BY <1>2 DEF OpenSessions
<1>4. PICK n \in 1..SubscriptionLimit : n = Len(session[s].subs)
  OBVIOUS
<1>5. DOMAIN session[s].subs = 1..n /\ DOMAIN session'[s].subs = 1..n - 1
  BY <1>4 DEF OpenSession, Moves
<1>6. \A t \in OpenSessions \ {s} : session'[t] = session[t]
  BY DEF OpenSessions, Moves
<1>7. n \in 1..n /\ \A i \in 1..n : i # n => i \in 1..n - 1
  BY <1>4
<1>8. n \notin 1..n - 1 /\ \A i \in 1..n - 1 : i \in 1..n
  BY <1>4
<1>9. ASSUME NEW t, NEW i \in 1..SubscriptionLimit
      PROVE  <<t, i>> \in Topics' <=> <<t, i>> \in Topics \ {<<s, n>>}
  BY <1>3, <1>5, <1>6, <1>7, <1>8 DEF Topics
<1>10. Topics' = Topics \ {<<s, n>>}
  BY <1>9 DEF Topics
<1>11. <<s, n>> \in Topics
  BY <1>3, <1>5, <1>7 DEF Topics
<1>. QED
  BY <1>3, <1>10, <1>11, CountsFinite, FS_RemoveElement

-----------------------------------------------------------------------------
(* Steps of a session. *)
SessionPart == SessionType /\ SessionsTold /\ SessionsCounted

LEMMA ToldKept ==
  ASSUME TypeInv, SessionsTold, NEW s \in Session, NEW r, Moves(s, r), SessionTold(r), log' = log
  PROVE  SessionsTold'
<1>1. ASSUME NEW t \in Session PROVE SessionTold(session[t])'
  <2>1. SessionTold(session'[t])
    BY DEF Moves, SessionsTold
  <2>. QED
    BY <2>1 DEF SessionTold, Told
<1>. QED
  BY <1>1 DEF SessionsTold

LEMMA LimitKept ==
  ASSUME SessionsCounted, NEW s \in Session, NEW r, Moves(s, r),
         r = Closed \/ Len(r.subs) <= SubscriptionLimit
  PROVE  \A t \in OpenSessions' : Len(session'[t].subs) <= SubscriptionLimit
<1>1. \A t \in OpenSessions' : t = s => session'[t] # Closed
  BY DEF OpenSessions, Open, Closed
<1>2. \A t \in OpenSessions' : t # s => t \in OpenSessions /\ session'[t] = session[t]
  BY DEF OpenSessions, Open, Moves
<1>. QED
  BY <1>1, <1>2 DEF SessionsCounted, Moves

LEMMA CloseKeeps ==
  ASSUME ClientsInv, NEW s \in Session, session[s] \in OpenSession, Close(s),
         log' = log, messages' \in Nat
  PROVE  SessionPart'
<1>1. Moves(s, Closed)
  BY DEF ClientsInv, TypeInv, SessionType, Close, Moves
<1>2. SessionsTold'
  BY <1>1, ToldKept DEF SessionTold, ClientsInv
<1>3. Len(session[s].subs) \in Nat /\ Len(session[s].subs) <= SubscriptionLimit
  BY OpenIsSession DEF OpenSession, ClientsInv, SessionsCounted, OpenSessions, Open
<1>4. /\ Cardinality(OpenSessions') = Cardinality(OpenSessions) - 1
      /\ Cardinality(Topics') = Cardinality(Topics) - Len(session[s].subs)
  BY <1>1, <1>3, CountClosed DEF ClientsInv
<1>5. /\ freePermits' = freePermits + 1
      /\ metrics'.connections = metrics.connections - 1
      /\ metrics'.topics = metrics.topics - Len(session[s].subs)
  BY DEF Close
<1>6. SessionsCounted'
  <2>1. \A t \in OpenSessions' : Len(session'[t].subs) <= SubscriptionLimit
    BY <1>1, LimitKept DEF ClientsInv
  <2>2. freePermits \in Int
    BY DEF ClientsInv, TypeInv, SessionType
  <2>. QED
    BY <1>3, <1>4, <1>5, <2>1, <2>2, CountsFinite, ClientsAssumption DEF SessionsCounted, ClientsInv
<1>7. SessionType'
  <2>1. metrics' = [connections |-> metrics.connections - 1,
                    topics |-> metrics.topics - Len(session[s].subs)]
    BY DEF Close
  <2>2. metrics.connections \in Int /\ metrics.topics \in Int /\ freePermits' \in Int
    BY <1>5 DEF SessionType, ClientsInv, TypeInv
  <2>3. metrics' \in [connections : Int, topics : Int]
    BY <1>3, <2>1, <2>2
  <2>. QED
    BY <1>1, <2>2, <2>3 DEF Moves, SessionType
<1>. QED
  BY <1>2, <1>6, <1>7 DEF SessionPart

LEMMA SameKeeps ==
  ASSUME ClientsInv, NEW s \in Session, session[s] \in OpenSession,
         NEW r \in OpenSession, Moves(s, r), SessionTold(r),
         Len(r.subs) = Len(session[s].subs),
         UNCHANGED <<log, metrics, freePermits>>, messages' \in Nat
  PROVE  SessionPart'
<1>1. SessionsTold'
  BY ToldKept DEF ClientsInv
<1>2. Len(session[s].subs) <= SubscriptionLimit
  BY OpenIsSession DEF ClientsInv, SessionsCounted, OpenSessions, Open
<1>3. OpenSessions' = OpenSessions /\ Topics' = Topics
  BY CountSame DEF ClientsInv
<1>4. SessionsCounted'
  BY <1>2, <1>3, LimitKept DEF SessionsCounted, ClientsInv
<1>5. SessionType'
  BY DEF Moves, SessionType, ClientsInv, TypeInv
<1>. QED
  BY <1>1, <1>4, <1>5 DEF SessionPart

(* A step that only touches the stage and the heartbeat of a session. *)
LEMMA BeatKeeps ==
  ASSUME ClientsInv, NEW s \in Session, session[s] \in OpenSession,
         NEW stage \in {"listening", "calling"}, NEW beat \in Nat,
         session' = [session EXCEPT ![s].stage = stage, ![s].beat = beat],
         UNCHANGED <<log, metrics, freePermits>>, messages' \in Nat
  PROVE  SessionPart'
<1>1. PICK r : r = [session[s] EXCEPT !.stage = stage, !.beat = beat]
  OBVIOUS
<1>2. r \in OpenSession /\ r.pos = session[s].pos /\ r.subs = session[s].subs
  BY <1>1 DEF OpenSession
<1>3. session' = [session EXCEPT ![s] = r]
  BY <1>1 DEF ClientsInv, TypeInv, SessionType
<1>4. Moves(s, r)
  BY <1>2, <1>3 DEF Moves, ClientsInv, TypeInv, SessionType
<1>5. SessionTold(session[s]) /\ session[s] # Closed
  BY OpenIsSession DEF ClientsInv, SessionsTold
<1>6. SessionTold(r)
  BY <1>2, <1>5 DEF SessionTold
<1>. QED
  BY <1>2, <1>4, <1>6, SameKeeps

LEMMA HandlerKeeps ==
  ASSUME ClientsInv, NEW s \in Session, ws_handler(s)
  PROVE  SessionPart'
<1>1. messages' \in Nat /\ log' = log
  BY DEF ws_handler, serverVars, ClientsInv, TypeInv, SessionType
<1>2. CASE freePermits = 0 \/ ~CanSubscribe
  <2>1. UNCHANGED <<freePermits, metrics, session>>
    BY <1>2 DEF ws_handler
  <2>2. SessionType'
    BY <1>1, <2>1 DEF ClientsInv, TypeInv, SessionType
  <2>3. SessionsTold'
    BY <1>1, <2>1 DEF ClientsInv, SessionsTold, SessionTold, Told
  <2>4. OpenSessions' = OpenSessions /\ Topics' = Topics
    BY <2>1 DEF OpenSessions, Topics, Open
  <2>5. SessionsCounted'
    BY <2>1, <2>4 DEF ClientsInv, SessionsCounted
  <2>. QED
    BY <2>2, <2>3, <2>5 DEF SessionPart
<1>3. CASE ~(freePermits = 0 \/ ~CanSubscribe)
  <2>1. PICK r : r = [stage |-> "listening", pos |-> Len(log), subs |-> <<>>, beat |-> 0]
    OBVIOUS
  <2>2. Len(log) \in Nat
    BY DEF ClientsInv, TypeInv, ServerType
  <2>3. r \in OpenSession /\ r.subs = <<>> /\ r.pos = Len(log)
    BY <2>1, <2>2 DEF OpenSession
  <2>4. session' = [session EXCEPT ![s] = r]
    BY <1>3, <2>1 DEF ws_handler, Subscribed
  <2>5. Moves(s, r)
    BY <2>3, <2>4 DEF Moves, ClientsInv, TypeInv, SessionType
  <2>6. SessionTold(r)
    BY <2>2, <2>3 DEF SessionTold
  <2>7. SessionsTold'
    BY <1>1, <2>5, <2>6, ToldKept DEF ClientsInv
  <2>8. session[s] = Closed
    BY OpenIsSession DEF ws_handler, Open, ClientsInv, TypeInv, SessionType
  <2>9. /\ Cardinality(OpenSessions') = Cardinality(OpenSessions) + 1
        /\ Cardinality(Topics') = Cardinality(Topics)
    BY <2>3, <2>5, <2>8, CountOpened DEF ClientsInv
  <2>10. /\ freePermits' = freePermits - 1
         /\ metrics'.connections = metrics.connections + 1
         /\ metrics'.topics = metrics.topics
    BY <1>3 DEF ws_handler, ClientsInv, TypeInv, SessionType
  <2>11. Len(r.subs) <= SubscriptionLimit
    BY <2>3, ClientsAssumption
  <2>12. SessionsCounted'
    <3>1. \A t \in OpenSessions' : Len(session'[t].subs) <= SubscriptionLimit
      BY <2>5, <2>11, LimitKept DEF ClientsInv
    <3>2. freePermits \in Int
      BY DEF ClientsInv, TypeInv, SessionType
    <3>. QED
      BY <2>9, <2>10, <3>1, <3>2, CountsFinite, ClientsAssumption DEF SessionsCounted, ClientsInv
  <2>13. SessionType'
    BY <1>1, <1>3, <2>5 DEF Moves, ws_handler, SessionType, ClientsInv, TypeInv
  <2>. QED
    BY <2>7, <2>12, <2>13 DEF SessionPart
<1>. QED
  BY <1>2, <1>3

LEMMA ListeningIsOpen ==
  ASSUME TypeInv, NEW s \in Session, session[s].stage \in {"listening", "calling"}
  PROVE  session[s] \in OpenSession
BY OpenIsSession DEF TypeInv, SessionType

LEMMA HeartbeatKeeps ==
  ASSUME ClientsInv, NEW s \in Session, Heartbeat(s) \/ Beat(s) \/ Leave(s)
  PROVE  SessionPart'
<1>1. session[s] \in OpenSession /\ session[s].stage = "listening" /\ session[s].beat \in Nat
  BY ListeningIsOpen DEF Heartbeat, Beat, Leave, Listening, ClientsInv, OpenSession
<1>2. messages' \in Nat /\ log' = log
  BY DEF Heartbeat, Beat, Leave, serverVars, ClientsInv, TypeInv, SessionType
<1>3. CASE Close(s)
  BY <1>1, <1>2, <1>3, CloseKeeps
<1>4. CASE ~Close(s)
  <2>1. /\ \E beat \in Nat : session' = [session EXCEPT ![s].beat = beat]
        /\ UNCHANGED <<metrics, freePermits>>
    BY <1>1, <1>4 DEF Heartbeat, Beat, Leave, ClientsInv, TypeInv, SessionType
  <2>2. PICK beat \in Nat : session' = [session EXCEPT ![s].beat = beat]
    BY <2>1
  <2>3. session' = [session EXCEPT ![s].stage = "listening", ![s].beat = beat]
    BY <1>1, <2>2 DEF ClientsInv, TypeInv, SessionType, OpenSession
  <2>. QED
    BY <1>1, <1>2, <2>1, <2>3, BeatKeeps
<1>. QED
  BY <1>3, <1>4

LEMMA OtherKeeps ==
  ASSUME ClientsInv, NEW s \in Session, OtherRequest(s) \/ Answered(s)
  PROVE  SessionPart'
<1>1. session[s] \in OpenSession /\ session[s].beat \in Nat
  BY ListeningIsOpen DEF OtherRequest, Request, Answered, Listening, ClientsInv, OpenSession
<1>2. messages' \in Nat /\ log' = log
  BY DEF OtherRequest, Request, Answered, serverVars, ClientsInv, TypeInv, SessionType
<1>3. CASE Close(s)
  BY <1>1, <1>2, <1>3, CloseKeeps
<1>4. CASE OtherRequest(s)
  BY <1>1, <1>2, <1>4, BeatKeeps DEF OtherRequest
<1>5. CASE Answered(s) /\ ~Close(s)
  <2>1. session' = [session EXCEPT ![s].stage = "listening", ![s].beat = session[s].beat]
    BY <1>1, <1>5 DEF Answered, ClientsInv, TypeInv, SessionType, OpenSession
  <2>. QED
    BY <1>1, <1>2, <1>5, <2>1, BeatKeeps DEF Answered
<1>. QED
  BY <1>3, <1>4, <1>5

LEMMA SubscribeKeeps ==
  ASSUME ClientsInv, NEW s \in Session, NEW kind \in Kind, NEW filter \in Filters,
         Subscribe(s, kind, filter)
  PROVE  SessionPart'
<1>1. /\ session[s] \in OpenSession /\ session[s].stage = "listening"
      /\ session[s].pos \in Nat /\ session[s].subs \in Seq(Sub)
  BY ListeningIsOpen DEF Subscribe, Request, Listening, ClientsInv, OpenSession
<1>2. messages \in Nat /\ messages' \in Nat /\ log' = log
  BY DEF Subscribe, Request, serverVars, ClientsInv, TypeInv, SessionType
<1>3. CASE Close(s)
  BY <1>1, <1>2, <1>3, CloseKeeps
<1>4. CASE Len(session[s].subs) + 1 > SubscriptionLimit /\ ~Close(s)
  <2>1. /\ session' = [session EXCEPT ![s].beat = 0]
        /\ UNCHANGED <<metrics, freePermits>>
    BY <1>1, <1>4, ClientsAssumption DEF Subscribe
  <2>2. session' = [session EXCEPT ![s].stage = "listening", ![s].beat = 0]
    BY <1>1, <2>1 DEF ClientsInv, TypeInv, SessionType, OpenSession
  <2>. QED
    BY <1>1, <1>2, <2>1, <2>2, BeatKeeps
<1>5. CASE ~(Len(session[s].subs) + 1 > SubscriptionLimit) /\ ~Close(s)
  <2>1. PICK sub : sub = [id |-> messages, kind |-> kind, filter |-> filter,
                          since |-> session[s].pos, sent |-> <<>>]
    OBVIOUS
  <2>2. PICK subs : subs = Append(session[s].subs, sub)
    OBVIOUS
  <2>3. /\ Len(session[s].subs) + 1 <= SubscriptionLimit
        /\ session' = [session EXCEPT ![s].subs = subs, ![s].beat = 0]
        /\ metrics' = [metrics EXCEPT !.topics = @ + 1]
        /\ freePermits' = freePermits
    BY <1>1, <1>5, <2>1, <2>2, ClientsAssumption DEF Subscribe, ClientsInv, TypeInv, SessionType
  <2>4. sub \in Sub /\ sub.since = session[s].pos /\ sub.sent = <<>>
    BY <1>1, <1>2, <2>1 DEF Sub
  <2>51. subs \in Seq(Sub)
    BY <1>1, <2>2, <2>4
  <2>52. PICK r : r = [session[s] EXCEPT !.subs = subs, !.beat = 0]
    OBVIOUS
  <2>53. r \in OpenSession /\ r.pos = session[s].pos /\ r.subs = subs
    BY <1>1, <2>51, <2>52 DEF OpenSession
  <2>5. /\ r \in OpenSession /\ r.pos = session[s].pos
        /\ r.subs = Append(session[s].subs, sub)
    BY <2>2, <2>53
  <2>6. session' = [session EXCEPT ![s] = r]
    BY <2>52, <2>3 DEF ClientsInv, TypeInv, SessionType
  <2>7. Moves(s, r)
    BY <2>5, <2>6 DEF Moves, ClientsInv, TypeInv, SessionType
  <2>8. SessionTold(session[s]) /\ session[s] # Closed
    BY <1>1, OpenIsSession DEF ClientsInv, SessionsTold
  <2>9. SessionTold(r)
    <3>1. Told(sub, r.pos)
      BY <1>1, <2>4, <2>5 DEF Told
    <3>2. ASSUME NEW i \in 1..Len(r.subs) PROVE Told(r.subs[i], r.pos)
      <4>1. i \in 1..Len(session[s].subs) \/ i = Len(session[s].subs) + 1
        BY <1>1, <2>5
      <4>2. CASE i \in 1..Len(session[s].subs)
        <5>1. r.subs[i] = session[s].subs[i]
          BY <1>1, <2>5, <4>2
        <5>. QED
          BY <2>5, <2>8, <4>2, <5>1 DEF SessionTold
      <4>3. CASE i = Len(session[s].subs) + 1
        <5>1. r.subs[i] = sub
          BY <1>1, <2>5, <4>3
        <5>. QED
          BY <3>1, <5>1
      <4>. QED
        BY <4>1, <4>2, <4>3
    <3>. QED
      BY <2>5, <2>8, <3>2 DEF SessionTold
  <2>10. SessionsTold'
    BY <1>2, <2>7, <2>9, ToldKept DEF ClientsInv
  <2>11. Len(r.subs) = Len(session[s].subs) + 1
    BY <1>1, <2>5
  <2>12. OpenSessions' = OpenSessions /\ Cardinality(Topics') = Cardinality(Topics) + 1
    BY <1>1, <2>3, <2>5, <2>7, <2>11, CountSubscribed DEF ClientsInv
  <2>13. metrics'.connections = metrics.connections /\ metrics'.topics = metrics.topics + 1
    BY <2>3 DEF ClientsInv, TypeInv, SessionType
  <2>14. \A t \in OpenSessions' : Len(session'[t].subs) <= SubscriptionLimit
    BY <2>3, <2>7, <2>11, LimitKept DEF ClientsInv
  <2>15. SessionsCounted'
    BY <2>3, <2>12, <2>13, <2>14 DEF SessionsCounted, ClientsInv
  <2>16. SessionType'
    <3>1. metrics.topics + 1 \in Int
      BY DEF SessionType, ClientsInv, TypeInv
    <3>2. metrics' \in [connections : Int, topics : Int]
      BY <2>3, <3>1 DEF SessionType, ClientsInv, TypeInv
    <3>. QED
      BY <1>2, <2>3, <2>7, <3>2 DEF Moves, SessionType, ClientsInv, TypeInv
  <2>. QED
    BY <2>10, <2>15, <2>16 DEF SessionPart
<1>. QED
  BY <1>3, <1>4, <1>5

LEMMA UnsubscribeKeeps ==
  ASSUME ClientsInv, NEW s \in Session, NEW i, Unsubscribe(s, i)
  PROVE  SessionPart'
<1>1. /\ session[s] \in OpenSession
      /\ session[s].pos \in Nat /\ session[s].subs \in Seq(Sub)
  BY ListeningIsOpen DEF Unsubscribe, Request, Listening, ClientsInv, OpenSession
<1>2. messages' \in Nat /\ log' = log
  BY DEF Unsubscribe, Request, serverVars, ClientsInv, TypeInv, SessionType
<1>3. CASE Close(s)
  BY <1>1, <1>2, <1>3, CloseKeeps
<1>4. CASE ~Close(s)
  <2>1. PICK subs \in Seq(Sub) : subs = session[s].subs
    BY <1>1
  <2>2. i \in 1..Len(subs) /\ Len(subs) \in Nat
    BY <2>1 DEF Unsubscribe
  <2>3. PICK rest : rest = SubSeq(subs, 1, i - 1) \o SubSeq(subs, i + 1, Len(subs))
    OBVIOUS
  <2>4. /\ session' = [session EXCEPT ![s].subs = rest, ![s].beat = 0]
        /\ metrics' = [metrics EXCEPT !.topics = @ - 1]
        /\ freePermits' = freePermits
    BY <1>4, <2>1, <2>3 DEF Unsubscribe, RemoveAt, ClientsInv, TypeInv, SessionType
  <2>5. PICK r : r = [session[s] EXCEPT !.subs = rest, !.beat = 0]
    OBVIOUS
  <2>6. /\ rest \in Seq(Sub) /\ Len(rest) = Len(subs) - 1
        /\ \A k \in 1..Len(rest) : rest[k] = subs[IF k < i THEN k ELSE k + 1]
    <3>1. /\ SubSeq(subs, 1, i - 1) \in Seq(Sub) /\ Len(SubSeq(subs, 1, i - 1)) = i - 1
          /\ \A k \in 1..i - 1 : SubSeq(subs, 1, i - 1)[k] = subs[k]
      BY <2>2
    <3>2. /\ SubSeq(subs, i + 1, Len(subs)) \in Seq(Sub)
          /\ Len(SubSeq(subs, i + 1, Len(subs))) = Len(subs) - i
          /\ \A k \in 1..Len(subs) - i : SubSeq(subs, i + 1, Len(subs))[k] = subs[i + k]
      BY <2>2
    <3>3. PICK head \in Seq(Sub) : head = SubSeq(subs, 1, i - 1)
      BY <3>1
    <3>4. PICK tail \in Seq(Sub) : tail = SubSeq(subs, i + 1, Len(subs))
      BY <3>2
    <3>5. /\ rest = head \o tail /\ Len(head) = i - 1 /\ Len(tail) = Len(subs) - i
          /\ \A k \in 1..i - 1 : head[k] = subs[k]
          /\ \A k \in 1..Len(subs) - i : tail[k] = subs[i + k]
      BY <2>3, <3>1, <3>2, <3>3, <3>4
    <3>6. rest \in Seq(Sub) /\ Len(rest) = Len(subs) - 1
      BY <2>2, <3>5
    <3>7. ASSUME NEW k \in 1..Len(rest) PROVE rest[k] = subs[IF k < i THEN k ELSE k + 1]
      <4>1. k \in Int /\ 1 <= k /\ k <= Len(subs) - 1
        BY <2>2, <3>6
      <4>2. CASE k < i
        BY <2>2, <3>5, <4>1, <4>2
      <4>3. CASE ~(k < i)
        <5>1. k - (i - 1) \in 1..Len(tail) /\ i + (k - (i - 1)) = k + 1
          BY <2>2, <3>5, <4>1, <4>3
        <5>2. rest[k] = tail[k - (i - 1)]
          BY <2>2, <3>5, <4>1, <4>3, <5>1
        <5>3. tail[k - (i - 1)] = subs[i + (k - (i - 1))]
          BY <3>5, <5>1
        <5>. QED
          BY <4>3, <5>1, <5>2, <5>3
      <4>. QED
        BY <4>2, <4>3
    <3>. QED
      BY <3>6, <3>7
  <2>7. r \in OpenSession /\ r.pos = session[s].pos /\ r.subs = rest
    BY <1>1, <2>5, <2>6 DEF OpenSession
  <2>8. session' = [session EXCEPT ![s] = r]
    BY <2>4, <2>5 DEF ClientsInv, TypeInv, SessionType
  <2>9. Moves(s, r)
    BY <2>7, <2>8 DEF Moves, ClientsInv, TypeInv, SessionType
  <2>10. SessionTold(session[s]) /\ session[s] # Closed
    BY <1>1, OpenIsSession DEF ClientsInv, SessionsTold
  <2>11. SessionTold(r)
    <3>1. ASSUME NEW k \in 1..Len(rest) PROVE Told(rest[k], r.pos)
      <4>1. PICK j \in 1..Len(subs) : rest[k] = subs[j]
        BY <2>2, <2>6
      <4>. QED
        BY <2>1, <2>7, <2>10, <4>1 DEF SessionTold
    <3>. QED
      BY <2>7, <2>10, <3>1 DEF SessionTold
  <2>12. SessionsTold'
    BY <1>2, <2>9, <2>11, ToldKept DEF ClientsInv
  <2>13. Len(subs) <= SubscriptionLimit
    BY <1>1, <2>1, OpenIsSession DEF ClientsInv, SessionsCounted, OpenSessions, Open
  <2>14. Len(subs) \in 1..SubscriptionLimit
    BY <2>2, <2>13, ClientsAssumption
  <2>15. OpenSessions' = OpenSessions /\ Cardinality(Topics') = Cardinality(Topics) - 1
    BY <1>1, <2>1, <2>6, <2>7, <2>9, <2>14, CountUnsubscribed DEF ClientsInv
  <2>16. metrics'.connections = metrics.connections /\ metrics'.topics = metrics.topics - 1
    BY <2>4 DEF ClientsInv, TypeInv, SessionType
  <2>17. Len(r.subs) <= SubscriptionLimit
    BY <2>2, <2>6, <2>7, <2>13, ClientsAssumption
  <2>18. \A t \in OpenSessions' : Len(session'[t].subs) <= SubscriptionLimit
    BY <2>9, <2>17, LimitKept DEF ClientsInv
  <2>19. SessionsCounted'
    BY <2>4, <2>15, <2>16, <2>18 DEF SessionsCounted, ClientsInv
  <2>20. SessionType'
    BY <1>2, <2>4, <2>9 DEF Moves, SessionType, ClientsInv, TypeInv
  <2>. QED
    BY <2>12, <2>19, <2>20 DEF SessionPart
<1>. QED
  BY <1>3, <1>4

(* The event a session reads: its subscriptions are told of it, in order.  *)
LEMMA ToldOfOne ==
  ASSUME ServerType, NEW sub \in Sub, NEW pos \in Nat, pos < Len(log), Told(sub, pos),
         log[pos + 1] # Gap
  PROVE  /\ Notified(sub, log[pos + 1]) \in Sub
         /\ Told(Notified(sub, log[pos + 1]), pos + 1)
<1>1. PICK e \in Event : e = log[pos + 1]
  BY DEF ServerType
<1>2. PICK batch \in Batch : batch = Notifications(sub, e)
  BY BatchOfSub
<1>3. PICK sent : sent = Append(sub.sent, batch)
  OBVIOUS
<1>31. sub.sent \in Seq(Batch) /\ sent \in Seq(Batch)
  BY <1>3 DEF Sub
<1>32. PICK new : new = [sub EXCEPT !.sent = sent]
  OBVIOUS
<1>4. new = Notified(sub, e)
  BY <1>2, <1>3, <1>32 DEF Notified, Sub
<1>5. /\ new \in Sub /\ new.kind = sub.kind /\ new.filter = sub.filter /\ new.since = sub.since
      /\ new.sent = Append(sub.sent, batch) /\ sub.sent \in Seq(Batch) /\ sub.since \in Nat
  BY <1>3, <1>31, <1>32 DEF Sub
<1>6. \A x : Notifications(new, x) = Notifications(sub, x)
  BY <1>5, SameTopic
<1>7. Len(new.sent) = pos + 1 - new.since /\ new.since <= pos + 1
  BY <1>5 DEF Told
<1>8. ASSUME NEW k \in 1..Len(new.sent)
      PROVE  log[new.since + k] # Gap /\ new.sent[k] = Notifications(new, log[new.since + k])
  <2>1. k \in 1..Len(sub.sent) \/ k = Len(sub.sent) + 1
    BY <1>5
  <2>2. CASE k \in 1..Len(sub.sent)
    BY <1>5, <1>6, <2>2 DEF Told
  <2>3. CASE k = Len(sub.sent) + 1
    <3>1. new.since + k = pos + 1
      BY <1>5, <2>3 DEF Told
    <3>. QED
      BY <1>1, <1>2, <1>5, <1>6, <2>3, <3>1
  <2>. QED
    BY <2>1, <2>2, <2>3
<1>9. Told(new, pos + 1)
  <2>1. PICK n \in Nat : n = pos + 1
    OBVIOUS
  <2>2. Len(new.sent) = n - new.since /\ new.since <= n
    BY <1>5, <1>7, <2>1
  <2>3. Told(new, n)
    BY <1>8, <2>2, Zenon DEF Told
  <2>. QED
    BY <2>1, <2>3
<1>. QED
  BY <1>1, <1>4, <1>5, <1>9

LEMMA ReceiveKeeps ==
  ASSUME ClientsInv, NEW s \in Session, Receive(s)
  PROVE  SessionPart'
<1>1. /\ session[s] \in OpenSession
      /\ session[s].pos \in Nat /\ session[s].subs \in Seq(Sub)
  BY ListeningIsOpen DEF Receive, Listening, ClientsInv, OpenSession
<1>2. messages' \in Nat /\ log' = log
  BY DEF Receive, serverVars, ClientsInv, TypeInv, SessionType
<1>3. CASE Close(s)
  BY <1>1, <1>2, <1>3, CloseKeeps
<1>4. CASE ~Close(s)
  <2>1. PICK subs \in Seq(Sub) : subs = session[s].subs
    BY <1>1
  <2>2. PICK pos \in Nat : pos = session[s].pos
    BY <1>1
  <2>3. PICK e : e = log[pos + 1]
    OBVIOUS
  <2>4. /\ pos < Len(log) /\ log[pos + 1] # Gap
        /\ handle_notification(s, e) /\ UNCHANGED <<metrics, freePermits>>
    BY <1>4, <2>2, <2>3 DEF Receive, Ready
  <2>5. PICK new : new = [i \in 1..Len(subs) |-> Notified(subs[i], e)]
    OBVIOUS
  <2>6. PICK r : r = [session[s] EXCEPT !.pos = pos + 1, !.subs = new]
    OBVIOUS
  <2>7. session' = [session EXCEPT ![s] = r]
    <3>1. DOMAIN subs = 1..Len(subs)
      BY <2>1
    <3>2. session' = [session EXCEPT ![s].pos = @ + 1,
                        ![s].subs = [i \in DOMAIN @ |-> Notified(@[i], e)]]
      BY <2>4 DEF handle_notification
    <3>3. session[s] \in OpenSession /\ session \in [Session -> {Closed} \cup OpenSession]
      BY <1>1 DEF ClientsInv, TypeInv, SessionType
    <3>4. session' = [session EXCEPT ![s].pos = pos + 1, ![s].subs = new]
      BY <2>1, <2>2, <2>5, <3>1, <3>2, <3>3 DEF OpenSession
    <3>. QED
      BY <2>6, <3>3, <3>4 DEF OpenSession
  <2>8. SessionTold(session[s]) /\ session[s] # Closed
    BY <1>1, OpenIsSession DEF ClientsInv, SessionsTold
  <2>9. \A i \in 1..Len(subs) : Told(subs[i], pos) /\ subs[i] \in Sub
    BY <2>1, <2>2, <2>8 DEF SessionTold
  <2>10. \A i \in 1..Len(subs) : /\ Notified(subs[i], e) \in Sub
                                 /\ Told(Notified(subs[i], e), pos + 1)
    BY <2>3, <2>4, <2>9, ToldOfOne DEF ClientsInv, TypeInv
  <2>11. new \in Seq(Sub) /\ Len(new) = Len(subs)
    BY <2>5, <2>10
  <2>12. r \in OpenSession /\ r.pos = pos + 1 /\ r.subs = new
    <3>1. pos + 1 \in Nat
      OBVIOUS
    <3>. QED
      BY <1>1, <2>6, <2>11, <3>1 DEF OpenSession
  <2>13. Moves(s, r)
    BY <2>7, <2>12 DEF Moves, ClientsInv, TypeInv, SessionType
  <2>14. Len(log) \in Nat
    BY DEF ClientsInv, TypeInv, ServerType
  <2>15. SessionTold(r)
    BY <2>4, <2>5, <2>10, <2>11, <2>12, <2>14 DEF SessionTold
  <2>. QED
    BY <1>1, <1>2, <2>1, <2>4, <2>11, <2>12, <2>13, <2>15, SameKeeps
<1>. QED
  BY <1>3, <1>4

-----------------------------------------------------------------------------
(* Steps of the server, of a request that waits, and of the node. *)
LEMMA SessionPartKept ==
  ASSUME ClientsInv, UNCHANGED <<log, freePermits, metrics, session>>, messages' \in Nat
  PROVE  SessionPart'
<1>1. SessionType'
  BY DEF ClientsInv, TypeInv, SessionType
<1>2. SessionsTold'
  BY DEF ClientsInv, SessionsTold, SessionTold, Told
<1>3. OpenSessions' = OpenSessions /\ Topics' = Topics
  BY DEF OpenSessions, Topics, Open
<1>4. SessionsCounted'
  BY <1>3 DEF ClientsInv, SessionsCounted
<1>. QED
  BY <1>1, <1>2, <1>4 DEF SessionPart

LEMMA UnreadKept ==
  ASSUME WaitersUnread, NEW w \in Waiter, NEW r, log' = log,
         waiter' = [waiter EXCEPT ![w] = r], WaiterType, r \in Pending => Unread(r)
  PROVE  WaitersUnread'
<1>1. ASSUME NEW v \in Waiter, waiter'[v] \in Pending PROVE Unread(waiter[v])'
  <2>1. Unread(waiter'[v])
    BY <1>1 DEF WaitersUnread, WaiterType
  <2>. QED
    BY <2>1 DEF Unread
<1>. QED
  BY <1>1 DEF WaitersUnread

LEMMA EndedNotPending ==
  ASSUME NEW r \in Ended \cup {Free}
  PROVE  r \notin Pending
<1>1. r.stage \in {"answered", "free"}
  BY DEF Ended, Free
<1>2. \A q \in Pending : q.stage \in {"submitting", "submitted", "waiting"}
  BY DEF Pending
<1>. QED
  BY <1>1, <1>2

LEMMA PendingByStage ==
  ASSUME WaiterType, NEW w \in Waiter,
         waiter[w].stage \in {"submitting", "submitted", "waiting"}
  PROVE  waiter[w] \in Pending
<1>1. \A r \in Ended \cup {Free} : r.stage \in {"answered", "free"}
  BY DEF Ended, Free
<1>. QED
  BY <1>1 DEF WaiterType

LEMMA AnswerKeeps ==
  ASSUME ClientsInv, NEW w \in Waiter, waiter[w] \in Pending,
         NEW answer \in {"refused", "overloaded", "receipt", "timeout"},
         Answer(w, answer), log' = log
  PROVE  WaiterType' /\ WaitersUnread'
<1>1. PICK r : r = [stage |-> "answered", tx |-> waiter[w].tx, answer |-> answer]
  OBVIOUS
<1>2. waiter[w].tx \in Tx
  BY DEF Pending
<1>3. r \in Ended /\ waiter' = [waiter EXCEPT ![w] = r]
  BY <1>1, <1>2 DEF Ended, Answer
<1>. QED
  BY <1>3, EndedNotPending, UnreadKept DEF WaiterType, ClientsInv, TypeInv

LEMMA WaiterKeeps ==
  ASSUME ClientsInv, NEW w \in Waiter, WaiterNext(w)
  PROVE  ClientsInv'
<1>1. UNCHANGED <<log, crashed, commit, freePermits, metrics, session>> /\ messages' \in Nat
  BY DEF WaiterNext, SyncRequest, SyncSubmit, SyncAccepted, SyncReceive, SyncTimeout, clientVars,
     ClientsInv, TypeInv, SessionType
<1>2. SessionPart'
  BY <1>1, SessionPartKept
<1>3. pool' \subseteq Tx
  <2>1. waiter[w].stage = "submitting" => waiter[w].tx \in Tx
    BY PendingByStage DEF ClientsInv, TypeInv, Pending
  <2>. QED
    BY <2>1 DEF WaiterNext, SyncRequest, SyncSubmit, SyncAccepted, SyncReceive, SyncTimeout,
       ClientsInv, TypeInv, ServerType
<1>4. ServerType'
  BY <1>1, <1>3 DEF ServerType, ClientsInv, TypeInv
<1>5. Len(log) \in Nat
  BY DEF ClientsInv, TypeInv, ServerType
<1>6. WaiterType' /\ WaitersUnread'
  <2>1. CASE \E tx \in Tx : SyncRequest(w, tx)
    <3>1. PICK tx \in Tx : SyncRequest(w, tx)
      BY <2>1
    <3>2. PICK r \in {[stage |-> "answered", tx |-> tx, answer |-> "refused"],
                      [stage |-> "answered", tx |-> tx, answer |-> "overloaded"],
                      [stage |-> "submitting", tx |-> tx, pos |-> Len(log), submitted |-> Len(log)]} :
            waiter' = [waiter EXCEPT ![w] = r]
      BY <3>1 DEF SyncRequest, Subscribed
    <3>3. r \in Ended \/ (r \in Pending /\ Unread(r))
      BY <1>5, <3>2 DEF Ended, Pending, Unread
    <3>. QED
      BY <1>1, <3>2, <3>3, EndedNotPending, UnreadKept DEF WaiterType, ClientsInv, TypeInv
  <2>2. CASE \E answer \in {"refused", "overloaded", "receipt", "timeout"} :
               waiter[w].stage \in {"submitting", "submitted", "waiting"} /\ Answer(w, answer)
    BY <1>1, <2>2, AnswerKeeps, PendingByStage DEF ClientsInv, TypeInv
  <2>3. CASE SyncSubmit(w)
    <3>1. waiter[w] \in Pending /\ Unread(waiter[w])
      BY <2>3, PendingByStage DEF SyncSubmit, ClientsInv, TypeInv, WaitersUnread
    <3>2. PICK r : r = [waiter[w] EXCEPT !.stage = "submitted", !.submitted = Len(log)]
      OBVIOUS
    <3>3. waiter' = [waiter EXCEPT ![w] = r]
      BY <2>3, <3>2 DEF SyncSubmit, ClientsInv, TypeInv, WaiterType
    <3>4. /\ r \in Pending /\ r.pos = waiter[w].pos /\ r.submitted = Len(log)
          /\ r.stage = "submitted"
      BY <1>5, <3>1, <3>2 DEF Pending
    <3>5. Unread(r)
      BY <1>5, <3>1, <3>4 DEF Unread
    <3>. QED
      BY <1>1, <3>3, <3>4, <3>5, UnreadKept DEF WaiterType, ClientsInv, TypeInv
  <2>4. CASE SyncAccepted(w) /\ ~Answer(w, "overloaded")
    <3>1. waiter[w] \in Pending /\ Unread(waiter[w]) /\ waiter[w].stage = "submitted"
      BY <2>4, PendingByStage DEF SyncAccepted, ClientsInv, TypeInv, WaitersUnread
    <3>2. PICK r : r = [waiter[w] EXCEPT !.stage = "waiting"]
      OBVIOUS
    <3>3. waiter' = [waiter EXCEPT ![w] = r]
      BY <2>4, <3>2 DEF SyncAccepted, ClientsInv, TypeInv, WaiterType
    <3>4. /\ r \in Pending /\ r.pos = waiter[w].pos /\ r.submitted = waiter[w].submitted
          /\ r.pos \in Nat /\ r.submitted \in Nat /\ r.stage = "waiting"
      BY <3>1, <3>2 DEF Pending
    <3>5. Unread(r)
      BY <3>1, <3>4 DEF Unread
    <3>. QED
      BY <1>1, <3>3, <3>4, <3>5, UnreadKept DEF WaiterType, ClientsInv, TypeInv
  <2>5. CASE SyncReceive(w) /\ ~\E answer \in {"overloaded", "receipt"} : Answer(w, answer)
    <3>1. waiter[w] \in Pending /\ Unread(waiter[w]) /\ waiter[w].stage = "waiting"
      BY <2>5, PendingByStage DEF SyncReceive, ClientsInv, TypeInv, WaitersUnread
    <3>2. PICK r : r = [waiter[w] EXCEPT !.pos = @ + 1]
      OBVIOUS
    <3>3. waiter' = [waiter EXCEPT ![w].pos = @ + 1] /\ waiter[w].pos < Len(log)
      BY <2>5 DEF SyncReceive, Ready
    <3>4. waiter' = [waiter EXCEPT ![w] = r]
      BY <3>2, <3>3 DEF ClientsInv, TypeInv, WaiterType
    <3>5. waiter[w].pos \in Nat /\ waiter[w].pos + 1 \in Nat
      BY <3>1 DEF Pending
    <3>6. /\ r \in Pending /\ r.pos = waiter[w].pos + 1 /\ r.submitted = waiter[w].submitted
          /\ r.submitted \in Nat /\ r.tx = waiter[w].tx /\ r.stage = "waiting"
      BY <3>1, <3>2, <3>5 DEF Pending
    <3>7. PICK e : e = log[waiter[w].pos + 1]
      OBVIOUS
    <3>8. e # Gap /\ ~(e.state = "proposed" /\ waiter[w].tx \in e.txs)
      BY <2>5, <3>7 DEF SyncReceive
    <3>9. ASSUME NEW k \in r.submitted + 1..r.pos
          PROVE  log[k] # Gap /\ ~(log[k].state = "proposed" /\ r.tx \in log[k].txs)
      <4>1. k \in waiter[w].submitted + 1..waiter[w].pos \/ k = waiter[w].pos + 1
        BY <3>5, <3>6
      <4>. QED
        BY <3>1, <3>6, <3>7, <3>8, <4>1 DEF Unread
    <3>10. Unread(r)
      BY <1>5, <3>1, <3>3, <3>5, <3>6, <3>9 DEF Unread
    <3>. QED
      BY <1>1, <3>4, <3>6, <3>10, UnreadKept DEF WaiterType, ClientsInv, TypeInv
  <2>. QED
    BY <2>1, <2>2, <2>3, <2>4, <2>5 DEF WaiterNext, SyncAccepted, SyncReceive, SyncTimeout
<1>. QED
  BY <1>2, <1>4, <1>6 DEF ClientsInv, TypeInv, SessionPart

LEMMA ServerKeeps ==
  ASSUME ClientsInv, ServerNext
  PROVE  ClientsInv'
<1>1. UNCHANGED <<freePermits, metrics, session, waiter, messages>> /\ pool' = pool
  BY DEF ServerNext, ProposeBlock, FinalizeBlock, Update, ServerGap, ServerCrash
<1>2. SessionType' /\ SessionsCounted' /\ WaiterType'
  <2>1. OpenSessions' = OpenSessions /\ Topics' = Topics
    BY <1>1 DEF OpenSessions, Topics, Open
  <2>. QED
    BY <1>1, <2>1 DEF ClientsInv, TypeInv, SessionType, SessionsCounted, WaiterType
<1>3. CASE ServerCrash
  BY <1>1, <1>2, <1>3 DEF ServerCrash, ClientsInv, TypeInv, ServerType, SessionsTold, SessionTold,
     Told, WaitersUnread, Unread
<1>4. CASE ServerGap
  <2>1. Gap \in Event /\ log' = Append(log, Gap) /\ commit' = commit
    BY <1>4 DEF Event, ServerGap
  <2>2. SessionsTold' /\ WaitersUnread'
    BY <1>1, <2>1, LogGrows DEF ClientsInv
  <2>3. ServerType'
    BY <1>1, <2>1 DEF ClientsInv, TypeInv, ServerType
  <2>. QED
    BY <1>2, <2>2, <2>3 DEF ClientsInv, TypeInv
<1>5. CASE \E b \in Block : ProposeBlock(b) \/ FinalizeBlock(b)
  <2>1. PICK b \in Block, state \in {"proposed", "finalized"}, txs \in SUBSET Tx : Update(b, state, txs)
    BY <1>5 DEF ProposeBlock, FinalizeBlock, ClientsInv, TypeInv, ServerType
  <2>2. PICK e : e = [state |-> state, block |-> b, txs |-> txs]
    OBVIOUS
  <2>3. e \in Event /\ log' = Append(log, e)
    BY <2>1, <2>2 DEF Event, Update
  <2>4. SessionsTold' /\ WaitersUnread'
    BY <1>1, <2>3, LogGrows DEF ClientsInv
  <2>5. ServerType'
    BY <1>1, <2>1, <2>3 DEF ClientsInv, TypeInv, ServerType, Update
  <2>. QED
    BY <1>2, <2>4, <2>5 DEF ClientsInv, TypeInv
<1>. QED
  BY <1>3, <1>4, <1>5 DEF ServerNext

LEMMA SessionKeeps ==
  ASSUME ClientsInv, NEW s \in Session, SessionNext(s)
  PROVE  ClientsInv'
<1>1. UNCHANGED <<log, crashed, commit, pool, waiter>>
  BY DEF SessionNext, ws_handler, Heartbeat, Beat, Leave, Subscribe, Unsubscribe, Request,
     OtherRequest, Answered, Receive, serverVars
<1>2. SessionPart'
  BY HandlerKeeps, HeartbeatKeeps, SubscribeKeeps, UnsubscribeKeeps, OtherKeeps, ReceiveKeeps
     DEF SessionNext, Filters
<1>3. ServerType' /\ WaiterType' /\ WaitersUnread'
  BY <1>1 DEF ClientsInv, TypeInv, ServerType, WaiterType, WaitersUnread, Unread
<1>. QED
  BY <1>2, <1>3 DEF ClientsInv, TypeInv, SessionPart

LEMMA SendKeeps ==
  ASSUME ClientsInv, NEW tx \in Tx, SendRawTransaction(tx)
  PROVE  ClientsInv'
<1>1. UNCHANGED <<log, commit, freePermits, metrics, session, waiter>> /\ messages' \in Nat
  BY DEF SendRawTransaction, ClientsInv, TypeInv, SessionType
<1>2. SessionPart'
  BY <1>1, SessionPartKept
<1>3. ServerType' /\ WaiterType' /\ WaitersUnread'
  BY <1>1 DEF SendRawTransaction, ClientsInv, TypeInv, ServerType, WaiterType, WaitersUnread, Unread
<1>. QED
  BY <1>2, <1>3 DEF ClientsInv, TypeInv, SessionPart

-----------------------------------------------------------------------------
(* Every reachable state satisfies the inductive invariant. *)
THEOREM ClientsInvariant == Spec => []ClientsInv
<1>1. Init => ClientsInv
  <2>1. SUFFICES ASSUME Init PROVE ClientsInv
    OBVIOUS
  <2>2. \A s \in Session : session[s] = Closed /\ ~Open(s)
    BY <2>1 DEF Init, Open, Closed
  <2>3. OpenSessions = {}
    BY <2>2 DEF OpenSessions
  <2>4. Topics = {}
    BY <2>3 DEF Topics
  <2>5. SessionsCounted
    BY <2>1, <2>3, <2>4, FS_EmptySet, ClientsAssumption DEF Init, SessionsCounted
  <2>6. SessionsTold
    BY <2>2 DEF SessionsTold, SessionTold
  <2>7. WaitersUnread
    BY <2>1, EndedNotPending DEF Init, WaitersUnread
  <2>8. ServerType /\ SessionType /\ WaiterType
    BY <2>1, ClientsAssumption DEF Init, ServerType, SessionType, WaiterType
  <2>. QED
    BY <2>5, <2>6, <2>7, <2>8 DEF ClientsInv, TypeInv
<1>2. ClientsInv /\ [Next]_vars => ClientsInv'
  <2>1. ASSUME ClientsInv, UNCHANGED vars PROVE ClientsInv'
    <3>1. UNCHANGED <<log, commit, pool, freePermits, metrics, session, waiter, messages>>
      BY <2>1 DEF vars
    <3>2. messages' \in Nat
      BY <2>1, <3>1 DEF ClientsInv, TypeInv, SessionType
    <3>3. SessionPart'
      BY <2>1, <3>1, <3>2, SessionPartKept
    <3>4. ServerType' /\ WaiterType' /\ WaitersUnread'
      BY <2>1, <3>1 DEF ClientsInv, TypeInv, ServerType, WaiterType, WaitersUnread, Unread
    <3>. QED
      BY <3>3, <3>4 DEF ClientsInv, TypeInv, SessionPart
  <2>. QED
    BY <2>1, ServerKeeps, SessionKeeps, WaiterKeeps, SendKeeps DEF Next
<1>. QED
  BY <1>1, <1>2, PTL DEF Spec

(* Each subscription of an open session has been sent, update by update    *)
(* and in order, what the updates since it subscribed call for             *)
(* (handle_notification).                                                  *)
THEOREM SubscribersMissNothing == Spec => []NotificationsExact
<1>1. ClientsInv => NotificationsExact
  <2>1. SUFFICES ASSUME ClientsInv, NEW s \in Session, Open(s), NEW i \in DOMAIN session[s].subs,
                        NEW sub, sub = session[s].subs[i],
                        NEW events, events = Between(sub.since, session[s].pos)
                 PROVE  /\ \A k \in DOMAIN events : events[k] # Gap
                        /\ sub.sent = Expected(sub, events)
    BY DEF NotificationsExact
  <2>2. session[s] \in OpenSession /\ session[s] # Closed
    BY <2>1, OpenIsSession DEF ClientsInv, TypeInv, SessionType, Open
  <2>3. PICK pos \in Nat : pos = session[s].pos
    BY <2>2 DEF OpenSession
  <2>4. i \in 1..Len(session[s].subs) /\ sub \in Sub
    BY <2>1, <2>2 DEF OpenSession
  <2>5. Told(sub, pos) /\ pos <= Len(log)
    BY <2>1, <2>2, <2>3, <2>4 DEF ClientsInv, SessionsTold, SessionTold
  <2>6. sub.since \in Nat /\ sub.sent \in Seq(Batch) /\ log \in Seq(Event)
    <3>1. log \in Seq(Event)
      BY <2>1 DEF ClientsInv, TypeInv, ServerType
    <3>. QED
      BY <2>4, <3>1 DEF Sub
  <2>7. events = SubSeq(log, sub.since + 1, pos)
    BY <2>1, <2>3 DEF Between
  <2>8. DOMAIN events = 1..pos - sub.since /\ \A k \in 1..pos - sub.since : events[k] = log[sub.since + k]
    BY <2>5, <2>6, <2>7 DEF Told
  <2>9. Len(sub.sent) = pos - sub.since /\ DOMAIN sub.sent = 1..pos - sub.since
    BY <2>5, <2>6 DEF Told
  <2>10. \A k \in 1..pos - sub.since : events[k] # Gap /\ sub.sent[k] = Notifications(sub, events[k])
    BY <2>5, <2>8, <2>9 DEF Told
  <2>11. sub.sent = [k \in 1..pos - sub.since |-> sub.sent[k]]
    BY <2>6, <2>9
  <2>. QED
    BY <2>8, <2>10, <2>11 DEF Expected
<1>. QED
  BY <1>1, ClientsInvariant, PTL

(* Permits and metrics agree with the sessions that are open, and their    *)
(* subscriptions, after any sequence of requests and ends (ws_handler).    *)
THEOREM CountsAreExact == Spec => []SessionsCounted
<1>1. ClientsInv => SessionsCounted
  BY DEF ClientsInv
<1>. QED
  BY <1>1, ClientsInvariant, PTL

(* A request that waits has not read past the block that holds its         *)
(* transaction (monad_eth_sendRawTransactionSync).                         *)
THEOREM WaitersMissNothing == Spec => []ReceiptNotMissed
<1>1. ClientsInv => ReceiptNotMissed
  BY PendingByStage DEF ClientsInv, TypeInv, WaitersUnread, Unread, ReceiptNotMissed
<1>. QED
  BY <1>1, ClientsInvariant, PTL
=============================================================================
