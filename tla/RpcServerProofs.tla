--------------------------- MODULE RpcServerProofs ---------------------------
(***************************************************************************)
(* Proofs about what a monad-rpc process keeps.  The request path, for any *)
(* connections, bodies and limits: no permit is lost or given twice, the   *)
(* statistics count what runs, and the answer to a batch fits its calls.   *)
(* The block buffer, for any blocks, forks, transactions and sizes and     *)
(* whatever events the ring and the channel lose: its maps fit together.   *)
(***************************************************************************)
EXTENDS RpcServer, BlockBuffer, SequenceTheorems, FiniteSetTheorems, TLAPS

IsSeq(s) == s \in Seq(Range(s))
Limiters == {"eth_call", "feehistory", "none"}

(* The id that the response to a call carries. *)
IdOf(call) == IF call.readable THEN call.id ELSE NullId

(* A call that runs can be read; one that is done has a response for it. *)
SlotInv(call, slot) ==
  \/ call.readable /\ \E limiter \in Limiters : slot = Running(limiter)
  \/ \E response : slot = Done(response) /\ response.id = IdOf(call)

Fields == {"stage", "id", "batch", "calls", "slots", "taken", "len"}

(* A request being worked on: calls are started in order, at most one when *)
(* it is not a batch, and responses are taken in order.                    *)
RunningInv(k, last) ==
  /\ k.stage = "running"
  /\ DOMAIN k = Fields
  /\ k.id \in 1 .. last
  /\ IsSeq(k.calls) /\ IsSeq(k.slots) /\ IsSeq(k.taken)
  /\ Len(k.taken) <= Len(k.slots) /\ Len(k.slots) <= Len(k.calls)
  /\ ~k.batch => Len(k.calls) = 1
  /\ \A i \in 1 .. Len(k.slots) : SlotInv(k.calls[i], k.slots[i])
  /\ \A i \in 1 .. Len(k.taken) : k.slots[i] = Done(k.taken[i])

BatchInv(calls, reply) ==
  reply.batch =>
    /\ IsSeq(reply.responses) /\ Len(reply.responses) = Len(calls)
    /\ \A i \in 1 .. Len(calls) : reply.responses[i].id = IdOf(calls[i])
    /\ SerializedLen(reply) <= MaxResponseSize

AnsweredInv(k) ==
  /\ k.stage = "answered"
  /\ k = [stage |-> "answered", calls |-> k.calls, reply |-> k.reply]
  /\ BatchInv(k.calls, k.reply)

ConnInv(k, last) == k = Idle \/ RunningInv(k, last) \/ AnsweredInv(k)

(* No two connections work on a request with the same id. *)
IdsApart ==
  \A c, d \in Conn : conn[c].stage = "running" /\ conn[d].stage = "running" /\ conn[c].id = conn[d].id => c = d

Conns ==
  /\ conn = [c \in Conn |-> conn[c]] /\ requests \in Nat
  /\ \A c \in Conn : ConnInv(conn[c], requests)
  /\ IdsApart

(* Permits, statistics and what runs. *)
Counted(limiter, free, total) ==
  /\ free \in Nat /\ IsFiniteSet(Held(limiter)) /\ free + Cardinality(Held(limiter)) = total
StatsType == [total_requests : Nat, total_errors : Nat, queue_rejections : Nat]
StatsInv ==
  /\ stats \in StatsType
  /\ stats.total_errors + Cardinality(Held("eth_call")) <= stats.total_requests
ActiveInv ==
  /\ \A id \in active : \E c \in Conn : HeldBy(c, "eth_call") # {} /\ conn[c].id = id
  /\ \A c \in Conn : HeldBy(c, "eth_call") # {} /\ ~conn[c].batch => conn[c].id \in active

SInv ==
  /\ Conns
  /\ Counted("eth_call", permits, MaxConcurrentPermits)
  /\ Counted("feehistory", feePermits, FeeHistoryPermits)
  /\ StatsInv /\ ActiveInv

-----------------------------------------------------------------------------
(* Sequences of anything. *)
LEMMA SeqLen ==
  ASSUME NEW s, IsSeq(s)
  PROVE  Len(s) \in Nat /\ DOMAIN s = 1 .. Len(s)
BY DEF IsSeq

LEMMA SeqAppend ==
  ASSUME NEW s, IsSeq(s), NEW x
  PROVE  /\ IsSeq(Append(s, x)) /\ Len(Append(s, x)) = Len(s) + 1
         /\ Append(s, x)[Len(s) + 1] = x
         /\ \A i \in 1 .. Len(s) : Append(s, x)[i] = s[i]
<1> DEFINE S == Range(s) \cup {x}
           t == Append(s, x)
<1>1. s \in Seq(Range(s)) /\ Range(s) \subseteq S
  BY DEF IsSeq
<1> HIDE DEF S
<1>2. s \in Seq(S) /\ x \in S
  BY <1>1 DEF S
<1>3. /\ t \in Seq(S) /\ Len(t) = Len(s) + 1 /\ t[Len(s) + 1] = x
      /\ \A i \in 1 .. Len(s) : t[i] = s[i]
  BY <1>2
<1>4. t \in Seq(Range(t))
  BY <1>3 DEF Range
<1> QED
  BY <1>3, <1>4 DEF IsSeq

Updated(s, j, x) == [s EXCEPT ![j] = x]

LEMMA SeqUpdate ==
  ASSUME NEW s, IsSeq(s), NEW j \in 1 .. Len(s), NEW x, NEW t, t = Updated(s, j, x)
  PROVE  /\ IsSeq(t) /\ Len(t) = Len(s) /\ t[j] = x
         /\ \A i \in 1 .. Len(s) : i # j => t[i] = s[i]
<1> DEFINE S == Range(s) \cup {x}
<1>1. s \in Seq(Range(s)) /\ Range(s) \subseteq S
  BY DEF IsSeq
<1> HIDE DEF S
<1>2. s \in Seq(S) /\ x \in S
  BY <1>1 DEF S
<1>3. /\ t \in Seq(S) /\ Len(t) = Len(s) /\ t[j] = x
      /\ \A i \in 1 .. Len(s) : i # j => t[i] = s[i]
  BY <1>2 DEF Updated
<1> HIDE DEF S
<1>4. t \in Seq(Range(t))
  BY <1>3 DEF Range
<1> QED
  BY <1>3, <1>4 DEF IsSeq

LEMMA SeqEmpty == IsSeq(<<>>) /\ Len(<<>>) = 0
BY DEF IsSeq, Range

-----------------------------------------------------------------------------
(* What is held, as a set of pairs. *)
Pairs(h) == UNION {{c} \X h[c] : c \in Conn}
HeldOf(k, limiter) ==
  IF k.stage # "running" THEN {} ELSE {i \in DOMAIN k.slots : Holds(k.slots[i], limiter)}

LEMMA PairsAre ==
  ASSUME NEW h
  PROVE  \A x : x \in Pairs(h) <=> \E c \in Conn : \E i \in h[c] : x = <<c, i>>
BY DEF Pairs

LEMMA PairsSame ==
  ASSUME NEW g, NEW h, \A d \in Conn : g[d] = h[d]
  PROVE  Pairs(g) = Pairs(h)
<1>1. \A x : x \in Pairs(g) <=> x \in Pairs(h)
  BY PairsAre
<1> QED
  BY <1>1

LEMMA PairsMore ==
  ASSUME NEW g, NEW h, NEW c \in Conn, NEW i, \A d \in Conn : d # c => g[d] = h[d],
         g[c] = h[c] \cup {i}, i \notin h[c], IsFiniteSet(Pairs(h))
  PROVE  IsFiniteSet(Pairs(g)) /\ Cardinality(Pairs(g)) = Cardinality(Pairs(h)) + 1
<1>1. \A x : x \in Pairs(g) <=> x \in Pairs(h) \cup {<<c, i>>}
  BY PairsAre
<1>2. Pairs(g) = Pairs(h) \cup {<<c, i>>}
  BY <1>1
<1>3. <<c, i>> \notin Pairs(h)
  BY PairsAre
<1> QED
  BY <1>2, <1>3, FS_AddElement

LEMMA PairsLess ==
  ASSUME NEW g, NEW h, NEW c \in Conn, NEW i, \A d \in Conn : d # c => g[d] = h[d],
         g[c] = h[c] \ {i}, i \in h[c], IsFiniteSet(Pairs(h))
  PROVE  /\ IsFiniteSet(Pairs(g)) /\ Cardinality(Pairs(h)) \in Nat
         /\ Cardinality(Pairs(g)) = Cardinality(Pairs(h)) - 1
<1>1. \A x : x \in Pairs(g) <=> x \in Pairs(h) \ {<<c, i>>}
  BY PairsAre
<1>2. Pairs(g) = Pairs(h) \ {<<c, i>>}
  BY <1>1
<1>3. <<c, i>> \in Pairs(h)
  BY PairsAre
<1> QED
  BY <1>2, <1>3, FS_RemoveElement, FS_CardinalityType

LEMMA PairsGone ==
  ASSUME NEW g, NEW h, NEW c \in Conn, \A d \in Conn : d # c => g[d] = h[d],
         g[c] = {}, IsFiniteSet(Pairs(h))
  PROVE  /\ IsFiniteSet(Pairs(g)) /\ IsFiniteSet(h[c])
         /\ Cardinality(Pairs(g)) \in Nat /\ Cardinality(h[c]) \in Nat
         /\ Cardinality(Pairs(h)) = Cardinality(Pairs(g)) + Cardinality(h[c])
<1> DEFINE gone == {c} \X h[c]
<1>1. \A x : x \in Pairs(g) <=> x \in Pairs(h) \ gone
  BY PairsAre
<1>2. \A x : x \in gone => x \in Pairs(h)
  BY PairsAre
<1>3. Pairs(h) = Pairs(g) \cup gone /\ Pairs(g) \cap gone = {}
  BY <1>1, <1>2
<1>4. IsFiniteSet(Pairs(g)) /\ IsFiniteSet(gone)
  BY <1>3, FS_Subset
<1>5. IsFiniteSet(h[c]) /\ Cardinality(gone) = Cardinality(h[c])
  <2> DEFINE f == [x \in gone |-> x[2]]
  <2>1. f \in [gone -> h[c]]
    OBVIOUS
  <2>2. \A x, y \in gone : f[x] = f[y] => x = y
    OBVIOUS
  <2>3. \A i \in h[c] : \E x \in gone : f[x] = i
    <3>1. ASSUME NEW i \in h[c] PROVE <<c, i>> \in gone /\ f[<<c, i>>] = i
      OBVIOUS
    <3> QED
      BY <3>1
  <2> HIDE DEF f
  <2>4. f \in Bijection(gone, h[c])
    BY <2>1, <2>2, <2>3 DEF Bijection, Injection, Surjection, IsInjective
  <2>5. ExistsBijection(gone, h[c])
    BY <2>4 DEF ExistsBijection
  <2> QED
    BY <1>4, <2>5, FS_Bijection
<1>6. Cardinality(Pairs(g)) \in Nat /\ Cardinality(gone) \in Nat /\ Cardinality({}) = 0
  BY <1>4, FS_CardinalityType, FS_EmptySet
<1>7. Cardinality(Pairs(h)) = Cardinality(Pairs(g)) + Cardinality(gone) - Cardinality(Pairs(g) \cap gone)
  BY <1>3, <1>4, FS_Union
<1>8. Cardinality(Pairs(g) \cap gone) = 0
  BY <1>3, <1>6
<1>9. Cardinality(Pairs(h)) = Cardinality(Pairs(g)) + Cardinality(gone)
  BY <1>6, <1>7, <1>8
<1> QED
  BY <1>4, <1>5, <1>6, <1>9

-----------------------------------------------------------------------------
(* One connection changes: what that does to what is held. *)
LEMMA HeldAre ==
  ASSUME NEW limiter
  PROVE  /\ \A d \in Conn : HeldBy(d, limiter) = HeldOf(conn[d], limiter)
         /\ Held(limiter) = Pairs([d \in Conn |-> HeldOf(conn[d], limiter)])
<1> DEFINE h == [d \in Conn |-> HeldOf(conn[d], limiter)]
<1>1. \A d \in Conn : HeldBy(d, limiter) = HeldOf(conn[d], limiter)
  BY DEF HeldBy, HeldOf
<1>2. \A x : x \in Held(limiter) <=> \E c \in Conn : \E i \in HeldBy(c, limiter) : x = <<c, i>>
  BY DEF Held
<1>3. \A d \in Conn : h[d] = HeldOf(conn[d], limiter)
  OBVIOUS
<1> HIDE DEF h
<1>4. \A x : x \in Held(limiter) <=> x \in Pairs(h)
  BY <1>1, <1>2, <1>3, PairsAre
<1>5. Held(limiter) = Pairs(h)
  BY <1>4
<1> QED
  BY <1>1, <1>5 DEF h

LEMMA HeldAfter ==
  ASSUME NEW limiter
  PROVE  /\ \A d \in Conn : HeldBy(d, limiter)' = HeldOf(conn'[d], limiter)
         /\ Held(limiter)' = Pairs([d \in Conn |-> HeldOf(conn'[d], limiter)])
<1> DEFINE h == [d \in Conn |-> HeldOf(conn'[d], limiter)]
<1>1. \A d \in Conn : HeldBy(d, limiter)' = HeldOf(conn'[d], limiter)
  BY DEF HeldBy, HeldOf
<1>2. \A x : x \in Held(limiter)' <=> \E c \in Conn : \E i \in HeldOf(conn'[c], limiter) : x = <<c, i>>
  BY <1>1 DEF Held
<1>3. \A d \in Conn : h[d] = HeldOf(conn'[d], limiter)
  OBVIOUS
<1> HIDE DEF h
<1>4. \A x : x \in Held(limiter)' <=> x \in Pairs(h)
  BY <1>2, <1>3, PairsAre
<1>5. Held(limiter)' = Pairs(h)
  BY <1>4
<1> QED
  BY <1>1, <1>5 DEF h

(* Connection c goes on with record k. *)
Becomes(c, k) == conn = [d \in Conn |-> conn[d]] /\ conn' = [conn EXCEPT ![c] = k]

LEMMA Others ==
  ASSUME NEW c \in Conn, NEW k, Becomes(c, k)
  PROVE  /\ conn' = [d \in Conn |-> conn'[d]] /\ conn'[c] = k
         /\ \A d \in Conn : d # c => conn'[d] = conn[d]
BY DEF Becomes

LEMMA HeldSame ==
  ASSUME NEW limiter, NEW c \in Conn, NEW k, Becomes(c, k),
         HeldOf(k, limiter) = HeldOf(conn[c], limiter)
  PROVE  Held(limiter)' = Held(limiter)
<1> DEFINE h == [d \in Conn |-> HeldOf(conn[d], limiter)]
           g == [d \in Conn |-> HeldOf(conn'[d], limiter)]
<1>1. \A d \in Conn : g[d] = h[d]
  BY Others
<1>2. Held(limiter) = Pairs(h) /\ Held(limiter)' = Pairs(g)
  BY HeldAre, HeldAfter
<1> HIDE DEF g, h
<1> QED
  BY <1>1, <1>2, PairsSame

LEMMA HeldMore ==
  ASSUME NEW limiter, NEW c \in Conn, NEW k, Becomes(c, k), NEW i, i \notin HeldOf(conn[c], limiter),
         HeldOf(k, limiter) = HeldOf(conn[c], limiter) \cup {i}, IsFiniteSet(Held(limiter))
  PROVE  IsFiniteSet(Held(limiter)') /\ Cardinality(Held(limiter)') = Cardinality(Held(limiter)) + 1
<1> DEFINE h == [d \in Conn |-> HeldOf(conn[d], limiter)]
           g == [d \in Conn |-> HeldOf(conn'[d], limiter)]
<1>1. /\ \A d \in Conn : d # c => g[d] = h[d]
      /\ g[c] = h[c] \cup {i} /\ i \notin h[c]
  BY Others
<1>2. Held(limiter) = Pairs(h) /\ Held(limiter)' = Pairs(g)
  BY HeldAre, HeldAfter
<1> HIDE DEF g, h
<1> QED
  BY <1>1, <1>2, PairsMore

LEMMA HeldLess ==
  ASSUME NEW limiter, NEW c \in Conn, NEW k, Becomes(c, k), NEW i, i \in HeldOf(conn[c], limiter),
         HeldOf(k, limiter) = HeldOf(conn[c], limiter) \ {i}, IsFiniteSet(Held(limiter))
  PROVE  /\ IsFiniteSet(Held(limiter)') /\ Cardinality(Held(limiter)) \in Nat
         /\ Cardinality(Held(limiter)') = Cardinality(Held(limiter)) - 1
<1> DEFINE h == [d \in Conn |-> HeldOf(conn[d], limiter)]
           g == [d \in Conn |-> HeldOf(conn'[d], limiter)]
<1>1. /\ \A d \in Conn : d # c => g[d] = h[d]
      /\ g[c] = h[c] \ {i} /\ i \in h[c]
  BY Others
<1>2. Held(limiter) = Pairs(h) /\ Held(limiter)' = Pairs(g)
  BY HeldAre, HeldAfter
<1> HIDE DEF g, h
<1> QED
  BY <1>1, <1>2, PairsLess

LEMMA HeldGone ==
  ASSUME NEW limiter, NEW c \in Conn, NEW k, Becomes(c, k),
         HeldOf(k, limiter) = {}, IsFiniteSet(Held(limiter))
  PROVE  /\ IsFiniteSet(Held(limiter)')
         /\ Cardinality(Held(limiter)') \in Nat /\ Cardinality(HeldBy(c, limiter)) \in Nat
         /\ Cardinality(Held(limiter)) = Cardinality(Held(limiter)') + Cardinality(HeldBy(c, limiter))
<1> DEFINE h == [d \in Conn |-> HeldOf(conn[d], limiter)]
           g == [d \in Conn |-> HeldOf(conn'[d], limiter)]
<1>1. /\ \A d \in Conn : d # c => g[d] = h[d]
      /\ g[c] = {}
  BY Others
<1>2. Held(limiter) = Pairs(h) /\ Held(limiter)' = Pairs(g) /\ HeldBy(c, limiter) = h[c]
  BY HeldAre, HeldAfter
<1> HIDE DEF g, h
<1> QED
  BY <1>1, <1>2, PairsGone

-----------------------------------------------------------------------------
(* One connection changes: what that does to the other invariants. *)
LEMMA ConnsKept ==
  ASSUME Conns, NEW c \in Conn, NEW k, Becomes(c, k), requests' \in Nat, requests' >= requests,
         ConnInv(k, requests'),
         k.stage = "running" => \/ conn[c].stage = "running" /\ k.id = conn[c].id
                                \/ k.id > requests
  PROVE  Conns'
<1>1. /\ conn' = [d \in Conn |-> conn'[d]] /\ conn'[c] = k
      /\ \A d \in Conn : d # c => conn'[d] = conn[d]
  BY Others
<1>2. requests \in Nat
  BY DEF Conns
<1>3. ASSUME NEW d \in Conn PROVE ConnInv(conn'[d], requests')
  <2>1. CASE d = c
    BY <1>1, <2>1
  <2>2. CASE d # c
    <3>1. ConnInv(conn[d], requests) /\ conn'[d] = conn[d]
      BY <1>1, <2>2 DEF Conns
    <3>2. CASE RunningInv(conn[d], requests)
      <4>1. conn[d].id \in 1 .. requests'
        BY <1>2, <3>2 DEF RunningInv
      <4>2. RunningInv(conn[d], requests')
        BY <3>2, <4>1 DEF RunningInv
      <4> QED
        BY <3>1, <4>2 DEF ConnInv
    <3> QED
      BY <3>1, <3>2 DEF ConnInv
  <2> QED
    BY <2>1, <2>2
<1>4. ASSUME NEW d \in Conn, conn[d].stage = "running" PROVE conn[d].id \in 1 .. requests
  <2>1. ConnInv(conn[d], requests)
    BY DEF Conns
  <2> QED
    BY <1>4, <2>1 DEF ConnInv, RunningInv, AnsweredInv, Idle
<1>5. ASSUME NEW d \in Conn, NEW e \in Conn, d # e,
             conn'[d].stage = "running", conn'[e].stage = "running"
      PROVE  conn'[d].id # conn'[e].id
  <2>1. IdsApart
    BY DEF Conns
  <2>2. CASE d = c
    BY <1>1, <1>2, <1>4, <1>5, <2>1, <2>2 DEF IdsApart
  <2>3. CASE e = c
    BY <1>1, <1>2, <1>4, <1>5, <2>1, <2>3 DEF IdsApart
  <2>4. CASE d # c /\ e # c
    BY <1>1, <1>5, <2>1, <2>4 DEF IdsApart
  <2> QED
    BY <2>2, <2>3, <2>4
<1>6. IdsApart'
  BY <1>5 DEF IdsApart
<1> QED
  BY <1>1, <1>3, <1>6 DEF Conns

LEMMA ActiveSame ==
  ASSUME ActiveInv, NEW c \in Conn, NEW k, Becomes(c, k), active' = active,
         HeldOf(k, "eth_call") # {} =>
           HeldOf(conn[c], "eth_call") # {} /\ k.id = conn[c].id /\ k.batch = conn[c].batch,
         HeldOf(k, "eth_call") = {} => HeldOf(conn[c], "eth_call") = {}
  PROVE  ActiveInv'
<1> DEFINE H(d) == HeldOf(conn[d], "eth_call")
           G(d) == HeldOf(conn'[d], "eth_call")
<1>1. conn'[c] = k /\ \A d \in Conn : d # c => conn'[d] = conn[d]
  BY Others
<1>2. \A d \in Conn : HeldBy(d, "eth_call") = H(d) /\ HeldBy(d, "eth_call")' = G(d)
  BY HeldAre, HeldAfter
<1>3. \A d \in Conn : G(d) # {} <=> H(d) # {}
  BY <1>1
<1>4. \A d \in Conn : G(d) # {} => conn'[d].id = conn[d].id /\ conn'[d].batch = conn[d].batch
  BY <1>1
<1> HIDE DEF G, H
<1>5. ASSUME NEW id \in active'
      PROVE  \E d \in Conn : HeldBy(d, "eth_call")' # {} /\ conn'[d].id = id
  <2>1. PICK d \in Conn : HeldBy(d, "eth_call") # {} /\ conn[d].id = id
    BY DEF ActiveInv
  <2> QED
    BY <1>2, <1>3, <1>4, <2>1
<1>6. ASSUME NEW d \in Conn, HeldBy(d, "eth_call")' # {}, ~conn'[d].batch
      PROVE  conn'[d].id \in active'
  BY <1>2, <1>3, <1>4, <1>6 DEF ActiveInv
<1> QED
  BY <1>5, <1>6 DEF ActiveInv

LEMMA ActivePlus ==
  ASSUME ActiveInv, NEW c \in Conn, NEW k, Becomes(c, k), active' = active \cup {conn[c].id},
         HeldOf(k, "eth_call") # {}, k.id = conn[c].id, k.batch = conn[c].batch
  PROVE  ActiveInv'
<1> DEFINE H(d) == HeldOf(conn[d], "eth_call")
           G(d) == HeldOf(conn'[d], "eth_call")
<1>1. conn'[c] = k /\ \A d \in Conn : d # c => conn'[d] = conn[d]
  BY Others
<1>2. \A d \in Conn : HeldBy(d, "eth_call") = H(d) /\ HeldBy(d, "eth_call")' = G(d)
  BY HeldAre, HeldAfter
<1>3. G(c) # {} /\ \A d \in Conn : d # c => G(d) = H(d)
  BY <1>1
<1>4. \A d \in Conn : conn'[d].id = conn[d].id /\ conn'[d].batch = conn[d].batch
  BY <1>1
<1> HIDE DEF G, H
<1>5. ASSUME NEW id \in active'
      PROVE  \E d \in Conn : HeldBy(d, "eth_call")' # {} /\ conn'[d].id = id
  <2>1. CASE id = conn[c].id
    BY <1>2, <1>3, <1>4, <2>1
  <2>2. CASE id # conn[c].id
    <3>1. PICK d \in Conn : HeldBy(d, "eth_call") # {} /\ conn[d].id = id
      BY <2>2 DEF ActiveInv
    <3> QED
      BY <1>2, <1>3, <1>4, <2>2, <3>1
  <2> QED
    BY <2>1, <2>2
<1>6. ASSUME NEW d \in Conn, HeldBy(d, "eth_call")' # {}, ~conn'[d].batch
      PROVE  conn'[d].id \in active'
  BY <1>2, <1>3, <1>4, <1>6 DEF ActiveInv
<1> QED
  BY <1>5, <1>6 DEF ActiveInv

LEMMA ActiveMinus ==
  ASSUME ActiveInv, Conns, NEW c \in Conn, NEW k, Becomes(c, k), conn[c].stage = "running",
         active' = active \ {conn[c].id},
         HeldOf(k, "eth_call") = {} \/ k.batch
  PROVE  ActiveInv'
<1> DEFINE H(d) == HeldOf(conn[d], "eth_call")
           G(d) == HeldOf(conn'[d], "eth_call")
<1>1. conn'[c] = k /\ \A d \in Conn : d # c => conn'[d] = conn[d]
  BY Others
<1>2. \A d \in Conn : HeldBy(d, "eth_call") = H(d) /\ HeldBy(d, "eth_call")' = G(d)
  BY HeldAre, HeldAfter
<1>3. \A d \in Conn : d # c => G(d) = H(d)
  BY <1>1
<1>4. G(c) = {} \/ conn'[c].batch
  BY <1>1
<1>5. \A d \in Conn : H(d) # {} => conn[d].stage = "running"
  BY DEF HeldOf
<1> HIDE DEF G, H
<1>6. ASSUME NEW id \in active'
      PROVE  \E d \in Conn : HeldBy(d, "eth_call")' # {} /\ conn'[d].id = id
  <2>1. PICK d \in Conn : HeldBy(d, "eth_call") # {} /\ conn[d].id = id
    BY DEF ActiveInv
  <2>2. d # c
    BY <2>1
  <2> QED
    BY <1>1, <1>2, <1>3, <2>1, <2>2
<1>7. ASSUME NEW d \in Conn, HeldBy(d, "eth_call")' # {}, ~conn'[d].batch
      PROVE  conn'[d].id \in active'
  <2>1. d # c
    BY <1>2, <1>4, <1>7
  <2>2. conn'[d] = conn[d] /\ H(d) # {}
    BY <1>1, <1>2, <1>3, <1>7, <2>1
  <2>3. conn[d].id \in active
    BY <1>2, <1>7, <2>2 DEF ActiveInv
  <2>4. conn[d].id # conn[c].id
    BY <1>5, <2>1, <2>2 DEF Conns, IdsApart
  <2> QED
    BY <2>2, <2>3, <2>4
<1> QED
  BY <1>6, <1>7 DEF ActiveInv

-----------------------------------------------------------------------------
(* The request of a connection, step by step. *)
LEMMA SlotFacts ==
  /\ \A l, m : Holds(Running(l), m) <=> l = m
  /\ \A r, m : ~Holds(Done(r), m)
  /\ \A l : Running(l).state = "running"
  /\ \A r : Done(r).state = "done" /\ Done(r).response = r
BY DEF Holds, Running, Done

LEMMA StageRunning ==
  ASSUME NEW k, NEW last, ConnInv(k, last), k.stage = "running"
  PROVE  RunningInv(k, last)
BY DEF ConnInv, AnsweredInv, Idle

LEMMA RunningFacts ==
  ASSUME NEW k, NEW last, RunningInv(k, last)
  PROVE  /\ Len(k.calls) \in Nat /\ Len(k.slots) \in Nat /\ Len(k.taken) \in Nat
         /\ DOMAIN k.slots = 1 .. Len(k.slots)
         /\ \A l : HeldOf(k, l) = {i \in 1 .. Len(k.slots) : Holds(k.slots[i], l)}
<1>1. IsSeq(k.calls) /\ IsSeq(k.slots) /\ IsSeq(k.taken) /\ k.stage = "running"
  BY DEF RunningInv
<1>2. /\ Len(k.calls) \in Nat /\ Len(k.slots) \in Nat /\ Len(k.taken) \in Nat
      /\ DOMAIN k.slots = 1 .. Len(k.slots)
  BY <1>1, SeqLen
<1> QED
  BY <1>1, <1>2 DEF HeldOf

(* StartCall puts a call's future into the buffer. *)
WithSlot(k, slot) == [k EXCEPT !.slots = Append(k.slots, slot)]

LEMMA Pushed ==
  ASSUME NEW k, NEW last, RunningInv(k, last), Len(k.slots) < Len(k.calls), NEW slot,
         SlotInv(k.calls[Len(k.slots) + 1], slot),
         NEW n, n = WithSlot(k, slot)
  PROVE  /\ RunningInv(n, last) /\ n.stage = "running" /\ n.id = k.id /\ n.batch = k.batch
         /\ \A l : Len(k.slots) + 1 \notin HeldOf(k, l)
         /\ \A l : HeldOf(n, l) = IF Holds(slot, l) THEN HeldOf(k, l) \cup {Len(k.slots) + 1}
                                  ELSE HeldOf(k, l)
         /\ ~k.batch => \A l : HeldOf(k, l) = {}
<1> DEFINE s == Append(k.slots, slot)
<1>1. /\ DOMAIN k = Fields
      /\ k.id \in 1 .. last
      /\ IsSeq(k.calls) /\ IsSeq(k.slots) /\ IsSeq(k.taken)
      /\ Len(k.taken) <= Len(k.slots) /\ Len(k.slots) <= Len(k.calls)
      /\ ~k.batch => Len(k.calls) = 1
      /\ \A i \in 1 .. Len(k.slots) : SlotInv(k.calls[i], k.slots[i])
      /\ \A i \in 1 .. Len(k.taken) : k.slots[i] = Done(k.taken[i])
  BY DEF RunningInv
<1>2. /\ Len(k.calls) \in Nat /\ Len(k.slots) \in Nat /\ Len(k.taken) \in Nat
      /\ \A l : HeldOf(k, l) = {i \in 1 .. Len(k.slots) : Holds(k.slots[i], l)}
  BY RunningFacts
<1>3. /\ IsSeq(s) /\ Len(s) = Len(k.slots) + 1 /\ s[Len(k.slots) + 1] = slot
      /\ \A i \in 1 .. Len(k.slots) : s[i] = k.slots[i]
  BY <1>1, SeqAppend
<1>4. /\ DOMAIN n = Fields /\ n.stage = k.stage /\ n.id = k.id /\ n.batch = k.batch /\ n.calls = k.calls
      /\ n.slots = s /\ n.taken = k.taken /\ n.len = k.len
  BY <1>1 DEF Fields, WithSlot
<1> HIDE DEF s
<1>5. n.stage = "running"
  BY <1>4 DEF RunningInv
<1>6. \A i \in 1 .. Len(s) : SlotInv(k.calls[i], s[i])
  <2>1. ASSUME NEW i \in 1 .. Len(s) PROVE SlotInv(k.calls[i], s[i])
    <3>1. CASE i = Len(k.slots) + 1
      BY <1>3, <3>1
    <3>2. CASE i # Len(k.slots) + 1
      <4>1. i \in 1 .. Len(k.slots)
        BY <1>2, <1>3, <3>2
      <4> QED
        BY <1>1, <1>3, <4>1
    <3> QED
      BY <3>1, <3>2
  <2> QED
    BY <2>1
<1>7. \A i \in 1 .. Len(k.taken) : s[i] = Done(k.taken[i])
  <2>1. \A i \in 1 .. Len(k.taken) : i \in 1 .. Len(k.slots)
    BY <1>1, <1>2
  <2> QED
    BY <1>1, <1>3, <2>1
<1>8. Len(k.taken) <= Len(s) /\ Len(s) <= Len(k.calls)
  BY <1>1, <1>2, <1>3
<1>9. RunningInv(n, last)
  BY <1>1, <1>3, <1>4, <1>5, <1>6, <1>7, <1>8 DEF RunningInv
<1>10. \A l : Len(k.slots) + 1 \notin HeldOf(k, l)
  BY <1>2
<1>11. ASSUME NEW l
       PROVE HeldOf(n, l) = IF Holds(slot, l) THEN HeldOf(k, l) \cup {Len(k.slots) + 1} ELSE HeldOf(k, l)
  <2>1. HeldOf(n, l) = {i \in 1 .. Len(k.slots) + 1 : Holds(s[i], l)}
    BY <1>3, <1>4, <1>5, <1>9, RunningFacts
  <2>2. 1 .. Len(k.slots) + 1 = (1 .. Len(k.slots)) \cup {Len(k.slots) + 1}
    BY <1>2
  <2> QED
    BY <1>2, <1>3, <2>1, <2>2
<1>12. ASSUME ~k.batch, NEW l PROVE HeldOf(k, l) = {}
  <2>1. Len(k.slots) = 0
    BY <1>1, <1>2, <1>12
  <2> QED
    BY <1>2, <2>1
<1> QED
  BY <1>4, <1>5, <1>9, <1>10, <1>11, <1>12

(* FinishCall puts the response in the call's place. *)
WithResponse(k, j, response) == [k EXCEPT !.slots = Updated(k.slots, j, Done(response))]

LEMMA Finished ==
  ASSUME NEW k, NEW last, RunningInv(k, last), NEW j \in 1 .. Len(k.slots),
         k.slots[j].state = "running", NEW response, response.id = k.calls[j].id,
         NEW n, n = WithResponse(k, j, response)
  PROVE  /\ RunningInv(n, last) /\ n.stage = "running" /\ n.id = k.id /\ n.batch = k.batch
         /\ \A l : j \in HeldOf(k, l) <=> Holds(k.slots[j], l)
         /\ \A l : HeldOf(n, l) = HeldOf(k, l) \ {j}
         /\ ~k.batch => \A l : HeldOf(n, l) = {}
<1> DEFINE s == Updated(k.slots, j, Done(response))
<1>1. /\ DOMAIN k = Fields
      /\ k.id \in 1 .. last
      /\ IsSeq(k.calls) /\ IsSeq(k.slots) /\ IsSeq(k.taken)
      /\ Len(k.taken) <= Len(k.slots) /\ Len(k.slots) <= Len(k.calls)
      /\ ~k.batch => Len(k.calls) = 1
      /\ \A i \in 1 .. Len(k.slots) : SlotInv(k.calls[i], k.slots[i])
      /\ \A i \in 1 .. Len(k.taken) : k.slots[i] = Done(k.taken[i])
  BY DEF RunningInv
<1>2. /\ Len(k.calls) \in Nat /\ Len(k.slots) \in Nat /\ Len(k.taken) \in Nat
      /\ \A l : HeldOf(k, l) = {i \in 1 .. Len(k.slots) : Holds(k.slots[i], l)}
  BY RunningFacts
<1>3. /\ IsSeq(s) /\ Len(s) = Len(k.slots) /\ s[j] = Done(response)
      /\ \A i \in 1 .. Len(k.slots) : i # j => s[i] = k.slots[i]
  BY <1>1, SeqUpdate
<1>4. /\ DOMAIN n = Fields /\ n.stage = k.stage /\ n.id = k.id /\ n.batch = k.batch /\ n.calls = k.calls
      /\ n.slots = s /\ n.taken = k.taken /\ n.len = k.len
  BY <1>1 DEF Fields, WithResponse
<1> HIDE DEF s
<1>5. n.stage = "running"
  BY <1>4 DEF RunningInv
<1>6. k.calls[j].readable
  BY <1>1, SlotFacts DEF SlotInv
<1>7. SlotInv(k.calls[j], Done(response))
  BY <1>6 DEF SlotInv, IdOf
<1>8. \A i \in 1 .. Len(s) : SlotInv(k.calls[i], s[i])
  BY <1>1, <1>3, <1>7
<1>9. \A i \in 1 .. Len(k.taken) : s[i] = Done(k.taken[i])
  <2>1. \A i \in 1 .. Len(k.taken) : i \in 1 .. Len(k.slots) /\ i # j
    BY <1>1, <1>2, SlotFacts
  <2> QED
    BY <1>1, <1>3, <2>1
<1>10. RunningInv(n, last)
  BY <1>1, <1>3, <1>4, <1>5, <1>8, <1>9 DEF RunningInv
<1>11. \A l : j \in HeldOf(k, l) <=> Holds(k.slots[j], l)
  BY <1>2
<1>12. ASSUME NEW l PROVE HeldOf(n, l) = HeldOf(k, l) \ {j}
  <2>1. HeldOf(n, l) = {i \in 1 .. Len(k.slots) : Holds(s[i], l)}
    BY <1>3, <1>4, <1>5, <1>10, RunningFacts
  <2>2. ~Holds(s[j], l)
    BY <1>3, SlotFacts
  <2> QED
    BY <1>2, <1>3, <2>1, <2>2
<1>13. ASSUME ~k.batch, NEW l PROVE HeldOf(n, l) = {}
  <2>1. 1 .. Len(k.slots) = {j}
    BY <1>1, <1>2, <1>13
  <2> QED
    BY <1>2, <1>12, <2>1
<1> QED
  BY <1>4, <1>5, <1>10, <1>11, <1>12, <1>13

(* Collect takes the next response: the request goes on ... *)
WithTaken(k, j, size) ==
  [k EXCEPT !.taken = Append(k.taken, k.slots[j].response), !.len = size]

LEMMA TakenOn ==
  ASSUME NEW k, NEW last, RunningInv(k, last), NEW j \in 1 .. Len(k.slots),
         j = Len(k.taken) + 1, k.slots[j].state = "done",
         NEW size, NEW n, n = WithTaken(k, j, size)
  PROVE  /\ RunningInv(n, last) /\ n.stage = "running" /\ n.id = k.id /\ n.batch = k.batch
         /\ \A l : HeldOf(n, l) = HeldOf(k, l)
<1> DEFINE t == Append(k.taken, k.slots[j].response)
<1>1. /\ DOMAIN k = Fields
      /\ k.id \in 1 .. last
      /\ IsSeq(k.calls) /\ IsSeq(k.slots) /\ IsSeq(k.taken)
      /\ Len(k.taken) <= Len(k.slots) /\ Len(k.slots) <= Len(k.calls)
      /\ ~k.batch => Len(k.calls) = 1
      /\ \A i \in 1 .. Len(k.slots) : SlotInv(k.calls[i], k.slots[i])
      /\ \A i \in 1 .. Len(k.taken) : k.slots[i] = Done(k.taken[i])
  BY DEF RunningInv
<1>2. /\ Len(k.calls) \in Nat /\ Len(k.slots) \in Nat /\ Len(k.taken) \in Nat
      /\ \A l : HeldOf(k, l) = {i \in 1 .. Len(k.slots) : Holds(k.slots[i], l)}
  BY RunningFacts
<1>3. /\ IsSeq(t) /\ Len(t) = Len(k.taken) + 1 /\ t[Len(k.taken) + 1] = k.slots[j].response
      /\ \A i \in 1 .. Len(k.taken) : t[i] = k.taken[i]
  BY <1>1, SeqAppend
<1>4. /\ DOMAIN n = Fields /\ n.stage = k.stage /\ n.id = k.id /\ n.batch = k.batch /\ n.calls = k.calls
      /\ n.slots = k.slots /\ n.taken = t /\ n.len = size
  BY <1>1 DEF Fields, WithTaken
<1> HIDE DEF t
<1>5. n.stage = "running"
  BY <1>4 DEF RunningInv
<1>6. k.slots[j] = Done(k.slots[j].response)
  BY <1>1, SlotFacts DEF SlotInv
<1>7. \A i \in 1 .. Len(t) : k.slots[i] = Done(t[i])
  BY <1>1, <1>2, <1>3, <1>6
<1>8. Len(t) <= Len(k.slots)
  BY <1>2, <1>3
<1>9. RunningInv(n, last)
  BY <1>1, <1>3, <1>4, <1>5, <1>7, <1>8 DEF RunningInv
<1>10. \A l : HeldOf(n, l) = HeldOf(k, l)
  BY <1>2, <1>4, <1>5, <1>9, RunningFacts
<1> QED
  BY <1>4, <1>5, <1>9, <1>10

(* ... or was waiting for nothing else. *)
LEMMA TakenAll ==
  ASSUME NEW k, NEW last, RunningInv(k, last), NEW j \in 1 .. Len(k.slots),
         j = Len(k.taken) + 1, k.slots[j].state = "done", ~(j < Len(k.calls)),
         NEW t, t = Append(k.taken, k.slots[j].response)
  PROVE  /\ \A l : HeldOf(k, l) = {}
         /\ IsSeq(t) /\ Len(t) = Len(k.calls)
         /\ \A i \in 1 .. Len(k.calls) : t[i].id = IdOf(k.calls[i])
<1>1. /\ IsSeq(k.calls) /\ IsSeq(k.slots) /\ IsSeq(k.taken)
      /\ Len(k.taken) <= Len(k.slots) /\ Len(k.slots) <= Len(k.calls)
      /\ \A i \in 1 .. Len(k.slots) : SlotInv(k.calls[i], k.slots[i])
      /\ \A i \in 1 .. Len(k.taken) : k.slots[i] = Done(k.taken[i])
  BY DEF RunningInv
<1>2. /\ Len(k.calls) \in Nat /\ Len(k.slots) \in Nat /\ Len(k.taken) \in Nat
      /\ \A l : HeldOf(k, l) = {i \in 1 .. Len(k.slots) : Holds(k.slots[i], l)}
  BY RunningFacts
<1>3. /\ IsSeq(t) /\ Len(t) = Len(k.taken) + 1 /\ t[Len(k.taken) + 1] = k.slots[j].response
      /\ \A i \in 1 .. Len(k.taken) : t[i] = k.taken[i]
  BY <1>1, SeqAppend
<1>4. Len(k.calls) = Len(k.taken) + 1 /\ Len(k.slots) = Len(k.calls)
  BY <1>1, <1>2
<1>5. k.slots[j] = Done(k.slots[j].response)
  BY <1>1, SlotFacts DEF SlotInv
<1>6. \A i \in 1 .. Len(k.calls) : k.slots[i] = Done(t[i])
  <2>1. ASSUME NEW i \in 1 .. Len(k.calls) PROVE k.slots[i] = Done(t[i])
    <3>1. CASE i = j
      BY <1>3, <1>5, <3>1
    <3>2. CASE i # j
      BY <1>1, <1>2, <1>3, <1>4, <3>2
    <3> QED
      BY <3>1, <3>2
  <2> QED
    BY <2>1
<1>7. ASSUME NEW i \in 1 .. Len(k.calls) PROVE t[i].id = IdOf(k.calls[i])
  <2>1. SlotInv(k.calls[i], Done(t[i]))
    BY <1>1, <1>4, <1>6
  <2> QED
    BY <2>1, SlotFacts DEF SlotInv
<1>8. \A l : HeldOf(k, l) = {}
  BY <1>2, <1>4, <1>6, SlotFacts
<1> QED
  BY <1>3, <1>4, <1>7, <1>8

-----------------------------------------------------------------------------
(* The statistics: requests are counted when they start, errors when they  *)
(* end, so that the errors and the calls that run make up at most the      *)
(* requests.                                                               *)
LEMMA StartCounted ==
  ASSUME NEW s \in StatsType, NEW n \in Nat, s.total_errors + n <= s.total_requests,
         NEW t, t = [s EXCEPT !.total_requests = @ + 1]
  PROVE  t \in StatsType /\ t.total_errors + (n + 1) <= t.total_requests
<1>1. /\ t.total_requests = s.total_requests + 1 /\ t.total_errors = s.total_errors
      /\ s.total_errors \in Nat /\ s.total_requests \in Nat
  BY DEF StatsType
<1>2. t \in StatsType
  BY DEF StatsType
<1> QED
  BY <1>1, <1>2

LEMMA RejectionCounted ==
  ASSUME NEW s \in StatsType, NEW n \in Nat, s.total_errors + n <= s.total_requests,
         NEW t, t = [s EXCEPT !.queue_rejections = @ + 1, !.total_requests = @ + 1, !.total_errors = @ + 1]
  PROVE  t \in StatsType /\ t.total_errors + n <= t.total_requests
<1>1. /\ t.total_requests = s.total_requests + 1 /\ t.total_errors = s.total_errors + 1
      /\ s.total_errors \in Nat /\ s.total_requests \in Nat
  BY DEF StatsType
<1>2. t = [total_requests |-> s.total_requests + 1, total_errors |-> s.total_errors + 1,
           queue_rejections |-> s.queue_rejections + 1]
  BY DEF StatsType
<1>3. t \in StatsType
  BY <1>2 DEF StatsType
<1> QED
  BY <1>1, <1>3

LEMMA ErrorCounted ==
  ASSUME NEW s \in StatsType, NEW n \in Nat, s.total_errors + n <= s.total_requests,
         NEW t, t = [s EXCEPT !.total_errors = @ + 1]
  PROVE  t \in StatsType /\ t.total_errors + (n - 1) <= t.total_requests
<1>1. /\ t.total_requests = s.total_requests /\ t.total_errors = s.total_errors + 1
      /\ s.total_errors \in Nat /\ s.total_requests \in Nat
  BY DEF StatsType
<1>2. t \in StatsType
  BY DEF StatsType
<1> QED
  BY <1>1, <1>2

-----------------------------------------------------------------------------
(* StartCall. *)
LEMMA PushStep ==
  ASSUME Conns, NEW c \in Conn, conn[c].stage = "running",
         Len(conn[c].slots) < Len(conn[c].calls), NEW slot,
         SlotInv(conn[c].calls[Len(conn[c].slots) + 1], slot), Push(c, slot), requests' = requests
  PROVE  Conns' /\
         \E n : \E i :
           /\ Becomes(c, n) /\ n.id = conn[c].id /\ n.batch = conn[c].batch
           /\ \A l : i \notin HeldOf(conn[c], l)
           /\ \A l : Holds(slot, l) => HeldOf(n, l) = HeldOf(conn[c], l) \cup {i}
           /\ \A l : ~Holds(slot, l) => HeldOf(n, l) = HeldOf(conn[c], l)
           /\ ~conn[c].batch => \A l : HeldOf(conn[c], l) = {}
<1> DEFINE k == conn[c]
           n == WithSlot(k, slot)
           i == Len(k.slots) + 1
<1>1. RunningInv(k, requests)
  BY StageRunning DEF Conns
<1>2. Becomes(c, n)
  BY DEF Conns, Push, Becomes, WithSlot
<1>3. /\ RunningInv(n, requests) /\ n.stage = "running" /\ n.id = k.id /\ n.batch = k.batch
      /\ \A l : i \notin HeldOf(k, l)
      /\ \A l : HeldOf(n, l) = IF Holds(slot, l) THEN HeldOf(k, l) \cup {i} ELSE HeldOf(k, l)
      /\ ~k.batch => \A l : HeldOf(k, l) = {}
  <2> HIDE DEF k
  <2>1. Len(k.slots) < Len(k.calls) /\ SlotInv(k.calls[Len(k.slots) + 1], slot)
    BY DEF k
  <2> QED
    BY <1>1, <2>1, Pushed
<1> HIDE DEF n, i
<1>4. Conns'
  <2>1. ConnInv(n, requests') /\ requests' \in Nat /\ requests' >= requests
    BY <1>3 DEF ConnInv, Conns
  <2> QED
    BY <1>2, <1>3, <2>1, ConnsKept
<1>5. /\ \A l : Holds(slot, l) => HeldOf(n, l) = HeldOf(conn[c], l) \cup {i}
      /\ \A l : ~Holds(slot, l) => HeldOf(n, l) = HeldOf(conn[c], l)
  BY <1>3
<1> QED
  BY <1>2, <1>3, <1>4, <1>5

(* A call that ends at once takes nothing. *)
LEMMA PushFree ==
  ASSUME SInv, NEW c \in Conn, conn[c].stage = "running",
         Len(conn[c].slots) < Len(conn[c].calls), NEW slot,
         SlotInv(conn[c].calls[Len(conn[c].slots) + 1], slot), Push(c, slot), requests' = requests,
         ~Holds(slot, "eth_call"), ~Holds(slot, "feehistory"),
         UNCHANGED <<permits, feePermits>>,
         \/ UNCHANGED <<active, stats>>
         \/ record_queue_rejection
         \/ active' = active \ {conn[c].id} /\ stats' = [stats EXCEPT !.total_requests = @ + 1]
  PROVE  SInv'
<1>1. Conns /\ ActiveInv /\ StatsInv
  BY DEF SInv
<1>2. Conns'
  BY <1>1, PushStep
<1>3. PICK n : \E i :
           /\ Becomes(c, n) /\ n.id = conn[c].id /\ n.batch = conn[c].batch
           /\ \A l : i \notin HeldOf(conn[c], l)
           /\ \A l : Holds(slot, l) => HeldOf(n, l) = HeldOf(conn[c], l) \cup {i}
           /\ \A l : ~Holds(slot, l) => HeldOf(n, l) = HeldOf(conn[c], l)
           /\ ~conn[c].batch => \A l : HeldOf(conn[c], l) = {}
  BY <1>1, PushStep
<1>4. /\ HeldOf(n, "eth_call") = HeldOf(conn[c], "eth_call")
      /\ HeldOf(n, "feehistory") = HeldOf(conn[c], "feehistory")
      /\ ~conn[c].batch => HeldOf(conn[c], "eth_call") = {}
  BY <1>3
<1>5. Held("eth_call")' = Held("eth_call") /\ Held("feehistory")' = Held("feehistory")
  BY <1>3, <1>4, HeldSame
<1>6. ActiveInv'
  <2>1. CASE active' = active
    BY <1>1, <1>3, <1>4, <2>1, ActiveSame
  <2>2. CASE active' = active \ {conn[c].id}
    <3>1. HeldOf(n, "eth_call") = {} \/ n.batch
      BY <1>3, <1>4
    <3> QED
      BY <1>1, <1>3, <2>2, <3>1, ActiveMinus
  <2> QED
    BY <2>1, <2>2 DEF record_queue_rejection
<1>7. StatsInv'
  <2>1. Cardinality(Held("eth_call")) \in Nat
    BY FS_CardinalityType DEF SInv, Counted
  <2> DEFINE n0 == Cardinality(Held("eth_call"))
  <2>2. Cardinality(Held("eth_call")') = n0
    BY <1>5
  <2>3. /\ stats \in StatsType
        /\ stats.total_errors + n0 <= stats.total_requests
    BY <1>1 DEF StatsInv
  <2>4. n0 \in Nat
    BY <2>1
  <2> HIDE DEF n0
  <2>5. /\ stats' \in StatsType
        /\ stats'.total_errors + n0 <= stats'.total_requests
    <3>1. CASE stats' = stats
      BY <2>3, <3>1
    <3>2. CASE stats' = [stats EXCEPT !.queue_rejections = @ + 1,
                                      !.total_requests = @ + 1, !.total_errors = @ + 1]
      BY <2>3, <2>4, <3>2, RejectionCounted
    <3>3. CASE stats' = [stats EXCEPT !.total_requests = @ + 1]
      <4>1. stats' \in StatsType /\ stats'.total_errors + (n0 + 1) <= stats'.total_requests
        BY <2>3, <2>4, <3>3, StartCounted
      <4>2. stats'.total_errors \in Nat /\ stats'.total_requests \in Nat
        BY <4>1 DEF StatsType
      <4> QED
        BY <2>4, <4>1, <4>2
    <3> QED
      BY <3>1, <3>2, <3>3 DEF record_queue_rejection
  <2> QED
    BY <2>2, <2>5 DEF StatsInv
<1> QED
  BY <1>2, <1>5, <1>6, <1>7 DEF SInv, Counted

(* A call that executes takes a permit and enters the statistics. *)
LEMMA PushExecution ==
  ASSUME SInv, NEW c \in Conn, conn[c].stage = "running",
         Len(conn[c].slots) < Len(conn[c].calls),
         SlotInv(conn[c].calls[Len(conn[c].slots) + 1], Running("eth_call")),
         Push(c, Running("eth_call")), requests' = requests,
         permits # 0, permits' = permits - 1, feePermits' = feePermits,
         record_request_start(conn[c].id)
  PROVE  SInv'
<1>1. Conns /\ ActiveInv /\ StatsInv
  BY DEF SInv
<1>2. Conns'
  BY <1>1, PushStep
<1> DEFINE slot == Running("eth_call")
<1>3. PICK n : \E i :
           /\ Becomes(c, n) /\ n.id = conn[c].id /\ n.batch = conn[c].batch
           /\ \A l : i \notin HeldOf(conn[c], l)
           /\ \A l : Holds(slot, l) => HeldOf(n, l) = HeldOf(conn[c], l) \cup {i}
           /\ \A l : ~Holds(slot, l) => HeldOf(n, l) = HeldOf(conn[c], l)
           /\ ~conn[c].batch => \A l : HeldOf(conn[c], l) = {}
  BY <1>1, PushStep
<1>4. PICK i : /\ Becomes(c, n) /\ n.id = conn[c].id /\ n.batch = conn[c].batch
               /\ i \notin HeldOf(conn[c], "eth_call")
               /\ HeldOf(n, "eth_call") = HeldOf(conn[c], "eth_call") \cup {i}
               /\ HeldOf(n, "feehistory") = HeldOf(conn[c], "feehistory")
  BY <1>3, SlotFacts
<1>5. IsFiniteSet(Held("eth_call")) /\ Cardinality(Held("eth_call")) \in Nat
  BY FS_CardinalityType DEF SInv, Counted
<1>6. /\ IsFiniteSet(Held("eth_call")')
      /\ Cardinality(Held("eth_call")') = Cardinality(Held("eth_call")) + 1
  BY <1>4, <1>5, HeldMore
<1>7. Held("feehistory")' = Held("feehistory")
  BY <1>4, HeldSame
<1>8. ActiveInv'
  <2>1. HeldOf(n, "eth_call") # {}
    BY <1>4
  <2>2. active' = active \cup {conn[c].id}
    BY DEF record_request_start
  <2> QED
    BY <1>1, <1>4, <2>1, <2>2, ActivePlus
<1> DEFINE n0 == Cardinality(Held("eth_call"))
<1>9. /\ Cardinality(Held("eth_call")') = n0 + 1 /\ n0 \in Nat
      /\ permits \in Nat /\ permits + n0 = MaxConcurrentPermits
      /\ stats \in StatsType
      /\ stats.total_errors + n0 <= stats.total_requests
  BY <1>1, <1>5, <1>6 DEF StatsInv, SInv, Counted
<1> HIDE DEF n0
<1>10. StatsInv'
  <2>1. stats' = [stats EXCEPT !.total_requests = @ + 1]
    BY DEF record_request_start
  <2>2. /\ stats' \in StatsType
        /\ stats'.total_errors + (n0 + 1) <= stats'.total_requests
    BY <1>9, <2>1, StartCounted
  <2> QED
    BY <1>9, <2>2 DEF StatsInv
<1>11. permits' \in Nat /\ permits' + (n0 + 1) = MaxConcurrentPermits
  BY <1>9
<1>12. Counted("eth_call", permits, MaxConcurrentPermits)'
  BY <1>6, <1>9, <1>11 DEF Counted
<1> QED
  BY <1>2, <1>7, <1>8, <1>10, <1>12 DEF SInv, Counted

(* eth_feeHistory takes a permit of its own limiter. *)
LEMMA PushFeeHistory ==
  ASSUME SInv, NEW c \in Conn, conn[c].stage = "running",
         Len(conn[c].slots) < Len(conn[c].calls),
         SlotInv(conn[c].calls[Len(conn[c].slots) + 1], Running("feehistory")),
         Push(c, Running("feehistory")), requests' = requests,
         feePermits # 0, feePermits' = feePermits - 1, UNCHANGED <<permits, active, stats>>
  PROVE  SInv'
<1>1. Conns /\ ActiveInv /\ StatsInv
  BY DEF SInv
<1>2. Conns'
  BY <1>1, PushStep
<1> DEFINE slot == Running("feehistory")
<1>3. PICK n : \E i :
           /\ Becomes(c, n) /\ n.id = conn[c].id /\ n.batch = conn[c].batch
           /\ \A l : i \notin HeldOf(conn[c], l)
           /\ \A l : Holds(slot, l) => HeldOf(n, l) = HeldOf(conn[c], l) \cup {i}
           /\ \A l : ~Holds(slot, l) => HeldOf(n, l) = HeldOf(conn[c], l)
           /\ ~conn[c].batch => \A l : HeldOf(conn[c], l) = {}
  BY <1>1, PushStep
<1>4. PICK i : /\ Becomes(c, n) /\ n.id = conn[c].id /\ n.batch = conn[c].batch
               /\ i \notin HeldOf(conn[c], "feehistory")
               /\ HeldOf(n, "feehistory") = HeldOf(conn[c], "feehistory") \cup {i}
               /\ HeldOf(n, "eth_call") = HeldOf(conn[c], "eth_call")
  BY <1>3, SlotFacts
<1>5. IsFiniteSet(Held("feehistory")) /\ Cardinality(Held("feehistory")) \in Nat
  BY FS_CardinalityType DEF SInv, Counted
<1>6. /\ IsFiniteSet(Held("feehistory")')
      /\ Cardinality(Held("feehistory")') = Cardinality(Held("feehistory")) + 1
  BY <1>4, <1>5, HeldMore
<1>7. Held("eth_call")' = Held("eth_call")
  BY <1>4, HeldSame
<1>8. ActiveInv'
  BY <1>1, <1>4, ActiveSame
<1> DEFINE n0 == Cardinality(Held("feehistory"))
<1>9. /\ Cardinality(Held("feehistory")') = n0 + 1 /\ n0 \in Nat
      /\ feePermits \in Nat /\ feePermits + n0 = FeeHistoryPermits
  BY <1>5, <1>6 DEF SInv, Counted
<1> HIDE DEF n0
<1>10. feePermits' \in Nat /\ feePermits' + (n0 + 1) = FeeHistoryPermits
  BY <1>9
<1>11. Counted("feehistory", feePermits, FeeHistoryPermits)'
  BY <1>6, <1>9, <1>10 DEF Counted
<1>12. Counted("eth_call", permits, MaxConcurrentPermits)' /\ StatsInv'
  BY <1>1, <1>7 DEF SInv, Counted, StatsInv
<1> QED
  BY <1>2, <1>8, <1>11, <1>12 DEF SInv

LEMMA SomeNone == \A x : Some(x) # None
BY DEF Some, None

LEMMA Responses ==
  /\ \A e : FromError(e).id = NullId
  /\ \A id, e : FromFailure(id, e).id = id
  /\ \A id, r : FromResult(id, r).id = id
BY DEF FromError, FromFailure, FromResult

(* Whatever the next call is, what is put into the buffer fits it. *)
LEMMA StartCallKept ==
  ASSUME SInv, NEW c \in Conn, StartCall(c)
  PROVE  SInv'
<1> DEFINE call == conn[c].calls[Len(conn[c].slots) + 1]
           Fits(slot) == SlotInv(call, slot)
<1>1. /\ conn[c].stage = "running" /\ Len(conn[c].slots) < Len(conn[c].calls)
      /\ requests' = requests
  BY DEF StartCall
<1>2. from_raw_value(call) = None <=> call.readable
  BY SomeNone DEF from_raw_value
<1>3. ~call.readable => \A e : Fits(Done(FromError(e)))
  BY Responses DEF SlotInv, IdOf
<1>4. call.readable => /\ \A e : Fits(Done(FromFailure(call.id, e)))
                       /\ \A r : Fits(Done(FromResult(call.id, r)))
                       /\ \A l \in Limiters : Fits(Running(l))
  BY Responses DEF SlotInv, IdOf
<1>5. \A r : ~Holds(Done(r), "eth_call") /\ ~Holds(Done(r), "feehistory")
  BY SlotFacts
<1>6. ~Holds(Running("none"), "eth_call") /\ ~Holds(Running("none"), "feehistory")
  BY SlotFacts
<1>7. "eth_call" \in Limiters /\ "feehistory" \in Limiters /\ "none" \in Limiters
  BY DEF Limiters
<1>8. CASE /\ from_raw_value(call) # None
           /\ Push(c, Done(FromError(from_raw_value(call)[1])))
           /\ UNCHANGED <<permits, feePermits, active, stats>>
  BY <1>1, <1>2, <1>3, <1>5, <1>8, PushFree
<1>9. CASE /\ from_raw_value(call) = None
           /\ Push(c, Done(FromFailure(call.id, Refusal(call)[1])))
           /\ UNCHANGED <<permits, feePermits, active, stats>>
  BY <1>1, <1>2, <1>4, <1>5, <1>9, PushFree
<1>10. CASE from_raw_value(call) = None /\ Acquire(c, call) /\ UNCHANGED feePermits
  <2>1. CASE /\ permits = 0 /\ record_queue_rejection
             /\ Push(c, Done(FromFailure(call.id, NoPermits))) /\ UNCHANGED permits
    BY <1>1, <1>2, <1>4, <1>5, <1>10, <2>1, PushFree
  <2>2. CASE /\ stats' = [stats EXCEPT !.total_requests = @ + 1]
             /\ active' = active \ {conn[c].id}
             /\ Push(c, Done(FromFailure(call.id, ChainError))) /\ UNCHANGED permits
    BY <1>1, <1>2, <1>4, <1>5, <1>10, <2>2, PushFree
  <2>3. CASE /\ permits # 0 /\ record_request_start(conn[c].id) /\ permits' = permits - 1
             /\ Push(c, Running("eth_call"))
    BY <1>1, <1>2, <1>4, <1>7, <1>10, <2>3, PushExecution
  <2> QED
    BY <1>10, <2>1, <2>2, <2>3 DEF Acquire
<1>11. CASE /\ from_raw_value(call) = None
            /\ IF feePermits = 0
                 THEN Push(c, Done(FromFailure(call.id, NoFeePermits))) /\ UNCHANGED feePermits
                 ELSE Push(c, Running("feehistory")) /\ feePermits' = feePermits - 1
            /\ UNCHANGED <<permits, active, stats>>
  <2>1. CASE Push(c, Done(FromFailure(call.id, NoFeePermits))) /\ UNCHANGED feePermits
    BY <1>1, <1>2, <1>4, <1>5, <1>11, <2>1, PushFree
  <2>2. CASE feePermits # 0 /\ Push(c, Running("feehistory")) /\ feePermits' = feePermits - 1
    BY <1>1, <1>2, <1>4, <1>7, <1>11, <2>2, PushFeeHistory
  <2> QED
    BY <1>11, <2>1, <2>2
<1>12. CASE /\ from_raw_value(call) = None
            /\ IF call.method = "admin_ethCallStatistics"
                 THEN Push(c, Done(FromResult(call.id, StatisticsLen)))
                 ELSE Push(c, Running("none"))
            /\ UNCHANGED <<permits, feePermits, active, stats>>
  <2>1. CASE Push(c, Done(FromResult(call.id, StatisticsLen)))
    BY <1>1, <1>2, <1>4, <1>5, <1>12, <2>1, PushFree
  <2>2. CASE Push(c, Running("none"))
    BY <1>1, <1>2, <1>4, <1>6, <1>7, <1>12, <2>2, PushFree
  <2> QED
    BY <1>12, <2>1, <2>2
<1> HIDE DEF Fits
<1> QED
  BY <1>8, <1>9, <1>10, <1>11, <1>12 DEF StartCall

(* A call ends: the permit it held is free again. *)
LEMMA FinishCallKept ==
  ASSUME SInv, NEW c \in Conn, NEW j, NEW response \in Outcomes(c, j), FinishCall(c, j, response)
  PROVE  SInv'
<1> DEFINE k == conn[c]
           n == WithResponse(k, j, response)
<1>1. Conns /\ ActiveInv /\ StatsInv
  BY DEF SInv
<1>2. /\ conn[c].stage = "running" /\ j \in DOMAIN k.slots /\ k.slots[j].state = "running"
      /\ requests' = requests /\ conn' = [conn EXCEPT ![c].slots[j] = Done(response)]
  BY DEF FinishCall
<1>3. RunningInv(k, requests)
  BY <1>1, <1>2, StageRunning DEF Conns
<1>4. j \in 1 .. Len(k.slots)
  BY <1>2, <1>3, RunningFacts
<1>5. response.id = k.calls[j].id
  BY Responses DEF Outcomes
<1>6. Becomes(c, n)
  BY <1>1, <1>2 DEF Conns, Becomes, WithResponse, Updated
<1>7. /\ RunningInv(n, requests) /\ n.stage = "running" /\ n.id = k.id /\ n.batch = k.batch
      /\ \A l : j \in HeldOf(k, l) <=> Holds(k.slots[j], l)
      /\ \A l : HeldOf(n, l) = HeldOf(k, l) \ {j}
      /\ ~k.batch => \A l : HeldOf(n, l) = {}
  <2> HIDE DEF k
  <2> QED
    BY <1>2, <1>3, <1>4, <1>5, Finished
<1> HIDE DEF n
<1>8. Conns'
  <2>1. ConnInv(n, requests') /\ requests' \in Nat /\ requests' >= requests
    BY <1>1, <1>2, <1>7 DEF ConnInv, Conns
  <2> QED
    BY <1>1, <1>2, <1>6, <1>7, <2>1, ConnsKept
<1>9. ASSUME NEW l, ~Holds(k.slots[j], l) PROVE Held(l)' = Held(l)
  <2>1. HeldOf(n, l) = HeldOf(conn[c], l)
    BY <1>7, <1>9
  <2> QED
    BY <1>6, <2>1, HeldSame
<1>10. ASSUME NEW l, Holds(k.slots[j], l), IsFiniteSet(Held(l))
       PROVE  /\ IsFiniteSet(Held(l)') /\ Cardinality(Held(l)) \in Nat
              /\ Cardinality(Held(l)') = Cardinality(Held(l)) - 1
  <2>1. j \in HeldOf(conn[c], l) /\ HeldOf(n, l) = HeldOf(conn[c], l) \ {j}
    BY <1>7, <1>10
  <2> QED
    BY <1>6, <1>10, <2>1, HeldLess
<1>11. Counted("feehistory", feePermits, FeeHistoryPermits)'
  <2>1. /\ feePermits \in Nat /\ IsFiniteSet(Held("feehistory"))
        /\ feePermits + Cardinality(Held("feehistory")) = FeeHistoryPermits
    BY DEF SInv, Counted
  <2>2. CASE Holds(k.slots[j], "feehistory")
    <3>1. feePermits' = feePermits + 1
      BY <2>2 DEF FinishCall
    <3>2. /\ IsFiniteSet(Held("feehistory")') /\ Cardinality(Held("feehistory")) \in Nat
          /\ Cardinality(Held("feehistory")') = Cardinality(Held("feehistory")) - 1
      BY <1>10, <2>1, <2>2
    <3>3. feePermits' \in Nat /\ feePermits' + Cardinality(Held("feehistory")') = FeeHistoryPermits
      BY <2>1, <3>1, <3>2
    <3> QED
      BY <3>2, <3>3 DEF Counted
  <2>3. CASE ~Holds(k.slots[j], "feehistory")
    <3>1. feePermits' = feePermits /\ Held("feehistory")' = Held("feehistory")
      BY <1>9, <2>3 DEF FinishCall
    <3> QED
      BY <2>1, <3>1 DEF Counted
  <2> QED
    BY <2>2, <2>3
<1>12. Counted("eth_call", permits, MaxConcurrentPermits)' /\ StatsInv' /\ ActiveInv'
  <2> DEFINE n0 == Cardinality(Held("eth_call"))
  <2>1. /\ permits \in Nat /\ IsFiniteSet(Held("eth_call")) /\ n0 \in Nat
        /\ permits + n0 = MaxConcurrentPermits
        /\ stats \in StatsType /\ stats.total_errors + n0 <= stats.total_requests
    BY <1>1, FS_CardinalityType DEF SInv, Counted, StatsInv
  <2>2. CASE Holds(k.slots[j], "eth_call")
    <3>1. /\ permits' = permits + 1 /\ active' = active \ {conn[c].id}
          /\ stats' = stats \/ stats' = [stats EXCEPT !.total_errors = @ + 1]
      BY <2>2 DEF FinishCall, record_request_complete
    <3>2. IsFiniteSet(Held("eth_call")') /\ Cardinality(Held("eth_call")') = n0 - 1
      BY <1>10, <2>1, <2>2
    <3> HIDE DEF n0
    <3>3. permits' \in Nat /\ permits' + (n0 - 1) = MaxConcurrentPermits
      BY <2>1, <3>1
    <3>4. Counted("eth_call", permits, MaxConcurrentPermits)'
      BY <3>2, <3>3 DEF Counted
    <3>5. stats' \in StatsType /\ stats'.total_errors + (n0 - 1) <= stats'.total_requests
      <4>1. CASE stats' = stats
        <5>1. stats.total_errors \in Nat /\ stats.total_requests \in Nat
          BY <2>1 DEF StatsType
        <5> QED
          BY <2>1, <4>1, <5>1
      <4>2. CASE stats' = [stats EXCEPT !.total_errors = @ + 1]
        BY <2>1, <4>2, ErrorCounted
      <4> QED
        BY <3>1, <4>1, <4>2
    <3>6. StatsInv'
      BY <3>2, <3>5 DEF StatsInv
    <3>7. HeldOf(n, "eth_call") = {} \/ n.batch
      BY <1>7
    <3>8. ActiveInv'
      BY <1>1, <1>2, <1>6, <3>1, <3>7, ActiveMinus
    <3> QED
      BY <3>4, <3>6, <3>8
  <2>3. CASE ~Holds(k.slots[j], "eth_call")
    <3>1. permits' = permits /\ active' = active /\ stats' = stats
      BY <2>3 DEF FinishCall
    <3>2. Held("eth_call")' = Held("eth_call") /\ HeldOf(n, "eth_call") = HeldOf(conn[c], "eth_call")
      BY <1>7, <1>9, <2>3
    <3>3. Counted("eth_call", permits, MaxConcurrentPermits)' /\ StatsInv'
      BY <2>1, <3>1, <3>2 DEF Counted, StatsInv
    <3>4. ActiveInv'
      BY <1>1, <1>6, <1>7, <3>1, <3>2, ActiveSame
    <3> QED
      BY <3>3, <3>4
  <2> QED
    BY <2>2, <2>3
<1> QED
  BY <1>8, <1>11, <1>12 DEF SInv

-----------------------------------------------------------------------------
(* Steps that leave what is held alone. *)
LEMMA QuietKept ==
  ASSUME SInv, NEW c \in Conn, NEW k, Becomes(c, k), requests' \in Nat, requests' >= requests,
         ConnInv(k, requests'),
         k.stage = "running" => \/ conn[c].stage = "running" /\ k.id = conn[c].id
                                \/ k.id > requests,
         \A l : HeldOf(k, l) = HeldOf(conn[c], l),
         HeldOf(k, "eth_call") # {} => k.id = conn[c].id /\ k.batch = conn[c].batch,
         UNCHANGED <<permits, feePermits, active, stats>>
  PROVE  SInv'
<1>1. Conns /\ ActiveInv /\ StatsInv
  BY DEF SInv
<1>2. Conns'
  BY <1>1, ConnsKept
<1>3. Held("eth_call")' = Held("eth_call") /\ Held("feehistory")' = Held("feehistory")
  BY HeldSame
<1>4. ActiveInv'
  BY <1>1, ActiveSame
<1>5. StatsInv'
  BY <1>1, <1>3 DEF StatsInv
<1> QED
  BY <1>2, <1>3, <1>4, <1>5 DEF SInv, Counted

(* Steps that drop the futures of a connection. *)
LEMMA DropKept ==
  ASSUME SInv, NEW c \in Conn, conn[c].stage = "running", NEW k, Becomes(c, k),
         requests' = requests, k.stage # "running", ConnInv(k, requests), DropFutures(c)
  PROVE  SInv'
<1>1. Conns /\ ActiveInv /\ StatsInv
  BY DEF SInv
<1>2. Conns'
  <2>1. requests' \in Nat /\ requests' >= requests
    BY <1>1 DEF Conns
  <2> QED
    BY <1>1, <2>1, ConnsKept
<1>3. \A l : HeldOf(k, l) = {}
  BY DEF HeldOf
<1> DEFINE n0 == Cardinality(Held("eth_call"))
           n1 == Cardinality(HeldBy(c, "eth_call"))
           n2 == Cardinality(Held("eth_call")')
           f0 == Cardinality(Held("feehistory"))
           f1 == Cardinality(HeldBy(c, "feehistory"))
           f2 == Cardinality(Held("feehistory")')
<1>4. /\ permits \in Nat /\ IsFiniteSet(Held("eth_call")) /\ n0 \in Nat
      /\ permits + n0 = MaxConcurrentPermits
      /\ feePermits \in Nat /\ IsFiniteSet(Held("feehistory"))
      /\ feePermits + f0 = FeeHistoryPermits
      /\ stats \in StatsType /\ stats.total_errors + n0 <= stats.total_requests
  BY <1>1, FS_CardinalityType DEF SInv, Counted, StatsInv
<1>5. IsFiniteSet(Held("eth_call")') /\ n2 \in Nat /\ n1 \in Nat /\ n0 = n2 + n1
  BY <1>3, <1>4, HeldGone
<1>6. IsFiniteSet(Held("feehistory")') /\ f2 \in Nat /\ f1 \in Nat /\ f0 = f2 + f1
  BY <1>3, <1>4, HeldGone
<1>7. permits' = permits + n1 /\ feePermits' = feePermits + f1 /\ stats' = stats
  BY DEF DropFutures, record_request_dropped
<1> HIDE DEF n0, n1, n2, f0, f1, f2
<1>8. permits' \in Nat /\ permits' + n2 = MaxConcurrentPermits
  BY <1>4, <1>5, <1>7
<1>9. feePermits' \in Nat /\ feePermits' + f2 = FeeHistoryPermits
  BY <1>4, <1>6, <1>7
<1>10. stats' \in StatsType /\ stats'.total_errors + n2 <= stats'.total_requests
  <2>1. stats.total_errors \in Nat /\ stats.total_requests \in Nat
    BY <1>4 DEF StatsType
  <2> QED
    BY <1>4, <1>5, <1>7, <2>1
<1>11. Counted("eth_call", permits, MaxConcurrentPermits)' /\ StatsInv'
  BY <1>5, <1>8, <1>10 DEF Counted, StatsInv, n2
<1>12. Counted("feehistory", feePermits, FeeHistoryPermits)'
  BY <1>6, <1>9 DEF Counted, f2
<1>13. ActiveInv'
  <2>1. CASE HeldBy(c, "eth_call") = {}
    <3>1. HeldOf(conn[c], "eth_call") = {}
      BY <2>1, HeldAre
    <3>2. active' = active
      BY <2>1 DEF DropFutures
    <3> QED
      BY <1>1, <1>3, <3>1, <3>2, ActiveSame
  <2>2. CASE HeldBy(c, "eth_call") # {}
    <3>1. active' = active \ {conn[c].id}
      BY <2>2 DEF DropFutures, record_request_dropped
    <3> QED
      BY <1>1, <1>3, <3>1, ActiveMinus
  <2> QED
    BY <2>1, <2>2
<1> QED
  BY <1>2, <1>11, <1>12, <1>13 DEF SInv

-----------------------------------------------------------------------------
(* The other steps of a request. *)
LEMMA AnswerFacts ==
  ASSUME NEW calls, NEW reply, BatchInv(calls, reply)
  PROVE  AnsweredInv(Answer(calls, reply)) /\ Answer(calls, reply).stage = "answered"
BY DEF AnsweredInv, Answer

LEMMA SingleReply ==
  ASSUME NEW calls, NEW response
  PROVE  BatchInv(calls, Single(response))
BY DEF BatchInv, Single

(* A refused body is answered, any other becomes a request with a new id. *)
LEMMA ReceiveKept ==
  ASSUME SInv, NEW c \in Conn, NEW body \in Body, Receive(c, body)
  PROVE  SInv'
<1> DEFINE refusal == IF c \in WebSockets THEN parse_request(body) ELSE HttpRefusal(body)
           asked == [stage |-> "running", id |-> TimingRequestId, batch |-> body.kind = "batch",
                     calls |-> body.calls, slots |-> <<>>, taken |-> <<>>, len |-> 0]
           refused == Answer(body.calls, Single(FromError(refusal[1])))
<1>1. /\ conn = [d \in Conn |-> conn[d]] /\ requests \in Nat
      /\ conn[c] = Idle /\ requests' = requests + 1
      /\ UNCHANGED <<permits, feePermits, active, stats>>
  BY DEF SInv, Conns, Receive, TimingRequestId
<1>2. \A l : HeldOf(conn[c], l) = {}
  BY <1>1 DEF HeldOf, Idle
<1>3. CASE refusal # None
  <2>1. Becomes(c, refused)
    BY <1>1, <1>3 DEF Receive, Becomes
  <2>2. AnsweredInv(refused) /\ refused.stage = "answered"
    BY SingleReply, AnswerFacts
  <2> HIDE DEF refused
  <2>3. \A l : HeldOf(refused, l) = {}
    BY <2>2 DEF HeldOf
  <2>4. ConnInv(refused, requests') /\ requests' \in Nat /\ requests' >= requests
    BY <1>1, <2>2 DEF ConnInv
  <2>5. refused.stage # "running"
    BY <2>2
  <2> QED
    BY <1>1, <1>2, <2>1, <2>3, <2>4, <2>5, QuietKept
<1>4. CASE refusal = None
  <2>1. Becomes(c, asked)
    BY <1>1, <1>4 DEF Receive, Becomes
  <2>2. body.kind \in {"single", "batch"}
    <3>1. CASE c \in WebSockets
      BY <1>4, <3>1, SomeNone DEF parse_request
    <3>2. CASE c \notin WebSockets
      <4>1. DecompressionGuard(body) = None
        BY <1>4, <3>2 DEF HttpRefusal
      <4>2. body.kind # "unreadable"
        BY <1>4, <3>2, <4>1, SomeNone DEF HttpRefusal
      <4> QED
        BY <4>2, BodyAssumption
    <3> QED
      BY <3>1, <3>2
  <2>3. IsSeq(body.calls) /\ (body.kind = "single" => Len(body.calls) = 1)
    BY BodyAssumption DEF IsSeq
  <2>4. /\ asked.stage = "running" /\ asked.id = requests + 1
        /\ asked.batch = (body.kind = "batch") /\ asked.calls = body.calls
        /\ asked.slots = <<>> /\ asked.taken = <<>> /\ DOMAIN asked = Fields
    BY DEF TimingRequestId, Fields
  <2> HIDE DEF asked
  <2>5. Len(body.calls) \in Nat /\ Len(<<>>) = 0 /\ IsSeq(<<>>)
    BY <2>3, SeqLen, SeqEmpty
  <2>6. ~asked.batch => Len(asked.calls) = 1
    BY <2>2, <2>3, <2>4
  <2>7. asked.id \in 1 .. requests'
    BY <1>1, <2>4
  <2>8. RunningInv(asked, requests')
    <3>1. \A i : i \notin 1 .. 0
      OBVIOUS
    <3>2. /\ \A i \in 1 .. Len(asked.slots) : SlotInv(asked.calls[i], asked.slots[i])
          /\ \A i \in 1 .. Len(asked.taken) : asked.slots[i] = Done(asked.taken[i])
      BY <2>4, <2>5, <3>1
    <3>3. Len(asked.taken) <= Len(asked.slots) /\ Len(asked.slots) <= Len(asked.calls)
      BY <2>4, <2>5
    <3> QED
      BY <2>3, <2>4, <2>5, <2>6, <2>7, <3>2, <3>3 DEF RunningInv
  <2>9. \A l : HeldOf(asked, l) = {}
    BY <2>4, <2>5, <2>8, RunningFacts
  <2>10. ConnInv(asked, requests') /\ requests' \in Nat /\ requests' >= requests
    BY <1>1, <2>8 DEF ConnInv
  <2>11. asked.id > requests
    BY <1>1, <2>4
  <2> QED
    BY <1>1, <1>2, <2>1, <2>9, <2>10, <2>11, QuietKept
<1> QED
  BY <1>3, <1>4

(* The next response is taken: the batch is too long, or goes on, or is    *)
(* answered.                                                               *)
LEMMA CollectKept ==
  ASSUME SInv, NEW c \in Conn, Collect(c)
  PROVE  SInv'
<1> DEFINE k == conn[c]
<1>1. conn[c].stage = "running" /\ Conns /\ conn = [d \in Conn |-> conn[d]] /\ requests \in Nat
  BY DEF Collect, SInv, Conns
<1>2. RunningInv(k, requests)
  BY <1>1, StageRunning DEF Conns
<1>3. PICK j : j \in NextDone(c) /\ Take(c, j)
  BY DEF Collect
<1>4. j \in 1 .. Len(k.slots) /\ j = Len(k.taken) + 1 /\ k.slots[j].state = "done"
  BY <1>2, <1>3, RunningFacts DEF NextDone
<1>5. requests' = requests /\ requests' \in Nat /\ requests' >= requests
  BY <1>1, <1>3 DEF Take
<1> DEFINE t == Append(k.taken, k.slots[j].response)
           size == k.len + ResponseLen(k.slots[j].response)
           long == Answer(k.calls, Single(FromError(SizeExceeded)))
           more == WithTaken(k, j, size)
           wrapper == IF k.batch THEN Batch(t) ELSE Single(t[1])
           whole == Answer(k.calls, serialize_with_size_limit(c, wrapper))
<1>6. Len(t) = j
  <2>1. IsSeq(k.taken)
    BY <1>2 DEF RunningInv
  <2> QED
    BY <1>4, <2>1, SeqAppend
<1>7. CASE k.batch /\ size > MaxResponseSize
  <2>1. Becomes(c, long) /\ DropFutures(c)
    BY <1>1, <1>3, <1>7 DEF Take, Becomes
  <2>2. AnsweredInv(long) /\ long.stage = "answered"
    BY SingleReply, AnswerFacts
  <2> HIDE DEF long
  <2>3. ConnInv(long, requests) /\ long.stage # "running"
    BY <2>2 DEF ConnInv
  <2> QED
    BY <1>1, <1>5, <2>1, <2>3, DropKept
<1>8. CASE ~(k.batch /\ size > MaxResponseSize) /\ j < Len(k.calls)
  <2>1. Becomes(c, more) /\ UNCHANGED <<permits, feePermits, active, stats>>
    BY <1>1, <1>3, <1>6, <1>8 DEF Take, Becomes, WithTaken
  <2>2. /\ RunningInv(more, requests) /\ more.stage = "running" /\ more.id = k.id
        /\ more.batch = k.batch /\ \A l : HeldOf(more, l) = HeldOf(k, l)
    <3> HIDE DEF k, size
    <3> QED
      BY <1>2, <1>4, TakenOn
  <2> HIDE DEF more
  <2>3. ConnInv(more, requests')
    BY <1>5, <2>2 DEF ConnInv
  <2> QED
    BY <1>1, <1>5, <2>1, <2>2, <2>3, QuietKept
<1>9. CASE ~(k.batch /\ size > MaxResponseSize) /\ ~(j < Len(k.calls))
  <2>1. Becomes(c, whole) /\ UNCHANGED <<permits, feePermits, active, stats>>
    BY <1>1, <1>3, <1>6, <1>9 DEF Take, Becomes
  <2>2. /\ \A l : HeldOf(k, l) = {}
        /\ IsSeq(t) /\ Len(t) = Len(k.calls)
        /\ \A i \in 1 .. Len(k.calls) : t[i].id = IdOf(k.calls[i])
    <3> HIDE DEF k
    <3> QED
      BY <1>2, <1>4, <1>9, TakenAll
  <2> HIDE DEF t
  <2>3. BatchInv(k.calls, serialize_with_size_limit(c, wrapper))
    <3>1. CASE SerializedLen(wrapper) <= MaxResponseSize
      <4>1. serialize_with_size_limit(c, wrapper) = wrapper
        BY <3>1 DEF serialize_with_size_limit
      <4>2. CASE k.batch
        <5>1. wrapper = Batch(t)
          BY <4>2
        <5>2. wrapper.batch /\ wrapper.responses = t
          BY <5>1 DEF Batch
        <5> HIDE DEF wrapper
        <5> QED
          BY <2>2, <3>1, <4>1, <5>2 DEF BatchInv
      <4>3. CASE ~k.batch
        BY <4>1, <4>3, SingleReply
      <4> QED
        BY <4>2, <4>3
    <3>2. CASE ~(SerializedLen(wrapper) <= MaxResponseSize)
      BY <3>2, SingleReply DEF serialize_with_size_limit
    <3> QED
      BY <3>1, <3>2
  <2>4. AnsweredInv(whole) /\ whole.stage = "answered"
    BY <2>3, AnswerFacts
  <2> HIDE DEF whole
  <2>5. ConnInv(whole, requests') /\ whole.stage # "running"
    BY <2>4 DEF ConnInv
  <2>6. \A l : HeldOf(whole, l) = {}
    BY <2>5 DEF HeldOf
  <2> QED
    BY <1>1, <1>5, <2>1, <2>2, <2>5, <2>6, QuietKept
<1> QED
  BY <1>7, <1>8, <1>9

LEMMA IdleFacts ==
  /\ Idle.stage # "running" /\ \A last : ConnInv(Idle, last)
  /\ \A l : HeldOf(Idle, l) = {}
BY DEF Idle, ConnInv, HeldOf

LEMMA DisconnectKept ==
  ASSUME SInv, NEW c \in Conn, Disconnect(c)
  PROVE  SInv'
<1>1. /\ conn[c].stage = "running" /\ Becomes(c, Idle) /\ DropFutures(c) /\ requests' = requests
  BY DEF Disconnect, Becomes, SInv, Conns
<1> QED
  BY <1>1, IdleFacts, DropKept

LEMMA SendKept ==
  ASSUME SInv, NEW c \in Conn, Send(c)
  PROVE  SInv'
<1>1. /\ conn[c].stage = "answered" /\ Becomes(c, Idle) /\ requests' = requests /\ requests \in Nat
      /\ UNCHANGED <<permits, feePermits, active, stats>>
  BY DEF Send, Becomes, SInv, Conns
<1>2. \A l : HeldOf(conn[c], l) = {}
  BY <1>1 DEF HeldOf
<1>3. requests' \in Nat /\ requests' >= requests
  BY <1>1
<1> QED
  BY <1>1, <1>2, <1>3, IdleFacts, QuietKept

-----------------------------------------------------------------------------
LEMMA InitServer == ServerInit => SInv
<1> SUFFICES ASSUME ServerInit PROVE SInv
  OBVIOUS
<1>1. /\ conn = [c \in Conn |-> conn[c]] /\ \A c \in Conn : conn[c] = Idle
  BY DEF ServerInit
<1>2. Conns
  <2>1. requests \in Nat
    BY DEF ServerInit
  <2>2. IdsApart
    BY <1>1, IdleFacts DEF IdsApart
  <2> QED
    BY <1>1, <2>1, <2>2, IdleFacts DEF Conns
<1>3. \A c \in Conn : \A l : HeldBy(c, l) = {}
  BY <1>1, IdleFacts, HeldAre
<1>4. \A l : Held(l) = {}
  BY <1>3 DEF Held
<1>5. IsFiniteSet({}) /\ Cardinality({}) = 0
  BY FS_EmptySet
<1>6. /\ Counted("eth_call", permits, MaxConcurrentPermits)
      /\ Counted("feehistory", feePermits, FeeHistoryPermits)
  <2>1. \A l : IsFiniteSet(Held(l)) /\ Cardinality(Held(l)) = 0
    BY <1>4, <1>5
  <2>2. /\ permits \in Nat /\ permits = MaxConcurrentPermits
        /\ feePermits \in Nat /\ feePermits = FeeHistoryPermits
    BY ServerAssumption DEF ServerInit
  <2> QED
    BY <2>1, <2>2 DEF Counted
<1>7. StatsInv
  <2>1. stats \in StatsType /\ stats.total_errors = 0 /\ stats.total_requests = 0
    BY DEF ServerInit, StatsType
  <2> QED
    BY <1>4, <1>5, <2>1 DEF StatsInv
<1>8. ActiveInv
  BY <1>3 DEF ActiveInv, ServerInit
<1> QED
  BY <1>2, <1>6, <1>7, <1>8 DEF SInv

LEMMA ServerKept == SInv /\ [ServerNext]_serverVars => SInv'
<1> SUFFICES ASSUME SInv, [ServerNext]_serverVars PROVE SInv'
  OBVIOUS
<1>1. CASE UNCHANGED serverVars
  BY <1>1 DEF serverVars, SInv, Conns, IdsApart, Counted, StatsInv, ActiveInv, Held, HeldBy
<1>2. ASSUME NEW c \in Conn, NEW body \in Body, Receive(c, body) PROVE SInv'
  BY <1>2, ReceiveKept
<1>3. ASSUME NEW c \in Conn, StartCall(c) PROVE SInv'
  BY <1>3, StartCallKept
<1>4. ASSUME NEW c \in Conn, NEW j \in DOMAIN conn[c].slots, NEW r \in Outcomes(c, j), FinishCall(c, j, r)
      PROVE  SInv'
  BY <1>4, FinishCallKept
<1>5. ASSUME NEW c \in Conn, Collect(c) PROVE SInv'
  BY <1>5, CollectKept
<1>6. ASSUME NEW c \in Conn, Disconnect(c) PROVE SInv'
  BY <1>6, DisconnectKept
<1>7. ASSUME NEW c \in Conn, Send(c) PROVE SInv'
  BY <1>7, SendKept
<1> QED
  BY <1>1, <1>2, <1>3, <1>4, <1>5, <1>6, <1>7 DEF ServerNext, Work

LEMMA ServerInvariant == ServerSpec => []SInv
<1>1. ServerInit => SInv
  BY InitServer
<1>2. SInv /\ [ServerNext]_serverVars => SInv'
  BY ServerKept
<1> QED
  BY <1>1, <1>2, PTL DEF ServerSpec

(* Every permit of both limiters is free or with a call that runs, the     *)
(* statistics hold no request that has ended and every request of one call *)
(* that runs, and errors never outnumber requests, whatever calls fail,    *)
(* are cut off with their batch or abandoned by their client               *)
(* (EthCallPermit, EthCallStatsTracker).                                   *)
THEOREM PermitsAccounted == ServerSpec => []CallAccounting
<1>1. SInv => CallAccounting
  <2> SUFFICES ASSUME SInv PROVE CallAccounting
    OBVIOUS
  <2>1. stats.total_errors <= stats.total_requests
    <3>1. stats.total_errors \in Nat /\ stats.total_requests \in Nat
      BY DEF SInv, StatsInv, StatsType
    <3>2. Cardinality(Held("eth_call")) \in Nat
      BY FS_CardinalityType DEF SInv, Counted
    <3>3. stats.total_errors + Cardinality(Held("eth_call")) <= stats.total_requests
      BY DEF SInv, StatsInv
    <3> QED
      BY <3>1, <3>2, <3>3
  <2> QED
    BY <2>1 DEF SInv, Counted, ActiveInv, CallAccounting
<1> QED
  BY <1>1, ServerInvariant, PTL

(* The answer to a batch has a response for each call, with its id and in  *)
(* its place, and is no longer than the limit, although the calls run side *)
(* by side and end in any order (handlers/mod.rs, serialize_with_size_limit). *)
THEOREM BatchAnswered == ServerSpec => []BatchExact
<1>1. SInv => BatchExact
  <2> SUFFICES ASSUME SInv, NEW c \in Conn, conn[c].stage = "answered", conn[c].reply.batch
               PROVE  /\ Len(conn[c].reply.responses) = Len(conn[c].calls)
                      /\ \A i \in DOMAIN conn[c].reply.responses :
                           conn[c].reply.responses[i].id = IdOf(conn[c].calls[i])
                      /\ SerializedLen(conn[c].reply) <= MaxResponseSize
    BY DEF BatchExact, IdOf
  <2>1. ConnInv(conn[c], requests)
    BY DEF SInv, Conns
  <2>2. BatchInv(conn[c].calls, conn[c].reply)
    BY <2>1 DEF ConnInv, RunningInv, AnsweredInv, Idle
  <2>3. /\ IsSeq(conn[c].reply.responses) /\ Len(conn[c].reply.responses) = Len(conn[c].calls)
        /\ \A i \in 1 .. Len(conn[c].calls) : conn[c].reply.responses[i].id = IdOf(conn[c].calls[i])
        /\ SerializedLen(conn[c].reply) <= MaxResponseSize
    BY <2>2 DEF BatchInv
  <2>4. DOMAIN conn[c].reply.responses = 1 .. Len(conn[c].calls)
    BY <2>3, SeqLen
  <2> QED
    BY <2>3, <2>4
<1> QED
  BY <1>1, ServerInvariant, PTL

-----------------------------------------------------------------------------
(***************************************************************************)
(* The block buffer: its maps stay consistent with each other and with the *)
(* chain that the events tell of.                                          *)
(***************************************************************************)

(* The four maps fit together.  Besides what HashesAgree, EntriesResolve   *)
(* and RingCovers say, a block is stored at its own height.                *)
Consistent(heights, byHeight, hashes, txs) ==
  /\ heights \in Seq(Heights)
  /\ byHeight \in [Heights -> Block \cup {NoBlock}]
  /\ hashes \subseteq Block
  /\ txs \in [Tx -> Block \cup {NoBlock}]
  /\ \A h \in Heights : byHeight[h] # NoBlock => Height[byHeight[h]] = h
  /\ \A b \in Block : b \in hashes <=> byHeight[Height[b]] = b
  /\ \A t \in Tx : txs[t] # NoBlock =>
       t \in Txs[txs[t]] /\ byHeight[Height[txs[t]]] = txs[t]
  /\ \A h \in Heights : byHeight[h] # NoBlock =>
       \E i \in 1 .. Len(heights) : heights[i] = h

MapsInv == Consistent(blockHeights, blockByHeight, heightByHash, txByHash)

(* What the rest of the state is made of. *)
FeedType ==
  /\ commit \in [Block -> CommitStates] /\ head \in Block \cup {Genesis}
  /\ ring \in Seq(Event) /\ overrun \in BOOLEAN /\ known \subseteq Block
  /\ feed \in Seq(Event \cup {Gap}) /\ lagged \in BOOLEAN /\ lost \in BOOLEAN

StatesType == proposed \in Nat /\ voted \in Nat /\ finalized \in Nat

IInv == FeedType /\ StatesType /\ MapsInv /\ Len(blockHeights) <= Capacity

-----------------------------------------------------------------------------
LEMMA HeightFacts ==
  /\ \A b \in Block : Height[b] \in Heights /\ Height[b] \in Nat
  /\ Heights \subseteq Nat
BY ChainAssumption DEF Heights

(* A block of the same height is replaced without a trace. *)
LEMMA StoreConsistent ==
  ASSUME MapsInv, NEW b \in Block
  PROVE  Consistent(<<Height[b]>> \o blockHeights,
                    [blockByHeight EXCEPT ![Height[b]] = b], Hashes(b), Replaced(b))
<1> DEFINE heights  == <<Height[b]>> \o blockHeights
           byHeight == [blockByHeight EXCEPT ![Height[b]] = b]
           old      == blockByHeight[Height[b]]
<1> USE BufferAssumption
<1>0. /\ blockHeights \in Seq(Heights) /\ Len(blockHeights) \in Nat
      /\ blockByHeight \in [Heights -> Block \cup {NoBlock}]
      /\ heightByHash \subseteq Block
      /\ txByHash \in [Tx -> Block \cup {NoBlock}]
  BY DEF MapsInv, Consistent
<1>1. Height[b] \in Heights
  BY HeightFacts
<1>2. /\ heights \in Seq(Heights)
      /\ Len(heights) = Len(blockHeights) + 1
      /\ heights[1] = Height[b]
      /\ \A i \in 1 .. Len(blockHeights) : heights[i + 1] = blockHeights[i]
  BY <1>0, <1>1
<1>3. /\ byHeight \in [Heights -> Block \cup {NoBlock}]
      /\ byHeight[Height[b]] = b
      /\ \A h \in Heights : h # Height[b] => byHeight[h] = blockByHeight[h]
  BY <1>0, <1>1
<1> HIDE DEF heights, byHeight
<1>4. \A h \in Heights : byHeight[h] # NoBlock => Height[byHeight[h]] = h
  BY <1>3 DEF MapsInv, Consistent
<1>5. Hashes(b) \subseteq Block
  BY <1>0 DEF Hashes
<1>6. ASSUME NEW c \in Block PROVE c \in Hashes(b) <=> byHeight[Height[c]] = c
  <2>1. Height[c] \in Heights
    BY HeightFacts
  <2>2. c \in heightByHash <=> blockByHeight[Height[c]] = c
    BY DEF MapsInv, Consistent
  <2>3. old # NoBlock => Height[old] = Height[b]
    BY <1>1 DEF MapsInv, Consistent
  <2> QED
    BY <1>1, <1>3, <2>1, <2>2, <2>3 DEF Hashes
<1>7. Replaced(b) \in [Tx -> Block \cup {NoBlock}]
  BY <1>0 DEF Replaced
<1>8. ASSUME NEW t \in Tx, Replaced(b)[t] # NoBlock
      PROVE  t \in Txs[Replaced(b)[t]] /\ byHeight[Height[Replaced(b)[t]]] = Replaced(b)[t]
  <2>1. CASE t \in Txs[b]
    BY <1>3, <2>1 DEF Replaced
  <2>2. CASE t \notin Txs[b]
    <3> DEFINE c == txByHash[t]
    <3>1. Replaced(b)[t] = c /\ t \notin TxsOf(old)
      BY <1>8, <2>2 DEF Replaced
    <3>2. c \in Block /\ t \in Txs[c] /\ blockByHeight[Height[c]] = c
      BY <1>0, <1>8, <3>1 DEF MapsInv, Consistent
    <3>3. Height[c] # Height[b]
      BY <3>1, <3>2 DEF TxsOf
    <3> QED
      BY <1>3, <3>1, <3>2, <3>3, HeightFacts
  <2> QED
    BY <2>1, <2>2
<1>9. ASSUME NEW h \in Heights, byHeight[h] # NoBlock
      PROVE  \E i \in 1 .. Len(heights) : heights[i] = h
  <2>1. CASE h = Height[b]
    BY <1>0, <1>2, <2>1
  <2>2. CASE h # Height[b]
    <3>1. PICK i \in 1 .. Len(blockHeights) : blockHeights[i] = h
      BY <1>3, <1>9, <2>2 DEF MapsInv, Consistent
    <3>2. heights[i + 1] = h /\ i + 1 \in 1 .. Len(heights)
      BY <1>0, <1>2, <3>1
    <3> QED
      BY <3>2
  <2> QED
    BY <2>1, <2>2
<1> QED
  BY <1>2, <1>3, <1>4, <1>5, <1>6, <1>7, <1>8, <1>9 DEF Consistent, heights, byHeight

(* The oldest height goes, and with it all that leads to its block. *)
LEMMA EvictConsistent ==
  ASSUME NEW heights, NEW byHeight, NEW hashes, NEW txs,
         Consistent(heights, byHeight, hashes, txs),
         Len(heights) <= Capacity + 1,
         Evict(heights, byHeight, hashes, txs)
  PROVE  MapsInv' /\ Len(blockHeights') <= Capacity
<1> USE BufferAssumption
<1>0. heights \in Seq(Heights) /\ Len(heights) \in Nat
  BY DEF Consistent
<1>1. CASE Len(heights) <= Capacity
  <2>1. /\ blockHeights' = heights /\ blockByHeight' = byHeight
        /\ heightByHash' = hashes /\ txByHash' = txs
    BY <1>0, <1>1 DEF Evict
  <2> QED
    BY <1>1, <2>1 DEF MapsInv, Consistent
<1>2. CASE Len(heights) > Capacity
  <2> DEFINE n == Len(heights)
             g == heights[n]
             b == byHeight[g]
  <2>1. /\ blockHeights' = SubSeq(heights, 1, n - 1)
        /\ blockByHeight' = [byHeight EXCEPT ![g] = NoBlock]
        /\ heightByHash' = hashes \ {b}
        /\ txByHash' = [t \in Tx |-> IF t \in TxsOf(b) THEN NoBlock ELSE txs[t]]
    BY <1>2 DEF Evict
  <2>2. n = Capacity + 1 /\ n - 1 \in Nat
    BY <1>0, <1>2
  <2>3. g \in Heights
    BY <1>0, <2>2
  <2>4. /\ blockHeights' \in Seq(Heights) /\ Len(blockHeights') = n - 1
        /\ \A i \in 1 .. n - 1 : blockHeights'[i] = heights[i]
    BY <1>0, <2>1, <2>2
  <2>5. /\ blockByHeight' \in [Heights -> Block \cup {NoBlock}]
        /\ blockByHeight'[g] = NoBlock
        /\ \A h \in Heights : h # g => blockByHeight'[h] = byHeight[h]
    BY <2>1, <2>3 DEF Consistent
  <2>6. \A h \in Heights : blockByHeight'[h] # NoBlock => Height[blockByHeight'[h]] = h
    BY <2>5 DEF Consistent
  <2>7. heightByHash' \subseteq Block
    BY <2>1 DEF Consistent
  <2>8. ASSUME NEW c \in Block
        PROVE  c \in heightByHash' <=> blockByHeight'[Height[c]] = c
    <3>1. Height[c] \in Heights
      BY HeightFacts
    <3>2. c \in hashes <=> byHeight[Height[c]] = c
      BY DEF Consistent
    <3>3. b # NoBlock => Height[b] = g
      BY <2>3 DEF Consistent
    <3> QED
      BY <2>1, <2>5, <3>1, <3>2, <3>3
  <2>9. txByHash' \in [Tx -> Block \cup {NoBlock}]
    BY <2>1 DEF Consistent
  <2>10. ASSUME NEW t \in Tx, txByHash'[t] # NoBlock
         PROVE  /\ t \in Txs[txByHash'[t]]
                /\ blockByHeight'[Height[txByHash'[t]]] = txByHash'[t]
    <3> DEFINE c == txs[t]
    <3>1. txByHash'[t] = c /\ t \notin TxsOf(b)
      BY <2>1, <2>10
    <3>2. c \in Block /\ t \in Txs[c] /\ byHeight[Height[c]] = c
      BY <2>10, <3>1 DEF Consistent
    <3>3. Height[c] # g
      BY <3>1, <3>2 DEF TxsOf
    <3> QED
      BY <2>5, <3>1, <3>2, <3>3, HeightFacts
  <2>11. ASSUME NEW h \in Heights, blockByHeight'[h] # NoBlock
         PROVE  \E i \in 1 .. Len(blockHeights') : blockHeights'[i] = h
    <3>1. h # g /\ byHeight[h] # NoBlock
      BY <2>5, <2>11
    <3>2. PICK i \in 1 .. n : heights[i] = h
      BY <3>1 DEF Consistent
    <3>3. i \in 1 .. n - 1
      BY <1>0, <3>1, <3>2
    <3> QED
      BY <2>4, <3>2, <3>3
  <2>12. Len(blockHeights') <= Capacity
    BY <2>2, <2>4
  <2> QED
    BY <2>4, <2>5, <2>6, <2>7, <2>8, <2>9, <2>10, <2>11, <2>12 DEF MapsInv, Consistent
<1> QED
  BY <1>0, <1>1, <1>2

LEMMA StoreKeeps ==
  ASSUME MapsInv, Len(blockHeights) <= Capacity, NEW b \in Block, Store(b)
  PROVE  MapsInv' /\ Len(blockHeights') <= Capacity
<1>1. Len(<<Height[b]>> \o blockHeights) <= Capacity + 1
  <2>1. blockHeights \in Seq(Heights) /\ Height[b] \in Heights
    BY HeightFacts DEF MapsInv, Consistent
  <2> QED
    BY <2>1, BufferAssumption
<1> QED
  BY <1>1, StoreConsistent, EvictConsistent DEF Store

-----------------------------------------------------------------------------
LEMMA EventFacts ==
  /\ \A s \in CommitStates \ {"none"}, b \in Block : [state |-> s, block |-> b] \in Event
  /\ \A e \in Event \cup {Gap} : e.state # "gap" => e.block \in Block
BY DEF Event, Gap

LEMMA AppendType ==
  ASSUME NEW S, NEW s \in Seq(S), NEW x \in S
  PROVE  Append(s, x) \in Seq(S)
OBVIOUS

LEMMA TailType ==
  ASSUME NEW S, NEW s \in Seq(S), s # <<>>
  PROVE  Tail(s) \in Seq(S) /\ Head(s) \in S
OBVIOUS

LEMMA BroadcastType ==
  ASSUME FeedType, NEW u \in Event \cup {Gap}, Broadcast(u)
  PROVE  feed' \in Seq(Event \cup {Gap}) /\ lagged' \in BOOLEAN
<1> DEFINE U == Event \cup {Gap}
<1>0. feed \in Seq(U) /\ lagged \in BOOLEAN
  BY DEF FeedType
<1>1. CASE Len(feed) < ChannelSize
  BY <1>0, <1>1, AppendType DEF Broadcast
<1>2. CASE ~(Len(feed) < ChannelSize)
  <2>1. feed # <<>>
    BY <1>2, ChainAssumption
  <2>2. Tail(feed) \in Seq(U)
    BY <1>0, <2>1, TailType
  <2> QED
    BY <1>2, <2>2, AppendType DEF Broadcast
<1> QED
  BY <1>1, <1>2

LEMMA RecordType ==
  ASSUME FeedType, NEW b \in Block, NEW s \in CommitStates \ {"none"}, Record(s, b),
         head' \in Block \cup {Genesis}
  PROVE  FeedType'
<1> DEFINE e == [state |-> s, block |-> b]
<1>1. e \in Event
  BY EventFacts
<1>2. ring' = Append(ring, e) \/ ring' = ring
  BY DEF Record
<1> HIDE DEF e
<1>3. ring' \in Seq(Event)
  BY <1>1, <1>2, AppendType, Zenon DEF FeedType
<1>4. commit' \in [Block -> CommitStates]
  BY DEF Record, FeedType
<1>5. overrun' \in BOOLEAN /\ lost' \in BOOLEAN /\ UNCHANGED <<known, feed, lagged>>
  BY DEF Record, FeedType, channel
<1> QED
  BY <1>3, <1>4, <1>5 DEF FeedType

LEMMA FeedStep ==
  ASSUME FeedType, Feed
  PROVE  FeedType'
<1>1. ASSUME NEW b \in Block, Propose(b) \/ Vote(b) \/ Finalize(b) \/ Verify(b)
      PROVE  FeedType'
  <2>1. PICK s \in CommitStates \ {"none"} : Record(s, b)
    BY <1>1 DEF Propose, Vote, Finalize, Verify, CommitStates
  <2>2. head' \in Block \cup {Genesis}
    BY <1>1 DEF Propose, Vote, Finalize, Verify, FeedType
  <2> QED
    BY <2>1, <2>2, RecordType
<1>2. CASE ServerEvent
  <2> DEFINE e == Head(ring)
  <2>1. ring \in Seq(Event) /\ ring # <<>>
    BY <1>2 DEF ServerEvent, FeedType
  <2>2. e \in Event /\ Tail(ring) \in Seq(Event)
    BY <2>1, TailType
  <2>3. e.block \in Block
    BY <2>2 DEF Event
  <2>4. feed' \in Seq(Event \cup {Gap}) /\ lagged' \in BOOLEAN
    <3>1. CASE e.state = "proposed" \/ e.block \in known
      BY <1>2, <2>2, <3>1, BroadcastType DEF ServerEvent
    <3>2. CASE ~(e.state = "proposed" \/ e.block \in known)
      BY <1>2, <3>2 DEF ServerEvent, FeedType, channel
    <3> QED
      BY <3>1, <3>2
  <2>5. known' \subseteq Block /\ lost' \in BOOLEAN
    BY <1>2, <2>3 DEF ServerEvent, FeedType
  <2>6. ring' = Tail(ring) /\ UNCHANGED <<commit, head, overrun>>
    BY <1>2 DEF ServerEvent, chain
  <2> QED
    BY <2>2, <2>4, <2>5, <2>6 DEF FeedType
<1>3. CASE ServerGap
  <2>0. Broadcast(Gap) /\ Gap \in Event \cup {Gap}
    BY <1>3 DEF ServerGap
  <2>1. feed' \in Seq(Event \cup {Gap}) /\ lagged' \in BOOLEAN
    BY <2>0, BroadcastType, Zenon
  <2>2. /\ ring' = <<>> /\ known' = {} /\ overrun' = FALSE
        /\ UNCHANGED <<commit, head, lost>>
    BY <1>3 DEF ServerGap, chain
  <2>3. ring' \in Seq(Event)
    BY <2>2
  <2>4. known' \subseteq Block /\ overrun' \in BOOLEAN /\ lost' \in BOOLEAN
    BY <2>2 DEF FeedType
  <2>5. commit' \in [Block -> CommitStates] /\ head' \in Block \cup {Genesis}
    BY <2>2 DEF FeedType
  <2> QED
    BY <2>1, <2>3, <2>4, <2>5 DEF FeedType
<1> QED
  BY <1>1, <1>2, <1>3 DEF Feed

LEMMA InsertStep ==
  ASSUME IInv, Insert
  PROVE  IInv'
<1> DEFINE e == Head(feed)
<1>0. feed \in Seq(Event \cup {Gap}) /\ feed # <<>>
  BY DEF IInv, FeedType, Insert
<1>1. e \in Event \cup {Gap} /\ Tail(feed) \in Seq(Event \cup {Gap})
  BY <1>0, TailType
<1>2. FeedType'
  BY <1>1 DEF Insert, IInv, FeedType, chain, server
<1>3. /\ UNCHANGED maps => MapsInv' /\ Len(blockHeights') <= Capacity
      /\ \A b \in Block : Store(b) => MapsInv' /\ Len(blockHeights') <= Capacity
  BY StoreKeeps DEF IInv, maps, MapsInv, Consistent
<1>4. CASE e.state \in {"gap", "verified"}
  BY <1>2, <1>3, <1>4 DEF Insert, IInv, StatesType, states
<1>5. CASE e.state \notin {"gap", "verified"}
  <2>1. e.block \in Block /\ Height[e.block] \in Nat
    BY <1>1, <1>5, EventFacts, HeightFacts
  <2>2. StatesType'
    BY <2>1, <1>5 DEF Insert, IInv, StatesType, FetchMax
  <2>3. UNCHANGED maps \/ Store(e.block)
    BY <1>5 DEF Insert
  <2> QED
    BY <1>2, <1>3, <2>1, <2>2, <2>3 DEF IInv
<1> QED
  BY <1>4, <1>5

LEMMA InitInv == Init => IInv
<1> SUFFICES ASSUME Init PROVE IInv
  OBVIOUS
<1>1. FeedType
  <2>1. commit \in [Block -> CommitStates] /\ head \in Block \cup {Genesis}
    BY DEF Init, FeedInit, CommitStates
  <2>2. ring \in Seq(Event) /\ feed \in Seq(Event \cup {Gap}) /\ known \subseteq Block
    BY DEF Init, FeedInit
  <2>3. overrun \in BOOLEAN /\ lagged \in BOOLEAN /\ lost \in BOOLEAN
    BY DEF Init, FeedInit
  <2> QED
    BY <2>1, <2>2, <2>3 DEF FeedType
<1>0. StatesType
  BY DEF Init, StatesType
<1>2. MapsInv /\ Len(blockHeights) <= Capacity
  <2>1. /\ blockHeights = <<>> /\ heightByHash = {}
        /\ blockByHeight = [h \in Heights |-> NoBlock] /\ txByHash = [t \in Tx |-> NoBlock]
    BY DEF Init
  <2>2. /\ \A h \in Heights : blockByHeight[h] = NoBlock
        /\ \A t \in Tx : txByHash[t] = NoBlock
    BY <2>1
  <2>3. /\ blockHeights \in Seq(Heights) /\ Len(blockHeights) = 0
        /\ blockByHeight \in [Heights -> Block \cup {NoBlock}]
        /\ txByHash \in [Tx -> Block \cup {NoBlock}]
    BY <2>1
  <2>4. \A b \in Block : b \in heightByHash <=> blockByHeight[Height[b]] = b
    BY <2>1, <2>2, BufferAssumption, HeightFacts
  <2>5. heightByHash \subseteq Block
    BY <2>1
  <2> QED
    BY <2>2, <2>3, <2>4, <2>5, BufferAssumption DEF MapsInv, Consistent
<1> QED
  BY <1>0, <1>1, <1>2 DEF IInv

LEMMA StepInv == IInv /\ [Next]_vars => IInv'
<1> SUFFICES ASSUME IInv, [Next]_vars PROVE IInv'
  OBVIOUS
<1>1. CASE Feed /\ UNCHANGED <<states, maps>>
  <2>1. FeedType'
    BY <1>1, FeedStep DEF IInv
  <2>2. StatesType' /\ MapsInv' /\ Len(blockHeights') <= Capacity
    BY <1>1 DEF IInv, StatesType, MapsInv, Consistent, states, maps
  <2> QED
    BY <2>1, <2>2 DEF IInv
<1>2. CASE Insert
  BY <1>2, InsertStep
<1>3. CASE RecvLagged
  <2>1. FeedType'
    BY <1>3 DEF RecvLagged, IInv, FeedType, chain, server
  <2>2. StatesType' /\ MapsInv' /\ Len(blockHeights') <= Capacity
    BY <1>3 DEF RecvLagged, IInv, StatesType, MapsInv, Consistent, states, maps
  <2> QED
    BY <2>1, <2>2 DEF IInv
<1>4. CASE UNCHANGED vars
  BY <1>4 DEF vars, IInv, FeedType, StatesType, MapsInv, Consistent, chain, server,
     channel, states, maps
<1> QED
  BY <1>1, <1>2, <1>3, <1>4 DEF Next

LEMMA Invariant == Spec => []IInv
BY InitInv, StepInv, PTL DEF Spec

-----------------------------------------------------------------------------
(* Every variable keeps its type and the ring of heights its capacity.     *)
THEOREM TypeCorrect == Spec => []TypeOK
<1>1. IInv => TypeOK
  BY DEF IInv, TypeOK, FeedType, StatesType, MapsInv, Consistent
<1> QED
  BY <1>1, Invariant, PTL

(* Whatever BlockBuffer::insert replaces and evicts, a block can be found  *)
(* by its hash exactly when it is stored.                                  *)
THEOREM HashesStayInStep == Spec => []HashesAgree
<1>1. IInv => HashesAgree
  BY DEF IInv, HashesAgree, MapsInv, Consistent
<1> QED
  BY <1>1, Invariant, PTL

(* tx_by_hash never leads to a block that was replaced or evicted.         *)
THEOREM NoStaleEntry == Spec => []EntriesResolve
<1>1. IInv => EntriesResolve
  BY DEF IInv, EntriesResolve, MapsInv, Consistent
<1> QED
  BY <1>1, Invariant, PTL

(* Every stored block will be evicted by the ring some time.               *)
THEOREM NothingEscapesTheRing == Spec => []RingCovers
<1>1. IInv => RingCovers
  BY DEF IInv, RingCovers, MapsInv, Consistent
<1> QED
  BY <1>1, Invariant, PTL

(* The four maps agree with each other in every reachable state (insert).  *)
THEOREM MapsStayInStep == Spec => []MapsAgree
<1>1. HashesAgree /\ EntriesResolve /\ RingCovers => MapsAgree
  BY DEF MapsAgree
<1> QED
  BY <1>1, HashesStayInStep, NoStaleEntry, NothingEscapesTheRing, PTL

-----------------------------------------------------------------------------
(***************************************************************************)
(* What is served as finalized.  As long as nothing is lost, the channel   *)
(* and the ring together are one queue, which the server does not change:  *)
(* what is recorded joins it and what is inserted leaves it.               *)
(***************************************************************************)
Pending == feed \o ring
Proposal(b) == [state |-> "proposed", block |-> b]
Final(b) == commit[b] \in {"finalized", "verified"}
News == {"proposed", "voted", "finalized"}

(* The builder knows a block, or will when it gets to its other events. *)
StreamInv ==
  /\ Len(feed) <= ChannelSize
  /\ ~lost =>
       /\ ~overrun
       /\ \A b \in Block : commit[b] # "none" =>
            b \in known \/ \E j \in 1 .. Len(ring) : ring[j] = Proposal(b)
       /\ \A i \in 1 .. Len(ring) :
            \/ ring[i].state = "proposed"
            \/ ring[i].block \in known
            \/ \E j \in 1 .. i - 1 : ring[j] = Proposal(ring[i].block)

(* The finalized blocks that have not been inserted are the next ones, in  *)
(* their order, and nothing that comes after one of them is at its height  *)
(* or below.                                                               *)
QueueInv(q) ==
  /\ \A i \in 1 .. Len(q) : q[i].state \in News => Height[q[i].block] > finalized
  /\ \A i \in 1 .. Len(q) : q[i].state = "finalized" =>
       Final(q[i].block) /\ Height[q[i].block] <= HeadHeight
  /\ \A i, j \in 1 .. Len(q) :
       i < j /\ q[i].state = "finalized" /\ q[j].state \in News =>
         Height[q[j].block] > Height[q[i].block]
  /\ \A h \in finalized + 1 .. HeadHeight :
       \E i \in 1 .. Len(q) : q[i].state = "finalized" /\ Height[q[i].block] = h
  /\ finalized <= HeadHeight

FinalInv == ~lost => QueueInv(Pending) /\ FinalizedServed

LEMMA PendingType ==
  ASSUME FeedType
  PROVE  /\ Pending \in Seq(Event \cup {Gap}) /\ ring \in Seq(Event \cup {Gap})
         /\ feed \in Seq(Event \cup {Gap})
         /\ Len(Pending) = Len(feed) + Len(ring)
BY DEF FeedType, Pending

LEMMA ConcatFacts ==
  ASSUME NEW S, NEW s \in Seq(S), NEW r \in Seq(S), NEW x \in S
  PROVE  /\ s \o Append(r, x) = Append(s \o r, x)
         /\ r # <<>> => Append(s, Head(r)) \o Tail(r) = s \o r
         /\ s # <<>> => Tail(s) \o r = Tail(s \o r) /\ Head(s \o r) = Head(s) /\ s \o r # <<>>
<1>1. s \o Append(r, x) = Append(s \o r, x)
  OBVIOUS
<1>2. ASSUME r # <<>> PROVE Append(s, Head(r)) \o Tail(r) = s \o r
  BY <1>2
<1>3. ASSUME s # <<>>
      PROVE  Tail(s) \o r = Tail(s \o r) /\ Head(s \o r) = Head(s) /\ s \o r # <<>>
  BY <1>3
<1> QED
  BY <1>1, <1>2, <1>3

LEMMA GapFacts ==
  \A e \in Event \cup {Gap} : e.state \in News => e.block \in Block
BY DEF Event, Gap, News

(* A block is final once and for all. *)
LEMMA RecordedState ==
  ASSUME FeedType, NEW b \in Block, Propose(b) \/ Vote(b) \/ Finalize(b) \/ Verify(b)
  PROVE  /\ \A c \in Block : Final(c) => Final(c)'
         /\ \A c \in Block : c # b => commit'[c] = commit[c]
         /\ \E s \in {"proposed", "voted", "finalized", "verified"} :
              /\ Record(s, b)
              /\ s # "proposed" => commit[b] # "none"
              /\ s \in {"proposed", "voted"} => Height[b] > HeadHeight
              /\ s = "finalized" => Parent[b] = head /\ head' = b
              /\ s # "finalized" => head' = head
              /\ commit'[b] = s
BY DEF FeedType, Propose, Vote, Finalize, Verify, Record, Final

LEMMA RecordStream ==
  ASSUME FeedType, StreamInv, NEW b \in Block,
         Propose(b) \/ Vote(b) \/ Finalize(b) \/ Verify(b)
  PROVE  StreamInv'
<1>1. PICK s \in {"proposed", "voted", "finalized", "verified"} :
        Record(s, b) /\ (s # "proposed" => commit[b] # "none")
  BY RecordedState
<1>2. UNCHANGED <<feed, known>>
  BY <1>1 DEF Record, channel
<1>3. ASSUME ~lost'
      PROVE  ~overrun' /\ ~lost /\ ring' = Append(ring, [state |-> s, block |-> b])
  BY <1>1, <1>3 DEF Record, StreamInv
<1> SUFFICES ASSUME ~lost'
             PROVE  /\ \A c \in Block : commit'[c] # "none" =>
                         c \in known' \/ \E j \in 1 .. Len(ring') : ring'[j] = Proposal(c)
                    /\ \A i \in 1 .. Len(ring') :
                         \/ ring'[i].state = "proposed"
                         \/ ring'[i].block \in known'
                         \/ \E j \in 1 .. i - 1 : ring'[j] = Proposal(ring'[i].block)
  BY <1>2, <1>3 DEF StreamInv
<1> DEFINE n == Len(ring)
           e == [state |-> s, block |-> b]
<1>4. ring \in Seq(Event) /\ n \in Nat
  BY DEF FeedType
<1>5. /\ Len(ring') = n + 1 /\ ring'[n + 1] = e
      /\ \A i \in 1 .. n : ring'[i] = ring[i]
  BY <1>3, <1>4
<1>6. e.state = s /\ e.block = b /\ (s = "proposed" => e = Proposal(b))
  BY DEF Proposal
<1> HIDE DEF n, e
<1>7. ASSUME NEW c \in Block, commit[c] # "none" \/ (c = b /\ s = "proposed")
      PROVE  c \in known' \/ \E j \in 1 .. n + 1 : ring'[j] = Proposal(c)
  <2>1. CASE commit[c] # "none"
    <3>1. c \in known \/ \E j \in 1 .. n : ring[j] = Proposal(c)
      BY <1>3, <2>1 DEF StreamInv, n
    <3> QED
      BY <1>2, <1>4, <1>5, <3>1
  <2>2. CASE c = b /\ s = "proposed"
    BY <1>4, <1>5, <1>6, <2>2
  <2> QED
    BY <1>7, <2>1, <2>2
<1>8. ASSUME NEW c \in Block, commit'[c] # "none"
      PROVE  commit[c] # "none" \/ (c = b /\ s = "proposed")
  BY <1>1, <1>8, RecordedState
<1>9. ASSUME NEW i \in 1 .. n + 1
      PROVE  \/ ring'[i].state = "proposed"
             \/ ring'[i].block \in known'
             \/ \E j \in 1 .. i - 1 : ring'[j] = Proposal(ring'[i].block)
  <2>1. CASE i \in 1 .. n
    <3>1. \/ ring[i].state = "proposed"
          \/ ring[i].block \in known
          \/ \E j \in 1 .. i - 1 : ring[j] = Proposal(ring[i].block)
      BY <1>3, <2>1 DEF StreamInv, n
    <3> QED
      BY <1>2, <1>4, <1>5, <2>1, <3>1
  <2>2. CASE i = n + 1
    <3>1. CASE s = "proposed"
      BY <1>5, <1>6, <2>2, <3>1
    <3>2. CASE s # "proposed"
      <4>1. b \in known \/ \E j \in 1 .. n : ring[j] = Proposal(b)
        BY <1>1, <1>3, <3>2 DEF StreamInv, n
      <4> QED
        BY <1>2, <1>4, <1>5, <1>6, <2>2, <4>1
    <3> QED
      BY <3>1, <3>2
  <2> QED
    BY <1>4, <2>1, <2>2
<1> QED
  BY <1>5, <1>7, <1>8, <1>9

(* The server passes every event on, and the queue stays as it is. *)
LEMMA ServerStream ==
  ASSUME FeedType, StreamInv, ServerEvent
  PROVE  StreamInv' /\ (~lost' => ~lost /\ Pending' = Pending)
<1> DEFINE e == Head(ring)
           n == Len(ring)
<1>1. ring \in Seq(Event) /\ ring # <<>> /\ feed \in Seq(Event \cup {Gap}) /\ n \in Nat
  BY DEF FeedType, ServerEvent
<1>2. /\ n > 0 /\ e = ring[1] /\ e \in Event /\ Len(Tail(ring)) = n - 1
      /\ \A i \in 1 .. n - 1 : Tail(ring)[i] = ring[i + 1]
  BY <1>1
<1>3. ring' = Tail(ring) /\ UNCHANGED <<commit, overrun>>
  BY DEF ServerEvent, chain
<1>4. Len(feed') <= ChannelSize
  <2>1. CASE UNCHANGED feed
    BY <2>1 DEF StreamInv
  <2>2. CASE Broadcast(e)
    <3>0. ChannelSize \in Nat \ {0} /\ Len(feed) <= ChannelSize /\ Len(feed) \in Nat
      BY <1>1, ChainAssumption DEF StreamInv
    <3>1. CASE Len(feed) < ChannelSize
      <4>1. feed' = Append(feed, e)
        BY <2>2, <3>1 DEF Broadcast
      <4> QED
        BY <1>1, <1>2, <3>0, <3>1, <4>1
    <3>2. CASE ~(Len(feed) < ChannelSize)
      <4>1. feed' = Append(Tail(feed), e) /\ feed # <<>>
        BY <2>2, <3>0, <3>2 DEF Broadcast
      <4> QED
        BY <1>1, <1>2, <3>0, <3>2, <4>1
    <3> QED
      BY <3>1, <3>2
  <2> QED
    BY <2>1, <2>2 DEF ServerEvent, channel
<1>5. ASSUME ~lost'
      PROVE  /\ ~lost /\ known' = known \cup {e.block}
             /\ feed' = Append(feed, e)
  <2>1. ~lost
    BY <1>5 DEF ServerEvent
  <2>2. e.state = "proposed" \/ e.block \in known
    <3>1. \/ ring[1].state = "proposed"
          \/ ring[1].block \in known
          \/ \E j \in 1 .. 1 - 1 : ring[j] = Proposal(ring[1].block)
      BY <1>1, <1>2, <2>1 DEF StreamInv
    <3> QED
      BY <1>2, <3>1
  <2>3. Broadcast(e) /\ ~(Len(feed) = ChannelSize) /\ known' = known \cup {e.block}
    BY <1>5, <2>2 DEF ServerEvent
  <2>4. Len(feed) < ChannelSize
    BY <1>1, <2>3, ChainAssumption DEF StreamInv
  <2> QED
    BY <2>1, <2>3, <2>4 DEF Broadcast
<1>6. ASSUME ~lost' PROVE Pending' = Pending
  <2> DEFINE U == Event \cup {Gap}
  <2>1. ring \in Seq(U) /\ feed \in Seq(U) /\ Gap \in U
    BY PendingType
  <2>2. Append(feed, Head(ring)) \o Tail(ring) = feed \o ring
    <3> HIDE DEF U
    <3> QED
      BY <1>1, <2>1, ConcatFacts
  <2> QED
    BY <1>3, <1>5, <1>6, <2>2 DEF Pending
<1> HIDE DEF e, n
<1>7. ASSUME ~lost', NEW b \in Block, commit[b] # "none"
      PROVE  b \in known' \/ \E j \in 1 .. n - 1 : ring'[j] = Proposal(b)
  <2>1. b \in known \/ \E j \in 1 .. n : ring[j] = Proposal(b)
    BY <1>5, <1>7 DEF StreamInv, n
  <2>2. ASSUME NEW j \in 1 .. n, ring[j] = Proposal(b), j # 1
        PROVE  \E i \in 1 .. n - 1 : ring'[i] = Proposal(b)
    <3>1. j - 1 \in 1 .. n - 1 /\ ring'[j - 1] = ring[(j - 1) + 1] /\ (j - 1) + 1 = j
      BY <1>1, <1>2, <1>3, <2>2
    <3> QED
      BY <2>2, <3>1
  <2>3. ring[1] = Proposal(b) => b \in known'
    BY <1>2, <1>5, <1>7 DEF Proposal
  <2> QED
    BY <1>5, <1>7, <2>1, <2>2, <2>3
<1>8. ASSUME ~lost', NEW i \in 1 .. n - 1
      PROVE  \/ ring'[i].state = "proposed"
             \/ ring'[i].block \in known'
             \/ \E j \in 1 .. i - 1 : ring'[j] = Proposal(ring'[i].block)
  <2>1. ring'[i] = ring[i + 1] /\ i + 1 \in 1 .. n
    BY <1>1, <1>2, <1>3
  <2>2. \/ ring[i + 1].state = "proposed"
        \/ ring[i + 1].block \in known
        \/ \E j \in 1 .. (i + 1) - 1 : ring[j] = Proposal(ring[i + 1].block)
    BY <1>5, <1>8, <2>1 DEF StreamInv, n
  <2>3. ASSUME NEW j \in 1 .. (i + 1) - 1, ring[j] = Proposal(ring[i + 1].block), j # 1
        PROVE  \E k \in 1 .. i - 1 : ring'[k] = Proposal(ring'[i].block)
    <3>1. /\ j - 1 \in 1 .. i - 1 /\ j - 1 \in 1 .. n - 1
          /\ ring'[j - 1] = ring[(j - 1) + 1] /\ (j - 1) + 1 = j
      BY <1>1, <1>2, <1>3, <2>3
    <3> QED
      BY <2>1, <2>3, <3>1
  <2>4. ring[1] = Proposal(ring[i + 1].block) => ring'[i].block \in known'
    BY <1>2, <1>5, <1>8, <2>1 DEF Proposal
  <2> QED
    BY <1>5, <1>8, <2>1, <2>2, <2>3, <2>4
<1> QED
  BY <1>2, <1>3, <1>4, <1>5, <1>6, <1>7, <1>8 DEF StreamInv

LEMMA GapStream ==
  ASSUME FeedType, StreamInv, ServerGap
  PROVE  StreamInv' /\ lost /\ lost'
<1>1. lost /\ lost'
  BY DEF ServerGap, StreamInv
<1>2. Broadcast(Gap) /\ feed \in Seq(Event \cup {Gap}) /\ Gap \in Event \cup {Gap}
  BY DEF ServerGap, FeedType
<1>3. Len(feed) \in Nat /\ Len(feed) <= ChannelSize /\ ChannelSize \in Nat \ {0}
  BY <1>2, ChainAssumption DEF StreamInv
<1>4. Len(feed') <= ChannelSize
  <2>1. CASE Len(feed) < ChannelSize
    <3>1. feed' = Append(feed, Gap)
      BY <1>2, <2>1 DEF Broadcast
    <3> QED
      BY <1>2, <1>3, <2>1, <3>1
  <2>2. CASE ~(Len(feed) < ChannelSize)
    <3>1. feed' = Append(Tail(feed), Gap) /\ feed # <<>>
      BY <1>2, <1>3, <2>2 DEF Broadcast
    <3> QED
      BY <1>2, <1>3, <2>2, <3>1
  <2> QED
    BY <2>1, <2>2
<1> QED
  BY <1>1, <1>4 DEF StreamInv

LEMMA HeadFacts ==
  ASSUME FeedType
  PROVE  HeadHeight \in Nat
BY ChainAssumption DEF FeedType, HeadHeight

(* What consensus records joins the queue at its end. *)
LEMMA RecordFinal ==
  ASSUME IInv, StreamInv, FinalInv, UNCHANGED <<states, maps>>, NEW b \in Block,
         Propose(b) \/ Vote(b) \/ Finalize(b) \/ Verify(b)
  PROVE  FinalInv'
<1> SUFFICES ASSUME ~lost' PROVE QueueInv(Pending)' /\ FinalizedServed'
  BY DEF FinalInv
<1>0. FeedType /\ finalized \in Nat /\ HeadHeight \in Nat
  BY HeadFacts DEF IInv, StatesType
<1>1. PICK s \in {"proposed", "voted", "finalized", "verified"} :
              /\ Record(s, b)
              /\ s \in {"proposed", "voted"} => Height[b] > HeadHeight
              /\ s = "finalized" => Parent[b] = head /\ head' = b
              /\ s # "finalized" => head' = head
              /\ commit'[b] = s
  BY <1>0, RecordedState
<1> DEFINE e == [state |-> s, block |-> b]
           q == Pending
           n == Len(Pending)
<1>2. ~lost /\ ring' = Append(ring, e) /\ feed' = feed
  BY <1>1 DEF Record, StreamInv, channel
<1>3. QueueInv(Pending) /\ FinalizedServed
  BY <1>2 DEF FinalInv
<1>4. UNCHANGED <<finalized, blockByHeight>>
  BY DEF states, maps
<1>5. /\ \A c \in Block : Final(c) => Final(c)'
      /\ \A c \in Block : c # b => commit'[c] = commit[c]
  BY <1>0, RecordedState
<1>6. FinalizedServed'
  <2>1. blockByHeight \in [Heights -> Block \cup {NoBlock}]
    BY DEF IInv, MapsInv, Consistent
  <2>2. \A h \in Heights : blockByHeight[h] # NoBlock =>
          (commit[blockByHeight[h]] \in {"finalized", "verified"} =>
           commit'[blockByHeight[h]] \in {"finalized", "verified"})
    BY <1>5, <2>1 DEF Final
  <2> QED
    BY <1>2, <1>3, <1>4, <2>2 DEF FinalizedServed
<1>7. e \in Event /\ e.state = s /\ e.block = b
  BY EventFacts DEF CommitStates
<1>8. /\ q \in Seq(Event \cup {Gap}) /\ n \in Nat
      /\ Pending' = Append(q, e)
  BY <1>0, <1>2, <1>7, PendingType, ConcatFacts DEF Pending
<1>n. n \in Nat /\ \A i \in 1 .. n + 1 : i \in 1 .. n \/ i = n + 1
  BY <1>8
<1> HIDE DEF e, q, n
<1>9. /\ Len(Pending') = n + 1 /\ Pending'[n + 1] = e
      /\ \A i \in 1 .. n : Pending'[i] = q[i] /\ q[i] \in Event \cup {Gap}
  BY <1>7, <1>8 DEF q, n
<1>10. /\ HeadHeight' \in Nat /\ HeadHeight <= HeadHeight' /\ Height[b] \in Nat
       /\ s = "finalized" => HeadHeight' = HeadHeight + 1 /\ HeadHeight' = Height[b]
       /\ s # "finalized" => HeadHeight' = HeadHeight
  <2>1. CASE s = "finalized"
    <3>1. Parent[b] = head /\ head' = b
      BY <1>1, <2>1
    <3> QED
      BY <1>0, <2>1, <3>1, ChainAssumption DEF HeadHeight
  <2>2. CASE s # "finalized"
    BY <1>0, <1>1, <2>2, ChainAssumption DEF HeadHeight
  <2> QED
    BY <2>1, <2>2
<1>11. s \in News => Height[b] > HeadHeight
  BY <1>0, <1>1, <1>10 DEF News
<1>12. s = "finalized" => Final(b)'
  BY <1>1 DEF Final
<1>13. \A i \in 1 .. n + 1 : Pending'[i].state \in News => Height[Pending'[i].block] > finalized'
  <2> SUFFICES ASSUME NEW i \in 1 .. n + 1, Pending'[i].state \in News
               PROVE  Height[Pending'[i].block] > finalized
    BY <1>4
  <2>1. CASE i \in 1 .. n
    BY <1>3, <1>9, <2>1 DEF QueueInv, q, n
  <2>2. CASE i = n + 1
    BY <1>0, <1>3, <1>7, <1>9, <1>10, <1>11, <2>2 DEF QueueInv
  <2> QED
    BY <1>n, <2>1, <2>2
<1>14. \A i \in 1 .. n + 1 : Pending'[i].state = "finalized" =>
          /\ commit'[Pending'[i].block] \in {"finalized", "verified"}
          /\ Height[Pending'[i].block] <= HeadHeight'
  <2> SUFFICES ASSUME NEW i \in 1 .. n + 1, Pending'[i].state = "finalized"
               PROVE  /\ commit'[Pending'[i].block] \in {"finalized", "verified"}
                      /\ Height[Pending'[i].block] <= HeadHeight'
    OBVIOUS
  <2>1. CASE i \in 1 .. n
    <3>1. Pending'[i] = q[i] /\ q[i].block \in Block
      BY <1>9, <2>1, GapFacts DEF News
    <3>2. Final(q[i].block) /\ Height[q[i].block] <= HeadHeight
      BY <1>3, <2>1, <3>1 DEF QueueInv, q, n
    <3>3. commit'[q[i].block] \in {"finalized", "verified"}
      BY <1>5, <3>1, <3>2 DEF Final
    <3>4. Height[q[i].block] \in Nat
      BY <3>1, HeightFacts
    <3> QED
      BY <1>0, <1>10, <3>1, <3>2, <3>3, <3>4
  <2>2. CASE i = n + 1
    BY <1>7, <1>9, <1>10, <1>12, <2>2 DEF Final
  <2> QED
    BY <1>n, <2>1, <2>2
<1>15. ASSUME NEW i \in 1 .. n + 1, NEW j \in 1 .. n + 1, i < j,
              Pending'[i].state = "finalized", Pending'[j].state \in News
       PROVE  Height[Pending'[j].block] > Height[Pending'[i].block]
  <2>0. i \in 1 .. n
    BY <1>8, <1>15
  <2>1. CASE j \in 1 .. n
    BY <1>3, <1>9, <1>15, <2>0, <2>1 DEF QueueInv, q, n
  <2>2. CASE j = n + 1
    <3>1. Pending'[i] = q[i] /\ q[i].block \in Block
      BY <1>9, <1>15, <2>0, GapFacts DEF News
    <3>2. Height[q[i].block] <= HeadHeight
      BY <1>3, <1>15, <2>0, <3>1 DEF QueueInv, q, n
    <3>3. Height[q[i].block] \in Nat
      BY <3>1, HeightFacts
    <3> QED
      BY <1>0, <1>7, <1>9, <1>10, <1>11, <1>15, <2>2, <3>1, <3>2, <3>3
  <2> QED
    BY <1>n, <2>1, <2>2
<1>16. ASSUME NEW h \in finalized' + 1 .. HeadHeight'
       PROVE  \E i \in 1 .. n + 1 : /\ Pending'[i].state = "finalized"
                                   /\ Height[Pending'[i].block] = h
  <2>1. CASE h \in finalized + 1 .. HeadHeight
    <3>1. PICK i \in 1 .. n : q[i].state = "finalized" /\ Height[q[i].block] = h
      BY <1>3, <2>1 DEF QueueInv, q, n
    <3> QED
      BY <1>8, <1>9, <3>1
  <2>2. CASE h \notin finalized + 1 .. HeadHeight
    <3>1. s = "finalized" /\ h = Height[b]
      BY <1>0, <1>4, <1>10, <2>2
    <3> QED
      BY <1>7, <1>8, <1>9, <3>1
  <2> QED
    BY <2>1, <2>2
<1>17. finalized' <= HeadHeight'
  BY <1>0, <1>3, <1>4, <1>10 DEF QueueInv
<1>18. QueueInv(Pending)'
  BY <1>9, <1>13, <1>14, <1>15, <1>16, <1>17 DEF QueueInv, Final
<1> QED
  BY <1>6, <1>18

LEMMA StoreEffect ==
  ASSUME MapsInv, NEW b \in Block, Store(b), NEW h \in Heights
  PROVE  \/ blockByHeight'[h] = NoBlock
         \/ h = Height[b] /\ blockByHeight'[h] = b
         \/ h # Height[b] /\ blockByHeight'[h] = blockByHeight[h]
<1> DEFINE byHeight == [blockByHeight EXCEPT ![Height[b]] = b]
           heights == <<Height[b]>> \o blockHeights
<1>1. blockByHeight \in [Heights -> Block \cup {NoBlock}] /\ Height[b] \in Heights
  BY HeightFacts DEF MapsInv, Consistent
<1>2. IF h = Height[b] THEN byHeight[h] = b ELSE byHeight[h] = blockByHeight[h]
  BY <1>1
<1>3. \/ blockByHeight' = byHeight
      \/ \E g : blockByHeight' = [byHeight EXCEPT ![g] = NoBlock]
  BY DEF Store, Evict
<1>4. DOMAIN byHeight = Heights
  BY <1>1
<1> HIDE DEF byHeight
<1> QED
  BY <1>2, <1>3, <1>4

(* What is inserted leaves the queue at its front. *)
LEMMA InsertFinal ==
  ASSUME IInv, StreamInv, FinalInv, Insert
  PROVE  FinalInv'
<1> SUFFICES ASSUME ~lost' PROVE QueueInv(Pending)' /\ FinalizedServed'
  BY DEF FinalInv
<1> DEFINE q == Pending
           n == Len(Pending)
           e == Head(feed)
<1>0. FeedType /\ finalized \in Nat /\ HeadHeight \in Nat /\ MapsInv
  BY HeadFacts DEF IInv, StatesType
<1>1. UNCHANGED <<commit, head, ring, lost>> /\ feed # <<>> /\ feed' = Tail(feed)
  BY DEF Insert, chain, server
<1>2. QueueInv(Pending) /\ FinalizedServed /\ ~lost
  BY <1>1 DEF FinalInv
<1>3. /\ Pending' = Tail(q) /\ Head(q) = e /\ q # <<>>
      /\ q \in Seq(Event \cup {Gap}) /\ n \in Nat
  <2> DEFINE U == Event \cup {Gap}
  <2>1. ring \in Seq(U) /\ feed \in Seq(U) /\ q \in Seq(U) /\ n \in Nat /\ Gap \in U
    BY <1>0, PendingType
  <2>2. Tail(feed) \o ring = Tail(feed \o ring) /\ Head(feed \o ring) = Head(feed) /\ feed \o ring # <<>>
    <3> HIDE DEF U
    <3> QED
      BY <1>1, <2>1, ConcatFacts
  <2> QED
    BY <1>1, <2>1, <2>2 DEF Pending
<1>4. /\ n > 0 /\ q[1] = e /\ Len(Pending') = n - 1 /\ e \in Event \cup {Gap}
      /\ \A i \in 1 .. n - 1 : Pending'[i] = q[i + 1] /\ i + 1 \in 1 .. n
      /\ \A i \in 1 .. n : q[i] \in Event \cup {Gap}
  BY <1>3
<1>5. HeadHeight' = HeadHeight
  BY <1>1 DEF HeadHeight
<1> HIDE DEF q, n, e
<1>6. ASSUME NEW m \in Nat, finalized' = m, m <= HeadHeight, finalized <= m,
             \A i \in 2 .. n : q[i].state \in News => Height[q[i].block] > m,
             e.state = "finalized" => Height[e.block] <= m
      PROVE  QueueInv(Pending)'
  <2>1. ASSUME NEW i \in 1 .. n - 1, Pending'[i].state \in News
        PROVE  Height[Pending'[i].block] > m
    <3>1. i + 1 \in 2 .. n /\ Pending'[i] = q[i + 1]
      BY <1>3, <1>4
    <3> QED
      BY <1>6, <2>1, <3>1
  <2>2. ASSUME NEW i \in 1 .. n - 1, Pending'[i].state = "finalized"
        PROVE  commit'[Pending'[i].block] \in {"finalized", "verified"} /\ Height[Pending'[i].block] <= HeadHeight
    <3>1. i + 1 \in 1 .. n /\ Pending'[i] = q[i + 1]
      BY <1>4
    <3>2. commit' = commit
      BY <1>1
    <3>3. Final(q[i + 1].block) /\ Height[q[i + 1].block] <= HeadHeight
      BY <1>2, <2>2, <3>1 DEF QueueInv, q, n
    <3> QED
      BY <3>1, <3>2, <3>3 DEF Final
  <2>3. ASSUME NEW i \in 1 .. n - 1, NEW j \in 1 .. n - 1, i < j,
               Pending'[i].state = "finalized", Pending'[j].state \in News
        PROVE  Height[Pending'[j].block] > Height[Pending'[i].block]
    <3>1. i + 1 < j + 1
      BY <1>3, <2>3
    <3> QED
      BY <1>2, <1>4, <2>3, <3>1 DEF QueueInv, q, n
  <2>4. ASSUME NEW h \in m + 1 .. HeadHeight
        PROVE  \E i \in 1 .. n - 1 : /\ Pending'[i].state = "finalized"
                                    /\ Height[Pending'[i].block] = h
    <3>0. h \in finalized + 1 .. HeadHeight /\ h > m
      BY <1>0, <1>6
    <3>1. PICK i \in 1 .. n : q[i].state = "finalized" /\ Height[q[i].block] = h
      BY <1>2, <3>0 DEF QueueInv, q, n
    <3>2. i # 1
      <4>1. e.state = "finalized" => Height[e.block] \in Nat
        BY <1>4, GapFacts, HeightFacts DEF News
      <4> QED
        BY <1>4, <1>6, <3>0, <3>1, <4>1
    <3>3. i - 1 \in 1 .. n - 1 /\ (i - 1) + 1 = i
      BY <1>3, <3>2
    <3> QED
      BY <1>4, <3>1, <3>3
  <2> QED
    BY <1>4, <1>5, <1>6, <2>1, <2>2, <2>3, <2>4 DEF QueueInv, Final
<1>7. CASE e.state # "finalized"
  <2>1. finalized' = finalized
    BY <1>4, <1>7 DEF Insert, states, e
  <2>2. QueueInv(Pending)'
    <3>1. \A i \in 2 .. n : q[i].state \in News => Height[q[i].block] > finalized
      BY <1>2, <1>3 DEF QueueInv, q, n
    <3>2. finalized <= HeadHeight
      BY <1>2 DEF QueueInv
    <3> QED
      BY <1>0, <1>6, <1>7, <2>1, <3>1, <3>2
  <2>3. ASSUME NEW h \in Heights, h <= finalized, blockByHeight'[h] # NoBlock
        PROVE  blockByHeight'[h] = blockByHeight[h]
    <3>1. CASE UNCHANGED maps
      BY <3>1 DEF maps
    <3>2. CASE ~UNCHANGED maps
      <4>1. e.state \in News /\ Store(e.block)
        BY <1>7, <3>2 DEF Insert, News, e
      <4>2. e.block \in Block /\ Height[e.block] > finalized
        BY <1>2, <1>3, <1>4, <4>1, GapFacts DEF QueueInv, q, n
      <4>3. Height[e.block] \in Nat /\ h \in Nat
        BY <4>2, HeightFacts
      <4> QED
        BY <1>0, <2>3, <4>1, <4>2, <4>3, StoreEffect
    <3> QED
      BY <3>1, <3>2
  <2> QED
    BY <1>1, <1>2, <2>1, <2>2, <2>3 DEF FinalizedServed
<1>8. CASE e.state = "finalized"
  <2> DEFINE b == e.block
             H == Height[b]
  <2>1. b \in Block /\ H \in Nat /\ H \in Heights
    BY <1>4, <1>8, GapFacts, HeightFacts DEF News
  <2>2. 1 \in 1 .. n /\ H > finalized /\ H <= HeadHeight /\ Final(b)
    BY <1>2, <1>3, <1>4, <1>8 DEF QueueInv, q, n, News
  <2>3. \A i \in 2 .. n : q[i].state \in News => Height[q[i].block] > H
    <3> SUFFICES ASSUME NEW i \in 2 .. n, q[i].state \in News PROVE Height[q[i].block] > H
      OBVIOUS
    <3>1. i \in 1 .. n /\ 1 < i
      BY <1>3
    <3> QED
      BY <1>2, <1>4, <1>8, <2>2, <3>1 DEF QueueInv, q, n
  <2>4. H = finalized + 1
    <3> SUFFICES ASSUME H > finalized + 1 PROVE FALSE
      BY <1>0, <2>1, <2>2
    <3>1. PICK i \in 1 .. n : q[i].state = "finalized" /\ Height[q[i].block] = finalized + 1
      <4>1. finalized + 1 \in finalized + 1 .. HeadHeight
        BY <1>0, <2>1, <2>2
      <4> QED
        BY <1>2, <4>1 DEF QueueInv, q, n
    <3>2. i \in 2 .. n
      BY <1>3, <1>4, <1>0, <3>1, <2>1
    <3>3. Height[q[i].block] > H
      BY <2>3, <3>1, <3>2 DEF News
    <3> QED
      BY <1>0, <2>1, <3>1, <3>3
  <2>5. finalized' = H
    BY <1>0, <1>8, <2>1, <2>2 DEF Insert, FetchMax, e
  <2>6. QueueInv(Pending)'
    BY <1>0, <1>6, <2>1, <2>2, <2>3, <2>5
  <2>7. ASSUME NEW h \in Heights, h <= H, blockByHeight'[h] # NoBlock
        PROVE  \/ h = H /\ blockByHeight'[h] = b
               \/ h <= finalized /\ blockByHeight'[h] = blockByHeight[h]
    <3>0. h \in Nat /\ (h = H \/ h <= finalized) /\ (h <= finalized => h # H)
      BY <1>0, <2>1, <2>4, <2>7, HeightFacts
    <3>1. CASE Stored(b)
      <4>1. UNCHANGED maps
        BY <1>8, <3>1 DEF Insert, e
      <4>2. blockByHeight[H] = b
        BY <1>0, <2>1, <3>1 DEF MapsInv, Consistent, Stored
      <4> QED
        BY <3>0, <4>1, <4>2 DEF maps
    <3>2. CASE ~Stored(b)
      <4>1. Store(b)
        BY <1>8, <3>2 DEF Insert, e
      <4> QED
        BY <1>0, <2>1, <2>7, <3>0, <4>1, StoreEffect
    <3> QED
      BY <3>1, <3>2
  <2>8. FinalizedServed'
    BY <1>1, <1>2, <2>2, <2>5, <2>7 DEF FinalizedServed, Final
  <2> QED
    BY <2>6, <2>8
<1> QED
  BY <1>7, <1>8

LEMMA FinalInit == Init => StreamInv /\ FinalInv
<1> SUFFICES ASSUME Init PROVE StreamInv /\ FinalInv
  OBVIOUS
<1>1. Pending = <<>> /\ finalized = 0 /\ HeadHeight = 0
  BY DEF Init, FeedInit, Pending, HeadHeight
<1>2. QueueInv(Pending)
  BY <1>1 DEF QueueInv
<1>3. StreamInv
  BY ChainAssumption DEF Init, FeedInit, StreamInv
<1>4. FinalizedServed
  BY DEF Init, FinalizedServed
<1> QED
  BY <1>2, <1>3, <1>4 DEF FinalInv

LEMMA FinalStep == IInv /\ StreamInv /\ FinalInv /\ [Next]_vars => StreamInv' /\ FinalInv'
<1> SUFFICES ASSUME IInv, StreamInv, FinalInv, [Next]_vars PROVE StreamInv' /\ FinalInv'
  OBVIOUS
<1>0. FeedType
  BY DEF IInv
<1>1. ASSUME UNCHANGED <<states, maps>>, NEW b \in Block,
             Propose(b) \/ Vote(b) \/ Finalize(b) \/ Verify(b)
      PROVE  StreamInv' /\ FinalInv'
  BY <1>0, <1>1, RecordStream, RecordFinal
<1>2. CASE ServerEvent /\ UNCHANGED <<states, maps>>
  <2>1. StreamInv' /\ (~lost' => ~lost /\ Pending' = Pending)
    BY <1>0, <1>2, ServerStream
  <2>2. UNCHANGED <<commit, head, finalized, blockByHeight>>
    BY <1>2 DEF ServerEvent, chain, states, maps
  <2>3. HeadHeight' = HeadHeight
    BY <2>2 DEF HeadHeight
  <2> QED
    BY <2>1, <2>2, <2>3 DEF FinalInv, QueueInv, Final, FinalizedServed
<1>3. CASE ServerGap
  BY <1>0, <1>3, GapStream DEF FinalInv
<1>4. CASE Insert
  <2>1. StreamInv'
    <3>1. Len(feed') <= ChannelSize
      <4>1. feed \in Seq(Event \cup {Gap}) /\ feed # <<>> /\ feed' = Tail(feed)
        BY <1>0, <1>4 DEF FeedType, Insert
      <4> QED
        BY <4>1, ChainAssumption DEF StreamInv
    <3> QED
      BY <1>4, <3>1 DEF StreamInv, Insert, chain, server
  <2> QED
    BY <1>4, <2>1, InsertFinal
<1>5. CASE RecvLagged \/ UNCHANGED vars
  <2>1. UNCHANGED <<chain, server, feed, lost, states, maps>>
    BY <1>5 DEF RecvLagged, vars, channel
  <2>2. Pending' = Pending /\ HeadHeight' = HeadHeight
    BY <2>1 DEF Pending, HeadHeight, chain, server
  <2> QED
    BY <2>1, <2>2 DEF FinalInv, QueueInv, Final, FinalizedServed, StreamInv, chain, server,
       states, maps
<1> QED
  BY <1>1, <1>2, <1>3, <1>4, <1>5 DEF Next, Feed

(* Unless the ring or the channel has overwritten an event, the buffer     *)
(* never serves an abandoned proposal at a finalized height: the events of *)
(* a height come before those of the next finalized one, and the last of   *)
(* them to be stored is the finalized block's.                             *)
THEOREM FinalizedIsServed == Spec => []FinalizedServed
<1>1. FinalInv => FinalizedServed
  BY DEF FinalInv, FinalizedServed
<1> QED
  BY <1>1, Invariant, FinalInit, FinalStep, PTL DEF Spec
=============================================================================
