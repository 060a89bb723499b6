------------------------ MODULE DataProviderProofs ------------------------
(***************************************************************************)
(* Proofs about DataProvider: a finalized block that a source has is       *)
(* found, what is found is right, no account state is invented, and        *)
(* eth_getLogs answers with the logs of each finalized block, all of them  *)
(* and no others.                                                          *)
(***************************************************************************)
EXTENDS DataProvider, TLAPS, SequenceTheorems, NaturalsInduction, WellFoundedInduction

(***************************************************************************)
(* The inductive invariant.                                                *)
(***************************************************************************)
SourcesInv ==
  /\ history \in Histories /\ dbAt \in SyncedTo .. Len(history)
  /\ dbLow \in Nat \ {0} /\ archived \in Nat /\ indexed \in Nat /\ indexed <= archived

\* What the sources had when the request began they still have.
BegunInv ==
  /\ begun.fin \in Nat /\ begun.fin <= FinHeight(dbAt)
  /\ begun.arch \in Nat /\ begun.arch <= archived
  /\ begun.index \in Nat /\ begun.index <= indexed

RequestInv ==
  /\ faults \in Nat
  /\ IF pc = "idle" THEN req = NoReq /\ loc = Fresh /\ faults = 0 ELSE req \in Requests
  /\ pc # "done" => ans = NoAns

\* Triedb may not have the block in full, or not give it.
Gone(b) == Height[b] < dbLow \/ Height[b] < StateSynced \/ faults > 0

\* The locals l place the transaction asked for where it is in block b.
Placed(l, b) ==
  req.m \in ByTx => l.idx \in DOMAIN Txs[b] /\ Txs[b][l.idx] = req.tx

\* The key that was found on the way to the archive is that of block b.
Pointed(l, b) ==
  req.m \notin ByTx =>
    IF req.ref.kind = "number" THEN l.key = FinKey(Height[b])
    ELSE l.key \in {NoKey, FinKey(Height[b])}

StateReads == {Found(b, "db") : b \in Blocks \cup {NoBlock}}

\* A key that triedb gave out: of a finalized block or of a proposal.
KeyGood(key) ==
  /\ key.num \in Nat
  /\ IF key.final THEN key.num < dbLow \/ key.num \in 1 .. FinHeight(dbAt) ELSE key.id \in Blocks

\* An empty account that was read means that the state is not there.
StateAt(p, l) ==
  /\ p \in {"idle", "buffer", "db", "dbKey"} => l.out = << >>
  /\ p \in {"dbRead", "stateRead"} =>
       /\ KeyGood(l.key) /\ l.out \in Seq(StateReads)
       /\ \A i \in 1 .. Len(l.out) : l.out[i].value = NoBlock => ~DbBody(l.key)
  /\ p = "stateRead" => l.out # << >>

Early == {"idle", "buffer", "bufferHash", "bufferRead", "bufferReceipts", "bufferTx", "db", "dbKey"}

\* What is known of the locals at each place of a request.
At(p, l) ==
  /\ DOMAIN l = {"h", "block", "idx", "key", "out"}
  /\ p \in Early => l.key = NoKey
  /\ p = "dbKey" => \A b \in Target : l.h = Height[b] /\ Placed(l, b)
  /\ p \in {"dbRead", "stateRead"} => \A b \in Target : l.key = FinKey(Height[b]) /\ Placed(l, b)
  /\ p = "archive" => \A b \in Target :
       /\ Gone(b) \/ (req.m = "txAt" /\ ~HasTx(b, req.idx))
       /\ Pointed(l, b)
  /\ req.m = "state" => StateAt(p, l)

IInv ==
  /\ SourcesInv /\ BegunInv /\ RequestInv
  /\ req.m # "logs" => At(pc, loc)
  /\ SettledAnswers /\ StateNotInvented

(***************************************************************************)
(* Sets of numbers.                                                        *)
(***************************************************************************)
LEMMA Greatest ==
  ASSUME NEW n \in Nat, NEW S, S \subseteq 0 .. n, S # {}
  PROVE  Max(S) \in S /\ \A x \in S : x <= Max(S)
<1> DEFINE R == {ss \in Nat \X Nat : ss[1] < ss[2]}
           T == {m \in Nat : \E x \in S : m = n - x}
<1>1. IsWellFoundedOn(R, Nat)
  BY NatLessThanWellFounded, Zenon DEF OpToRel
<1>2. \A x, y \in Nat : x < y => <<x, y>> \in R
  OBVIOUS
<1>3. T \subseteq Nat /\ T # {}
  <2>1. PICK x \in S : TRUE
    OBVIOUS
  <2>2. n - x \in T
    BY <2>1
  <2> QED  BY <2>2
<1> HIDE DEF R
<1>4. PICK m \in T : \A y \in T : ~(<<y, m>> \in R)
  <2> HIDE DEF T
  <2> QED  BY <1>1, <1>3, WFMin
<1>5. \A y \in T : m <= y
  <2> HIDE DEF T
  <2> SUFFICES ASSUME NEW y \in T PROVE m <= y
    OBVIOUS
  <2>1. m \in Nat /\ y \in Nat
    BY <1>3
  <2>2. ~(y < m)
    BY <1>2, <1>4, <2>1
  <2> QED  BY <2>1, <2>2
<1>6. PICK top \in S : m = n - top
  OBVIOUS
<1>7. \A y \in S : top >= y
  <2> SUFFICES ASSUME NEW y \in S PROVE top >= y
    OBVIOUS
  <2>1. n - y \in T
    OBVIOUS
  <2> QED  BY <2>1, <1>5, <1>6
<1> DEFINE P(x) == \A y \in S : x >= y
<1>8. Max(S) = CHOOSE x \in S : P(x)
  BY Zenon DEF Max
<1>9. P(top)
  BY <1>7
<1> HIDE DEF P
<1>10. Max(S) \in S /\ P(Max(S))
  BY <1>8, <1>9
<1> QED  BY <1>10 DEF P

\* Induction over an initial part of the numbers, with a set for the predicate.
LEMMA Climb ==
  ASSUME NEW n \in Nat, NEW S, 0 \in S, \A k \in 1 .. n : k - 1 \in S => k \in S
  PROVE  0 .. n \subseteq S
<1> SUFFICES ASSUME (0 .. n) \ S # {} PROVE FALSE
  OBVIOUS
<1> DEFINE R == {ss \in Nat \X Nat : ss[1] < ss[2]}
           T == (0 .. n) \ S
<1>1. IsWellFoundedOn(R, Nat)
  BY NatLessThanWellFounded, Zenon DEF OpToRel
<1>2. \A x, y \in Nat : x < y => <<x, y>> \in R
  OBVIOUS
<1>3. T \subseteq Nat /\ T # {}
  OBVIOUS
<1> HIDE DEF R
<1>4. PICK m \in T : \A y \in T : ~(<<y, m>> \in R)
  <2> HIDE DEF T
  <2> QED  BY <1>1, <1>3, WFMin
<1>5. m \in 1 .. n /\ m - 1 \in Nat /\ m - 1 < m
  OBVIOUS
<1>6. m - 1 \in T
  BY <1>4, <1>5
<1>7. <<m - 1, m>> \in R
  <2> HIDE DEF T
  <2> QED  BY <1>2, <1>3, <1>5
<1>8. ~(<<m - 1, m>> \in R)
  <2> HIDE DEF T
  <2> QED  BY <1>4, <1>6
<1> QED  BY <1>7, <1>8

(***************************************************************************)
(* The history of consensus.                                               *)
(***************************************************************************)
IsFinal(i) == history[i].state = "finalized"

LEMMA HistoryFacts ==
  ASSUME history \in Histories
  PROVE  /\ Len(history) \in Nat /\ SyncedTo \in 1 .. Len(history)
         /\ \A i \in 1 .. Len(history) : history[i].block \in Blocks /\ Height[history[i].block] \in Nat \ {0}
         /\ \A state \in {"proposed", "voted", "finalized"} :
              \E i \in 1 .. SyncedTo : history[i].state = state
         /\ \A i, j \in 1 .. Len(history) :
              IsFinal(i) /\ IsFinal(j) /\ j < i => Height[history[j].block] < Height[history[i].block]
         /\ \A i \in 1 .. Len(history) : IsFinal(i) =>
              \A n \in 1 .. Height[history[i].block] - 1 :
                \E j \in 1 .. i - 1 : IsFinal(j) /\ Height[history[j].block] = n
         /\ \A k \in SyncedTo .. Len(history) :
              \A i \in 1 .. k : IsFinal(i) =>
                history[i].block \in ChainTo[history[Max({x \in 1 .. k : history[x].state = "proposed"})].block]
<1> DEFINE Made(state, k) == {i \in 1 .. k : history[i].state = state}
<1>1. /\ history \in Seq([state : {"proposed", "voted", "finalized"}, block : Blocks])
      /\ SyncedTo \in 1 .. Len(history)
      /\ \A state \in {"proposed", "voted", "finalized"} : Made(state, SyncedTo) # {}
      /\ \A i \in Made("finalized", Len(history)) :
           /\ \A j \in Made("finalized", i - 1) : Height[history[j].block] < Height[history[i].block]
           /\ \A n \in 1 .. Height[history[i].block] - 1 :
                \E j \in Made("finalized", i - 1) : Height[history[j].block] = n
      /\ \A k \in SyncedTo .. Len(history) : \A i \in Made("finalized", k) :
           history[i].block \in ChainTo[history[Max(Made("proposed", k))].block]
  BY HistoryAssumption, Zenon
<1>2. Len(history) \in Nat /\ \A i \in 1 .. Len(history) : history[i].block \in Blocks
  <2>1. history \in Seq([state : {"proposed", "voted", "finalized"}, block : Blocks])
    BY <1>1
  <2>2. \A i \in 1 .. Len(history) : history[i] \in [state : {"proposed", "voted", "finalized"}, block : Blocks]
    BY <2>1, ElementOfSeq, Zenon
  <2> QED  BY <2>1, <2>2, LenProperties
<1>3. \A i \in 1 .. Len(history) : Height[history[i].block] \in Nat \ {0}
  BY <1>2, SourcesAssumption
<1>4. \A i, j \in 1 .. Len(history) : IsFinal(i) /\ IsFinal(j) /\ j < i
        => i \in Made("finalized", Len(history)) /\ j \in Made("finalized", i - 1)
  BY <1>2 DEF IsFinal
<1>5. \A k \in 1 .. Len(history) : \A i \in 1 .. k : IsFinal(i) => i \in Made("finalized", k)
  BY <1>2 DEF IsFinal
<1>6. \A i, j : j \in Made("finalized", i - 1) => j \in 1 .. i - 1 /\ IsFinal(j)
  BY DEF IsFinal
<1>7. \A state, k : Made(state, k) # {} => \E i \in 1 .. k : history[i].state = state
  OBVIOUS
<1>8. \A k : Made("proposed", k) = {x \in 1 .. k : history[x].state = "proposed"}
  OBVIOUS
<1>9. \A k \in SyncedTo .. Len(history) : k \in 1 .. Len(history)
  BY <1>1, <1>2
<1> HIDE DEF Made
<1>10. \A i \in 1 .. Len(history) : IsFinal(i) => i \in Made("finalized", Len(history))
  BY <1>2, <1>5
<1>11. \A k \in SyncedTo .. Len(history) :
         \A i \in 1 .. k : IsFinal(i) =>
           history[i].block \in ChainTo[history[Max({x \in 1 .. k : history[x].state = "proposed"})].block]
  BY <1>1, <1>5, <1>8, <1>9, Zenon
<1>12. \A i \in 1 .. Len(history) : IsFinal(i) =>
         \A n \in 1 .. Height[history[i].block] - 1 :
           \E j \in 1 .. i - 1 : IsFinal(j) /\ Height[history[j].block] = n
  BY <1>1, <1>6, <1>10, Zenon
<1>13. \A i, j \in 1 .. Len(history) :
         IsFinal(i) /\ IsFinal(j) /\ j < i => Height[history[j].block] < Height[history[i].block]
  BY <1>1, <1>4, Zenon
<1>14. \A state \in {"proposed", "voted", "finalized"} : \E i \in 1 .. SyncedTo : history[i].state = state
  BY <1>1, <1>7, Zenon
<1> QED  BY <1>1, <1>2, <1>3, <1>11, <1>12, <1>13, <1>14, Zenon

\* The height that is finalized after k events, and that everything below it is.
LEMMA FinFacts ==
  ASSUME history \in Histories, NEW k \in SyncedTo .. Len(history)
  PROVE  /\ FinHeight(k) \in Nat
         /\ \A i \in 1 .. k : IsFinal(i) => Height[history[i].block] <= FinHeight(k)
         /\ \A n \in 1 .. FinHeight(k) : \E i \in 1 .. k : IsFinal(i) /\ Height[history[i].block] = n
<1> DEFINE S == {i \in 1 .. k : IsFinal(i)}
           top == Max(S)
           H == Height[history[top].block]
           Hs == {0} \cup {Height[b] : b \in Finalized(k)}
<1>1. k \in Nat /\ k \in 1 .. Len(history) /\ SyncedTo <= k /\ \A i \in 1 .. k : i \in 1 .. Len(history)
  BY HistoryFacts
<1>2. S \subseteq 0 .. k /\ S # {}
  <2>1. PICK i \in 1 .. SyncedTo : history[i].state = "finalized"
    BY HistoryFacts, Zenon
  <2>2. i \in S
    BY <1>1, <2>1, HistoryFacts DEF IsFinal
  <2> QED  BY <2>2
<1>3. top \in S /\ \A x \in S : x <= top
  <2> HIDE DEF S
  <2> QED  BY <1>1, <1>2, Greatest
<1>4. top \in 1 .. k /\ IsFinal(top) /\ H \in Nat \ {0}
  BY <1>1, <1>3, HistoryFacts
<1>5. \A i \in 1 .. k : IsFinal(i) => Height[history[i].block] <= H
  <2> SUFFICES ASSUME NEW i \in 1 .. k, IsFinal(i) PROVE Height[history[i].block] <= H
    OBVIOUS
  <2>1. i <= top
    BY <1>3
  <2>2. CASE i = top
    BY <2>2, <1>4
  <2>3. CASE i < top
    <3>1. Height[history[i].block] < H
      <4> HIDE DEF top
      <4> QED  BY <2>3, <1>1, <1>4, HistoryFacts
    <3>2. Height[history[i].block] \in Nat
      BY <1>1, HistoryFacts
    <3> HIDE DEF H
    <3> QED  BY <3>1, <3>2, <1>4
  <2> QED  BY <2>1, <2>2, <2>3, <1>4
<1>6. \A b \in Finalized(k) : \E i \in 1 .. k : IsFinal(i) /\ b = history[i].block
  BY DEF Finalized, Reached, IsFinal
<1>7. history[top].block \in Finalized(k)
  BY <1>4 DEF Finalized, Reached, IsFinal
<1>8. Hs \subseteq 0 .. H /\ H \in Hs
  <2>1. \A b \in Finalized(k) : Height[b] \in 0 .. H
    <3> SUFFICES ASSUME NEW b \in Finalized(k) PROVE Height[b] \in 0 .. H
      OBVIOUS
    <3>1. PICK i \in 1 .. k : IsFinal(i) /\ b = history[i].block
      BY <1>6
    <3>2. Height[history[i].block] \in Nat /\ Height[history[i].block] <= H
      BY <1>1, <1>5, <3>1, HistoryFacts
    <3> HIDE DEF H
    <3> QED  BY <3>1, <3>2, <1>4
  <2>2. H \in Hs
    BY <1>7, Zenon
  <2> HIDE DEF H
  <2> QED  BY <1>4, <2>1, <2>2
<1>9. FinHeight(k) = H
  <2>1. Max(Hs) \in Hs /\ \A x \in Hs : x <= Max(Hs)
    <3> HIDE DEF Hs, H
    <3> QED  BY <1>4, <1>8, Greatest
  <2>2. Max(Hs) = H
    <3> DEFINE most == Max(Hs)
    <3>1. most \in Hs /\ H <= most
      BY <1>8, <2>1
    <3>2. most \in 0 .. H
      BY <1>8, <3>1
    <3> HIDE DEF most, H
    <3>3. most = H
      BY <1>4, <3>1, <3>2
    <3> QED  BY <3>3 DEF most
  <2> QED  BY <2>2 DEF FinHeight
<1>10. ASSUME NEW n \in 1 .. FinHeight(k)
       PROVE  \E i \in 1 .. k : IsFinal(i) /\ Height[history[i].block] = n
  <2>1. CASE n = H
    BY <2>1, <1>4
  <2>2. CASE n # H
    <3>1. n \in 1 .. H - 1
      <4> HIDE DEF H
      <4> QED  BY <2>2, <1>4, <1>9
    <3>2. PICK j \in 1 .. top - 1 : IsFinal(j) /\ Height[history[j].block] = n
      <4> HIDE DEF top
      <4>1. top \in 1 .. Len(history)
        BY <1>1, <1>4
      <4> QED  BY <1>4, <3>1, <4>1, HistoryFacts
    <3>3. j \in 1 .. k
      <4> HIDE DEF top
      <4> QED  BY <1>1, <1>4, <3>2
    <3> QED  BY <3>2, <3>3
  <2> QED  BY <2>1, <2>2
<1> QED
  <2> HIDE DEF H
  <2> QED  BY <1>4, <1>5, <1>9, <1>10

LEMMA FinGrows ==
  ASSUME history \in Histories, NEW k \in SyncedTo .. Len(history), NEW m \in k .. Len(history)
  PROVE  FinHeight(k) <= FinHeight(m)
<1>1. k \in Nat /\ m \in SyncedTo .. Len(history) /\ \A i \in 1 .. k : i \in 1 .. m
  BY HistoryFacts
<1>2. FinHeight(k) \in Nat /\ FinHeight(m) \in Nat
  BY <1>1, FinFacts
<1>3. CASE FinHeight(k) = 0
  BY <1>2, <1>3
<1>4. CASE FinHeight(k) # 0
  <2>1. FinHeight(k) \in 1 .. FinHeight(k)
    BY <1>2, <1>4
  <2>2. PICK i \in 1 .. k : IsFinal(i) /\ Height[history[i].block] = FinHeight(k)
    BY <2>1, FinFacts
  <2> QED  BY <1>1, <2>2, FinFacts
<1> QED  BY <1>3, <1>4

\* One block per finalized number, the same one ever after.
LEMMA CanonFacts ==
  ASSUME history \in Histories, NEW k \in SyncedTo .. Len(history), NEW n \in 1 .. FinHeight(k)
  PROVE  /\ CanonAt(k, n) \in Finalized(k) /\ CanonAt(k, n) \in Blocks
         /\ Height[CanonAt(k, n)] = n
         /\ CanonAt(k, n) \in Finalized(Len(history))
         /\ Canonical(n) = CanonAt(k, n)
<1>1. k \in Nat /\ Len(history) \in Nat /\ Len(history) \in SyncedTo .. Len(history)
      /\ \A i \in 1 .. k : i \in 1 .. Len(history)
  BY HistoryFacts
<1>2. PICK i \in 1 .. k : IsFinal(i) /\ Height[history[i].block] = n
  BY FinFacts
<1> DEFINE b == history[i].block
<1>3. b \in Finalized(k) /\ b \in Finalized(Len(history)) /\ b \in Blocks /\ Height[b] = n
  <2>1. b \in Finalized(k)
    BY <1>2 DEF Finalized, Reached, IsFinal
  <2>2. b \in Finalized(Len(history))
    BY <1>1, <1>2 DEF Finalized, Reached, IsFinal
  <2> QED  BY <1>1, <1>2, <2>1, <2>2, HistoryFacts
<1>4. ASSUME NEW m \in {k, Len(history)}, NEW c \in Finalized(m), Height[c] = n
      PROVE  c = b
  <2>1. PICK j \in 1 .. m : IsFinal(j) /\ c = history[j].block
    BY <1>4 DEF Finalized, Reached, IsFinal
  <2>2. j \in 1 .. Len(history) /\ i \in 1 .. Len(history) /\ i \in Nat /\ j \in Nat
    BY <1>1, <2>1
  <2>3. ~(i < j) /\ ~(j < i)
    <3>1. ~(n < n)
      BY FinFacts
    <3>2. \A x, y \in 1 .. Len(history) :
            IsFinal(x) /\ IsFinal(y) /\ y < x => Height[history[y].block] < Height[history[x].block]
      BY HistoryFacts, Zenon
    <3>3. Height[history[i].block] = n /\ Height[history[j].block] = n /\ IsFinal(i) /\ IsFinal(j)
      BY <1>2, <1>4, <2>1
    <3> QED  BY <2>2, <3>1, <3>2, <3>3, Zenon
  <2>4. i = j
    BY <2>2, <2>3
  <2> QED  BY <2>1, <2>4
<1> HIDE DEF b
<1>5. CanonAt(k, n) = b
  BY <1>3, <1>4 DEF CanonAt
<1>6. CanonAt(Len(history), n) = b
  BY <1>3, <1>4 DEF CanonAt
<1> QED  BY <1>3, <1>5, <1>6 DEF Canonical

LEMMA NewestFacts ==
  ASSUME history \in Histories, NEW k \in SyncedTo .. Len(history)
  PROVE  /\ \A state \in {"proposed", "voted"} : Newest(state, k) \in Blocks
         /\ Finalized(k) \subseteq ChainTo[Newest("proposed", k)]
<1>1. k \in Nat /\ SyncedTo \in Nat /\ SyncedTo <= k /\ \A i \in 1 .. k : i \in 1 .. Len(history)
  BY HistoryFacts
<1>2. ASSUME NEW state \in {"proposed", "voted"}
      PROVE  LET at == {i \in 1 .. k : history[i].state = state}
             IN  at # {} /\ Newest(state, k) = history[Max(at)].block /\ Max(at) \in 1 .. k
  <2> DEFINE at == {i \in 1 .. k : history[i].state = state}
  <2>1. PICK i \in 1 .. SyncedTo : history[i].state = state
    BY HistoryFacts, Zenon
  <2>2. i \in at
    BY <1>1, <2>1
  <2>3. Newest(state, k) = history[Max(at)].block
    BY <2>2 DEF Newest
  <2>4. at \subseteq 0 .. k /\ at # {} /\ at \subseteq 1 .. k
    BY <2>2
  <2>5. Max(at) \in at
    <3> HIDE DEF at
    <3> QED  BY <1>1, <2>4, Greatest
  <2> QED  BY <2>3, <2>4, <2>5
<1>3. \A state \in {"proposed", "voted"} : Newest(state, k) \in Blocks
  BY <1>1, <1>2, HistoryFacts
<1>4. ASSUME NEW b \in Finalized(k) PROVE b \in ChainTo[Newest("proposed", k)]
  <2>1. PICK i \in 1 .. k : IsFinal(i) /\ b = history[i].block
    BY DEF Finalized, Reached, IsFinal
  <2>2. Newest("proposed", k) = history[Max({x \in 1 .. k : history[x].state = "proposed"})].block
    BY <1>2
  <2>3. history[i].block \in ChainTo[history[Max({x \in 1 .. k : history[x].state = "proposed"})].block]
    BY <2>1, HistoryFacts
  <2> QED  BY <2>1, <2>2, <2>3
<1> QED  BY <1>3, <1>4

(***************************************************************************)
(* Sums over the transactions of a block.                                  *)
(***************************************************************************)
IsSum(s, f, b, n) ==
  /\ s \in [0 .. n -> Nat] /\ s[0] = 0
  /\ \A k \in 1 .. n : s[k] = s[k - 1] + f[Txs[b][k]]

LEMMA SumExists ==
  ASSUME NEW f \in [TxHashes -> Nat], NEW b \in Blocks
  PROVE  \E s : IsSum(s, f, b, Len(Txs[b]))
<1> DEFINE N == Len(Txs[b])
           S == {n \in 0 .. N : \E s : IsSum(s, f, b, n)}
<1>1. N \in Nat /\ \A k \in 1 .. N : f[Txs[b][k]] \in Nat
  <2>1. Txs[b] \in Seq(TxHashes)
    BY SourcesAssumption
  <2>2. \A k \in 1 .. N : Txs[b][k] \in TxHashes
    BY <2>1, ElementOfSeq
  <2> QED  BY <2>1, <2>2, LenProperties
<1> HIDE DEF N
<1>2. 0 \in S
  <2>1. IsSum([k \in 0 .. 0 |-> 0], f, b, 0)
    BY DEF IsSum
  <2> QED  BY <1>1, <2>1
<1>3. ASSUME NEW n \in 1 .. N, n - 1 \in S PROVE n \in S
  <2>1. PICK s : IsSum(s, f, b, n - 1)
    BY <1>3
  <2> DEFINE g == f[Txs[b][n]]
             s2 == [k \in 0 .. n |-> IF k = n THEN s[n - 1] + g ELSE s[k]]
  <2>2. g \in Nat /\ n \in Nat /\ n - 1 \in 0 .. n - 1 /\ s[n - 1] \in Nat
    BY <1>1, <1>3, <2>1 DEF IsSum
  <2>3. \A k \in 0 .. n : k # n => k \in 0 .. n - 1
    BY <2>2
  <2>4. s2 \in [0 .. n -> Nat] /\ s2[0] = 0
    BY <2>1, <2>2, <2>3 DEF IsSum
  <2>5. \A k \in 1 .. n : s2[k] = s2[k - 1] + f[Txs[b][k]]
    <3> SUFFICES ASSUME NEW k \in 1 .. n PROVE s2[k] = s2[k - 1] + f[Txs[b][k]]
      OBVIOUS
    <3>1. s2[k - 1] = s[k - 1]
      BY <2>2
    <3>2. CASE k = n
      BY <3>1, <3>2, <2>2
    <3>3. CASE k # n
      <4>1. k \in 1 .. n - 1 /\ s2[k] = s[k]
        BY <3>3, <2>2
      <4> QED  BY <4>1, <3>1, <2>1 DEF IsSum
    <3> QED  BY <3>2, <3>3
  <2>6. IsSum(s2, f, b, n)
    BY <2>4, <2>5 DEF IsSum
  <2> HIDE DEF s2
  <2> QED  BY <1>1, <2>6
<1>4. N \in S
  <2> HIDE DEF S
  <2>1. 0 .. N \subseteq S
    BY <1>1, <1>2, <1>3, Climb
  <2> QED  BY <1>1, <2>1
<1> QED  BY <1>4 DEF N

LEMMA UptoFacts ==
  ASSUME NEW f \in [TxHashes -> Nat], NEW b \in Blocks
  PROVE  /\ \A i \in 0 .. Len(Txs[b]) : Upto(f, b, i) \in Nat
         /\ Upto(f, b, 0) = 0
         /\ \A i \in 1 .. Len(Txs[b]) : Upto(f, b, i) = Upto(f, b, i - 1) + f[Txs[b][i]]
<1> DEFINE N == Len(Txs[b])
           Sum[k \in 0 .. N] == IF k = 0 THEN 0 ELSE Sum[k - 1] + f[Txs[b][k]]
<1>1. N \in Nat
  BY SourcesAssumption, LenProperties
<1>2. PICK s : IsSum(s, f, b, N)
  BY SumExists
<1>3. s = [k \in 0 .. N |-> IF k = 0 THEN 0 ELSE s[k - 1] + f[Txs[b][k]]]
  <2> HIDE DEF N
  <2> QED  BY <1>1, <1>2 DEF IsSum
<1>4. Sum = [k \in 0 .. N |-> IF k = 0 THEN 0 ELSE Sum[k - 1] + f[Txs[b][k]]]
  BY <1>3
<1>5. \A i : Upto(f, b, i) = Sum[i]
  BY DEF Upto
<1> HIDE DEF Sum, N
<1>6. Sum[0] = 0 /\ \A i \in 1 .. N : Sum[i] = Sum[i - 1] + f[Txs[b][i]]
  BY <1>1, <1>4
<1>7. \A i \in 0 .. N : Sum[i] \in Nat
  <2> DEFINE S == {i \in 0 .. N : Sum[i] \in Nat}
  <2>1. 0 \in S
    BY <1>1, <1>6
  <2>2. \A i \in 1 .. N : f[Txs[b][i]] \in Nat
    <3>1. Txs[b] \in Seq(TxHashes)
      BY SourcesAssumption
    <3> QED  BY <3>1, ElementOfSeq DEF N
  <2>3. \A i \in 1 .. N : i - 1 \in S => i \in S
    BY <1>1, <1>6, <2>2
  <2> HIDE DEF S
  <2>4. 0 .. N \subseteq S
    BY <1>1, <2>1, <2>3, Climb
  <2> QED  BY <2>4 DEF S
<1> QED  BY <1>5, <1>6, <1>7 DEF N

LEMMA UptoGrows ==
  ASSUME NEW f \in [TxHashes -> Nat], NEW b \in Blocks,
         NEW i \in 0 .. Len(Txs[b]), NEW j \in i .. Len(Txs[b])
  PROVE  Upto(f, b, i) <= Upto(f, b, j)
<1> DEFINE N == Len(Txs[b])
           S == {k \in 0 .. N : k >= i => Upto(f, b, i) <= Upto(f, b, k)}
<1>1. N \in Nat /\ \A k \in 1 .. N : f[Txs[b][k]] \in Nat
  <2>1. Txs[b] \in Seq(TxHashes)
    BY SourcesAssumption
  <2> QED  BY <2>1, ElementOfSeq, LenProperties
<1>2. /\ \A k \in 0 .. N : Upto(f, b, k) \in Nat
      /\ \A k \in 1 .. N : Upto(f, b, k) = Upto(f, b, k - 1) + f[Txs[b][k]]
  BY UptoFacts
<1> HIDE DEF N
<1>3. 0 \in S
  BY <1>1, <1>2 DEF N
<1>4. ASSUME NEW k \in 1 .. N, k - 1 \in S PROVE k \in S
  <2>1. CASE k = i
    BY <1>1, <1>2, <2>1 DEF N
  <2>2. CASE k # i
    <3>1. /\ Upto(f, b, k) \in Nat /\ Upto(f, b, k - 1) \in Nat /\ f[Txs[b][k]] \in Nat
          /\ Upto(f, b, i) \in Nat /\ Upto(f, b, k) = Upto(f, b, k - 1) + f[Txs[b][k]]
      BY <1>1, <1>2 DEF N
    <3>2. k >= i => k - 1 >= i
      BY <2>2, <1>1 DEF N
    <3> QED  BY <1>4, <3>1, <3>2, <1>1
  <2> QED  BY <2>1, <2>2
<1>5. 0 .. N \subseteq S
  <2> HIDE DEF S
  <2> QED  BY <1>1, <1>3, <1>4, Climb
<1> QED  BY <1>1, <1>5 DEF N

(***************************************************************************)
(* What is made of a block.                                                *)
(***************************************************************************)
LEMMA TxsFacts ==
  ASSUME NEW b \in Blocks
  PROVE  /\ Len(Txs[b]) \in Nat /\ DOMAIN Txs[b] = 1 .. Len(Txs[b])
         /\ \A i \in 1 .. Len(Txs[b]) : Txs[b][i] \in TxHashes
         /\ Txs[b] = [i \in 1 .. Len(Txs[b]) |-> Txs[b][i]]
         /\ Height[b] \in Nat \ {0}
<1>1. Txs[b] \in Seq(TxHashes)
  BY SourcesAssumption
<1>2. Height[b] \in Nat \ {0}
  BY SourcesAssumption
<1> QED  BY <1>1, <1>2, ElementOfSeq, LenProperties, SeqDef

LEMMA GasExact ==
  ASSUME NEW b \in Blocks, NEW i \in DOMAIN Txs[b]
  PROVE  /\ map_block_receipts(b)[i] = get_receipt_from_triedb(b, i)
         /\ get_receipt_from_triedb(b, i).gas = Gas[Txs[b][i]]
         /\ get_receipt_from_triedb(b, i).tx = Txs[b][i]
         /\ get_receipt_from_triedb(b, i).hash = b
         /\ get_receipt_from_triedb(b, i).idx = i - 1
         /\ get_receipt_from_triedb(b, i).logs = parse_receipt_envelope(b, i)
<1>1. i \in 1 .. Len(Txs[b]) /\ i \in Nat /\ Txs[b][i] \in TxHashes
  <2>1. i \in 1 .. Len(Txs[b]) /\ Len(Txs[b]) \in Nat
    BY TxsFacts
  <2>2. Txs[b][i] \in TxHashes
    BY <2>1, TxsFacts
  <2> QED  BY <2>1, <2>2
<1>2. Gas \in [TxHashes -> Nat] /\ Gas[Txs[b][i]] \in Nat
  BY <1>1, ContentsAssumption
<1>3. /\ CumulativeGas(b, 0) = 0 /\ CumulativeGas(b, i) \in Nat /\ CumulativeGas(b, i - 1) \in Nat
      /\ CumulativeGas(b, i) = CumulativeGas(b, i - 1) + Gas[Txs[b][i]]
  <2>1. i \in 0 .. Len(Txs[b]) /\ i - 1 \in 0 .. Len(Txs[b])
    BY <1>1, TxsFacts
  <2> QED  BY <1>1, <1>2, <2>1, UptoFacts DEF CumulativeGas
<1>4. (IF i > 1 THEN CumulativeGas(b, i) - CumulativeGas(b, i - 1) ELSE CumulativeGas(b, i)) = Gas[Txs[b][i]]
  <2>1. CASE i = 1
    BY <2>1, <1>2, <1>3
  <2>2. CASE i > 1
    BY <2>2, <1>2, <1>3
  <2> QED  BY <1>1, <2>1, <2>2
<1>5. CumulativeGas(b, i) - (IF i = 1 THEN 0 ELSE CumulativeGas(b, i - 1)) = Gas[Txs[b][i]]
  <2>1. CASE i = 1
    BY <2>1, <1>2, <1>3
  <2>2. CASE i > 1
    BY <2>2, <1>2, <1>3
  <2> QED  BY <1>1, <2>1, <2>2
<1>6. get_receipt_from_triedb(b, i) = parse_tx_receipt(b, i, Gas[Txs[b][i]])
  BY <1>4 DEF get_receipt_from_triedb
<1>7. map_block_receipts(b)[i] = parse_tx_receipt(b, i, Gas[Txs[b][i]])
  BY <1>5 DEF map_block_receipts
<1> QED  BY <1>6, <1>7 DEF parse_tx_receipt

\* The logs of a block are numbered through, so receipts in order have logs in order.
LEMMA ReceiptsExact ==
  ASSUME NEW b \in Blocks
  PROVE  /\ Len(map_block_receipts(b)) = Len(Txs[b])
         /\ ExactReceipts(map_block_receipts(b), b, DOMAIN Txs[b])
<1> DEFINE rs == map_block_receipts(b)
<1>1. Len(rs) = Len(Txs[b])
  BY TxsFacts DEF map_block_receipts
<1>2. ASSUME NEW i \in DOMAIN Txs[b]
      PROVE  /\ rs[i].tx = Txs[b][i] /\ rs[i].idx = i - 1 /\ rs[i].gas = Gas[Txs[b][i]]
             /\ rs[i].logs = parse_receipt_envelope(b, i)
             /\ DOMAIN rs[i].logs = 1 .. Emits[Txs[b][i]] /\ Emits[Txs[b][i]] \in Nat
             /\ Len(rs[i].logs) = Emits[Txs[b][i]]
             /\ \A k \in DOMAIN rs[i].logs : rs[i].logs[k].log = StartingLogIndex(b, i) + k - 1
  <2>1. Emits[Txs[b][i]] \in Nat
    BY TxsFacts, ContentsAssumption
  <2>2. rs[i].tx = Txs[b][i] /\ rs[i].idx = i - 1 /\ rs[i].gas = Gas[Txs[b][i]]
        /\ rs[i].logs = parse_receipt_envelope(b, i)
    BY GasExact
  <2> HIDE DEF rs
  <2> QED  BY <2>1, <2>2 DEF parse_receipt_envelope
<1> HIDE DEF rs
<1>3. ASSUME NEW i \in DOMAIN Txs[b], NEW j \in DOMAIN Txs[b], i < j,
             NEW k \in DOMAIN rs[i].logs, NEW l \in DOMAIN rs[j].logs
      PROVE  rs[i].logs[k].log < rs[j].logs[l].log
  <2> DEFINE I == StartingLogIndex(b, i)
             J == StartingLogIndex(b, j)
             E == Emits[Txs[b][i]]
  <2>1. i \in 1 .. Len(Txs[b]) /\ j \in 1 .. Len(Txs[b]) /\ Len(Txs[b]) \in Nat
    BY TxsFacts
  <2>2. i \in 0 .. Len(Txs[b]) /\ i - 1 \in 0 .. Len(Txs[b]) /\ j - 1 \in i .. Len(Txs[b])
        /\ j - 1 \in 0 .. Len(Txs[b])
    BY <2>1, <1>3
  <2>3. Emits \in [TxHashes -> Nat]
    BY ContentsAssumption
  <2>4. I \in Nat /\ J \in Nat /\ Upto(Emits, b, i) = I + E /\ Upto(Emits, b, i) \in Nat
    BY <2>1, <2>2, <2>3, UptoFacts DEF StartingLogIndex
  <2>5. Upto(Emits, b, i) <= J
    BY <2>2, <2>3, UptoGrows DEF StartingLogIndex
  <2>6. k \in 1 .. E /\ l \in Nat \ {0} /\ E \in Nat
    BY <1>2
  <2>7. rs[i].logs[k].log = I + k - 1 /\ rs[j].logs[l].log = J + l - 1
    BY <1>2
  <2> HIDE DEF I, J, E
  <2>8. I + k - 1 < J + l - 1
    BY <2>4, <2>5, <2>6
  <2> QED  BY <2>7, <2>8
<1> QED  BY <1>1, <1>2, <1>3 DEF ExactReceipts, rs

(***************************************************************************)
(* The block a request is about.                                           *)
(***************************************************************************)
LEMMA TargetFacts ==
  ASSUME SourcesInv, BegunInv, NEW b \in Target
  PROVE  /\ b \in Blocks /\ Height[b] \in Nat \ {0} /\ Height[b] \in 1 .. FinHeight(dbAt)
         /\ b \in Finalized(Len(history))
         /\ CanonAt(dbAt, Height[b]) = b /\ Canonical(Height[b]) = b
         /\ BlockKey(Height[b]) = FinKey(Height[b])
         /\ Height[b] >= dbLow => b \in LatestChain
         /\ req.m \in ByTx => \E i \in DOMAIN Txs[b] : Txs[b][i] = req.tx
         /\ req.m \notin ByTx =>
              /\ req.m # "logs"
              /\ req.ref.kind = "number" => Height[b] = req.ref.num
              /\ req.ref.kind = "hash" => b = req.ref.block
              /\ req.ref.kind \in {"number", "hash"}
<1>1. history \in Histories /\ dbAt \in SyncedTo .. Len(history) /\ FinHeight(dbAt) \in Nat
  BY FinFacts DEF SourcesInv
<1>2. b \in Settled
  BY DEF Target
<1>3. PICK n \in 1 .. begun.fin : b = Canonical(n)
  BY <1>2 DEF Settled
<1>4. n \in 1 .. FinHeight(dbAt)
  BY <1>1, <1>3 DEF BegunInv
<1>5. /\ CanonAt(dbAt, n) \in Finalized(dbAt) /\ CanonAt(dbAt, n) \in Blocks
      /\ Height[CanonAt(dbAt, n)] = n /\ CanonAt(dbAt, n) \in Finalized(Len(history))
      /\ Canonical(n) = CanonAt(dbAt, n)
  BY <1>1, <1>4, CanonFacts
<1>6. /\ b \in Blocks /\ Height[b] = n /\ n \in Nat \ {0} /\ b \in Finalized(Len(history))
      /\ CanonAt(dbAt, Height[b]) = b /\ Canonical(Height[b]) = b /\ b \in Finalized(dbAt)
  BY <1>1, <1>3, <1>4, <1>5
<1>7. BlockKey(Height[b]) = FinKey(Height[b])
  BY <1>4, <1>6 DEF BlockKey
<1>8. Height[b] >= dbLow => b \in LatestChain
  BY <1>1, <1>6, NewestFacts DEF LatestChain
<1>9. req.m \in ByTx => \E i \in DOMAIN Txs[b] : Txs[b][i] = req.tx
  BY Zenon DEF Target, Range
<1>10. req.m \notin ByTx =>
              /\ req.m # "logs"
              /\ req.ref.kind = "number" => Height[b] = req.ref.num
              /\ req.ref.kind = "hash" => b = req.ref.block
              /\ req.ref.kind \in {"number", "hash"}
  BY DEF Target
<1> QED  BY <1>4, <1>6, <1>7, <1>8, <1>9, <1>10

(***************************************************************************)
(* The answers of the handlers.                                            *)
(***************************************************************************)
RawRpcs == {"debug_getRawHeader", "debug_getRawTransaction", "debug_getRawBlock", "debug_getRawReceipts"}

LEMMA ResponseMissing ==
  ASSUME NEW r
  PROVE  Response(r, Missing).kind = "missing"
BY DEF Response, Missing

LEMMA ResponseFailed ==
  ASSUME NEW r
  PROVE  \/ Response(r, Failed).kind = "error"
         \/ Response(r, Failed).kind = "missing" /\ r.rpc \in RawRpcs
BY DEF Response, Missing, Failed, RawRpcs

LEMMA ResponseFound ==
  ASSUME NEW r, NEW v, NEW via
  PROVE  LET a == Response(r, Found(v, via)) IN
         \/ a.kind = "error"
         \/ /\ a.kind = "ok" /\ a.via = via
            /\ a.value = IF r.rpc = "eth_getTransactionCount" THEN Len(v.txs) ELSE v
<1> DEFINE a == Response(r, Found(v, via))
<1>1. CASE r.rpc \in {"debug_getRawHeader", "debug_getRawTransaction"}
  BY <1>1 DEF Response, Found
<1>2. CASE r.rpc \in {"debug_getRawBlock", "debug_getRawReceipts"}
  <2>1. a = Failed \/ a = Found(v, via)
    BY <1>2 DEF Response, Found
  <2> QED  BY <1>2, <2>1 DEF Found, Failed
<1>3. CASE r.rpc = "eth_getTransactionCount"
  BY <1>3 DEF Response, Found
<1>4. CASE r.rpc \notin RawRpcs /\ r.rpc # "eth_getTransactionCount"
  BY <1>4 DEF Response, Found, RawRpcs
<1> QED  BY <1>1, <1>2, <1>3, <1>4 DEF RawRpcs

(***************************************************************************)
(* Steps of a request.  An answer is right when it is missing with reason, *)
(* or a value that fits the block asked for.                               *)
(***************************************************************************)
Excused(b) ==
  \/ req.m = "txAt" /\ ~HasTx(b, req.idx)
  \/ /\ \/ req.m = "state"
        \/ Height[b] > (IF req.m \in ByTx THEN begun.index ELSE begun.arch)
     /\ Gone(b)

RightValue(v, b) ==
  CASE req.m \in {"tx", "frame"} -> v.hash = b /\ v.tx = req.tx
    [] req.m = "receipt" -> /\ v.hash = b /\ v.tx = req.tx /\ v.gas = Gas[req.tx]
                            /\ Txs[b][v.idx + 1] = req.tx
    [] req.m = "txAt" -> v.hash = b /\ v.tx = Txs[b][req.idx]
    [] req.m \in {"receipts", "rawReceipts"} ->
         Len(v) = Len(Txs[b]) /\ ExactReceipts(v, b, DOMAIN Txs[b])
    [] req.m = "frames" -> [i \in DOMAIN v |-> v[i].tx] = Txs[b]
    [] req.m = "state" -> TRUE
    [] OTHER -> /\ v.hash = b
                /\ req.rpc = "eth_getTransactionCount" => Len(v.txs) = Len(Txs[b])

\* Nothing a request relies on changes while it is served and the sources rest.
LEMMA Resting ==
  ASSUME UNCHANGED srcVars, req' = req, begun' = begun
  PROVE  /\ Target' = Target /\ FinHeight(dbAt)' = FinHeight(dbAt)
         /\ SourcesInv => SourcesInv'
         /\ BegunInv => BegunInv'
         /\ \A key : DbBody(key)' = DbBody(key)
         /\ \A key : KeyGood(key)' = KeyGood(key)
<1>1. UNCHANGED <<history, dbAt, dbLow, archived, indexed>>
  BY DEF srcVars, dbVars
<1>2. FinHeight(dbAt)' = FinHeight(dbAt)
  BY <1>1 DEF FinHeight, Finalized, Reached
<1>3. Target' = Target
  BY <1>1 DEF Target, Settled, Canonical, CanonAt, Finalized, Reached
<1>4. \A key : DbBody(key)' = DbBody(key)
  BY <1>1, <1>2 DEF DbBody, DbHeader
<1>5. \A key : KeyGood(key)' = KeyGood(key)
  BY <1>1, <1>2 DEF KeyGood
<1> QED  BY <1>1, <1>2, <1>3, <1>4, <1>5 DEF SourcesInv, BegunInv

LEMMA AtKept ==
  ASSUME UNCHANGED srcVars, req' = req, begun' = begun, faults' = faults,
         NEW p, NEW l, pc' = p, loc' = l, At(p, l)
  PROVE  At(pc, loc)'
<1>1. dbLow' = dbLow
  BY DEF srcVars, dbVars
<1>2. Target' = Target
  BY Resting
<1>3. StateAt(p, l) => StateAt(pc, loc)'
  BY Resting DEF StateAt
<1>4. \A b : Gone(b)' = Gone(b) /\ Placed(l, b) = Placed(loc, b)' /\ Pointed(l, b) = Pointed(loc, b)'
  BY <1>1 DEF Gone, Placed, Pointed
<1> QED  BY <1>2, <1>3, <1>4 DEF At

Serving == IInv /\ req.m # "logs" /\ pc \notin {"idle", "done"} /\ UNCHANGED srcVars

LEMMA ServingFacts ==
  ASSUME Serving
  PROVE  /\ SourcesInv /\ BegunInv /\ RequestInv /\ At(pc, loc) /\ req \in Requests /\ Handled(req)
         /\ ans = NoAns /\ faults \in Nat
BY ProviderAssumption DEF Serving, IInv, RequestInv

LEMMA GotoStep ==
  ASSUME Serving, NEW p, NEW l, Goto(p, l), p \notin {"idle", "done"}, At(p, l)
  PROVE  IInv'
<1>1. /\ pc' = p /\ loc' = l /\ req' = req /\ ans' = ans /\ begun' = begun /\ faults' = faults
      /\ UNCHANGED srcVars
  BY DEF Goto, Serving
<1>2. SourcesInv' /\ BegunInv'
  BY <1>1, Resting, ServingFacts
<1>3. RequestInv'
  BY <1>1, ServingFacts DEF RequestInv
<1>4. At(pc, loc)'
  BY <1>1, AtKept
<1>5. ans' = NoAns
  BY <1>1, ServingFacts
<1>6. SettledAnswers' /\ StateNotInvented'
  BY <1>5 DEF SettledAnswers, SettledFound, SettledExact, StateNotInvented, NoAns
<1> QED  BY <1>2, <1>3, <1>4, <1>6 DEF IInv

\* Of the invariant, what concerns an answer that has just been given.
LEMMA AnswerStep ==
  ASSUME Serving, pc' = "done", UNCHANGED <<req, loc, begun>>, faults' \in Nat,
         SettledFound', SettledExact', StateNotInvented'
  PROVE  IInv'
<1>1. UNCHANGED srcVars
  BY DEF Serving
<1>2. SourcesInv' /\ BegunInv'
  BY <1>1, Resting, ServingFacts
<1>3. RequestInv'
  BY ServingFacts DEF RequestInv
<1>4. At(pc, loc)'
  <2>1. DOMAIN loc = {"h", "block", "idx", "key", "out"}
    BY ServingFacts DEF At
  <2> QED  BY <2>1 DEF At, StateAt, Early
<1> QED  BY <1>2, <1>3, <1>4 DEF IInv, SettledAnswers

LEMMA AnswerMissing ==
  ASSUME Serving, Answer(Missing), \A b \in Target : Excused(b)
  PROVE  IInv'
<1>1. /\ pc' = "done" /\ ans' = Response(req, Missing) /\ req' = req /\ loc' = loc /\ begun' = begun
      /\ faults' = faults /\ UNCHANGED srcVars /\ dbLow' = dbLow
  BY DEF Answer, Serving, srcVars, dbVars
<1>2. ans'.kind = "missing"
  BY <1>1, ResponseMissing
<1>3. SettledFound'
  <2>1. Target' = Target
    BY <1>1, Resting
  <2> QED  BY <1>1, <2>1 DEF SettledFound, Excused, Gone
<1>4. SettledExact' /\ StateNotInvented'
  BY <1>2 DEF SettledExact, StateNotInvented
<1> QED  BY <1>1, <1>3, <1>4, AnswerStep, ServingFacts

LEMMA AnswerFound ==
  ASSUME Serving, NEW v, NEW via, Answer(Found(v, via)),
         via # "buffer" => \A b \in Target : RightValue(v, b),
         req.m = "state" => v # NoBlock
  PROVE  IInv'
<1>1. /\ pc' = "done" /\ ans' = Response(req, Found(v, via)) /\ req' = req /\ loc' = loc /\ begun' = begun
      /\ faults' = faults /\ UNCHANGED srcVars
  BY DEF Answer, Serving
<1>2. \/ ans'.kind = "error"
      \/ /\ ans'.kind = "ok" /\ ans'.via = via
         /\ ans'.value = IF req.rpc = "eth_getTransactionCount" THEN Len(v.txs) ELSE v
  BY <1>1, ResponseFound
<1>3. Handled(req) /\ Target' = Target
  BY <1>1, Resting, ServingFacts
<1>4. SettledFound'
  BY <1>2 DEF SettledFound
<1>5. CASE ans'.kind = "error"
  <2>1. SettledExact' /\ StateNotInvented'
    BY <1>5 DEF SettledExact, StateNotInvented
  <2> QED  BY <1>1, <1>4, <2>1, AnswerStep, ServingFacts
<1>6. CASE /\ ans'.kind = "ok" /\ ans'.via = via
           /\ ans'.value = IF req.rpc = "eth_getTransactionCount" THEN Len(v.txs) ELSE v
  <2>1. StateNotInvented'
    BY <1>1, <1>3, <1>6 DEF StateNotInvented, Handled
  <2>2. SettledExact'
    <3> SUFFICES ASSUME via # "buffer", NEW b \in Target
                 PROVE  LET w == ans'.value IN
      CASE req.m \in {"tx", "frame"} -> w.hash = b /\ w.tx = req.tx
        [] req.m = "receipt" -> /\ w.hash = b /\ w.tx = req.tx /\ w.gas = Gas[req.tx]
                                /\ Txs[b][w.idx + 1] = req.tx
        [] req.m = "txAt" -> w.hash = b /\ w.tx = Txs[b][req.idx]
        [] req.m \in {"receipts", "rawReceipts"} ->
             Len(w) = Len(Txs[b]) /\ ExactReceipts(w, b, DOMAIN Txs[b])
        [] req.m = "frames" -> [i \in DOMAIN w |-> w[i].tx] = Txs[b]
        [] req.rpc = "eth_getTransactionCount" -> w = Len(Txs[b])
        [] req.m = "state" -> TRUE
        [] OTHER -> w.hash = b
      BY <1>1, <1>3, <1>6 DEF SettledExact, ExactReceipts
    <3>1. RightValue(v, b)
      OBVIOUS
    <3>2. CASE req.rpc = "eth_getTransactionCount"
      <4>1. req.m = "block"
        BY <1>3, <3>2 DEF Handled
      <4> QED  BY <1>6, <3>1, <3>2, <4>1 DEF RightValue
    <3>3. CASE req.rpc # "eth_getTransactionCount"
      <4>1. ans'.value = v
        BY <1>6, <3>3
      <4> QED  BY <4>1, <3>1, <3>3 DEF RightValue
    <3> QED  BY <3>2, <3>3
  <2> QED  BY <1>1, <1>4, <2>1, <2>2, AnswerStep, ServingFacts
<1> QED  BY <1>2, <1>5, <1>6

LEMMA ReadFailsStep ==
  ASSUME Serving, ReadFails
  PROVE  IInv'
<1>1. /\ pc' = "done" /\ ans' = Response(req, Failed) /\ req' = req /\ loc' = loc /\ begun' = begun
      /\ faults' = faults + 1 /\ UNCHANGED srcVars
  BY DEF ReadFails, Serving
<1>2. \/ ans'.kind = "error"
      \/ ans'.kind = "missing" /\ req.rpc \in RawRpcs
  BY <1>1, ResponseFailed
<1>3. faults' \in Nat /\ faults' > 0
  BY <1>1, ServingFacts
<1>4. SettledFound'
  BY <1>1, <1>2, <1>3 DEF SettledFound, RawRpcs
<1>5. SettledExact' /\ StateNotInvented'
  BY <1>2 DEF SettledExact, StateNotInvented
<1> QED  BY <1>1, <1>3, <1>4, <1>5, AnswerStep

LEMMA EarlyAt ==
  ASSUME NEW p \in Early \ {"idle", "dbKey"}, NEW l,
         DOMAIN l = {"h", "block", "idx", "key", "out"}, l.key = NoKey,
         req.m = "state" => l.out = << >>
  PROVE  At(p, l)
BY DEF At, Early, StateAt

LEMMA NothingAsked ==
  ASSUME Serving, GiveUp \/ ToArchive, Target = {}
  PROVE  IInv'
<1>1. CASE GiveUp
  BY <1>1, AnswerMissing DEF GiveUp
<1>2. CASE ToArchive
  <2>1. At("archive", loc)
    BY ServingFacts DEF At, StateAt, Early
  <2>2. Goto("archive", loc)
    BY <1>2 DEF ToArchive
  <2> QED  BY <2>1, <2>2, GotoStep
<1> QED  BY <1>1, <1>2

(***************************************************************************)
(* Keys of triedb.                                                         *)
(***************************************************************************)
LEMMA KeysGood ==
  ASSUME SourcesInv
  PROVE  /\ KeyGood(LatestKey) /\ KeyGood(VotedKey) /\ KeyGood(FinKey(FinHeight(dbAt)))
         /\ \A n : BlockKey(n) = NoKey \/ KeyGood(BlockKey(n))
<1>1. history \in Histories /\ dbAt \in SyncedTo .. Len(history) /\ FinHeight(dbAt) \in Nat
      /\ dbLow \in Nat \ {0}
  BY FinFacts DEF SourcesInv
<1>2. \A n \in 1 .. FinHeight(dbAt) : KeyGood(FinKey(n))
  BY <1>1 DEF KeyGood, FinKey
<1>3. KeyGood(FinKey(FinHeight(dbAt)))
  BY <1>1 DEF KeyGood, FinKey
<1>4. ASSUME NEW b \in Blocks PROVE KeyGood(KeyOfBlock(b))
  <2>1. Height[b] \in Nat \ {0}
    BY TxsFacts
  <2>2. CASE b \in Finalized(dbAt)
    <3>1. PICK i \in 1 .. dbAt : IsFinal(i) /\ b = history[i].block
      BY <2>2 DEF Finalized, Reached, IsFinal
    <3>2. Height[b] <= FinHeight(dbAt)
      BY <1>1, <3>1, FinFacts
    <3>3. Height[b] \in 1 .. FinHeight(dbAt)
      BY <1>1, <2>1, <3>2
    <3> QED  BY <1>2, <2>2, <3>3 DEF KeyOfBlock
  <2>3. CASE b \notin Finalized(dbAt)
    BY <2>1, <2>3 DEF KeyOfBlock, PropKey, KeyGood
  <2> QED  BY <2>2, <2>3
<1>5. KeyGood(LatestKey) /\ KeyGood(VotedKey)
  <2>1. Newest("proposed", dbAt) \in Blocks /\ Newest("voted", dbAt) \in Blocks
    BY <1>1, NewestFacts
  <2> QED  BY <1>4, <2>1 DEF LatestKey, VotedKey
<1>6. \A n : BlockKey(n) = NoKey \/ KeyGood(BlockKey(n))
  BY <1>2, <1>5, Zenon DEF BlockKey
<1> QED  BY <1>3, <1>5, <1>6

LEMMA FinIsKey ==
  ASSUME NEW n
  PROVE  FinKey(n) # NoKey /\ FinKey(n).final = TRUE /\ FinKey(n).num = n
BY DEF FinKey, NoKey

(***************************************************************************)
(* Resolving a reference to a block, and a transaction to its location.    *)
(***************************************************************************)
RefMethods == {"block", "header", "rawReceipts", "receipts", "frames", "txAt", "state"}

LEMMA RefFacts ==
  ASSUME Serving, req.m \in RefMethods
  PROVE  req.m \notin ByTx /\ IsRef(req.ref)
BY ServingFacts DEF Handled, RefMethods, ByTx, IsRef

\* A key that was found, when it is the right one.
LEMMA KeyFound ==
  ASSUME Serving, pc \in {"db", "dbKey"}, NEW key, key # NoKey,
         Goto("dbRead", [loc EXCEPT !.key = key]),
         \A b \in Target : key = FinKey(Height[b]) /\ Placed(loc, b),
         req.m = "state" => KeyGood(key)
  PROVE  IInv'
<1> DEFINE l == [loc EXCEPT !.key = key]
<1>1. At(pc, loc) /\ DOMAIN loc = {"h", "block", "idx", "key", "out"}
  BY ServingFacts DEF At
<1>2. DOMAIN l = DOMAIN loc /\ l.key = key /\ l.idx = loc.idx /\ l.out = loc.out
  BY <1>1
<1>3. req.m = "state" => loc.out = << >>
  BY <1>1 DEF At, StateAt
<1>4. \A b \in Target : Placed(l, b)
  BY <1>2 DEF Placed
<1> HIDE DEF l
<1>5. req.m = "state" => StateAt("dbRead", l)
  <2>1. << >> \in Seq(StateReads) /\ Len(<< >>) = 0 /\ 1 .. 0 = {}
    OBVIOUS
  <2> QED  BY <1>2, <1>3, <2>1 DEF StateAt
<1>6. At("dbRead", l)
  BY <1>1, <1>2, <1>4, <1>5 DEF At, Early
<1> QED  BY <1>6, GotoStep DEF l

LEMMA ResolveStep ==
  ASSUME Serving, req.m \in RefMethods, Resolve(GiveUp \/ ToArchive, GiveUp \/ ToArchive)
  PROVE  IInv'
<1>1. /\ At(pc, loc) /\ DOMAIN loc = {"h", "block", "idx", "key", "out"}
      /\ SourcesInv /\ BegunInv /\ req.m \notin ByTx /\ IsRef(req.ref)
  BY ServingFacts, RefFacts DEF At
<1>2. \A b \in Target : Placed(loc, b)
  BY <1>1 DEF Placed
<1>3. CASE pc = "db" /\ req.ref.kind # "hash"
  <2> DEFINE key == get_block_key_from_tag(req.ref)
  <2>1. \A b \in Target : key = FinKey(Height[b])
    <3> SUFFICES ASSUME NEW b \in Target PROVE key = FinKey(Height[b])
      OBVIOUS
    <3>1. req.ref.kind = "number" /\ Height[b] = req.ref.num /\ BlockKey(Height[b]) = FinKey(Height[b])
      BY <1>1, <1>3, TargetFacts
    <3> QED  BY <3>1 DEF get_block_key_from_tag
  <2>2. key = NoKey \/ KeyGood(key)
    <3>1. CASE req.ref.kind = "number"
      BY <1>1, <3>1, KeysGood DEF get_block_key_from_tag
    <3>2. CASE req.ref.kind = "latest"
      BY <1>1, <3>2, KeysGood DEF get_block_key_from_tag
    <3>3. CASE req.ref.kind = "safe"
      BY <1>1, <3>3, KeysGood DEF get_block_key_from_tag
    <3>4. CASE req.ref.kind = "finalized"
      BY <1>1, <3>4, KeysGood DEF get_block_key_from_tag
    <3> QED  BY <1>1, <1>3, <3>1, <3>2, <3>3, <3>4 DEF IsRef, IsTag
  <2>3. IF key = NoKey THEN GiveUp \/ ToArchive ELSE Goto("dbRead", [loc EXCEPT !.key = key])
    BY <1>3 DEF Resolve
  <2> HIDE DEF key
  <2>4. CASE key = NoKey
    <3>1. Target = {}
      BY <2>1, <2>4, FinIsKey
    <3> QED  BY <2>3, <2>4, <3>1, NothingAsked
  <2>5. CASE key # NoKey
    BY <1>2, <1>3, <2>1, <2>2, <2>3, <2>5, KeyFound
  <2> QED  BY <2>4, <2>5
<1>4. CASE pc = "db" /\ req.ref.kind = "hash"
  <2> DEFINE n == DbNumber(req.ref.block)
             l == [loc EXCEPT !.h = n]
  <2>1. IF n = 0 THEN Goto("archive", loc) ELSE Goto("dbKey", l)
    BY <1>4 DEF Resolve
  <2>2. loc.key = NoKey /\ (req.m = "state" => loc.out = << >>)
    BY <1>1, <1>4 DEF At, StateAt, Early
  <2>3. ASSUME NEW b \in Target
        PROVE  /\ b = req.ref.block /\ Height[b] \in Nat \ {0}
               /\ n = 0 => Gone(b)
               /\ n # 0 => n = Height[b]
    <3>1. b = req.ref.block /\ Height[b] \in Nat \ {0} /\ (Height[b] >= dbLow => b \in LatestChain)
      BY <1>1, <1>4, TargetFacts
    <3>2. n # 0 => n = Height[b]
      BY <3>1 DEF DbNumber
    <3>3. n = 0 => ~(Height[b] >= dbLow)
      BY <3>1 DEF DbNumber
    <3> QED  BY <1>1, <3>1, <3>2, <3>3 DEF Gone, SourcesInv
  <2>4. DOMAIN l = DOMAIN loc /\ l.key = loc.key /\ l.h = n /\ l.out = loc.out
    BY <1>1
  <2> HIDE DEF n, l
  <2>5. CASE n = 0
    <3>1. At("archive", loc)
      BY <1>1, <1>4, <2>2, <2>3, <2>5 DEF At, StateAt, Early, Pointed
    <3> QED  BY <2>1, <2>5, <3>1, GotoStep
  <2>6. CASE n # 0
    <3>1. \A b \in Target : Placed(l, b)
      BY <1>1 DEF Placed
    <3>2. At("dbKey", l)
      BY <1>1, <2>2, <2>3, <2>4, <2>6, <3>1 DEF At, StateAt, Early
    <3> QED  BY <2>1, <2>6, <3>2, GotoStep
  <2> QED  BY <2>5, <2>6
<1>5. CASE pc = "dbKey"
  <2> DEFINE key == BlockKey(loc.h)
  <2>1. \A b \in Target : key = FinKey(Height[b])
    BY <1>1, <1>5, TargetFacts DEF At
  <2>2. key = NoKey \/ KeyGood(key)
    BY <1>1, KeysGood
  <2>3. IF key = NoKey THEN GiveUp \/ ToArchive ELSE Goto("dbRead", [loc EXCEPT !.key = key])
    BY <1>5 DEF Resolve
  <2> HIDE DEF key
  <2>4. CASE key = NoKey
    <3>1. Target = {}
      BY <2>1, <2>4, FinIsKey
    <3> QED  BY <2>3, <2>4, <3>1, NothingAsked
  <2>5. CASE key # NoKey
    BY <1>2, <1>5, <2>1, <2>2, <2>3, <2>5, KeyFound
  <2> QED  BY <2>4, <2>5
<1> QED  BY <1>3, <1>4, <1>5 DEF Resolve

\* The transactions of the blocks of one chain are apart.
LEMMA OneOnChain ==
  ASSUME NEW x \in Blocks, NEW b \in ChainTo[x], NEW c \in ChainTo[x],
         NEW i \in DOMAIN Txs[b], NEW j \in DOMAIN Txs[c], Txs[b][i] = Txs[c][j]
  PROVE  b = c
<1>1. Txs[b][i] \in Range(Txs[b]) /\ Txs[c][j] \in Range(Txs[c])
  BY DEF Range
<1>2. b # c => Range(Txs[b]) \cap Range(Txs[c]) = {}
  BY SourcesAssumption, Zenon
<1> QED  BY <1>1, <1>2

LEMMA LocationFacts ==
  ASSUME SourcesInv, BegunInv, req.m \in ByTx, NEW b \in Target
  PROVE  LET l == DbLocation(req.tx) IN
         IF l = NoLoc THEN Height[b] < dbLow
         ELSE l.block = b /\ l.idx \in DOMAIN Txs[b] /\ Txs[b][l.idx] = req.tx
<1> DEFINE top == Newest("proposed", dbAt)
           bs == {x \in LatestChain : \E i \in DOMAIN Txs[x] : Txs[x][i] = req.tx}
           l == DbLocation(req.tx)
<1>1. top \in Blocks /\ Finalized(dbAt) \subseteq ChainTo[top]
  BY NewestFacts DEF SourcesInv
<1>2. b \in Blocks /\ b \in ChainTo[top] /\ \E i \in DOMAIN Txs[b] : Txs[b][i] = req.tx
  <2>1. history \in Histories /\ dbAt \in SyncedTo .. Len(history) /\ Height[b] \in 1 .. FinHeight(dbAt)
    BY TargetFacts DEF SourcesInv
  <2>2. CanonAt(dbAt, Height[b]) \in Finalized(dbAt)
    BY <2>1, CanonFacts
  <2> QED  BY <1>1, <2>2, TargetFacts
<1>3. \A x \in bs : x = b
  BY <1>1, <1>2, OneOnChain DEF LatestChain
<1>4. CASE bs = {}
  <2>1. l = NoLoc
    BY <1>4 DEF DbLocation
  <2>2. b \notin LatestChain
    BY <1>2, <1>4
  <2>3. ~(Height[b] >= dbLow) /\ Height[b] \in Nat /\ dbLow \in Nat
    BY <2>2, TargetFacts DEF SourcesInv
  <2> QED  BY <2>1, <2>3
<1>5. CASE bs # {}
  <2>1. (CHOOSE x \in bs : TRUE) = b
    BY <1>3, <1>5
  <2>2. l = [block |-> b, idx |-> CHOOSE i \in DOMAIN Txs[b] : Txs[b][i] = req.tx]
    BY <1>5, <2>1 DEF DbLocation
  <2>3. l.block = b /\ l.idx \in DOMAIN Txs[b] /\ Txs[b][l.idx] = req.tx
    <3> DEFINE i == CHOOSE i \in DOMAIN Txs[b] : Txs[b][i] = req.tx
    <3>1. i \in DOMAIN Txs[b] /\ Txs[b][i] = req.tx
      BY <1>2
    <3> QED  BY <2>2, <3>1
  <2>4. l # NoLoc
    BY <1>2, <2>3, SourcesAssumption DEF NoLoc
  <2> QED  BY <2>3, <2>4
<1> QED  BY <1>4, <1>5

LEMMA IndexedFacts ==
  ASSUME SourcesInv, BegunInv, req.m \in ByTx, NEW b \in Target
  PROVE  LET l == get_tx_indexed_data(req.tx) IN
         IF l = NoLoc THEN Height[b] > begun.index
         ELSE l.block = b /\ l.idx \in DOMAIN Txs[b] /\ Txs[b][l.idx] = req.tx
<1> DEFINE top == Newest("proposed", Len(history))
           bs == {x \in Blocks : InArchive(x) /\ Height[x] <= indexed /\ req.tx \in Range(Txs[x])}
           l == get_tx_indexed_data(req.tx)
<1>1. top \in Blocks /\ Finalized(Len(history)) \subseteq ChainTo[top]
  <2>1. history \in Histories /\ Len(history) \in SyncedTo .. Len(history)
    BY HistoryFacts DEF SourcesInv
  <2> QED  BY <2>1, NewestFacts
<1>2. b \in Blocks /\ b \in ChainTo[top] /\ b \in Finalized(Len(history))
      /\ \E i \in DOMAIN Txs[b] : Txs[b][i] = req.tx
  BY <1>1, TargetFacts
<1>3. \A x : req.tx \in Range(Txs[x]) <=> \E i \in DOMAIN Txs[x] : Txs[x][i] = req.tx
  BY Zenon DEF Range
<1>4. \A x \in bs : x = b
  <2> SUFFICES ASSUME NEW x \in bs PROVE x = b
    OBVIOUS
  <2>1. x \in ChainTo[top] /\ \E i \in DOMAIN Txs[x] : Txs[x][i] = req.tx
    BY <1>1, <1>3 DEF InArchive
  <2> QED  BY <1>1, <1>2, <2>1, OneOnChain
<1>5. CASE bs = {}
  <2>1. l = NoLoc
    BY <1>5 DEF get_tx_indexed_data
  <2>2. ~(Height[b] <= archived /\ Height[b] <= indexed)
    BY <1>2, <1>3, <1>5 DEF InArchive
  <2>3. Height[b] > begun.index
    <3>1. Height[b] \in Nat
      BY TargetFacts
    <3> QED  BY <2>2, <3>1 DEF SourcesInv, BegunInv
  <2> QED  BY <2>1, <2>3
<1>6. CASE bs # {}
  <2>1. (CHOOSE x \in bs : TRUE) = b
    BY <1>4, <1>6
  <2>2. l = [block |-> b, idx |-> CHOOSE i \in DOMAIN Txs[b] : Txs[b][i] = req.tx]
    BY <1>6, <2>1 DEF get_tx_indexed_data
  <2>3. l.block = b /\ l.idx \in DOMAIN Txs[b] /\ Txs[b][l.idx] = req.tx
    <3> DEFINE i == CHOOSE i \in DOMAIN Txs[b] : Txs[b][i] = req.tx
    <3>1. i \in DOMAIN Txs[b] /\ Txs[b][i] = req.tx
      BY <1>2
    <3> QED  BY <2>2, <3>1
  <2>4. l # NoLoc
    BY <1>2, <2>3, SourcesAssumption DEF NoLoc
  <2> QED  BY <2>3, <2>4
<1> QED  BY <1>5, <1>6

LEMMA LocateStep ==
  ASSUME Serving, req.m \in ByTx, Locate
  PROVE  IInv'
<1>1. /\ At(pc, loc) /\ DOMAIN loc = {"h", "block", "idx", "key", "out"}
      /\ SourcesInv /\ BegunInv /\ req.m # "state"
  BY ServingFacts DEF At, ByTx
<1>2. CASE pc = "db"
  <2> DEFINE at == DbLocation(req.tx)
             l == [loc EXCEPT !.h = Height[at.block], !.idx = at.idx]
  <2>1. IF at = NoLoc THEN ToArchive ELSE Goto("dbKey", l)
    BY <1>2 DEF Locate
  <2>2. \A b \in Target :
          IF at = NoLoc THEN Height[b] < dbLow
          ELSE at.block = b /\ at.idx \in DOMAIN Txs[b] /\ Txs[b][at.idx] = req.tx
    BY <1>1, LocationFacts
  <2>3. loc.key = NoKey
    BY <1>1, <1>2 DEF At, Early
  <2>4. DOMAIN l = DOMAIN loc /\ l.key = NoKey /\ l.h = Height[at.block] /\ l.idx = at.idx
    BY <1>1, <2>3
  <2> HIDE DEF at, l
  <2>5. CASE at = NoLoc
    <3>1. At("archive", loc)
      BY <1>1, <2>2, <2>5 DEF At, StateAt, Early, Pointed, Gone
    <3> QED  BY <2>1, <2>5, <3>1, GotoStep DEF ToArchive
  <2>6. CASE at # NoLoc
    <3>1. \A b \in Target : l.h = Height[b] /\ Placed(l, b)
      BY <2>2, <2>4, <2>6 DEF Placed
    <3>2. At("dbKey", l)
      BY <1>1, <2>4, <3>1 DEF At, StateAt, Early
    <3> QED  BY <2>1, <2>6, <3>2, GotoStep
  <2> QED  BY <2>5, <2>6
<1>3. CASE pc = "dbKey"
  <2> DEFINE key == BlockKey(loc.h)
  <2>1. \A b \in Target : key = FinKey(Height[b]) /\ Placed(loc, b)
    BY <1>1, <1>3, TargetFacts DEF At
  <2>2. IF key = NoKey THEN GiveUp ELSE Goto("dbRead", [loc EXCEPT !.key = key])
    BY <1>3 DEF Locate
  <2> HIDE DEF key
  <2>3. CASE key = NoKey
    <3>1. Target = {}
      BY <2>1, <2>3, FinIsKey
    <3> QED  BY <2>2, <2>3, <3>1, NothingAsked
  <2>4. CASE key # NoKey
    BY <1>1, <1>3, <2>1, <2>2, <2>4, KeyFound
  <2> QED  BY <2>3, <2>4
<1> QED  BY <1>2, <1>3 DEF Locate

(***************************************************************************)
(* Reading triedb, and going on to the archive.                            *)
(***************************************************************************)
LEMMA DbReadFacts ==
  ASSUME Serving, pc \in {"dbRead", "stateRead"}, NEW b \in Target
  PROVE  /\ b \in Blocks /\ loc.key = FinKey(Height[b]) /\ Placed(loc, b)
         /\ DbBlock(loc.key) = b
         /\ ~DbHeader(loc.key) => Gone(b)
         /\ ~DbBody(loc.key) => Gone(b)
<1>1. loc.key = FinKey(Height[b]) /\ Placed(loc, b)
  BY ServingFacts DEF At
<1>2. b \in Blocks /\ Height[b] \in Nat /\ CanonAt(dbAt, Height[b]) = b /\ dbLow \in Nat
  BY ServingFacts, TargetFacts DEF SourcesInv
<1>3. loc.key # NoKey /\ loc.key.final = TRUE /\ loc.key.num = Height[b]
  BY <1>1, FinIsKey
<1>4. DbBlock(loc.key) = b
  BY <1>2, <1>3 DEF DbBlock
<1>5. ~DbHeader(loc.key) => Height[b] < dbLow
  BY <1>2, <1>3 DEF DbHeader
<1>6. ~DbBody(loc.key) => Height[b] < dbLow \/ Height[b] < StateSynced
  BY <1>2, <1>3, <1>5, ProviderAssumption DEF DbBody
<1> QED  BY <1>1, <1>2, <1>4, <1>5, <1>6 DEF Gone

LEMMA ToArchiveStep ==
  ASSUME Serving, pc = "dbRead", ToArchive,
         \A b \in Target : Gone(b) \/ (req.m = "txAt" /\ ~HasTx(b, req.idx))
  PROVE  IInv'
<1>1. At(pc, loc)
  BY ServingFacts
<1>2. At("archive", loc)
  BY <1>1 DEF At, StateAt, Early, Pointed
<1> QED  BY <1>2, GotoStep DEF ToArchive

LEMMA FailsOverStep ==
  ASSUME Serving, FailsOver("dbRead") \/ (req.ref.kind = "hash" /\ FailsOver("db"))
  PROVE  IInv'
<1>1. /\ pc' = "archive" /\ faults' = faults + 1 /\ UNCHANGED <<req, loc, rows, ans, begun>>
      /\ UNCHANGED srcVars /\ (pc = "dbRead" \/ (pc = "db" /\ req.ref.kind = "hash"))
  BY DEF FailsOver, Serving
<1>2. SourcesInv' /\ BegunInv' /\ Target' = Target
  BY <1>1, Resting, ServingFacts
<1>3. faults' \in Nat /\ faults' > 0
  BY <1>1, ServingFacts
<1>4. RequestInv'
  BY <1>1, <1>3, ServingFacts DEF RequestInv
<1>5. At(pc, loc)'
  <2>1. At(pc, loc)
    BY ServingFacts
  <2>2. \A b : Gone(b)'
    BY <1>3 DEF Gone
  <2>3. \A b \in Target : Pointed(loc, b)'
    BY <1>1, <2>1 DEF At, Early, Pointed
  <2> QED  BY <1>1, <1>2, <2>1, <2>2, <2>3 DEF At, StateAt, Early
<1>6. ans' = NoAns
  BY <1>1, ServingFacts
<1>7. SettledAnswers' /\ StateNotInvented'
  BY <1>6 DEF SettledAnswers, SettledFound, SettledExact, StateNotInvented, NoAns
<1> QED  BY <1>2, <1>4, <1>5, <1>7 DEF IInv

(***************************************************************************)
(* The archive.                                                            *)
(***************************************************************************)
LEMMA ArchiveFacts ==
  ASSUME Serving, pc = "archive", req.m \in RefMethods, NEW b \in Target
  PROVE  /\ b \in Blocks /\ b # NoBlock
         /\ Gone(b) \/ (req.m = "txAt" /\ ~HasTx(b, req.idx))
         /\ ~(Height[b] <= archived) => Height[b] > begun.arch
         /\ get_block_from_archive(ArchivePointer) = IF Height[b] <= archived THEN b ELSE NoBlock
         /\ ArchiveReference(loc.key) = IF Height[b] <= archived THEN b ELSE NoBlock
         /\ ArchiveReference(get_block_key_from_tag(req.ref)) = IF Height[b] <= archived THEN b ELSE NoBlock
         /\ req.ref.kind = "number" =>
              get_block_from_archive(loc.key) = IF Height[b] <= archived THEN b ELSE NoBlock
<1> DEFINE X == IF Height[b] <= archived THEN b ELSE NoBlock
<1>1. SourcesInv /\ BegunInv /\ At(pc, loc) /\ req.m \notin ByTx
  BY ServingFacts, RefFacts
<1>2. /\ b \in Blocks /\ Height[b] \in Nat \ {0} /\ b \in Finalized(Len(history))
      /\ Canonical(Height[b]) = b /\ BlockKey(Height[b]) = FinKey(Height[b])
      /\ req.ref.kind = "number" => Height[b] = req.ref.num
      /\ req.ref.kind = "hash" => b = req.ref.block
      /\ req.ref.kind \in {"number", "hash"}
  BY <1>1, TargetFacts
<1>3. b # NoBlock
  BY <1>2, SourcesAssumption
<1>4. Gone(b) \/ (req.m = "txAt" /\ ~HasTx(b, req.idx))
  BY <1>1 DEF At
<1>5. ~(Height[b] <= archived) => Height[b] > begun.arch
  BY <1>1, <1>2 DEF SourcesInv, BegunInv
<1>6. get_block_from_archive(FinKey(Height[b])) = X
  <2>1. Height[b] \in 1 .. archived <=> Height[b] <= archived
    BY <1>1, <1>2 DEF SourcesInv
  <2>2. try_get_block_by_number(Height[b]) = X
    BY <1>2, <2>1 DEF try_get_block_by_number, Canonical
  <2> QED  BY <2>2, FinIsKey DEF get_block_from_archive
<1>7. try_get_block_by_hash(b) = X
  BY <1>2 DEF try_get_block_by_hash, InArchive
<1>8. /\ Height[b] <= archived => try_get_block_number_by_hash(b) = Height[b]
      /\ ~(Height[b] <= archived) => try_get_block_number_by_hash(b) = 0
  BY <1>2 DEF try_get_block_number_by_hash, InArchive
<1>9. IF req.ref.kind = "number" THEN loc.key = FinKey(Height[b])
      ELSE loc.key \in {NoKey, FinKey(Height[b])}
  BY <1>1 DEF At, Pointed
<1>10. get_block_from_archive(NoKey) = NoBlock
  BY DEF get_block_from_archive, NoKey
<1>11. get_block_from_archive(ArchivePointer) = X
  <2>1. CASE loc.key # NoKey
    BY <1>6, <1>9, <2>1 DEF ArchivePointer
  <2>2. CASE loc.key = NoKey
    <3>1. req.ref.kind = "hash"
      BY <1>2, <1>9, <2>2, FinIsKey
    <3>2. ArchivePointer = IF Height[b] <= archived THEN FinKey(Height[b]) ELSE NoKey
      BY <1>2, <1>8, <2>2, <3>1 DEF ArchivePointer
    <3> QED  BY <1>6, <1>10, <3>2
  <2> QED  BY <2>1, <2>2
<1>12. req.ref.kind = "number" => get_block_from_archive(loc.key) = X
  BY <1>6, <1>9
<1>13. ArchiveReference(loc.key) = X
  BY <1>2, <1>7, <1>12 DEF ArchiveReference
<1>14. ArchiveReference(get_block_key_from_tag(req.ref)) = X
  <2>1. req.ref.kind = "number" => get_block_key_from_tag(req.ref) = FinKey(Height[b])
    BY <1>2 DEF get_block_key_from_tag
  <2> QED  BY <1>2, <1>6, <1>7, <2>1 DEF ArchiveReference
<1> QED  BY <1>2, <1>3, <1>4, <1>5, <1>11, <1>12, <1>13, <1>14

\* The archive has no block: then there is a reason.
LEMMA ArchiveMissing ==
  ASSUME Serving, pc = "archive", req.m \in RefMethods, Answer(Missing), NEW x, x = NoBlock,
         \A b \in Target : x = IF Height[b] <= archived THEN b ELSE NoBlock
  PROVE  IInv'
<1>1. \A b \in Target : Excused(b)
  BY ArchiveFacts, RefFacts DEF Excused
<1> QED  BY <1>1, AnswerMissing

(***************************************************************************)
(* The values that are found.                                              *)
(***************************************************************************)
LEMMA RightBlock ==
  ASSUME NEW b \in Blocks
  PROVE  /\ req.m = "header" /\ Handled(req) => RightValue(HeaderOf(b), b)
         /\ \A full : req.m = "block" => RightValue(parse_block_content(b, full), b)
         /\ req.m \in {"receipts", "rawReceipts"} => RightValue(map_block_receipts(b), b)
         /\ req.m = "frames" => RightValue(FramesOf(b), b)
<1>1. req.m = "header" /\ Handled(req) => RightValue(HeaderOf(b), b)
  <2>1. req.m = "header" /\ Handled(req) => req.rpc = "debug_getRawHeader"
    BY DEF Handled
  <2> QED  BY <2>1 DEF RightValue, HeaderOf
<1>2. ASSUME NEW full, req.m = "block" PROVE RightValue(parse_block_content(b, full), b)
  <2> DEFINE v == parse_block_content(b, full)
  <2>1. v.hash = b /\ v.txs = IF full THEN [i \in DOMAIN Txs[b] |-> parse_tx_content(b, i)] ELSE Txs[b]
    BY DEF parse_block_content
  <2>2. Len([i \in DOMAIN Txs[b] |-> parse_tx_content(b, i)]) = Len(Txs[b])
    BY TxsFacts
  <2> HIDE DEF v
  <2> QED  BY <1>2, <2>1, <2>2 DEF RightValue, v
<1>3. req.m \in {"receipts", "rawReceipts"} => RightValue(map_block_receipts(b), b)
  BY ReceiptsExact DEF RightValue
<1>4. req.m = "frames" => RightValue(FramesOf(b), b)
  <2>1. Txs[b] = [i \in DOMAIN Txs[b] |-> Txs[b][i]]
    BY TxsFacts
  <2>2. [i \in DOMAIN FramesOf(b) |-> FramesOf(b)[i].tx] = [i \in DOMAIN Txs[b] |-> Txs[b][i]]
    BY DEF FramesOf
  <2> QED  BY <2>1, <2>2 DEF RightValue
<1> QED  BY <1>1, <1>2, <1>3, <1>4

LEMMA RightTx ==
  ASSUME NEW b \in Blocks, NEW i \in DOMAIN Txs[b]
  PROVE  /\ req.m = "txAt" /\ i = req.idx => RightValue(parse_tx_content(b, i), b)
         /\ Txs[b][i] = req.tx =>
              /\ req.m = "tx" => RightValue(parse_tx_content(b, i), b)
              /\ req.m = "frame" => RightValue(FrameOf(b, i), b)
              /\ req.m = "receipt" => /\ RightValue(get_receipt_from_triedb(b, i), b)
                                      /\ RightValue(map_block_receipts(b)[i], b)
<1>1. req.m = "txAt" /\ i = req.idx => RightValue(parse_tx_content(b, i), b)
  BY DEF RightValue, parse_tx_content
<1>2. Txs[b][i] = req.tx => (req.m = "tx" => RightValue(parse_tx_content(b, i), b))
  BY DEF RightValue, parse_tx_content
<1>3. Txs[b][i] = req.tx => (req.m = "frame" => RightValue(FrameOf(b, i), b))
  BY DEF RightValue, FrameOf, FramesOf
<1>4. ASSUME Txs[b][i] = req.tx, req.m = "receipt"
      PROVE  RightValue(get_receipt_from_triedb(b, i), b) /\ RightValue(map_block_receipts(b)[i], b)
  <2> DEFINE v == get_receipt_from_triedb(b, i)
  <2>1. v.hash = b /\ v.tx = req.tx /\ v.gas = Gas[req.tx] /\ v.idx = i - 1 /\ map_block_receipts(b)[i] = v
    BY <1>4, GasExact
  <2>2. i \in 1 .. Len(Txs[b]) /\ Len(Txs[b]) \in Nat
    BY TxsFacts
  <2>3. v.idx + 1 = i
    BY <2>1, <2>2
  <2> HIDE DEF v
  <2>4. RightValue(v, b)
    BY <1>4, <2>1, <2>3 DEF RightValue
  <2> QED  BY <2>1, <2>4 DEF v
<1> QED  BY <1>1, <1>2, <1>3, <1>4

(***************************************************************************)
(* The buffer.                                                             *)
(***************************************************************************)
LEMMA BufferGoto ==
  ASSUME Serving, pc \in Early, NEW p \in Early \ {"idle", "dbKey"}, NEW l, Goto(p, l),
         DOMAIN l = DOMAIN loc, l.key = loc.key, req.m = "state" => l.out = loc.out /\ pc = "buffer"
  PROVE  IInv'
<1>1. At(pc, loc)
  BY ServingFacts
<1>2. DOMAIN l = {"h", "block", "idx", "key", "out"} /\ l.key = NoKey /\ (req.m = "state" => l.out = << >>)
  BY <1>1 DEF At, StateAt
<1>3. At(p, l)
  BY <1>2, EarlyAt
<1> QED  BY <1>3, GotoStep DEF Early

LEMMA LocShape ==
  ASSUME Serving
  PROVE  /\ DOMAIN loc = {"h", "block", "idx", "key", "out"}
         /\ pc \in Early => loc.key = Fresh.key /\ DOMAIN Fresh = DOMAIN loc
         /\ \A x : DOMAIN [loc EXCEPT !.h = x] = DOMAIN loc /\ [loc EXCEPT !.h = x].key = loc.key
         /\ \A x, y : /\ DOMAIN [loc EXCEPT !.h = x, !.idx = y] = DOMAIN loc
                      /\ [loc EXCEPT !.h = x, !.idx = y].key = loc.key
         /\ \A x, y : /\ DOMAIN [loc EXCEPT !.block = x, !.idx = y] = DOMAIN loc
                      /\ [loc EXCEPT !.block = x, !.idx = y].key = loc.key
         /\ \A x, y : /\ DOMAIN [loc EXCEPT !.idx = x, !.out = y] = DOMAIN loc
                      /\ [loc EXCEPT !.idx = x, !.out = y].key = loc.key
<1>1. DOMAIN loc = {"h", "block", "idx", "key", "out"} /\ (pc \in Early => loc.key = NoKey)
  BY ServingFacts DEF At
<1>2. DOMAIN Fresh = {"h", "block", "idx", "key", "out"} /\ Fresh.key = NoKey
  BY DEF Fresh
<1> QED  BY <1>1, <1>2

LEMMA NoBufferStep ==
  ASSUME Serving, NoBuffer
  PROVE  IInv'
BY BufferGoto DEF NoBuffer, Early

LEMMA ResolveBufferStep ==
  ASSUME Serving, req.m # "state", resolve_block_height_from_buffer
  PROVE  IInv'
<1>1. CASE pc = "buffer" /\ req.ref.kind # "hash"
  <2>1. Goto("bufferRead", [loc EXCEPT !.h = resolve_block_height_from_tag(req.ref)])
    BY <1>1 DEF resolve_block_height_from_buffer, get_block_by_hash
  <2> QED  BY <1>1, <2>1, BufferGoto, LocShape DEF Early
<1>2. CASE pc = "buffer" /\ req.ref.kind = "hash"
  <2>1. \/ Goto("db", loc)
        \/ Goto("bufferHash", [loc EXCEPT !.h = heightByHash[req.ref.block]])
    BY <1>2 DEF resolve_block_height_from_buffer, get_block_by_hash
  <2> QED  BY <1>2, <2>1, BufferGoto, LocShape DEF Early
<1>3. CASE pc = "bufferHash"
  <2>1. Goto("db", loc) \/ Goto("bufferRead", loc)
    BY <1>3 DEF resolve_block_height_from_buffer, get_block_by_hash
  <2> QED  BY <1>3, <2>1, BufferGoto DEF Early
<1> QED  BY <1>1, <1>2, <1>3 DEF resolve_block_height_from_buffer, get_block_by_hash

LEMMA BufferAnswer ==
  ASSUME Serving, req.m # "state", NEW v, Answer(Found(v, "buffer"))
  PROVE  IInv'
BY AnswerFound

LEMMA BufferMissed ==
  ASSUME Serving, req.m # "state", pc \in Early, Goto("db", loc) \/ Goto("db", Fresh)
  PROVE  IInv'
BY BufferGoto, LocShape DEF Early

LEMMA ReceiptsBufferStep ==
  ASSUME Serving, req.m # "state", get_receipts_by_block_height
  PROVE  IInv'
<1>1. CASE pc = "bufferRead"
  <2>1. \/ Goto("db", loc)
        \/ Goto("bufferReceipts", [loc EXCEPT !.block = get_block_by_height(loc.h), !.idx = 1])
    BY <1>1 DEF get_receipts_by_block_height
  <2> QED  BY <1>1, <2>1, BufferGoto, LocShape DEF Early
<1>2. CASE pc = "bufferReceipts"
  <2> DEFINE e == txByHash[Txs[loc.block][loc.idx]]
             v == get_receipt_from_triedb(e.block, e.idx)
  <2>1. \/ Answer(Found(loc.out, "buffer"))
        \/ Goto("db", Fresh)
        \/ Goto("bufferReceipts", [loc EXCEPT !.idx = loc.idx + 1, !.out = Append(loc.out, v)])
    BY <1>2 DEF get_receipts_by_block_height
  <2> HIDE DEF v
  <2> QED  BY <1>2, <2>1, BufferGoto, BufferAnswer, BufferMissed, LocShape DEF Early
<1> QED  BY <1>1, <1>2 DEF get_receipts_by_block_height

(***************************************************************************)
(* The methods.                                                            *)
(***************************************************************************)
LEMMA ResolveAny ==
  /\ Resolve(GiveUp, GiveUp) => Resolve(GiveUp \/ ToArchive, GiveUp \/ ToArchive)
  /\ Resolve(ToArchive, GiveUp) => Resolve(GiveUp \/ ToArchive, GiveUp \/ ToArchive)
  /\ Resolve(ToArchive, ToArchive) => Resolve(GiveUp \/ ToArchive, GiveUp \/ ToArchive)
BY DEF Resolve

LEMMA HeaderStep ==
  ASSUME Serving, get_block_header
  PROVE  IInv'
<1>1. req.m = "header" /\ req.m \in RefMethods /\ Handled(req)
  BY ServingFacts DEF get_block_header, RefMethods
<1>2. CASE BufferBlock(HeaderOf)
  <2>1. pc = "bufferRead"
        /\ (Goto("db", loc) \/ Answer(Found(HeaderOf(get_block_by_height(loc.h)), "buffer")))
    BY <1>2 DEF BufferBlock
  <2> QED  BY <1>1, <2>1, BufferAnswer, BufferMissed DEF Early
<1>3. CASE pc = "dbRead" /\ IF DbHeader(loc.key) THEN Answer(Found(HeaderOf(DbBlock(loc.key)), "db"))
                            ELSE ToArchive
  <2>1. CASE DbHeader(loc.key)
    <3>1. \A b \in Target : RightValue(HeaderOf(DbBlock(loc.key)), b)
      BY <1>1, <1>3, DbReadFacts, RightBlock
    <3> QED  BY <1>1, <1>3, <2>1, <3>1, AnswerFound
  <2>2. CASE ~DbHeader(loc.key)
    BY <1>3, <2>2, DbReadFacts, ToArchiveStep
  <2> QED  BY <2>1, <2>2
<1>4. CASE ArchiveContents(get_block_from_archive(ArchivePointer), HeaderOf)
  <2> DEFINE x == get_block_from_archive(ArchivePointer)
  <2>1. pc = "archive" /\ Answer(IF x = NoBlock THEN Missing ELSE Found(HeaderOf(x), "archive"))
    BY <1>4 DEF ArchiveContents
  <2>2. \A b \in Target : b \in Blocks /\ x = IF Height[b] <= archived THEN b ELSE NoBlock
    BY <1>1, <2>1, ArchiveFacts
  <2> HIDE DEF x
  <2>3. CASE x = NoBlock
    BY <1>1, <2>1, <2>2, <2>3, ArchiveMissing
  <2>4. CASE x # NoBlock
    <3>1. \A b \in Target : RightValue(HeaderOf(x), b)
      BY <1>1, <2>2, <2>4, RightBlock
    <3> QED  BY <1>1, <2>1, <2>4, <3>1, AnswerFound
  <2> QED  BY <2>3, <2>4
<1>5. CASE TriedbPointer
  BY <1>1, <1>5, ResolveStep, ResolveAny DEF TriedbPointer
<1>6. CASE resolve_block_height_from_buffer
  BY <1>1, <1>6, ResolveBufferStep
<1> QED  BY <1>2, <1>3, <1>4, <1>5, <1>6 DEF get_block_header

LEMMA BlockStep ==
  ASSUME Serving, get_block
  PROVE  IInv'
<1> DEFINE BlockOf(b) == parse_block_content(b, req.full)
<1>1. req.m = "block" /\ req.m \in RefMethods /\ Handled(req)
  BY ServingFacts DEF get_block, RefMethods
<1>2. CASE BufferBlock(BlockOf)
  <2>1. pc = "bufferRead"
        /\ (Goto("db", loc) \/ Answer(Found(BlockOf(get_block_by_height(loc.h)), "buffer")))
    BY <1>2 DEF BufferBlock
  <2> QED  BY <1>1, <2>1, BufferAnswer, BufferMissed DEF Early
<1>3. CASE DbContents(BlockOf)
  <2>1. pc = "dbRead" /\ IF DbBody(loc.key) THEN Answer(Found(BlockOf(DbBlock(loc.key)), "db")) ELSE ToArchive
    BY <1>3 DEF DbContents
  <2>2. CASE DbBody(loc.key)
    <3>1. \A b \in Target : RightValue(BlockOf(DbBlock(loc.key)), b)
      BY <1>1, <2>1, DbReadFacts, RightBlock
    <3> QED  BY <1>1, <2>1, <2>2, <3>1, AnswerFound
  <2>3. CASE ~DbBody(loc.key)
    BY <2>1, <2>3, DbReadFacts, ToArchiveStep
  <2> QED  BY <2>2, <2>3
<1>4. CASE ArchiveContents(get_block_from_archive(ArchivePointer), BlockOf)
  <2> DEFINE x == get_block_from_archive(ArchivePointer)
  <2>1. pc = "archive" /\ Answer(IF x = NoBlock THEN Missing ELSE Found(BlockOf(x), "archive"))
    BY <1>4 DEF ArchiveContents
  <2>2. \A b \in Target : b \in Blocks /\ x = IF Height[b] <= archived THEN b ELSE NoBlock
    BY <1>1, <2>1, ArchiveFacts
  <2> HIDE DEF x
  <2>3. CASE x = NoBlock
    BY <1>1, <2>1, <2>2, <2>3, ArchiveMissing
  <2>4. CASE x # NoBlock
    <3>1. \A b \in Target : RightValue(BlockOf(x), b)
      BY <1>1, <2>2, <2>4, RightBlock
    <3> QED  BY <1>1, <2>1, <2>4, <3>1, AnswerFound
  <2> QED  BY <2>3, <2>4
<1>5. CASE TriedbPointer
  BY <1>1, <1>5, ResolveStep, ResolveAny DEF TriedbPointer
<1>6. CASE resolve_block_height_from_buffer
  BY <1>1, <1>6, ResolveBufferStep
<1>7. CASE FailsOver("dbRead")
  BY <1>7, FailsOverStep
<1> QED  BY <1>2, <1>3, <1>4, <1>5, <1>6, <1>7 DEF get_block

LEMMA RawReceiptsStep ==
  ASSUME Serving, get_raw_receipts
  PROVE  IInv'
<1>1. req.m = "rawReceipts" /\ req.m \in RefMethods /\ Handled(req)
  BY ServingFacts DEF get_raw_receipts, RefMethods
<1>2. CASE get_receipts_by_block_height
  BY <1>1, <1>2, ReceiptsBufferStep
<1>3. CASE DbContents(map_block_receipts)
  <2>1. pc = "dbRead" /\ IF DbBody(loc.key) THEN Answer(Found(map_block_receipts(DbBlock(loc.key)), "db")) ELSE ToArchive
    BY <1>3 DEF DbContents
  <2>2. CASE DbBody(loc.key)
    <3>1. \A b \in Target : RightValue(map_block_receipts(DbBlock(loc.key)), b)
      BY <1>1, <2>1, DbReadFacts, RightBlock
    <3> QED  BY <1>1, <2>1, <2>2, <3>1, AnswerFound
  <2>3. CASE ~DbBody(loc.key)
    BY <2>1, <2>3, DbReadFacts, ToArchiveStep
  <2> QED  BY <2>2, <2>3
<1>4. CASE ArchiveContents(get_block_from_archive(loc.key), map_block_receipts)
  <2> DEFINE x == get_block_from_archive(loc.key)
  <2>1. pc = "archive" /\ Answer(IF x = NoBlock THEN Missing ELSE Found(map_block_receipts(x), "archive"))
    BY <1>4 DEF ArchiveContents
  <2>2. \A b \in Target : b \in Blocks /\ x = IF Height[b] <= archived THEN b ELSE NoBlock
    <3> SUFFICES ASSUME NEW b \in Target
                 PROVE  b \in Blocks /\ x = IF Height[b] <= archived THEN b ELSE NoBlock
      OBVIOUS
    <3>1. req.ref.kind # "hash"
      BY <1>1 DEF Handled, IsTag
    <3>2. req.ref.kind = "number"
      BY <1>1, <3>1, ServingFacts, RefFacts, TargetFacts
    <3> QED  BY <1>1, <2>1, <3>2, ArchiveFacts
  <2> HIDE DEF x
  <2>3. CASE x = NoBlock
    BY <1>1, <2>1, <2>2, <2>3, ArchiveMissing
  <2>4. CASE x # NoBlock
    <3>1. \A b \in Target : RightValue(map_block_receipts(x), b)
      BY <1>1, <2>2, <2>4, RightBlock
    <3> QED  BY <1>1, <2>1, <2>4, <3>1, AnswerFound
  <2> QED  BY <2>3, <2>4
<1>5. CASE Resolve(GiveUp, GiveUp)
  BY <1>1, <1>5, ResolveStep, ResolveAny
<1>6. CASE resolve_block_height_from_buffer
  BY <1>1, <1>6, ResolveBufferStep
<1>7. CASE FailsOver("dbRead")
  BY <1>7, FailsOverStep
<1> QED  BY <1>2, <1>3, <1>4, <1>5, <1>6, <1>7 DEF get_raw_receipts

LEMMA BlockReceiptsStep ==
  ASSUME Serving, get_block_receipts
  PROVE  IInv'
<1>1. req.m = "receipts" /\ req.m \in RefMethods /\ Handled(req)
  BY ServingFacts DEF get_block_receipts, RefMethods
<1>2. CASE get_receipts_by_block_height
  BY <1>1, <1>2, ReceiptsBufferStep
<1>3. CASE DbContents(map_block_receipts)
  <2>1. pc = "dbRead" /\ IF DbBody(loc.key) THEN Answer(Found(map_block_receipts(DbBlock(loc.key)), "db")) ELSE ToArchive
    BY <1>3 DEF DbContents
  <2>2. CASE DbBody(loc.key)
    <3>1. \A b \in Target : RightValue(map_block_receipts(DbBlock(loc.key)), b)
      BY <1>1, <2>1, DbReadFacts, RightBlock
    <3> QED  BY <1>1, <2>1, <2>2, <3>1, AnswerFound
  <2>3. CASE ~DbBody(loc.key)
    BY <2>1, <2>3, DbReadFacts, ToArchiveStep
  <2> QED  BY <2>2, <2>3
<1>4. CASE ArchiveContents(ArchiveReference(get_block_key_from_tag(req.ref)), map_block_receipts)
  <2> DEFINE x == ArchiveReference(get_block_key_from_tag(req.ref))
  <2>1. pc = "archive" /\ Answer(IF x = NoBlock THEN Missing ELSE Found(map_block_receipts(x), "archive"))
    BY <1>4 DEF ArchiveContents
  <2>2. \A b \in Target : b \in Blocks /\ x = IF Height[b] <= archived THEN b ELSE NoBlock
    BY <1>1, <2>1, ArchiveFacts
  <2> HIDE DEF x
  <2>3. CASE x = NoBlock
    BY <1>1, <2>1, <2>2, <2>3, ArchiveMissing
  <2>4. CASE x # NoBlock
    <3>1. \A b \in Target : RightValue(map_block_receipts(x), b)
      BY <1>1, <2>2, <2>4, RightBlock
    <3> QED  BY <1>1, <2>1, <2>4, <3>1, AnswerFound
  <2> QED  BY <2>3, <2>4
<1>5. CASE Resolve(ToArchive, ToArchive)
  BY <1>1, <1>5, ResolveStep, ResolveAny
<1>6. CASE resolve_block_height_from_buffer
  BY <1>1, <1>6, ResolveBufferStep
<1>7. CASE FailsOver("dbRead") \/ (req.ref.kind = "hash" /\ FailsOver("db"))
  BY <1>7, FailsOverStep
<1> QED  BY <1>2, <1>3, <1>4, <1>5, <1>6, <1>7 DEF get_block_receipts

LEMMA BlockFramesStep ==
  ASSUME Serving, get_block_call_frames
  PROVE  IInv'
<1>1. req.m = "frames" /\ req.m \in RefMethods /\ Handled(req)
  BY ServingFacts DEF get_block_call_frames, RefMethods
<1>2. CASE NoBuffer
  BY <1>2, NoBufferStep
<1>3. CASE DbContents(FramesOf)
  <2>1. pc = "dbRead" /\ IF DbBody(loc.key) THEN Answer(Found(FramesOf(DbBlock(loc.key)), "db")) ELSE ToArchive
    BY <1>3 DEF DbContents
  <2>2. CASE DbBody(loc.key)
    <3>1. \A b \in Target : RightValue(FramesOf(DbBlock(loc.key)), b)
      BY <1>1, <2>1, DbReadFacts, RightBlock
    <3> QED  BY <1>1, <2>1, <2>2, <3>1, AnswerFound
  <2>3. CASE ~DbBody(loc.key)
    BY <2>1, <2>3, DbReadFacts, ToArchiveStep
  <2> QED  BY <2>2, <2>3
<1>4. CASE ArchiveContents(ArchiveReference(get_block_key_from_tag(req.ref)), FramesOf)
  <2> DEFINE x == ArchiveReference(get_block_key_from_tag(req.ref))
  <2>1. pc = "archive" /\ Answer(IF x = NoBlock THEN Missing ELSE Found(FramesOf(x), "archive"))
    BY <1>4 DEF ArchiveContents
  <2>2. \A b \in Target : b \in Blocks /\ x = IF Height[b] <= archived THEN b ELSE NoBlock
    BY <1>1, <2>1, ArchiveFacts
  <2> HIDE DEF x
  <2>3. CASE x = NoBlock
    BY <1>1, <2>1, <2>2, <2>3, ArchiveMissing
  <2>4. CASE x # NoBlock
    <3>1. \A b \in Target : RightValue(FramesOf(x), b)
      BY <1>1, <2>2, <2>4, RightBlock
    <3> QED  BY <1>1, <2>1, <2>4, <3>1, AnswerFound
  <2> QED  BY <2>3, <2>4
<1>5. CASE Resolve(ToArchive, GiveUp)
  BY <1>1, <1>5, ResolveStep, ResolveAny
<1>6. CASE FailsOver("dbRead")
  BY <1>6, FailsOverStep
<1> QED  BY <1>2, <1>3, <1>4, <1>5, <1>6 DEF get_block_call_frames

LEMMA ReceiptStep ==
  ASSUME Serving, get_transaction_receipt
  PROVE  IInv'
<1>1. req.m = "receipt" /\ req.m \in ByTx /\ req.m # "state" /\ req.m # "txAt"
  BY DEF get_transaction_receipt, ByTx
<1>2. CASE get_receipt_by_tx_hash
  <2> DEFINE e == txByHash[req.tx]
             v == get_receipt_from_triedb(e.block, e.idx)
  <2>1. pc = "buffer" /\ (Goto("db", loc) \/ Answer(Found(v, "buffer")))
    BY <1>2 DEF get_receipt_by_tx_hash
  <2> HIDE DEF v
  <2> QED  BY <1>1, <2>1, BufferAnswer, BufferMissed DEF Early
<1>3. CASE DbTx(loc.idx, get_receipt_from_triedb)
  <2>1. pc = "dbRead" /\ IF DbBody(loc.key) /\ HasTx(DbBlock(loc.key), loc.idx)
                         THEN Answer(Found(get_receipt_from_triedb(DbBlock(loc.key), loc.idx), "db")) ELSE ToArchive
    BY <1>3 DEF DbTx
  <2>2. \A b \in Target : DbBlock(loc.key) = b /\ b \in Blocks /\ loc.idx \in DOMAIN Txs[b] /\ Txs[b][loc.idx] = req.tx
    BY <1>1, <2>1, DbReadFacts DEF Placed
  <2>3. CASE DbBody(loc.key) /\ HasTx(DbBlock(loc.key), loc.idx)
    <3>1. \A b \in Target : RightValue(get_receipt_from_triedb(DbBlock(loc.key), loc.idx), b)
      BY <1>1, <2>2, RightTx
    <3> QED  BY <1>1, <2>1, <2>3, <3>1, AnswerFound DEF ByTx
  <2>4. CASE ~(DbBody(loc.key) /\ HasTx(DbBlock(loc.key), loc.idx))
    <3>1. \A b \in Target : HasTx(DbBlock(loc.key), loc.idx)
      BY <2>2, SourcesAssumption DEF HasTx
    <3>2. \A b \in Target : Gone(b)
      BY <2>1, <2>4, <3>1, DbReadFacts
    <3> QED  BY <2>1, <2>4, <3>2, ToArchiveStep
  <2> QED  BY <2>3, <2>4
<1>4. CASE ArchiveTx(LAMBDA b, i : map_block_receipts(b)[i])
  <2> DEFINE at == get_tx_indexed_data(req.tx)
  <2>1. pc = "archive" /\ Answer(IF at = NoLoc THEN Missing ELSE Found(map_block_receipts(at.block)[at.idx], "archive"))
    BY <1>4 DEF ArchiveTx
  <2>2. \A b \in Target :
          IF at = NoLoc THEN Height[b] > begun.index
          ELSE at.block = b /\ at.idx \in DOMAIN Txs[b] /\ Txs[b][at.idx] = req.tx
    BY <1>1, ServingFacts, IndexedFacts
  <2>3. \A b \in Target : b \in Blocks /\ Gone(b)
    BY <1>1, <2>1, ServingFacts, TargetFacts DEF At
  <2> HIDE DEF at
  <2>4. CASE at = NoLoc
    <3>1. \A b \in Target : Excused(b)
      BY <1>1, <2>2, <2>3, <2>4 DEF Excused
    <3> QED  BY <2>1, <2>4, <3>1, AnswerMissing
  <2>5. CASE at # NoLoc
    <3>1. \A b \in Target : RightValue(map_block_receipts(at.block)[at.idx], b)
      BY <1>1, <2>2, <2>3, <2>5, RightTx
    <3> QED  BY <1>1, <2>1, <2>5, <3>1, AnswerFound
  <2> QED  BY <2>4, <2>5
<1>5. CASE Locate
  BY <1>1, <1>5, LocateStep
<1> QED  BY <1>2, <1>3, <1>4, <1>5 DEF get_transaction_receipt

LEMMA TransactionStep ==
  ASSUME Serving, get_transaction
  PROVE  IInv'
<1>1. req.m = "tx" /\ req.m \in ByTx /\ req.m # "state" /\ req.m # "txAt"
  BY DEF get_transaction, ByTx
<1>2. CASE get_transaction_by_hash
  <2>1. CASE pc = "buffer"
    <3> DEFINE e == txByHash[req.tx]
    <3>1. Goto("db", loc) \/ Goto("bufferTx", [loc EXCEPT !.h = Height[e.block], !.idx = e.idx])
      BY <1>2, <2>1 DEF get_transaction_by_hash
    <3> HIDE DEF e
    <3> QED  BY <1>1, <2>1, <3>1, BufferGoto, LocShape DEF Early
  <2>2. CASE pc = "bufferTx"
    <3> DEFINE v == parse_tx_content(get_block_by_height(loc.h), loc.idx)
    <3>1. Goto("db", Fresh) \/ Answer(Found(v, "buffer"))
      BY <1>2, <2>2 DEF get_transaction_by_hash, get_transaction_by_location
    <3> HIDE DEF v
    <3> QED  BY <1>1, <2>2, <3>1, BufferAnswer, BufferMissed DEF Early
  <2> QED  BY <1>2, <2>1, <2>2 DEF get_transaction_by_hash
<1>3. CASE DbTx(loc.idx, get_transaction_from_triedb)
  <2>1. pc = "dbRead" /\ IF DbBody(loc.key) /\ HasTx(DbBlock(loc.key), loc.idx)
                         THEN Answer(Found(get_transaction_from_triedb(DbBlock(loc.key), loc.idx), "db")) ELSE ToArchive
    BY <1>3 DEF DbTx
  <2>2. \A b \in Target : DbBlock(loc.key) = b /\ b \in Blocks /\ loc.idx \in DOMAIN Txs[b] /\ Txs[b][loc.idx] = req.tx
    BY <1>1, <2>1, DbReadFacts DEF Placed
  <2>3. CASE DbBody(loc.key) /\ HasTx(DbBlock(loc.key), loc.idx)
    <3>1. \A b \in Target : RightValue(get_transaction_from_triedb(DbBlock(loc.key), loc.idx), b)
      BY <1>1, <2>2, RightTx DEF get_transaction_from_triedb
    <3> QED  BY <1>1, <2>1, <2>3, <3>1, AnswerFound DEF ByTx
  <2>4. CASE ~(DbBody(loc.key) /\ HasTx(DbBlock(loc.key), loc.idx))
    <3>1. \A b \in Target : HasTx(DbBlock(loc.key), loc.idx)
      BY <2>2, SourcesAssumption DEF HasTx
    <3>2. \A b \in Target : Gone(b)
      BY <2>1, <2>4, <3>1, DbReadFacts
    <3> QED  BY <2>1, <2>4, <3>2, ToArchiveStep
  <2> QED  BY <2>3, <2>4
<1>4. CASE ArchiveTx(parse_tx_content)
  <2> DEFINE at == get_tx_indexed_data(req.tx)
  <2>1. pc = "archive" /\ Answer(IF at = NoLoc THEN Missing ELSE Found(parse_tx_content(at.block, at.idx), "archive"))
    BY <1>4 DEF ArchiveTx
  <2>2. \A b \in Target :
          IF at = NoLoc THEN Height[b] > begun.index
          ELSE at.block = b /\ at.idx \in DOMAIN Txs[b] /\ Txs[b][at.idx] = req.tx
    BY <1>1, ServingFacts, IndexedFacts
  <2>3. \A b \in Target : b \in Blocks /\ Gone(b)
    BY <1>1, <2>1, ServingFacts, TargetFacts DEF At
  <2> HIDE DEF at
  <2>4. CASE at = NoLoc
    <3>1. \A b \in Target : Excused(b)
      BY <1>1, <2>2, <2>3, <2>4 DEF Excused
    <3> QED  BY <2>1, <2>4, <3>1, AnswerMissing
  <2>5. CASE at # NoLoc
    <3>1. \A b \in Target : RightValue(parse_tx_content(at.block, at.idx), b)
      BY <1>1, <2>2, <2>3, <2>5, RightTx
    <3> QED  BY <1>1, <2>1, <2>5, <3>1, AnswerFound
  <2> QED  BY <2>4, <2>5
<1>5. CASE Locate
  BY <1>1, <1>5, LocateStep
<1> QED  BY <1>2, <1>3, <1>4, <1>5 DEF get_transaction

LEMMA FrameStep ==
  ASSUME Serving, get_transaction_call_frame
  PROVE  IInv'
<1>1. req.m = "frame" /\ req.m \in ByTx /\ req.m # "state" /\ req.m # "txAt"
  BY DEF get_transaction_call_frame, ByTx
<1>2. CASE NoBuffer
  BY <1>2, NoBufferStep
<1>3. CASE DbTx(loc.idx, FrameOf)
  <2>1. pc = "dbRead" /\ IF DbBody(loc.key) /\ HasTx(DbBlock(loc.key), loc.idx)
                         THEN Answer(Found(FrameOf(DbBlock(loc.key), loc.idx), "db")) ELSE ToArchive
    BY <1>3 DEF DbTx
  <2>2. \A b \in Target : DbBlock(loc.key) = b /\ b \in Blocks /\ loc.idx \in DOMAIN Txs[b] /\ Txs[b][loc.idx] = req.tx
    BY <1>1, <2>1, DbReadFacts DEF Placed
  <2>3. CASE DbBody(loc.key) /\ HasTx(DbBlock(loc.key), loc.idx)
    <3>1. \A b \in Target : RightValue(FrameOf(DbBlock(loc.key), loc.idx), b)
      BY <1>1, <2>2, RightTx
    <3> QED  BY <1>1, <2>1, <2>3, <3>1, AnswerFound DEF ByTx
  <2>4. CASE ~(DbBody(loc.key) /\ HasTx(DbBlock(loc.key), loc.idx))
    <3>1. \A b \in Target : HasTx(DbBlock(loc.key), loc.idx)
      BY <2>2, SourcesAssumption DEF HasTx
    <3>2. \A b \in Target : Gone(b)
      BY <2>1, <2>4, <3>1, DbReadFacts
    <3> QED  BY <2>1, <2>4, <3>2, ToArchiveStep
  <2> QED  BY <2>3, <2>4
<1>4. CASE ArchiveTx(FrameOf)
  <2> DEFINE at == get_tx_indexed_data(req.tx)
  <2>1. pc = "archive" /\ Answer(IF at = NoLoc THEN Missing ELSE Found(FrameOf(at.block, at.idx), "archive"))
    BY <1>4 DEF ArchiveTx
  <2>2. \A b \in Target :
          IF at = NoLoc THEN Height[b] > begun.index
          ELSE at.block = b /\ at.idx \in DOMAIN Txs[b] /\ Txs[b][at.idx] = req.tx
    BY <1>1, ServingFacts, IndexedFacts
  <2>3. \A b \in Target : b \in Blocks /\ Gone(b)
    BY <1>1, <2>1, ServingFacts, TargetFacts DEF At
  <2> HIDE DEF at
  <2>4. CASE at = NoLoc
    <3>1. \A b \in Target : Excused(b)
      BY <1>1, <2>2, <2>3, <2>4 DEF Excused
    <3> QED  BY <2>1, <2>4, <3>1, AnswerMissing
  <2>5. CASE at # NoLoc
    <3>1. \A b \in Target : RightValue(FrameOf(at.block, at.idx), b)
      BY <1>1, <2>2, <2>3, <2>5, RightTx
    <3> QED  BY <1>1, <2>1, <2>5, <3>1, AnswerFound
  <2> QED  BY <2>4, <2>5
<1>5. CASE Locate
  BY <1>1, <1>5, LocateStep
<1> QED  BY <1>2, <1>3, <1>4, <1>5 DEF get_transaction_call_frame

LEMMA TxAtStep ==
  ASSUME Serving, get_transaction_with_block_and_index
  PROVE  IInv'
<1>1. req.m = "txAt" /\ req.m \in RefMethods /\ req.m # "state"
  BY DEF get_transaction_with_block_and_index, RefMethods
<1>2. CASE pc = "bufferRead" /\ get_transaction_by_location(loc.h, req.idx, loc)
  <2> DEFINE v == parse_tx_content(get_block_by_height(loc.h), req.idx)
  <2>1. Goto("db", loc) \/ Answer(Found(v, "buffer"))
    BY <1>2 DEF get_transaction_by_location
  <2> HIDE DEF v
  <2> QED  BY <1>1, <1>2, <2>1, BufferAnswer, BufferMissed DEF Early
<1>3. CASE DbTx(req.idx, get_transaction_from_triedb)
  <2>1. pc = "dbRead" /\ IF DbBody(loc.key) /\ HasTx(DbBlock(loc.key), req.idx)
                         THEN Answer(Found(parse_tx_content(DbBlock(loc.key), req.idx), "db")) ELSE ToArchive
    BY <1>3 DEF DbTx, get_transaction_from_triedb
  <2>2. CASE DbBody(loc.key) /\ HasTx(DbBlock(loc.key), req.idx)
    <3>1. \A b \in Target : RightValue(parse_tx_content(DbBlock(loc.key), req.idx), b)
      BY <1>1, <2>1, <2>2, DbReadFacts, RightTx DEF HasTx
    <3> QED  BY <1>1, <2>1, <2>2, <3>1, AnswerFound
  <2>3. CASE ~(DbBody(loc.key) /\ HasTx(DbBlock(loc.key), req.idx))
    <3>1. \A b \in Target : Gone(b) \/ ~HasTx(b, req.idx)
      BY <2>1, <2>3, DbReadFacts
    <3> QED  BY <1>1, <2>1, <2>3, <3>1, ToArchiveStep
  <2> QED  BY <2>2, <2>3
<1>4. CASE /\ pc = "archive"
           /\ LET b == ArchiveReference(loc.key)
              IN  Answer(IF HasTx(b, req.idx) THEN Found(parse_tx_content(b, req.idx), "archive")
                         ELSE Missing)
  <2> DEFINE x == ArchiveReference(loc.key)
  <2>1. Answer(IF HasTx(x, req.idx) THEN Found(parse_tx_content(x, req.idx), "archive") ELSE Missing)
    BY <1>4
  <2>2. \A b \in Target : /\ b \in Blocks /\ x = IF Height[b] <= archived THEN b ELSE NoBlock
                          /\ Gone(b) \/ ~HasTx(b, req.idx)
                          /\ ~(Height[b] <= archived) => Height[b] > begun.arch
    BY <1>1, <1>4, ArchiveFacts
  <2> HIDE DEF x
  <2>3. CASE HasTx(x, req.idx)
    <3>1. \A b \in Target : RightValue(parse_tx_content(x, req.idx), b)
      BY <1>1, <2>2, <2>3, RightTx DEF HasTx
    <3> QED  BY <1>1, <2>1, <2>3, <3>1, AnswerFound
  <2>4. CASE ~HasTx(x, req.idx)
    <3>1. \A b \in Target : Excused(b)
      BY <1>1, <2>2, <2>4, RefFacts DEF Excused
    <3> QED  BY <2>1, <2>4, <3>1, AnswerMissing
  <2> QED  BY <2>3, <2>4
<1>5. CASE Resolve(GiveUp, GiveUp)
  BY <1>1, <1>5, ResolveStep, ResolveAny
<1>6. CASE resolve_block_height_from_buffer
  BY <1>1, <1>6, ResolveBufferStep
<1> QED  BY <1>2, <1>3, <1>4, <1>5, <1>6 DEF get_transaction_with_block_and_index

\* What triedb gives for a good key is a block.
LEMMA StateBlock ==
  ASSUME SourcesInv, NEW key, KeyGood(key), DbBody(key)
  PROVE  DbBlock(key) \in Blocks
<1>1. key.num >= dbLow /\ key.num \in Nat /\ dbLow \in Nat
  BY DEF DbBody, DbHeader, KeyGood, SourcesInv
<1>2. CASE key.final
  <2>1. key.num \in 1 .. FinHeight(dbAt)
    BY <1>1, <1>2 DEF KeyGood
  <2>2. CanonAt(dbAt, key.num) \in Blocks
    BY <2>1, CanonFacts DEF SourcesInv
  <2> QED  BY <1>2, <2>2 DEF DbBlock
<1>3. CASE ~key.final
  BY <1>3 DEF KeyGood, DbBlock
<1> QED  BY <1>2, <1>3

LEMMA StateStep ==
  ASSUME Serving, get_state
  PROVE  IInv'
<1>1. /\ req.m = "state" /\ req.m \in RefMethods /\ req.m \notin ByTx /\ req.m # "txAt"
      /\ At(pc, loc) /\ StateAt(pc, loc) /\ SourcesInv
      /\ DOMAIN loc = {"h", "block", "idx", "key", "out"}
  BY ServingFacts DEF get_state, RefMethods, ByTx, At
<1>2. NoBlock \notin Blocks
  BY SourcesAssumption
<1>3. CASE NoBuffer
  BY <1>3, NoBufferStep
<1>4. CASE Resolve(GiveUp, GiveUp)
  BY <1>1, <1>4, ResolveStep, ResolveAny
<1>5. CASE pc = "archive" /\ GiveUp
  <2>1. \A b \in Target : Excused(b)
    BY <1>1, <1>5 DEF At, Excused
  <2> QED  BY <1>5, <2>1, AnswerMissing DEF GiveUp
<1>6. CASE pc = "dbRead"
  <2> DEFINE x == IF DbBody(loc.key) THEN DbBlock(loc.key) ELSE NoBlock
             got == Found(x, "db")
             p == IF Len(loc.out) + 1 < req.reads THEN "dbRead" ELSE "stateRead"
             out == Append(loc.out, got)
             l == [loc EXCEPT !.out = out]
  <2>1. Goto(p, l)
    BY <1>1, <1>6 DEF get_state, EmptyState, NoBuffer, Resolve
  <2>2. /\ KeyGood(loc.key) /\ loc.out \in Seq(StateReads)
        /\ \A i \in 1 .. Len(loc.out) : loc.out[i].value = NoBlock => ~DbBody(loc.key)
    BY <1>1, <1>6 DEF StateAt
  <2>3. x \in Blocks \cup {NoBlock} /\ (x = NoBlock => ~DbBody(loc.key))
    BY <1>1, <1>2, <2>2, StateBlock
  <2>4. got \in StateReads /\ got.value = x
    BY <2>3 DEF StateReads, Found
  <2> HIDE DEF got, x
  <2>5. out \in Seq(StateReads) /\ Len(out) = Len(loc.out) + 1 /\ Len(loc.out) \in Nat
    BY <2>2, <2>4, AppendProperties, LenProperties
  <2>6. \A i \in 1 .. Len(out) : out[i] = IF i <= Len(loc.out) THEN loc.out[i] ELSE got
    BY <2>2, <2>4, <2>5, AppendProperties
  <2>7. \A i \in 1 .. Len(out) : out[i].value = NoBlock => ~DbBody(loc.key)
    BY <2>2, <2>3, <2>4, <2>5, <2>6
  <2>8. out # << >>
    BY <2>5
  <2>9. DOMAIN l = DOMAIN loc /\ l.key = loc.key /\ l.out = out
    BY <1>1
  <2>10. p \in {"dbRead", "stateRead"}
    OBVIOUS
  <2> HIDE DEF out, l, p
  <2>11. StateAt(p, l)
    BY <2>2, <2>5, <2>7, <2>8, <2>9, <2>10 DEF StateAt
  <2>12. \A b \in Target : loc.key = FinKey(Height[b])
    BY <1>6, DbReadFacts
  <2>13. \A b \in Target : Placed(l, b)
    BY <1>1 DEF Placed
  <2>14. At(p, l)
    BY <1>1, <2>9, <2>10, <2>11, <2>12, <2>13 DEF At, Early
  <2> QED  BY <2>1, <2>10, <2>14, GotoStep
<1>7. CASE pc = "stateRead"
  <2>1. Answer(IF DbBody(loc.key) THEN Last(loc.out) ELSE Missing)
    BY <1>1, <1>7 DEF get_state, NoBuffer, Resolve
  <2>2. CASE DbBody(loc.key)
    <3>1. /\ loc.out \in Seq(StateReads) /\ loc.out # << >>
          /\ \A i \in 1 .. Len(loc.out) : loc.out[i].value # NoBlock
      BY <1>1, <1>7, <2>2 DEF StateAt
    <3>2. Len(loc.out) \in 1 .. Len(loc.out)
      BY <3>1, EmptySeq, LenProperties
    <3>3. Last(loc.out) \in StateReads /\ Last(loc.out).value # NoBlock
      BY <3>1, <3>2, ElementOfSeq DEF Last
    <3>4. PICK v \in Blocks \cup {NoBlock} : Last(loc.out) = Found(v, "db")
      BY <3>3 DEF StateReads
    <3>5. v # NoBlock
      BY <3>3, <3>4 DEF Found
    <3>6. \A b \in Target : RightValue(v, b)
      BY <1>1 DEF RightValue
    <3> QED  BY <2>1, <2>2, <3>4, <3>5, <3>6, AnswerFound
  <2>3. CASE ~DbBody(loc.key)
    <3>1. \A b \in Target : Excused(b)
      BY <1>1, <1>7, <2>3, DbReadFacts DEF Excused
    <3> QED  BY <2>1, <2>3, <3>1, AnswerMissing
  <2> QED  BY <2>2, <2>3
<1> QED  BY <1>3, <1>4, <1>5, <1>6, <1>7 DEF get_state

\* eth_getLogs: of its steps only this matters here.
LEMMA LogsShape ==
  ASSUME get_logs
  PROVE  /\ req.m = "logs" /\ pc \notin {"idle", "done"} /\ pc' # "idle"
         /\ UNCHANGED <<req, begun>> /\ (ans' = ans \/ pc' = "done")
         /\ faults' \in {faults, faults + 1}
<1> DEFINE Shape == /\ pc' # "idle" /\ UNCHANGED <<req, begun>> /\ (ans' = ans \/ pc' = "done")
                    /\ faults' \in {faults, faults + 1}
<1>1. req.m = "logs"
  BY DEF get_logs
<1>2. ASSUME NEW from, NEW to, StartLogs(from, to) PROVE Shape
  BY <1>2 DEF StartLogs, Answer
<1>3. ASSUME NEW a, Answer(a) PROVE Shape
  BY <1>3 DEF Answer
<1>4. ASSUME NEW p \in {"logsFrom", "logsTo", "logsHash", "logsAgain", "logs"}, NEW l, Goto(p, l)
      PROVE  Shape
  BY <1>4 DEF Goto
<1>5. CASE LogsLatest
  <2>1. pc = "buffer" /\ \E p \in {"logsHash", "logsFrom"} : \E l : Goto(p, l)
    BY <1>5 DEF LogsLatest
  <2> HIDE DEF Shape
  <2>2. Shape
    BY <1>4, <2>1
  <2> QED  BY <1>1, <2>1, <2>2 DEF Shape
<1>6. CASE LogsRange
  <2>1. pc \in {"logsFrom", "logsTo"} /\ \E a, from, to, l : Answer(a) \/ StartLogs(from, to) \/ Goto("logsTo", l)
    BY <1>6, Zenon DEF LogsRange
  <2> HIDE DEF Shape
  <2>2. Shape
    BY <1>2, <1>3, <1>4, <2>1
  <2> QED  BY <1>1, <2>1, <2>2 DEF Shape
<1>7. CASE LogsAtHash
  <2>1. /\ pc \in {"logsHash", "logsAgain"}
        /\ \/ \E a, from, to : Answer(a) \/ StartLogs(from, to)
           \/ Goto("logsAgain", loc)
    BY <1>7, Zenon DEF LogsAtHash
  <2> HIDE DEF Shape
  <2>2. Shape
    BY <1>2, <1>3, <1>4, <2>1
  <2> QED  BY <1>1, <2>1, <2>2 DEF Shape
<1>8. CASE get_receipts_stream_using_index
  <2>1. pc = "logsIndex" /\ (Goto("logs", loc) \/ \E a : Answer(a))
    BY <1>8, Zenon DEF get_receipts_stream_using_index
  <2> HIDE DEF Shape
  <2>2. Shape
    BY <1>3, <1>4, <2>1
  <2> QED  BY <1>1, <2>1, <2>2 DEF Shape
<1>9. CASE LogsLookupFails
  BY <1>1, <1>9 DEF LogsLookupFails
<1>10. CASE LogsCollect
  <2>1. pc = "logs" /\ \E a : Answer(a)
    BY <1>10, Zenon DEF LogsCollect
  <2> HIDE DEF Shape
  <2>2. Shape
    BY <1>3, <2>1
  <2> QED  BY <1>1, <2>1, <2>2 DEF Shape
<1>11. ASSUME NEW n, \/ get_bloom_filtered_header_transactions_receipts(n)
                     \/ LogsFromDb(n)
                     \/ fetch_bloom_filtered_header_transactions_receipts_from_archive(n)
       PROVE  pc = "logs" /\ pc' = pc /\ UNCHANGED <<req, begun, faults, ans>>
  <2>1. pc = "logs" /\ \E row : SetRow(n, row)
    BY <1>11, Zenon DEF get_bloom_filtered_header_transactions_receipts, LogsFromDb,
         fetch_bloom_filtered_header_transactions_receipts_from_archive
  <2> QED  BY <2>1 DEF SetRow
<1>12. ASSUME NEW n, LogsRowFails(n)
       PROVE  pc = "logs" /\ pc' = pc /\ UNCHANGED <<req, begun, ans>> /\ faults' = faults + 1
  BY <1>12 DEF LogsRowFails
<1> QED
  <2>1. \/ LogsLatest \/ LogsRange \/ LogsAtHash \/ get_receipts_stream_using_index
        \/ LogsLookupFails \/ LogsCollect
        \/ (pc = "logs" /\ pc' = pc /\ UNCHANGED <<req, begun, faults, ans>>)
        \/ (pc = "logs" /\ pc' = pc /\ UNCHANGED <<req, begun, ans>> /\ faults' = faults + 1)
    BY <1>11, <1>12, Zenon DEF get_logs
  <2> QED  BY <1>1, <1>5, <1>6, <1>7, <1>8, <1>9, <1>10, <2>1

LEMMA LogsStep ==
  ASSUME IInv, get_logs, UNCHANGED srcVars
  PROVE  IInv'
<1>1. /\ req.m = "logs" /\ pc \notin {"idle", "done"} /\ pc' # "idle"
      /\ UNCHANGED <<req, begun>> /\ (ans' = ans \/ pc' = "done") /\ faults' \in {faults, faults + 1}
  BY LogsShape
<1>2. SourcesInv' /\ BegunInv'
  BY <1>1, Resting DEF IInv
<1>3. RequestInv'
  BY <1>1 DEF IInv, RequestInv
<1>4. Target' = {} /\ req'.m = "logs"
  BY <1>1 DEF Target, ByTx
<1>5. SettledAnswers' /\ StateNotInvented'
  BY <1>4 DEF SettledAnswers, SettledFound, SettledExact, StateNotInvented
<1> QED  BY <1>2, <1>3, <1>4, <1>5 DEF IInv

LEMMA BeginStep ==
  ASSUME IInv, NEW r \in Requests, Begin(r), UNCHANGED srcVars
  PROVE  IInv'
<1>1. /\ pc = "idle" /\ req' = r /\ pc' = "buffer" /\ loc' = Fresh /\ ans' = NoAns /\ faults' = 0
      /\ begun' = [fin |-> FinHeight(dbAt), arch |-> archived, index |-> indexed]
      /\ UNCHANGED <<history, dbAt, dbLow, archived, indexed>>
  BY DEF Begin, IInv, RequestInv, srcVars, dbVars
<1>2. SourcesInv'
  BY <1>1 DEF IInv, SourcesInv
<1>3. FinHeight(dbAt)' = FinHeight(dbAt) /\ FinHeight(dbAt) \in Nat
  <2>1. FinHeight(dbAt)' = FinHeight(dbAt)
    BY <1>1 DEF FinHeight, Finalized, Reached
  <2> QED  BY <2>1, FinFacts DEF IInv, SourcesInv
<1>4. BegunInv'
  BY <1>1, <1>3 DEF BegunInv, IInv, SourcesInv
<1>5. RequestInv'
  BY <1>1 DEF RequestInv
<1>6. At(pc, loc)'
  BY <1>1 DEF At, StateAt, Early, Fresh
<1>7. SettledAnswers' /\ StateNotInvented'
  BY <1>1 DEF SettledAnswers, SettledFound, SettledExact, StateNotInvented, NoAns
<1> QED  BY <1>2, <1>4, <1>5, <1>6, <1>7 DEF IInv

LEMMA FinishStep ==
  ASSUME IInv, Finish, UNCHANGED srcVars
  PROVE  IInv'
<1>1. /\ req' = NoReq /\ pc' = "idle" /\ loc' = Fresh /\ ans' = NoAns /\ faults' = 0 /\ begun' = NotBegun
      /\ UNCHANGED <<history, dbAt, dbLow, archived, indexed>>
  BY DEF Finish, srcVars, dbVars
<1>2. SourcesInv'
  BY <1>1 DEF IInv, SourcesInv
<1>3. FinHeight(dbAt)' = FinHeight(dbAt) /\ FinHeight(dbAt) \in Nat
  <2>1. FinHeight(dbAt)' = FinHeight(dbAt)
    BY <1>1 DEF FinHeight, Finalized, Reached
  <2> QED  BY <2>1, FinFacts DEF IInv, SourcesInv
<1>4. BegunInv'
  BY <1>1, <1>3 DEF BegunInv, IInv, SourcesInv, NotBegun
<1>5. RequestInv'
  BY <1>1 DEF RequestInv
<1>6. At(pc, loc)'
  BY <1>1 DEF At, StateAt, Early, Fresh, NoReq
<1>7. SettledAnswers' /\ StateNotInvented'
  BY <1>1 DEF SettledAnswers, SettledFound, SettledExact, StateNotInvented, NoAns
<1> QED  BY <1>2, <1>4, <1>5, <1>6, <1>7 DEF IInv

\* The sources only go forward: what triedb does not have it does not get back,
\* and what the archive has it keeps.
LEMMA SourcesStep ==
  ASSUME IInv, pc # "done", Sources(Held), UNCHANGED <<req, pc, loc, rows, ans, begun, faults>>
  PROVE  IInv'
<1>1. SourcesInv /\ BegunInv /\ RequestInv
  BY DEF IInv
<1>2. /\ history' = history /\ dbAt' \in dbAt .. Len(history) /\ dbLow' \in Nat /\ dbLow <= dbLow'
      /\ archived' \in Nat /\ archived <= archived' /\ indexed' \in Nat /\ indexed <= indexed'
      /\ indexed' <= archived'
  <2>1. history \in Histories /\ Len(history) \in Nat /\ SyncedTo \in Nat
    BY <1>1, HistoryFacts DEF SourcesInv
  <2>2. CASE DbFollows
    BY <1>1, <2>1, <2>2 DEF DbFollows, SourcesInv
  <2>3. CASE Prune
    BY <1>1, <2>1, <2>3 DEF Prune, SourcesInv
  <2>4. CASE Archive
    BY <1>1, <2>1, <2>4 DEF Archive, SourcesInv
  <2>5. CASE IndexLogs
    BY <1>1, <2>1, <2>5 DEF IndexLogs, SourcesInv
  <2>6. CASE BufferTake \/ BufferStep(Held)
    <3>1. UNCHANGED <<history, dbAt, dbLow, archived, indexed>>
      BY <2>6 DEF BufferTake, BufferStep, dbVars
    <3> QED  BY <1>1, <2>1, <3>1 DEF SourcesInv
  <2> QED  BY <2>2, <2>3, <2>4, <2>5, <2>6 DEF Sources
<1>3. dbAt' \in SyncedTo .. Len(history) /\ dbLow \in Nat \ {0} /\ dbLow' \in Nat \ {0}
  <2>1. SyncedTo \in Nat /\ Len(history) \in Nat
    BY <1>1, HistoryFacts DEF SourcesInv
  <2> QED  BY <1>1, <1>2, <2>1 DEF SourcesInv
<1>4. SourcesInv'
  BY <1>1, <1>2, <1>3 DEF SourcesInv
<1>5. /\ FinHeight(dbAt)' = FinHeight(dbAt') /\ FinHeight(dbAt) <= FinHeight(dbAt')
      /\ FinHeight(dbAt) \in Nat /\ FinHeight(dbAt') \in Nat
  <2>1. FinHeight(dbAt)' = FinHeight(dbAt')
    BY <1>2 DEF FinHeight, Finalized, Reached
  <2>2. FinHeight(dbAt) <= FinHeight(dbAt')
    BY <1>1, <1>2, FinGrows DEF SourcesInv
  <2> QED  BY <1>1, <1>3, <2>1, <2>2, FinFacts DEF SourcesInv
<1>6. BegunInv'
  BY <1>1, <1>2, <1>5 DEF BegunInv, SourcesInv
<1>7. RequestInv'
  BY <1>1 DEF RequestInv
<1>8. Target' = Target
  BY <1>2 DEF Target, Settled, Canonical, CanonAt, Finalized, Reached
<1>9. ans' = NoAns /\ ans = NoAns
  BY <1>1 DEF RequestInv
<1>10. SettledAnswers' /\ StateNotInvented'
  BY <1>9 DEF SettledAnswers, SettledFound, SettledExact, StateNotInvented, NoAns
<1>11. ASSUME req.m # "logs" PROVE At(pc, loc)'
  <2>1. At(pc, loc)
    BY <1>11 DEF IInv
  <2>2. \A key : KeyGood(key) => KeyGood(key)'
    BY <1>2, <1>3, <1>5 DEF KeyGood
  <2>3. \A key : KeyGood(key) /\ ~DbBody(key) => ~DbBody(key)'
    BY <1>2, <1>3, <1>5 DEF KeyGood, DbBody, DbHeader
  <2>4. StateAt(pc, loc) => StateAt(pc, loc)'
    BY <2>2, <2>3 DEF StateAt
  <2>5. \A b \in Target : Gone(b) => Gone(b)'
    <3>1. \A b \in Target : Height[b] \in Nat
      BY <1>1, TargetFacts
    <3> QED  BY <1>2, <1>3, <3>1 DEF Gone
  <2>6. \A b : (Placed(loc, b) => Placed(loc, b)') /\ (Pointed(loc, b) => Pointed(loc, b)')
    BY DEF Placed, Pointed
  <2> QED  BY <1>8, <2>1, <2>4, <2>5, <2>6 DEF At
<1> QED  BY <1>4, <1>6, <1>7, <1>10, <1>11 DEF IInv

(***************************************************************************)
(* The theorems.                                                           *)
(***************************************************************************)
LEMMA IInvInit == Init => IInv
<1> SUFFICES ASSUME Init PROVE IInv
  OBVIOUS
<1>1. /\ history \in Histories /\ dbAt = SyncedTo /\ dbLow = 1 /\ archived = 1 /\ indexed = 0
      /\ req = NoReq /\ pc = "idle" /\ loc = Fresh /\ ans = NoAns /\ begun = NotBegun /\ faults = 0
  BY DEF Init, SourcesInit
<1>2. SyncedTo \in SyncedTo .. Len(history)
  BY <1>1, HistoryFacts
<1>3. SourcesInv
  BY <1>1, <1>2 DEF SourcesInv
<1>4. BegunInv
  <2>1. FinHeight(dbAt) \in Nat
    BY <1>3, FinFacts DEF SourcesInv
  <2> QED  BY <1>1, <2>1 DEF BegunInv, NotBegun
<1>5. RequestInv
  BY <1>1 DEF RequestInv
<1>6. At(pc, loc)
  BY <1>1 DEF At, StateAt, Early, Fresh, NoReq
<1>7. SettledAnswers /\ StateNotInvented
  BY <1>1 DEF SettledAnswers, SettledFound, SettledExact, StateNotInvented, NoAns
<1> QED  BY <1>3, <1>4, <1>5, <1>6, <1>7 DEF IInv

LEMMA IInvStep == IInv /\ [Next]_vars => IInv'
<1> SUFFICES ASSUME IInv, [Next]_vars PROVE IInv'
  OBVIOUS
<1>1. CASE UNCHANGED vars
  <2>1. UNCHANGED <<srcVars, req, pc, loc, ans, begun, faults>>
    BY <1>1 DEF vars, reqVars
  <2>2. SourcesInv' /\ BegunInv' /\ Target' = Target
    BY <2>1, Resting DEF IInv
  <2>3. RequestInv'
    BY <2>1 DEF IInv, RequestInv
  <2>4. req.m # "logs" => At(pc, loc)'
    BY <2>1, AtKept DEF IInv
  <2>5. SettledAnswers' /\ StateNotInvented'
    <3>1. dbLow' = dbLow
      BY <2>1 DEF srcVars, dbVars
    <3> QED  BY <2>1, <2>2, <3>1
           DEF IInv, SettledAnswers, SettledFound, SettledExact, ExactReceipts, StateNotInvented
  <2> QED  BY <2>1, <2>2, <2>3, <2>4, <2>5 DEF IInv
<1>2. ASSUME Step, UNCHANGED srcVars PROVE IInv'
  <2>1. CASE get_logs
    BY <1>2, <2>1, LogsStep
  <2>2. CASE ~get_logs
    <3>1. Serving
      <4>1. req.m # "logs" /\ pc \notin {"idle", "done"}
        BY <1>2, <2>2 DEF Step, get_transaction_receipt, get_transaction,
             get_transaction_with_block_and_index, get_block_header, get_block, get_raw_receipts,
             get_block_receipts, get_block_call_frames, get_transaction_call_frame, get_state, ReadFails,
             get_receipt_by_tx_hash, get_transaction_by_hash, Locate, DbTx, ArchiveTx, Resolve, TriedbPointer,
             resolve_block_height_from_buffer, get_block_by_hash, BufferBlock, DbContents, FailsOver,
             ArchiveContents, get_receipts_by_block_height, NoBuffer
      <4> QED  BY <1>2, <4>1 DEF Serving
    <3> QED  BY <1>2, <2>2, <3>1, ReceiptStep, TransactionStep, TxAtStep, HeaderStep, BlockStep, RawReceiptsStep,
                BlockReceiptsStep, BlockFramesStep, FrameStep, StateStep, ReadFailsStep DEF Step
  <2> QED  BY <2>1, <2>2
<1>3. CASE Next
  <2>1. ASSUME NEW r \in Requests, Begin(r), UNCHANGED srcVars PROVE IInv'
    BY <2>1, BeginStep
  <2> QED  BY <1>2, <1>3, <2>1, FinishStep, SourcesStep DEF Next
<1> QED  BY <1>1, <1>3

LEMMA IInvAlways == Spec => []IInv
BY IInvInit, IInvStep, PTL DEF Spec

\* A finalized block that triedb has in full, or that was archived and indexed
\* when the request began, is found, and what triedb and the archive say of it
\* is exact, wherever the sources are pruned, filled or finalized in between:
\* for every history, every request of the handlers and any number of faults.
THEOREM SettledIsAnswered == Spec => []SettledAnswers
<1>1. IInv => SettledAnswers
  BY DEF IInv
<1> QED  BY <1>1, IInvAlways, PTL

\* No answer about the state of an account is the empty account that triedb
\* reads when it has pruned the state or never had it.
THEOREM StateIsNeverInvented == Spec => []StateNotInvented
<1>1. IInv => StateNotInvented
  BY DEF IInv
<1> QED  BY <1>1, IInvAlways, PTL


(***************************************************************************)
(* Sequences that are joined.                                              *)
(***************************************************************************)
\* w is the first n of the sequences ss joined; the k-th of them comes after
\* position off[k - 1].
Joined(w, off, ss, n, T) ==
  /\ off \in [0 .. n -> Nat] /\ off[0] = 0
  /\ w \in Seq(T) /\ Len(w) = off[n] /\ \A k \in 0 .. n : off[k] <= Len(w)
  /\ \A k \in 1 .. n : off[k] = off[k - 1] + Len(ss[k])
  /\ \A k \in 1 .. n : \A j \in 1 .. Len(ss[k]) :
       off[k - 1] + j \in 1 .. Len(w) /\ w[off[k - 1] + j] = ss[k][j]
  /\ \A p \in 1 .. Len(w) : \E k \in 1 .. n : \E j \in 1 .. Len(ss[k]) : p = off[k - 1] + j

LEMMA JoinNone ==
  ASSUME NEW T, NEW ss
  PROVE  Joined(<< >>, [k \in 0 .. 0 |-> 0], ss, 0, T)
BY DEF Joined

LEMMA JoinStep ==
  ASSUME NEW T, NEW n \in Nat \ {0}, NEW w, NEW off, NEW ss, Joined(w, off, ss, n - 1, T), ss[n] \in Seq(T)
  PROVE  \E o : Joined(w \o ss[n], o, ss, n, T)
<1> DEFINE L == Len(ss[n])
           o == [k \in 0 .. n |-> IF k = n THEN off[n - 1] + L ELSE off[k]]
           v == w \o ss[n]
<1>1. L \in Nat /\ n - 1 \in Nat /\ off[n - 1] \in Nat /\ Len(w) = off[n - 1] /\ Len(w) \in Nat /\ w \in Seq(T)
  BY DEF Joined
<1>2. \A k \in 0 .. n - 1 : k \in 0 .. n /\ k # n /\ o[k] = off[k] /\ off[k] \in Nat
  BY <1>1 DEF Joined
<1>3. o[n] = off[n - 1] + L /\ o[n - 1] = off[n - 1]
  BY <1>1
<1>4. o \in [0 .. n -> Nat] /\ o[0] = 0
  <2>1. \A k \in 0 .. n : k = n \/ k \in 0 .. n - 1
    BY <1>1
  <2>2. \A k \in 0 .. n : o[k] \in Nat
    <3>1. o[n] \in Nat
      BY <1>1, <1>3
    <3> HIDE DEF o
    <3> QED  BY <1>2, <2>1, <3>1
  <2>3. o[0] = off[0]
    BY <1>1, <1>2
  <2> QED  BY <2>2, <2>3 DEF Joined
<1>5. /\ v \in Seq(T) /\ Len(v) = Len(w) + L
      /\ \A i \in 1 .. Len(w) : v[i] = w[i]
      /\ \A j \in 1 .. L : v[Len(w) + j] = ss[n][j]
  <2>1. /\ v \in Seq(T) /\ Len(v) = Len(w) + Len(ss[n])
        /\ \A i \in 1 .. Len(w) + Len(ss[n]) : v[i] = IF i <= Len(w) THEN w[i] ELSE ss[n][i - Len(w)]
    BY <1>1, ConcatProperties
  <2> HIDE DEF v
  <2>2. \A i \in 1 .. Len(w) : i \in 1 .. Len(w) + L /\ i <= Len(w)
    BY <1>1
  <2>3. \A j \in 1 .. L : Len(w) + j \in 1 .. Len(w) + L /\ ~(Len(w) + j <= Len(w)) /\ (Len(w) + j) - Len(w) = j
    BY <1>1
  <2>4. \A j \in 1 .. L : v[Len(w) + j] = ss[n][(Len(w) + j) - Len(w)]
    BY <2>1, <2>3
  <2> QED  BY <2>1, <2>2, <2>3, <2>4
<1>6. Len(v) = o[n] /\ Len(v) \in Nat
  BY <1>1, <1>3, <1>5
<1> HIDE DEF o, v, L
<1>7. \A k \in 1 .. n : k = n \/ (k \in 1 .. n - 1 /\ k \in 0 .. n - 1 /\ k - 1 \in 0 .. n - 1)
  BY <1>1
<1>8. \A k \in 1 .. n : o[k] = o[k - 1] + Len(ss[k])
  BY <1>1, <1>2, <1>3, <1>7 DEF Joined, L
<1>9. ASSUME NEW k \in 1 .. n, NEW j \in 1 .. Len(ss[k])
      PROVE  o[k - 1] + j \in 1 .. Len(v) /\ v[o[k - 1] + j] = ss[k][j]
  <2>1. CASE k = n
    <3>1. j \in 1 .. L /\ o[k - 1] = Len(w) /\ ss[k] = ss[n]
      BY <2>1, <1>1, <1>3 DEF L
    <3>2. L \in Nat /\ Len(v) = Len(w) + L /\ Len(w) \in Nat
      BY <1>1, <1>5
    <3>3. Len(w) + j \in 1 .. Len(v)
      BY <3>1, <3>2
    <3>4. v[Len(w) + j] = ss[n][j]
      BY <1>5, <3>1
    <3> QED  BY <3>1, <3>3, <3>4
  <2>2. CASE k \in 1 .. n - 1 /\ k \in 0 .. n - 1 /\ k - 1 \in 0 .. n - 1
    <3>1. off[k - 1] + j \in 1 .. Len(w) /\ w[off[k - 1] + j] = ss[k][j]
      BY <1>9, <2>2 DEF Joined
    <3>2. o[k - 1] = off[k - 1]
      BY <1>2, <2>2
    <3>3. \A i \in 1 .. Len(w) : i \in 1 .. Len(v)
      BY <1>1, <1>5, <1>6
    <3> QED  BY <1>5, <3>1, <3>2, <3>3
  <2> QED  BY <1>7, <2>1, <2>2
<1>10. ASSUME NEW p \in 1 .. Len(v)
       PROVE  \E k \in 1 .. n : \E j \in 1 .. Len(ss[k]) : p = o[k - 1] + j
  <2>1. CASE p \in 1 .. Len(w)
    <3>1. PICK k \in 1 .. n - 1 : \E j \in 1 .. Len(ss[k]) : p = off[k - 1] + j
      BY <2>1 DEF Joined
    <3>2. k \in 1 .. n /\ o[k - 1] = off[k - 1]
      BY <1>1, <1>2
    <3> QED  BY <3>1, <3>2
  <2>2. CASE p \notin 1 .. Len(w)
    <3>1. p - Len(w) \in 1 .. L /\ p = Len(w) + (p - Len(w))
      BY <1>1, <1>5, <1>6, <2>2
    <3>2. n \in 1 .. n /\ p = o[n - 1] + (p - Len(w))
      BY <1>1, <1>3, <3>1
    <3> QED  BY <3>1, <3>2 DEF L
  <2> QED  BY <2>1, <2>2
<1>11. \A k \in 0 .. n : o[k] <= Len(v)
  <2>1. \A k \in 0 .. n - 1 : off[k] <= Len(w)
    BY DEF Joined
  <2>2. \A k \in 0 .. n : k = n \/ k \in 0 .. n - 1
    BY <1>1
  <2>3. \A k \in 0 .. n - 1 : o[k] <= Len(v)
    BY <1>1, <1>2, <1>5, <1>6, <2>1
  <2> QED  BY <1>6, <2>2, <2>3
<1>12. Joined(v, o, ss, n, T)
  BY <1>11, <1>4, <1>5, <1>6, <1>8, <1>9, <1>10 DEF Joined
<1> QED  BY <1>12 DEF v

IsFlat(g, ss, n) == g = [i \in 1 .. n |-> IF i = 1 THEN ss[i] ELSE g[i - 1] \o ss[i]]

LEMMA FlatExists ==
  ASSUME NEW ss, NEW N \in Nat
  PROVE  \E g : IsFlat(g, ss, N)
<1> DEFINE S == {n \in 0 .. N : \E g : IsFlat(g, ss, n)}
<1>1. 0 \in S
  <2>1. IsFlat([i \in 1 .. 0 |-> 0], ss, 0)
    BY DEF IsFlat
  <2> QED  BY <2>1
<1>2. ASSUME NEW n \in 1 .. N, n - 1 \in S PROVE n \in S
  <2>1. PICK g : IsFlat(g, ss, n - 1)
    BY <1>2
  <2> DEFINE h == [i \in 1 .. n |-> IF i = 1 THEN ss[i] ELSE g[i - 1] \o ss[i]]
  <2>2. \A i \in 1 .. n - 1 : i \in 1 .. n /\ h[i] = g[i]
    <3>1. \A i \in 1 .. n - 1 : g[i] = IF i = 1 THEN ss[i] ELSE g[i - 1] \o ss[i]
      BY <2>1 DEF IsFlat
    <3>2. \A i \in 1 .. n - 1 : i \in 1 .. n
      OBVIOUS
    <3> QED  BY <3>1, <3>2
  <2>3. \A i \in 1 .. n : i # 1 => i - 1 \in 1 .. n - 1
    OBVIOUS
  <2>4. \A i \in 1 .. n : h[i] = IF i = 1 THEN ss[i] ELSE h[i - 1] \o ss[i]
    BY <2>2, <2>3
  <2>5. h = [i \in 1 .. n |-> IF i = 1 THEN ss[i] ELSE h[i - 1] \o ss[i]]
    BY <2>4
  <2> HIDE DEF h
  <2>6. IsFlat(h, ss, n)
    BY <2>5 DEF IsFlat
  <2> QED  BY <2>6
<1>3. 0 .. N \subseteq S
  <2> HIDE DEF S
  <2> QED  BY <1>1, <1>2, Climb
<1> QED  BY <1>3

LEMMA FlattenFacts ==
  ASSUME NEW T, NEW ss \in Seq(Seq(T))
  PROVE  \E off : Joined(FlattenSeq(ss), off, ss, Len(ss), T)
<1> DEFINE N == Len(ss)
           flatten[i \in 1 .. N] == IF i = 1 THEN ss[i] ELSE flatten[i - 1] \o ss[i]
<1>1. N \in Nat /\ \A i \in 1 .. N : ss[i] \in Seq(T)
  BY ElementOfSeq, LenProperties
<1>2. CASE N = 0
  <2>1. FlattenSeq(ss) = ss /\ ss = << >>
    BY <1>2 DEF FlattenSeq
  <2> QED  BY <1>2, <2>1, JoinNone
<1>3. CASE N # 0
  <2>1. FlattenSeq(ss) = flatten[N]
    BY <1>3 DEF FlattenSeq
  <2>2. PICK g : IsFlat(g, ss, N)
    BY <1>1, FlatExists
  <2>3. g = [i \in 1 .. N |-> IF i = 1 THEN ss[i] ELSE g[i - 1] \o ss[i]]
    BY <2>2 DEF IsFlat
  <2>4. flatten = [i \in 1 .. N |-> IF i = 1 THEN ss[i] ELSE flatten[i - 1] \o ss[i]]
    BY <2>3
  <2> HIDE DEF flatten, N
  <2> DEFINE S == {n \in 0 .. N : n = 0 \/ \E off : Joined(flatten[n], off, ss, n, T)}
  <2>5. 0 \in S
    BY <1>1
  <2>6. ASSUME NEW n \in 1 .. N, n - 1 \in S PROVE n \in S
    <3>1. n \in Nat \ {0} /\ ss[n] \in Seq(T) /\ n \in 0 .. N
      BY <1>1
    <3>2. CASE n = 1
      <4>1. flatten[n] = ss[n]
        BY <2>4, <3>2
      <4>2. << >> \o ss[n] = ss[n]
        BY <3>1
      <4>3. Joined(<< >>, [k \in 0 .. 0 |-> 0], ss, n - 1, T)
        BY <3>2, JoinNone
      <4>4. \E o : Joined(<< >> \o ss[n], o, ss, n, T)
        BY <3>1, <4>3, JoinStep
      <4> QED  BY <3>1, <4>1, <4>2, <4>4
    <3>3. CASE n # 1
      <4>1. flatten[n] = flatten[n - 1] \o ss[n]
        BY <2>4, <3>3
      <4>2. PICK off : Joined(flatten[n - 1], off, ss, n - 1, T)
        BY <2>6, <3>3
      <4>3. \E o : Joined(flatten[n - 1] \o ss[n], o, ss, n, T)
        BY <3>1, <4>2, JoinStep
      <4> QED  BY <3>1, <4>1, <4>3
    <3> QED  BY <3>2, <3>3
  <2>7. 0 .. N \subseteq S
    <3> HIDE DEF S
    <3> QED  BY <1>1, <2>5, <2>6, Climb
  <2>8. N \in S
    BY <1>1, <2>7
  <2> QED  BY <1>3, <2>1, <2>8 DEF N
<1> QED  BY <1>2, <1>3

(***************************************************************************)
(* The logs of a block, and of several.                                    *)
(***************************************************************************)
AnyLog    == [hash : Blocks, num : Nat, tx : TxHashes, idx : Nat, log : Nat]
LogsOf(n) == {l \in AnyLog : l.num = n}

LEMMA LogsInFacts ==
  ASSUME NEW b \in Blocks
  PROVE  /\ LogsIn(b) \in Seq(LogsOf(Height[b]))
         /\ ~Bloom(b) => LogsIn(b) = << >>
<1> DEFINE N == Len(Txs[b])
           T == LogsOf(Height[b])
           ss == [i \in DOMAIN Txs[b] |-> receipt_envelope_to_logs_iter(b, i, req.filter)]
<1>1. N \in Nat /\ DOMAIN Txs[b] = 1 .. N /\ Height[b] \in Nat
      /\ \A i \in 1 .. N : Txs[b][i] \in TxHashes /\ Emits[Txs[b][i]] \in Nat
  BY TxsFacts, ContentsAssumption
<1>2. ASSUME NEW i \in 1 .. N PROVE parse_receipt_envelope(b, i) \in Seq(T)
  <2> DEFINE start == StartingLogIndex(b, i)
             E == Emits[Txs[b][i]]
             Log(k) == [hash |-> b, num |-> Height[b], tx |-> Txs[b][i], idx |-> i - 1, log |-> start + k - 1]
  <2>1. start \in Nat
    <3>1. i - 1 \in 0 .. Len(Txs[b])
      BY <1>1
    <3>2. Upto(Emits, b, i - 1) \in Nat
      BY <3>1, UptoFacts, ContentsAssumption
    <3> QED  BY <3>2 DEF StartingLogIndex
  <2> HIDE DEF start
  <2>2. \A k \in 1 .. E : start + k - 1 \in Nat /\ i - 1 \in Nat
    BY <1>1, <2>1
  <2>3. \A k \in 1 .. E : Log(k) \in T
    BY <1>1, <2>2 DEF LogsOf, AnyLog
  <2>4. parse_receipt_envelope(b, i) = [k \in 1 .. E |-> Log(k)]
    BY DEF parse_receipt_envelope, start
  <2>5. E \in Nat
    BY <1>1
  <2> HIDE DEF Log, E, T
  <2>6. [k \in 1 .. E |-> Log(k)] \in Seq(T)
    BY <2>3, <2>5
  <2> QED  BY <2>4, <2>6
<1>3. \A i \in 1 .. N : ss[i] \in Seq(T)
  <2> HIDE DEF T
  <2>1. << >> \in Seq(T)
    OBVIOUS
  <2>2. \A i \in 1 .. N : receipt_envelope_to_logs_iter(b, i, req.filter) \in Seq(T)
    BY <1>2, <2>1 DEF receipt_envelope_to_logs_iter
  <2> QED  BY <1>1, <2>2
<1>4. ss \in Seq(Seq(T)) /\ Len(ss) = N
  <2> DEFINE one(i) == receipt_envelope_to_logs_iter(b, i, req.filter)
  <2>1. ss = [i \in 1 .. N |-> one(i)] /\ \A i \in 1 .. N : one(i) \in Seq(T)
    BY <1>1, <1>3
  <2> HIDE DEF ss, one, T, N
  <2> QED  BY <1>1, <2>1
<1>5. LogsIn(b) = FlattenSeq(ss)
  BY DEF LogsIn, header_transactions_receipts_to_block_number_logs
<1>6. PICK off : Joined(FlattenSeq(ss), off, ss, N, T)
  <2> HIDE DEF ss, T, N
  <2> QED  BY <1>4, FlattenFacts
<1>7. ASSUME ~Bloom(b) PROVE LogsIn(b) = << >>
  <2>1. \A i \in 1 .. N : Txs[b][i] \notin req.filter
    BY <1>1, <1>7 DEF Bloom, Range
  <2>2. \A i \in 1 .. N : ss[i] = << >>
    BY <1>1, <2>1 DEF receipt_envelope_to_logs_iter
  <2> HIDE DEF ss, T, N
  <2>3. \A i \in 1 .. N : Len(ss[i]) = 0
    <3>1. Len(<< >>) = 0
      OBVIOUS
    <3> QED  BY <2>2, <3>1, Zenon
  <2> DEFINE w == FlattenSeq(ss)
  <2>4. w \in Seq(T) /\ \A p \in 1 .. Len(w) : \E i \in 1 .. N : \E j \in 1 .. Len(ss[i]) : p = off[i - 1] + j
    BY <1>6 DEF Joined
  <2> HIDE DEF w
  <2>5. 1 .. Len(w) = {}
    BY <2>3, <2>4
  <2>6. w = << >>
    BY <2>4, <2>5
  <2> QED  BY <1>5, <2>6 DEF w
<1> QED  BY <1>5, <1>6, <1>7 DEF Joined

LEMMA JoinedLogs ==
  ASSUME NEW bs \in Seq(Blocks),
         \A i, j \in 1 .. Len(bs) : Height[bs[i]] = Height[bs[j]] => i = j,
         NEW c \in Blocks,
         \/ \E i \in 1 .. Len(bs) : bs[i] = c
         \/ ~Bloom(c) /\ \A i \in 1 .. Len(bs) : Height[bs[i]] # Height[c]
  PROVE  Exactly(FlattenSeq([i \in DOMAIN bs |-> LogsIn(bs[i])]), Height[c], LogsIn(c))
<1> DEFINE N == Len(bs)
           ss == [i \in DOMAIN bs |-> LogsIn(bs[i])]
           w == FlattenSeq(ss)
           own == LogsIn(c)
           hc == Height[c]
           mine == {p \in DOMAIN w : w[p].num = hc}
<1>1. N \in Nat /\ DOMAIN bs = 1 .. N /\ \A i \in 1 .. N : bs[i] \in Blocks
  BY ElementOfSeq, LenProperties
<1>2. \A i \in 1 .. N : ss[i] = LogsIn(bs[i])
  BY <1>1
<1>3. \A i \in 1 .. N : LogsIn(bs[i]) \in Seq(LogsOf(Height[bs[i]]))
  BY <1>1, LogsInFacts
<1>4. \A i \in 1 .. N : LogsIn(bs[i]) \in Seq(AnyLog) /\ \A j \in 1 .. Len(LogsIn(bs[i])) : LogsIn(bs[i])[j].num = Height[bs[i]]
  <2> SUFFICES ASSUME NEW i \in 1 .. N
               PROVE  LogsIn(bs[i]) \in Seq(AnyLog) /\ \A j \in 1 .. Len(LogsIn(bs[i])) : LogsIn(bs[i])[j].num = Height[bs[i]]
    OBVIOUS
  <2> DEFINE l == LogsIn(bs[i])
             hi == Height[bs[i]]
  <2>1. l \in Seq(LogsOf(hi))
    BY <1>3
  <2> HIDE DEF l, hi
  <2>2. \A j \in 1 .. Len(l) : l[j] \in LogsOf(hi)
    BY <2>1, ElementOfSeq
  <2>3. \A j \in 1 .. Len(l) : l[j] \in AnyLog /\ l[j].num = hi
    BY <2>2 DEF LogsOf
  <2>4. l \in Seq(AnyLog)
    <3> HIDE DEF AnyLog
    <3> QED  BY <2>1, <2>3
  <2> QED  BY <2>3, <2>4 DEF l, hi
<1>5. ss \in Seq(Seq(AnyLog)) /\ Len(ss) = N
  <2> HIDE DEF N, AnyLog, LogsIn
  <2> QED  BY <1>1, <1>4
<1>6. PICK off : Joined(w, off, ss, N, AnyLog)
  <2> HIDE DEF ss, N
  <2> QED  BY <1>5, FlattenFacts
<1> HIDE DEF ss, w, N, own, hc
<1>7. /\ w \in Seq(AnyLog) /\ Len(w) \in Nat /\ DOMAIN w = 1 .. Len(w)
      /\ \A k \in 0 .. N : off[k] \in Nat
      /\ \A k \in 1 .. N : \A j \in 1 .. Len(ss[k]) :
           off[k - 1] + j \in 1 .. Len(w) /\ w[off[k - 1] + j] = ss[k][j]
      /\ \A p \in 1 .. Len(w) : \E k \in 1 .. N : \E j \in 1 .. Len(ss[k]) : p = off[k - 1] + j
  BY <1>6, LenProperties DEF Joined
<1>8. \A k \in 1 .. N : \A j \in 1 .. Len(ss[k]) : w[off[k - 1] + j].num = Height[bs[k]]
  <2> SUFFICES ASSUME NEW k \in 1 .. N, NEW j \in 1 .. Len(ss[k])
               PROVE  w[off[k - 1] + j].num = Height[bs[k]]
    OBVIOUS
  <2>1. w[off[k - 1] + j] = ss[k][j]
    BY <1>7
  <2>2. ss[k][j].num = Height[bs[k]]
    BY <1>2, <1>4, Zenon
  <2> QED  BY <2>1, <2>2
<1>9. own \in Seq(LogsOf(hc)) /\ Len(own) \in Nat
  BY LogsInFacts, LenProperties DEF own, hc
<1>10. ASSUME NEW i \in 1 .. N, bs[i] = c PROVE Exactly(w, hc, own)
  <2> DEFINE k == off[i - 1]
  <2>1. ss[i] = own /\ Height[bs[i]] = hc
    BY <1>2, <1>10 DEF own, hc
  <2>2. i - 1 \in 0 .. N /\ k \in Nat
    BY <1>1, <1>7
  <2>3. \A p \in k + 1 .. k + Len(own) : p - k \in 1 .. Len(own) /\ p = k + (p - k)
    BY <1>9, <2>2
  <2>4. \A j \in 1 .. Len(own) : k + j \in 1 .. Len(w) /\ w[k + j] = own[j] /\ w[k + j].num = hc
    BY <1>7, <1>8, <2>1
  <2> HIDE DEF k
  <2>5. \A p \in k + 1 .. k + Len(own) : p \in 1 .. Len(w) /\ w[p].num = hc
    BY <2>3, <2>4
  <2>6. ASSUME NEW p \in 1 .. Len(w), w[p].num = hc PROVE p \in k + 1 .. k + Len(own)
    <3>1. PICK x \in 1 .. N : \E j \in 1 .. Len(ss[x]) : p = off[x - 1] + j
      BY <1>7
    <3>2. PICK j \in 1 .. Len(ss[x]) : p = off[x - 1] + j
      BY <3>1
    <3>3. x = i
      BY <1>8, <2>1, <2>6, <3>2 DEF N
    <3> QED  BY <1>9, <2>1, <2>2, <3>2, <3>3 DEF k
  <2>7. mine = k + 1 .. k + Len(own)
    BY <1>7, <2>5, <2>6
  <2>8. k + Len(own) <= Len(w)
    <3>1. CASE Len(own) = 0
      <4>1. k <= Len(w)
        BY <1>6, <2>2 DEF Joined, k
      <4> QED  BY <2>2, <3>1, <4>1
    <3>2. CASE Len(own) # 0
      <4>1. k + Len(own) \in 1 .. Len(w)
        BY <1>9, <2>4, <3>2
      <4> QED  BY <4>1, <1>7
    <3> QED  BY <3>1, <3>2
  <2>9. SubSeq(w, k + 1, k + Len(own)) = own
    <3> DEFINE L == Len(own)
               sub == SubSeq(w, k + 1, k + L)
    <3>1. /\ L \in Nat /\ k + 1 \in Int /\ k + L \in Int /\ (k + L) - (k + 1) + 1 = L
          /\ (IF k + 1 <= k + L THEN (k + L) - (k + 1) + 1 ELSE 0) = L
          /\ \A j \in 1 .. L : (k + 1) + j - 1 = k + j
      <4>1. L \in Nat /\ k \in Nat
        BY <1>9, <2>2
      <4> HIDE DEF L
      <4>2. (IF k + 1 <= k + L THEN (k + L) - (k + 1) + 1 ELSE 0) = L
        BY <4>1
      <4>3. \A j \in 1 .. L : (k + 1) + j - 1 = k + j
        BY <4>1
      <4> QED  BY <4>1, <4>2, <4>3
    <3>2. \A p \in k + 1 .. k + L : w[p] \in AnyLog
      <4> HIDE DEF AnyLog
      <4> QED  BY <1>7, <2>5, ElementOfSeq
    <3>3. own \in Seq(AnyLog)
      <4>1. LogsOf(hc) \subseteq AnyLog
        BY DEF LogsOf
      <4> HIDE DEF AnyLog
      <4> QED  BY <1>9, <4>1, SeqMonotonic
    <3> HIDE DEF L, AnyLog
    <3>4. /\ sub \in Seq(AnyLog) /\ Len(sub) = L
          /\ \A j \in 1 .. L : sub[j] = w[(k + 1) + j - 1]
      BY <3>1, <3>2, SubSeqProperties
    <3> HIDE DEF sub
    <3>5. \A j \in 1 .. L : sub[j] = own[j]
      BY <2>4, <3>1, <3>4 DEF L
    <3>6. sub = own
      BY <3>3, <3>4, <3>5, SeqEqual DEF L
    <3> QED  BY <3>6 DEF sub, L
  <2>10. k \in 0 .. Len(w)
    BY <1>7, <1>9, <2>2, <2>8
  <2> QED  BY <2>7, <2>9, <2>10, Zenon DEF Exactly
<1>11. ASSUME ~Bloom(c), \A i \in 1 .. N : Height[bs[i]] # hc PROVE Exactly(w, hc, own)
  <2>1. own = << >> /\ Len(own) = 0
    BY <1>11, LogsInFacts DEF own
  <2>2. mine = {}
    <3> SUFFICES ASSUME NEW p \in 1 .. Len(w), w[p].num = hc PROVE FALSE
      BY <1>7
    <3>1. PICK k \in 1 .. N : \E j \in 1 .. Len(ss[k]) : p = off[k - 1] + j
      BY <1>7
    <3>2. w[p].num = Height[bs[k]]
      BY <1>8, <3>1
    <3> QED  BY <1>11, <3>2
  <2>3. 0 + 1 .. 0 + Len(own) = {} /\ 0 \in 0 .. Len(w)
    BY <1>7, <2>1
  <2>4. SubSeq(w, 0 + 1, 0 + Len(own)) = << >>
    BY <1>7, <2>1
  <2> QED  BY <2>1, <2>2, <2>3, <2>4 DEF Exactly
<1> QED  BY <1>10, <1>11 DEF N, own, hc, w, ss

(***************************************************************************)
(* The inductive invariant of eth_getLogs.                                 *)
(***************************************************************************)
\* Operations on the maps of the buffer.
Ops == [op : {"putHeight", "putHash", "delHash"}, block : Blocks]
       \cup [op : {"delHeight"}, num : AllHeights]
       \cup [op : {"delTx"}, tx : TxHashes]
       \cup [op : {"putTx"}, tx : TxHashes, loc : [block : Blocks, idx : Nat]]

\* The buffer holds a block under its own number.
BufferInv ==
  /\ bufAt \in Nat /\ ring \in Seq(AllHeights) /\ todo \in Seq(Ops)
  /\ byHeight \in [AllHeights -> Blocks \cup {NoBlock}]
  /\ \A n \in AllHeights : byHeight[n] # NoBlock => Height[byHeight[n]] = n

TouchedInv == pc \notin {"idle", "done"} => HeldHeights \subseteq touched

\* The block taken for a number has that number, and is the finalized one where
\* the buffer cannot have given another.
Taken(n, b) ==
  /\ b \in Blocks /\ Height[b] = n
  /\ (n <= begun.fin /\ n \notin touched) => b = Canonical(n)

RowType == [st : {"buffer", "db", "archive", "done", "error"}, block : Blocks \cup {NoBlock}]

RowsInv ==
  /\ loc.h \in Nat \ {0} /\ loc.idx \in Nat /\ loc.h <= loc.idx
  /\ rows \in [loc.h .. loc.idx -> RowType]
  /\ \A n \in loc.h .. loc.idx : rows[n].st = "done" => Taken(n, rows[n].block)

\* Before the range is known: the latest block and the lower end.
Ends == [h : Nat, block : {NoBlock}, idx : Nat, key : {NoKey}, out : {<< >>}]

LogsAt ==
  req.m = "logs" =>
    /\ pc = "buffer" => loc = Fresh
    /\ pc \in {"logsFrom", "logsTo"} => loc \in Ends /\ req.from.kind # "hash"
    /\ pc = "logsTo" => loc.h # 0
    /\ pc \in {"logsHash", "logsAgain"} => loc \in Ends /\ req.from.kind = "hash"
    /\ pc \in {"logs", "logsIndex"} => RowsInv

LogInv ==
  /\ archived <= FinHeight(dbAt)
  /\ BufferInv /\ TouchedInv /\ LogsAt /\ LogsExact

Logging == IInv /\ LogInv /\ req.m = "logs" /\ pc \notin {"idle", "done"} /\ UNCHANGED srcVars /\ touched' = touched

LEMMA LoggingFacts ==
  ASSUME Logging
  PROVE  /\ SourcesInv /\ BegunInv /\ RequestInv /\ BufferInv /\ HeldHeights \subseteq touched
         /\ archived <= FinHeight(dbAt) /\ ans = NoAns
         /\ req \in Requests /\ req.rpc = "eth_getLogs" /\ IsRef(req.from)
         /\ req.from.kind = "hash" \/ IsTag(req.to)
<1>1. SourcesInv /\ BegunInv /\ RequestInv /\ BufferInv /\ TouchedInv /\ archived <= FinHeight(dbAt)
  BY DEF Logging, IInv, LogInv
<1>2. req \in Requests /\ ans = NoAns /\ req.m = "logs"
  BY <1>1 DEF Logging, RequestInv
<1>3. Handled(req)
  BY <1>2, ProviderAssumption
<1> QED  BY <1>1, <1>2, <1>3 DEF Handled, TouchedInv, Logging

\* What stays as it is while the sources rest.
LEMMA LoggingRests ==
  ASSUME Logging, req' = req, begun' = begun
  PROVE  /\ (archived <= FinHeight(dbAt))' /\ BufferInv' /\ TouchedInv'
         /\ \A n : Canonical(n)' = Canonical(n)
         /\ \A b : LogsIn(b)' = LogsIn(b)
         /\ \A n, b : Taken(n, b)' = Taken(n, b)
<1>1. UNCHANGED <<history, dbAt, archived, bufAt, byHeight, ring, todo>> /\ touched' = touched
  BY DEF Logging, srcVars, dbVars, bufVars
<1>2. FinHeight(dbAt)' = FinHeight(dbAt)
  BY <1>1 DEF FinHeight, Finalized, Reached
<1>3. (archived <= FinHeight(dbAt))'
  BY <1>1, <1>2, LoggingFacts
<1>4. BufferInv'
  BY <1>1, LoggingFacts DEF BufferInv
<1>5. TouchedInv'
  BY <1>1, LoggingFacts DEF TouchedInv, HeldHeights
<1>6. \A n : Canonical(n)' = Canonical(n)
  BY <1>1 DEF Canonical, CanonAt, Finalized, Reached
<1>7. \A b : LogsIn(b)' = LogsIn(b)
  BY DEF LogsIn, header_transactions_receipts_to_block_number_logs, receipt_envelope_to_logs_iter,
       parse_receipt_envelope
<1>8. \A n, b : Taken(n, b)' = Taken(n, b)
  BY <1>1, <1>6 DEF Taken
<1> QED  BY <1>3, <1>4, <1>5, <1>6, <1>7, <1>8

LEMMA LogsGoOn ==
  ASSUME Logging, req' = req, begun' = begun, ans' = ans, LogsAt'
  PROVE  LogInv'
<1>1. LogsExact'
  BY LoggingFacts DEF LogsExact, NoAns
<1> QED  BY <1>1, LoggingRests DEF LogInv

\* An answer is as it has to be.
LEMMA LogsAnswered ==
  ASSUME Logging, NEW a, Answer(a),
         a.kind = "logs" =>
           \A n \in a.from .. a.to :
             (a.via = "index" \/ (n <= begun.fin /\ n \notin touched)) =>
               Exactly(a.logs, n, LogsIn(Canonical(n)))
  PROVE  LogInv'
<1>1. req' = req /\ begun' = begun /\ pc' = "done" /\ ans' = Response(req, a) /\ touched' = touched
  BY DEF Answer, Logging
<1>2. ans' = a
  BY <1>1, LoggingFacts DEF Response
<1>3. LogsAt'
  BY <1>1 DEF LogsAt
<1>4. LogsExact'
  <2>1. \A n : LogsIn(Canonical(n))' = LogsIn(Canonical(n))
    BY <1>1 DEF LogsIn, header_transactions_receipts_to_block_number_logs, receipt_envelope_to_logs_iter,
         parse_receipt_envelope, Logging, srcVars, Canonical, CanonAt, Finalized, Reached
  <2> SUFFICES ASSUME a.kind = "logs", NEW n \in a.from .. a.to,
                      a.via = "index" \/ (n <= begun.fin /\ n \notin touched)
               PROVE  Exactly(a.logs, n, LogsIn(Canonical(n))')
    BY <1>1, <1>2 DEF LogsExact
  <2> QED  BY <2>1
<1> QED  BY <1>1, <1>3, <1>4, LoggingRests DEF LogInv

(***************************************************************************)
(* The steps of eth_getLogs.                                               *)
(***************************************************************************)
LEMMA FinalAt ==
  ASSUME SourcesInv
  PROVE  /\ FinHeight(dbAt) \in Nat \ {0}
         /\ \A n \in 1 .. FinHeight(dbAt) :
              /\ Canonical(n) \in Blocks /\ Height[Canonical(n)] = n
              /\ CanonAt(dbAt, n) = Canonical(n)
<1>1. history \in Histories /\ dbAt \in SyncedTo .. Len(history)
  BY DEF SourcesInv
<1>2. FinHeight(dbAt) \in Nat
  BY <1>1, FinFacts
<1>3. FinHeight(dbAt) # 0
  <2>1. PICK i \in 1 .. SyncedTo : history[i].state = "finalized"
    BY <1>1, HistoryFacts, Zenon
  <2>2. i \in 1 .. dbAt /\ i \in 1 .. Len(history) /\ IsFinal(i)
    BY <1>1, <2>1, HistoryFacts DEF IsFinal
  <2>3. Height[history[i].block] \in Nat \ {0}
    BY <1>1, <2>2, HistoryFacts
  <2>4. Height[history[i].block] <= FinHeight(dbAt)
    BY <1>1, <2>2, FinFacts
  <2> QED  BY <1>2, <2>3, <2>4
<1>4. ASSUME NEW n \in 1 .. FinHeight(dbAt)
      PROVE  Canonical(n) \in Blocks /\ Height[Canonical(n)] = n /\ CanonAt(dbAt, n) = Canonical(n)
  BY <1>1, CanonFacts
<1> QED  BY <1>2, <1>3, <1>4

LEMMA BlockAtKey ==
  ASSUME SourcesInv
  PROVE  /\ LatestKey.num \in Nat \ {0} /\ VotedKey.num \in Nat \ {0}
         /\ \A n \in Nat : BlockKey(n) # NoKey =>
              /\ n # 0 /\ BlockKey(n).num = n
              /\ DbBlock(BlockKey(n)) \in Blocks /\ Height[DbBlock(BlockKey(n))] = n
              /\ n <= FinHeight(dbAt) => DbBlock(BlockKey(n)) = Canonical(n)
<1>1. history \in Histories /\ dbAt \in SyncedTo .. Len(history) /\ FinHeight(dbAt) \in Nat
  BY FinFacts DEF SourcesInv
<1>2. ASSUME NEW n \in 1 .. FinHeight(dbAt)
      PROVE  /\ FinKey(n).num = n /\ DbBlock(FinKey(n)) \in Blocks /\ Height[DbBlock(FinKey(n))] = n
             /\ DbBlock(FinKey(n)) = Canonical(n)
  <2>1. FinKey(n).num = n /\ DbBlock(FinKey(n)) = CanonAt(dbAt, n)
    BY FinIsKey DEF DbBlock
  <2> QED  BY <2>1, FinalAt
<1>3. ASSUME NEW b \in Blocks
      PROVE  /\ KeyOfBlock(b).num = Height[b] /\ Height[b] \in Nat \ {0}
             /\ ~(Height[b] <= FinHeight(dbAt)) => DbBlock(KeyOfBlock(b)) = b
  <2>1. Height[b] \in Nat \ {0}
    BY TxsFacts
  <2>2. KeyOfBlock(b).num = Height[b]
    BY DEF KeyOfBlock, FinKey, PropKey
  <2>3. ASSUME ~(Height[b] <= FinHeight(dbAt)) PROVE DbBlock(KeyOfBlock(b)) = b
    <3>1. b \notin Finalized(dbAt)
      <4> SUFFICES ASSUME b \in Finalized(dbAt) PROVE FALSE
        OBVIOUS
      <4>1. PICK i \in 1 .. dbAt : IsFinal(i) /\ b = history[i].block
        BY DEF Finalized, Reached, IsFinal
      <4> QED  BY <1>1, <2>3, <4>1, FinFacts
    <3> QED  BY <3>1 DEF KeyOfBlock, PropKey, DbBlock
  <2> QED  BY <2>1, <2>2, <2>3
<1>4. Newest("proposed", dbAt) \in Blocks /\ Newest("voted", dbAt) \in Blocks
  BY <1>1, NewestFacts
<1>5. LatestKey.num \in Nat \ {0} /\ VotedKey.num \in Nat \ {0}
  BY <1>3, <1>4 DEF LatestKey, VotedKey
<1>6. ASSUME NEW n \in Nat, BlockKey(n) # NoKey
      PROVE  /\ n # 0 /\ BlockKey(n).num = n
             /\ DbBlock(BlockKey(n)) \in Blocks /\ Height[DbBlock(BlockKey(n))] = n
             /\ n <= FinHeight(dbAt) => DbBlock(BlockKey(n)) = Canonical(n)
  <2>1. CASE n \in 1 .. FinHeight(dbAt)
    <3>1. BlockKey(n) = FinKey(n)
      BY <2>1 DEF BlockKey
    <3> QED  BY <1>2, <2>1, <3>1
  <2>2. CASE n \notin 1 .. FinHeight(dbAt)
    <3>1. \E b \in Blocks : BlockKey(n) = KeyOfBlock(b) /\ KeyOfBlock(b).num = n
      BY <1>4, <1>6, <2>2 DEF BlockKey, LatestKey, VotedKey
    <3>2. PICK b \in Blocks : BlockKey(n) = KeyOfBlock(b) /\ KeyOfBlock(b).num = n
      BY <3>1
    <3>3. Height[b] = n /\ n # 0 /\ ~(n <= FinHeight(dbAt))
      BY <1>1, <1>3, <2>2, <3>2
    <3> QED  BY <1>3, <3>2, <3>3
  <2> QED  BY <2>1, <2>2
<1> QED  BY <1>5, <1>6

LEMMA TagKey ==
  ASSUME SourcesInv, NEW ref, IsTag(ref), get_block_key_from_tag(ref) # NoKey
  PROVE  get_block_key_from_tag(ref).num \in Nat \ {0}
<1>1. CASE ref.kind = "number"
  <2>1. ref.num \in Nat /\ get_block_key_from_tag(ref) = BlockKey(ref.num)
    BY <1>1 DEF IsTag, get_block_key_from_tag
  <2> QED  BY <2>1, BlockAtKey
<1>2. CASE ref.kind = "latest"
  BY <1>2, BlockAtKey DEF get_block_key_from_tag
<1>3. CASE ref.kind = "safe"
  BY <1>3, BlockAtKey DEF get_block_key_from_tag
<1>4. CASE ref.kind = "finalized"
  BY <1>4, FinalAt, FinIsKey DEF get_block_key_from_tag
<1> QED  BY <1>1, <1>2, <1>3, <1>4 DEF IsTag

LEMMA LeastOfTwo ==
  ASSUME NEW x \in Nat, NEW y \in Nat
  PROVE  /\ Min({x, y}) \in Nat
         /\ x <= y => Min({x, y}) = x
<1> DEFINE P(z) == \A v \in {x, y} : z <= v
<1>1. Min({x, y}) = CHOOSE z \in {x, y} : P(z)
  BY Zenon DEF Min
<1>2. P(x) \/ P(y)
  OBVIOUS
<1>3. Min({x, y}) \in {x, y} /\ P(Min({x, y}))
  <2> HIDE DEF P
  <2> QED  BY <1>1, <1>2
<1> QED  BY <1>3

LEMMA LogsLatestStep ==
  ASSUME Logging, LogsLatest
  PROVE  LogInv'
<1>1. pc = "buffer" /\ loc = Fresh
  BY DEF LogsLatest, Logging, LogInv, LogsAt
<1>2. /\ pc' = IF req.from.kind = "hash" THEN "logsHash" ELSE "logsFrom"
      /\ loc' = [loc EXCEPT !.idx = LatestKey.num] /\ UNCHANGED <<req, ans, begun>>
  BY DEF LogsLatest, Goto
<1>3. LatestKey.num \in Nat
  BY LoggingFacts, BlockAtKey
<1>4. loc' \in Ends
  BY <1>1, <1>2, <1>3 DEF Ends, Fresh
<1>5. LogsAt'
  BY <1>2, <1>4 DEF LogsAt
<1> QED  BY <1>2, <1>5, LogsGoOn

LEMMA StartLogsStep ==
  ASSUME Logging, loc \in Ends, NEW from \in Nat \ {0}, NEW to \in Nat, StartLogs(from, to)
  PROVE  LogInv'
<1>1. CASE from > to \/ to - from > MaxBlockRange
  <2>1. Answer(Failed)
    BY <1>1 DEF StartLogs
  <2> QED  BY <2>1, LogsAnswered DEF Failed
<1>2. CASE ~(from > to \/ to - from > MaxBlockRange)
  <2>1. /\ loc' = [loc EXCEPT !.h = from, !.idx = to] /\ pc' \in {"logsIndex", "logs"}
        /\ rows' = [n \in from .. to |-> Row("buffer", NoBlock)]
        /\ UNCHANGED <<req, ans, begun, faults>>
    BY <1>2 DEF StartLogs
  <2>2. loc'.h = from /\ loc'.idx = to
    BY <2>1 DEF Ends
  <2>3. from <= to
    BY <1>2
  <2>4. rows' \in [from .. to -> RowType] /\ \A n \in from .. to : rows'[n].st # "done"
    BY <2>1 DEF RowType, Row
  <2>5. RowsInv'
    BY <2>2, <2>3, <2>4 DEF RowsInv
  <2> QED  BY <2>1, <2>5, LogsGoOn DEF LogsAt
<1> QED  BY <1>1, <1>2

LEMMA LogsRangeStep ==
  ASSUME Logging, LogsRange
  PROVE  LogInv'
<1>1. /\ pc \in {"logsFrom", "logsTo"} /\ loc \in Ends /\ req.from.kind # "hash"
      /\ pc = "logsTo" => loc.h # 0
  BY DEF LogsRange, Logging, LogInv, LogsAt
<1>2. SourcesInv /\ IsTag(req.from) /\ IsTag(req.to)
  BY <1>1, LoggingFacts DEF IsRef
<1>3. CASE pc = "logsFrom"
  <2> DEFINE key == get_block_key_from_tag(req.from)
  <2>1. IF key = NoKey THEN Answer(Failed) ELSE Goto("logsTo", [loc EXCEPT !.h = key.num])
    BY <1>3 DEF LogsRange
  <2>2. CASE key = NoKey
    <3>1. Answer(Failed)
      BY <2>1, <2>2
    <3> QED  BY <3>1, LogsAnswered DEF Failed
  <2>3. CASE key # NoKey
    <3>1. key.num \in Nat \ {0}
      BY <1>2, <2>3, TagKey
    <3> HIDE DEF key
    <3>2. pc' = "logsTo" /\ loc' = [loc EXCEPT !.h = key.num] /\ UNCHANGED <<req, ans, begun>>
      BY <2>1, <2>3 DEF Goto
    <3>3. loc' \in Ends /\ loc'.h # 0
      BY <1>1, <3>1, <3>2 DEF Ends
    <3>4. LogsAt'
      BY <1>1, <3>2, <3>3 DEF LogsAt
    <3> QED  BY <3>2, <3>4, LogsGoOn
  <2> QED  BY <2>2, <2>3
<1>4. CASE pc = "logsTo"
  <2> DEFINE key == get_block_key_from_tag(req.to)
             to  == IF key = NoKey THEN loc.idx ELSE Min({key.num, loc.idx})
  <2>1. StartLogs(loc.h, to)
    BY <1>4 DEF LogsRange
  <2>2. loc.h \in Nat \ {0} /\ loc.idx \in Nat
    BY <1>1, <1>4 DEF Ends
  <2>3. to \in Nat
    <3>1. key # NoKey => key.num \in Nat
      BY <1>2, TagKey
    <3> HIDE DEF key
    <3> QED  BY <2>2, <3>1, LeastOfTwo
  <2> HIDE DEF to
  <2> QED  BY <1>1, <2>1, <2>2, <2>3, StartLogsStep
<1> QED  BY <1>1, <1>3, <1>4

LEMMA LogsAtHashStep ==
  ASSUME Logging, LogsAtHash
  PROVE  LogInv'
<1> DEFINE b == req.from.block
           n == DbNumber(b)
           archivedAt == try_get_block_number_by_hash(b)
           none == [kind |-> "logs", from |-> 1, to |-> 0, via |-> "none", logs |-> << >>]
<1>1. /\ pc \in {"logsHash", "logsAgain"}
      /\ \/ n # 0 /\ StartLogs(n, n)
         \/ archivedAt # 0 /\ StartLogs(archivedAt, archivedAt)
         \/ Goto("logsAgain", loc)
         \/ Answer(Failed)
         \/ Answer(none)
  BY Zenon DEF LogsAtHash
<1>2. req.from.kind = "hash" /\ loc \in Ends
  BY <1>1 DEF Logging, LogInv, LogsAt
<1>3. b \in Blocks /\ Height[b] \in Nat \ {0}
  BY <1>2, LoggingFacts, TxsFacts DEF IsRef, IsTag
<1>4. n # 0 => n \in Nat \ {0}
  BY <1>3 DEF DbNumber
<1>5. archivedAt # 0 => archivedAt \in Nat \ {0}
  BY <1>3 DEF try_get_block_number_by_hash
<1>6. CASE n # 0 /\ StartLogs(n, n)
  <2> HIDE DEF n
  <2> QED  BY <1>2, <1>4, <1>6, StartLogsStep
<1>7. CASE archivedAt # 0 /\ StartLogs(archivedAt, archivedAt)
  <2> HIDE DEF archivedAt
  <2> QED  BY <1>2, <1>5, <1>7, StartLogsStep
<1>8. CASE Goto("logsAgain", loc)
  <2>1. pc' = "logsAgain" /\ loc' = loc /\ UNCHANGED <<req, ans, begun>>
    BY <1>8 DEF Goto
  <2>2. LogsAt'
    BY <1>2, <2>1 DEF LogsAt
  <2> QED  BY <2>1, <2>2, LogsGoOn
<1>9. CASE Answer(Failed)
  BY <1>9, LogsAnswered DEF Failed
<1>10. CASE Answer(none)
  BY <1>10, LogsAnswered
<1> QED  BY <1>1, <1>6, <1>7, <1>8, <1>9, <1>10

\* The answer that a read failed, or the scan instead of the index.
LEMMA LookupFailsStep ==
  ASSUME Logging, LogsLookupFails
  PROVE  LogInv'
<1>1. UNCHANGED <<req, loc, rows, begun>>
  BY DEF LogsLookupFails
<1>2. CASE pc' = "done" /\ ans' = Response(req, Failed)
  <2>1. ans'.kind # "logs"
    BY <1>2, LoggingFacts DEF Response, Failed
  <2>2. LogsAt' /\ LogsExact'
    BY <1>2, <2>1 DEF LogsAt, LogsExact
  <2> QED  BY <1>1, <2>2, LoggingRests DEF LogInv
<1>3. CASE pc = "logsIndex" /\ pc' = "logs" /\ ans' = ans
  <2>1. RowsInv
    BY <1>3 DEF Logging, LogInv, LogsAt
  <2>2. \A n, b : Taken(n, b)' = Taken(n, b)
    BY <1>1, LoggingRests
  <2>3. RowsInv'
    BY <1>1, <2>1, <2>2 DEF RowsInv
  <2> QED  BY <1>1, <1>3, <2>3, LogsGoOn DEF LogsAt
<1> QED  BY <1>2, <1>3 DEF LogsLookupFails

\* Blocks of different numbers, with among them those that matter.
LEMMA CollectStep ==
  ASSUME Logging, NEW via, NEW bs \in Seq(Blocks),
         Answer(try_collect_logs_stream_with_heuristic_response_limit(bs, via)),
         \A i, j \in 1 .. Len(bs) : Height[bs[i]] = Height[bs[j]] => i = j,
         \A n \in loc.h .. loc.idx :
           (via = "index" \/ (n <= begun.fin /\ n \notin touched)) =>
             /\ Canonical(n) \in Blocks /\ Height[Canonical(n)] = n
             /\ \/ \E i \in 1 .. Len(bs) : bs[i] = Canonical(n)
                \/ ~Bloom(Canonical(n)) /\ \A i \in 1 .. Len(bs) : Height[bs[i]] # n
  PROVE  LogInv'
<1> DEFINE logs == FlattenSeq([i \in DOMAIN bs |-> LogsIn(bs[i])])
           a == [kind |-> "logs", from |-> loc.h, to |-> loc.idx, via |-> via, logs |-> logs]
<1>1. Answer(Failed) \/ Answer(a)
  BY DEF try_collect_logs_stream_with_heuristic_response_limit
<1>2. CASE Answer(Failed)
  BY <1>2, LogsAnswered DEF Failed
<1>3. CASE Answer(a)
  <2>1. a.from = loc.h /\ a.to = loc.idx /\ a.via = via /\ a.logs = logs
    OBVIOUS
  <2>2. ASSUME NEW n \in loc.h .. loc.idx, via = "index" \/ (n <= begun.fin /\ n \notin touched)
        PROVE  Exactly(logs, n, LogsIn(Canonical(n)))
    <3> DEFINE c == Canonical(n)
    <3>1. /\ c \in Blocks /\ Height[c] = n
          /\ \/ \E i \in 1 .. Len(bs) : bs[i] = c
             \/ ~Bloom(c) /\ \A i \in 1 .. Len(bs) : Height[bs[i]] # Height[c]
      BY <2>2
    <3> HIDE DEF c
    <3>2. Exactly(logs, Height[c], LogsIn(c))
      BY <3>1, JoinedLogs
    <3> QED  BY <3>1, <3>2 DEF c
  <2> HIDE DEF a
  <2> QED  BY <1>3, <2>1, <2>2, LogsAnswered
<1> QED  BY <1>1, <1>2, <1>3

LEMMA IndexStep ==
  ASSUME Logging, get_receipts_stream_using_index
  PROVE  LogInv'
<1> DEFINE from == loc.h
           to == loc.idx
           N == to + 1 - from
           Match(b) == IF Bloom(b) THEN <<b>> ELSE << >>
           C(i) == Canonical(from + i - 1)
           ss == [i \in 1 .. N |-> Match(C(i))]
           bs == FlattenSeq(ss)
<1>1. pc = "logsIndex" /\ RowsInv
  BY DEF get_receipts_stream_using_index, Logging, LogInv, LogsAt
<1>2. SourcesInv /\ archived <= FinHeight(dbAt)
  BY LoggingFacts
<1>3. CASE indexed < loc.idx
  <2>1. Goto("logs", loc)
    BY <1>3 DEF get_receipts_stream_using_index
  <2>2. pc' = "logs" /\ UNCHANGED <<loc, rows, req, ans, begun>>
    BY <2>1 DEF Goto
  <2>3. \A n, b : Taken(n, b)' = Taken(n, b)
    BY <2>2, LoggingRests
  <2>4. RowsInv'
    BY <1>1, <2>2, <2>3 DEF RowsInv
  <2> QED  BY <2>2, <2>4, LogsGoOn DEF LogsAt
<1>4. CASE ~(indexed < loc.idx)
  <2>1. from \in Nat \ {0} /\ to \in Nat /\ from <= to /\ to <= indexed /\ indexed \in Nat /\ N \in Nat
    BY <1>1, <1>2, <1>4 DEF RowsInv, SourcesInv
  <2>2. \A n \in from .. to : Canonical(n) \in Blocks /\ Height[Canonical(n)] = n
    <3>1. \A n \in from .. to : n \in 1 .. FinHeight(dbAt)
      BY <1>2, <2>1, FinalAt DEF SourcesInv
    <3> QED  BY <1>2, <3>1, FinalAt
  <2>3. Min({to, indexed}) = to
    BY <2>1, LeastOfTwo
  <2>4. query_logs(loc.h, loc.idx) = bs
    BY <2>3 DEF query_logs
  <2>5. Answer(try_collect_logs_stream_with_heuristic_response_limit(bs, "index"))
    BY <1>4, <2>4 DEF get_receipts_stream_using_index
  <2>6. \A i \in 1 .. N : from + i - 1 \in from .. to
    BY <2>1
  <2>7. \A i \in 1 .. N : C(i) \in Blocks /\ Height[C(i)] = from + i - 1
    BY <2>2, <2>6
  <2> HIDE DEF C
  <2>8. \A b \in Blocks : Match(b) \in Seq(Blocks) /\ Len(Match(b)) = (IF Bloom(b) THEN 1 ELSE 0)
                           /\ (Bloom(b) => Match(b)[1] = b)
    OBVIOUS
  <2> HIDE DEF Match
  <2>9. ss \in Seq(Seq(Blocks)) /\ Len(ss) = N /\ \A i \in 1 .. N : ss[i] = Match(C(i))
    <3> HIDE DEF N
    <3>1. \A i \in 1 .. N : Match(C(i)) \in Seq(Blocks)
      BY <2>7, <2>8
    <3> QED  BY <2>1, <3>1
  <2>10. PICK off : Joined(bs, off, ss, N, Blocks)
    <3> HIDE DEF ss, N
    <3> QED  BY <2>9, FlattenFacts
  <2> HIDE DEF ss, bs, N
  <2>11. /\ bs \in Seq(Blocks) /\ \A k \in 0 .. N : off[k] \in Nat
         /\ \A k \in 1 .. N : \A j \in 1 .. Len(ss[k]) :
              off[k - 1] + j \in 1 .. Len(bs) /\ bs[off[k - 1] + j] = ss[k][j]
         /\ \A p \in 1 .. Len(bs) : \E k \in 1 .. N : \E j \in 1 .. Len(ss[k]) : p = off[k - 1] + j
    BY <2>10 DEF Joined
  <2>12. \A k \in 1 .. N : Len(ss[k]) = (IF Bloom(C(k)) THEN 1 ELSE 0) /\ (Bloom(C(k)) => ss[k][1] = C(k))
    BY <2>7, <2>8, <2>9
  <2>13. \A p \in 1 .. Len(bs) : \E k \in 1 .. N : Bloom(C(k)) /\ p = off[k - 1] + 1 /\ bs[p] = C(k)
    <3> SUFFICES ASSUME NEW p \in 1 .. Len(bs)
                 PROVE  \E k \in 1 .. N : Bloom(C(k)) /\ p = off[k - 1] + 1 /\ bs[p] = C(k)
      OBVIOUS
    <3>1. PICK k \in 1 .. N : \E j \in 1 .. Len(ss[k]) : p = off[k - 1] + j
      BY <2>11
    <3>2. PICK j \in 1 .. Len(ss[k]) : p = off[k - 1] + j
      BY <3>1
    <3>3. Bloom(C(k)) /\ j = 1
      BY <2>12, <3>2
    <3> QED  BY <2>11, <2>12, <3>2, <3>3
  <2>14. \A i, j \in 1 .. Len(bs) : Height[bs[i]] = Height[bs[j]] => i = j
    <3> SUFFICES ASSUME NEW i \in 1 .. Len(bs), NEW j \in 1 .. Len(bs), Height[bs[i]] = Height[bs[j]]
                 PROVE  i = j
      OBVIOUS
    <3>1. PICK k \in 1 .. N : i = off[k - 1] + 1 /\ bs[i] = C(k)
      BY <2>13
    <3>2. PICK l \in 1 .. N : j = off[l - 1] + 1 /\ bs[j] = C(l)
      BY <2>13
    <3>3. from + k - 1 = from + l - 1
      BY <2>7, <3>1, <3>2
    <3>4. k = l
      BY <2>1, <3>3
    <3> QED  BY <3>1, <3>2, <3>4
  <2>15. ASSUME NEW n \in from .. to
         PROVE  \/ \E i \in 1 .. Len(bs) : bs[i] = Canonical(n)
                \/ ~Bloom(Canonical(n)) /\ \A i \in 1 .. Len(bs) : Height[bs[i]] # n
    <3> DEFINE k == n + 1 - from
    <3>1. k \in 1 .. N /\ from + k - 1 = n
      BY <2>1 DEF N
    <3>2. C(k) = Canonical(n)
      BY <3>1 DEF C
    <3> HIDE DEF k
    <3>3. CASE Bloom(C(k))
      <4>1. 1 \in 1 .. Len(ss[k])
        BY <2>12, <3>1, <3>3
      <4>2. off[k - 1] + 1 \in 1 .. Len(bs) /\ bs[off[k - 1] + 1] = C(k)
        BY <2>11, <2>12, <3>1, <3>3, <4>1
      <4> QED  BY <3>2, <4>2
    <3>4. CASE ~Bloom(C(k))
      <4>1. ASSUME NEW i \in 1 .. Len(bs), Height[bs[i]] = n PROVE FALSE
        <5>1. PICK l \in 1 .. N : Bloom(C(l)) /\ bs[i] = C(l)
          BY <2>13
        <5>2. from + l - 1 = n
          BY <2>7, <4>1, <5>1
        <5>3. l = k
          BY <2>1, <3>1, <5>2
        <5> QED  BY <3>4, <5>1, <5>3
      <4> QED  BY <3>2, <3>4, <4>1
    <3> QED  BY <3>3, <3>4
  <2> QED  BY <2>2, <2>5, <2>11, <2>14, <2>15, CollectStep
<1> QED  BY <1>3, <1>4

LEMMA RowStep ==
  ASSUME Logging, pc = "logs", NEW n \in DOMAIN rows, NEW row \in RowType,
         row.st = "done" => Taken(n, row.block),
         rows' = [rows EXCEPT ![n] = row], UNCHANGED <<req, pc, loc, ans, begun>>
  PROVE  LogInv'
<1>1. RowsInv
  BY DEF Logging, LogInv, LogsAt
<1>2. rows' = [rows EXCEPT ![n] = row] /\ UNCHANGED <<req, pc, loc, ans, begun>>
  OBVIOUS
<1>3. \A m, b : Taken(m, b)' = Taken(m, b)
  BY <1>2, LoggingRests
<1>4. rows' \in [loc.h .. loc.idx -> RowType]
  <2> HIDE DEF RowType
  <2> QED  BY <1>1, <1>2 DEF RowsInv
<1>5. \A m \in loc.h .. loc.idx : rows'[m] = IF m = n THEN row ELSE rows[m]
  BY <1>1, <1>2 DEF RowsInv
<1>6. \A m \in loc.h .. loc.idx : rows'[m].st = "done" => Taken(m, rows'[m].block)
  BY <1>1, <1>5 DEF RowsInv
<1>7. RowsInv'
  BY <1>1, <1>2, <1>3, <1>4, <1>6 DEF RowsInv
<1> QED  BY <1>2, <1>7, LogsGoOn DEF LogsAt

LEMMA FetchStep ==
  ASSUME Logging, NEW n \in DOMAIN rows,
         \/ get_bloom_filtered_header_transactions_receipts(n)
         \/ LogsFromDb(n)
         \/ fetch_bloom_filtered_header_transactions_receipts_from_archive(n)
  PROVE  LogInv'
<1>1. pc = "logs"
  BY DEF get_bloom_filtered_header_transactions_receipts, LogsFromDb,
         fetch_bloom_filtered_header_transactions_receipts_from_archive
<1>2. RowsInv
  BY <1>1 DEF Logging, LogInv, LogsAt
<1>3. n \in Nat \ {0}
  BY <1>2 DEF RowsInv
<1>4. /\ SourcesInv /\ BegunInv /\ BufferInv /\ HeldHeights \subseteq touched
      /\ archived <= FinHeight(dbAt) /\ FinHeight(dbAt) \in Nat /\ archived \in Nat
      /\ begun.fin \in Nat /\ begun.fin <= FinHeight(dbAt)
  BY LoggingFacts, FinalAt DEF SourcesInv, BegunInv
<1>5. \A st \in {"db", "archive", "error"} : Row(st, NoBlock) \in RowType /\ Row(st, NoBlock).st # "done"
  BY DEF Row, RowType
<1>6. \A b \in Blocks : Row("done", b) \in RowType /\ Row("done", b).block = b
  BY DEF Row, RowType
<1>7. CASE get_bloom_filtered_header_transactions_receipts(n)
  <2> DEFINE b == get_block_by_height(n)
  <2>1. SetRow(n, Row("db", NoBlock)) \/ (b # NoBlock /\ SetRow(n, Row("done", b)))
    BY <1>7 DEF get_bloom_filtered_header_transactions_receipts
  <2>2. b # NoBlock => n \in AllHeights /\ b = byHeight[n]
    BY DEF get_block_by_height
  <2>3. b # NoBlock => b \in Blocks /\ Height[b] = n /\ n \in touched
    BY <1>4, <2>2 DEF BufferInv, HeldHeights
  <2>4. b # NoBlock => Taken(n, b)
    BY <2>3 DEF Taken
  <2> HIDE DEF b
  <2> QED  BY <1>1, <1>5, <1>6, <2>1, <2>3, <2>4, RowStep DEF SetRow
<1>8. CASE LogsFromDb(n)
  <2> DEFINE key == BlockKey(n)
             b == DbBlock(key)
  <2>1. \/ SetRow(n, Row("error", NoBlock)) \/ SetRow(n, Row("archive", NoBlock))
        \/ key # NoKey /\ SetRow(n, Row("done", b))
    BY <1>8, Zenon DEF LogsFromDb
  <2>2. key # NoKey => b \in Blocks /\ Height[b] = n /\ (n <= FinHeight(dbAt) => b = Canonical(n))
    BY <1>3, <1>4, BlockAtKey
  <2>3. key # NoKey => Taken(n, b)
    BY <1>3, <1>4, <2>2 DEF Taken
  <2> HIDE DEF key, b
  <2> QED  BY <1>1, <1>5, <1>6, <2>1, <2>2, <2>3, RowStep DEF SetRow
<1>9. CASE fetch_bloom_filtered_header_transactions_receipts_from_archive(n)
  <2> DEFINE b == IF DbBody(FinKey(n)) /\ n <= FinHeight(dbAt) THEN CanonAt(dbAt, n)
                  ELSE try_get_block_by_number(n)
  <2>1. SetRow(n, Row("error", NoBlock)) \/ (b # NoBlock /\ SetRow(n, Row("done", b)))
    BY <1>9, Zenon DEF fetch_bloom_filtered_header_transactions_receipts_from_archive
  <2>2. b # NoBlock => n \in 1 .. FinHeight(dbAt) /\ b \in {CanonAt(dbAt, n), Canonical(n)}
    BY <1>3, <1>4 DEF try_get_block_by_number, Canonical
  <2>3. b # NoBlock => b \in Blocks /\ Height[b] = n /\ b = Canonical(n)
    <3> HIDE DEF b
    <3> QED  BY <1>4, <2>2, FinalAt
  <2>4. b # NoBlock => Taken(n, b)
    BY <2>3 DEF Taken
  <2> HIDE DEF b
  <2> QED  BY <1>1, <1>5, <1>6, <2>1, <2>3, <2>4, RowStep DEF SetRow
<1> QED  BY <1>7, <1>8, <1>9

LEMMA RowFailsStep ==
  ASSUME Logging, NEW n \in DOMAIN rows, LogsRowFails(n)
  PROVE  LogInv'
<1>1. pc = "logs" /\ UNCHANGED <<req, pc, loc, ans, begun>>
  BY DEF LogsRowFails
<1>2. PICK st \in {"error", "archive"} : rows' = [rows EXCEPT ![n] = Row(st, NoBlock)]
  BY DEF LogsRowFails
<1>3. Row(st, NoBlock) \in RowType /\ Row(st, NoBlock).st # "done"
  BY DEF Row, RowType
<1> QED  BY <1>1, <1>2, <1>3, RowStep

LEMMA LogsCollectStep ==
  ASSUME Logging, LogsCollect
  PROVE  LogInv'
<1> DEFINE from == loc.h
           to == loc.idx
           N == to + 1 - from
           bs == [i \in 1 .. N |-> rows[from + i - 1].block]
<1>1. pc = "logs" /\ RowsInv
  BY DEF LogsCollect, Logging, LogInv, LogsAt
<1>2. from \in Nat \ {0} /\ to \in Nat /\ from <= to /\ N \in Nat /\ DOMAIN rows = from .. to
  BY <1>1 DEF RowsInv
<1>3. CASE \E n \in DOMAIN rows : rows[n].st = "error"
  <2>1. Answer(Failed)
    BY <1>3 DEF LogsCollect
  <2> QED  BY <2>1, LogsAnswered DEF Failed
<1>4. CASE ~\E n \in DOMAIN rows : rows[n].st = "error"
  <2>1. Answer(try_collect_logs_stream_with_heuristic_response_limit(bs, "scan"))
    BY <1>4 DEF LogsCollect
  <2>2. \A n \in from .. to : Taken(n, rows[n].block)
    <3>1. \A n \in from .. to : rows[n].st = "done"
      BY <1>2, <1>4 DEF LogsCollect
    <3> QED  BY <1>1, <3>1 DEF RowsInv
  <2>3. \A i \in 1 .. N : from + i - 1 \in from .. to /\ bs[i] = rows[from + i - 1].block
    BY <1>2
  <2>4. \A i \in 1 .. N : bs[i] \in Blocks /\ Height[bs[i]] = from + i - 1
    <3> HIDE DEF bs
    <3> QED  BY <2>2, <2>3 DEF Taken
  <2>5. bs \in Seq(Blocks) /\ Len(bs) = N
    <3>1. \A i \in 1 .. N : rows[from + i - 1].block \in Blocks
      BY <2>3, <2>4
    <3> HIDE DEF N
    <3> QED  BY <1>2, <3>1
  <2> HIDE DEF bs
  <2>6. \A i, j \in 1 .. Len(bs) : Height[bs[i]] = Height[bs[j]] => i = j
    <3> SUFFICES ASSUME NEW i \in 1 .. N, NEW j \in 1 .. N, Height[bs[i]] = Height[bs[j]] PROVE i = j
      BY <2>5
    <3>1. from + i - 1 = from + j - 1
      BY <2>4
    <3> QED  BY <1>2, <3>1
  <2>7. ASSUME NEW n \in from .. to, n <= begun.fin, n \notin touched
        PROVE  /\ Canonical(n) \in Blocks /\ Height[Canonical(n)] = n
               /\ \E i \in 1 .. Len(bs) : bs[i] = Canonical(n)
    <3> DEFINE k == n + 1 - from
    <3>1. k \in 1 .. N /\ from + k - 1 = n
      BY <1>2
    <3>2. rows[n].block = Canonical(n) /\ Canonical(n) \in Blocks /\ Height[Canonical(n)] = n
      BY <2>2, <2>7 DEF Taken
    <3> HIDE DEF k
    <3>3. bs[k] = Canonical(n)
      BY <2>3, <3>1, <3>2
    <3> QED  BY <2>5, <3>1, <3>2, <3>3
  <2>8. "scan" # "index"
    OBVIOUS
  <2> QED  BY <2>1, <2>5, <2>6, <2>7, <2>8, CollectStep
<1> QED  BY <1>3, <1>4

LEMMA GetLogsStep ==
  ASSUME IInv, LogInv, get_logs, UNCHANGED srcVars, touched' = touched
  PROVE  LogInv'
<1>1. Logging
  BY LogsShape DEF Logging
<1> QED  BY <1>1, LogsLatestStep, LogsRangeStep, LogsAtHashStep, IndexStep, LookupFailsStep,
            LogsCollectStep, FetchStep, RowFailsStep DEF get_logs

(***************************************************************************)
(* The other steps, which eth_getLogs does not see.                        *)
(***************************************************************************)
LEMMA OtherShape ==
  ASSUME Step, ~get_logs
  PROVE  pc \notin {"idle", "done"} /\ req.m # "logs" /\ req' = req
<1>1. pc \notin {"idle", "done"} /\ req.m # "logs"
  BY DEF Step, get_transaction_receipt, get_transaction,
         get_transaction_with_block_and_index, get_block_header, get_block, get_raw_receipts,
         get_block_receipts, get_block_call_frames, get_transaction_call_frame, get_state, ReadFails,
         get_receipt_by_tx_hash, get_transaction_by_hash, Locate, DbTx, ArchiveTx, Resolve, TriedbPointer,
         resolve_block_height_from_buffer, get_block_by_hash, BufferBlock, DbContents, FailsOver,
         ArchiveContents, get_receipts_by_block_height, NoBuffer
<1>2. req' = req
  BY DEF Step, get_transaction_receipt, get_transaction,
         get_transaction_with_block_and_index, get_block_header, get_block, get_raw_receipts,
         get_block_receipts, get_block_call_frames, get_transaction_call_frame, get_state, ReadFails,
         get_receipt_by_tx_hash, get_transaction_by_hash, Locate, DbTx, ArchiveTx, Resolve, TriedbPointer,
         resolve_block_height_from_buffer, get_block_by_hash, BufferBlock, DbContents, FailsOver,
         ArchiveContents, get_receipts_by_block_height, NoBuffer, GiveUp, ToArchive,
         get_transaction_by_location, Goto, Answer
<1> QED  BY <1>1, <1>2

LEMMA OtherStep ==
  ASSUME IInv, LogInv, Step, ~get_logs, UNCHANGED srcVars, touched' = touched
  PROVE  LogInv'
<1>1. pc \notin {"idle", "done"} /\ req'.m # "logs"
  BY OtherShape
<1>2. UNCHANGED <<history, dbAt, archived, bufAt, byHeight, ring, todo>>
  BY DEF srcVars, dbVars, bufVars
<1>3. (archived <= FinHeight(dbAt))'
  <2>1. FinHeight(dbAt)' = FinHeight(dbAt)
    BY <1>2 DEF FinHeight, Finalized, Reached
  <2> QED  BY <1>2, <2>1 DEF LogInv
<1>4. BufferInv'
  BY <1>2 DEF LogInv, BufferInv
<1>5. TouchedInv'
  BY <1>1, <1>2 DEF LogInv, TouchedInv, HeldHeights
<1> QED  BY <1>1, <1>3, <1>4, <1>5 DEF LogInv, LogsAt, LogsExact

(***************************************************************************)
(* The writer of the buffer.                                               *)
(***************************************************************************)
LEMMA OpsOfBlock ==
  ASSUME NEW b \in Blocks
  PROVE  /\ DropTxs(b) \in Seq(Ops) /\ PutTxs(b) \in Seq(Ops)
         /\ Height[b] \in AllHeights
         /\ \A o \in {"putHeight", "putHash", "delHash"} : <<[op |-> o, block |-> b]>> \in Seq(Ops)
<1> DEFINE N == Len(Txs[b])
           drop(i) == [op |-> "delTx", tx |-> Txs[b][i]]
           put(i) == [op |-> "putTx", tx |-> Txs[b][i], loc |-> [block |-> b, idx |-> i]]
<1>1. N \in Nat /\ DOMAIN Txs[b] = 1 .. N /\ \A i \in 1 .. N : Txs[b][i] \in TxHashes
  BY TxsFacts
<1>2. \A i \in 1 .. N : drop(i) \in Ops
  BY <1>1 DEF Ops
<1>3. \A i \in 1 .. N : put(i) \in Ops
  BY <1>1 DEF Ops
<1>4. DropTxs(b) = [i \in 1 .. N |-> drop(i)] /\ PutTxs(b) = [i \in 1 .. N |-> put(i)]
  BY <1>1 DEF DropTxs, PutTxs
<1>5. \A o \in {"putHeight", "putHash", "delHash"} : [op |-> o, block |-> b] \in Ops
  BY DEF Ops
<1>6. \A x \in Ops : <<x>> \in Seq(Ops)
  <2> HIDE DEF Ops
  <2> QED  OBVIOUS
<1>7. Height[b] \in AllHeights
  BY DEF AllHeights
<1> HIDE DEF drop, put, N
<1>8. [i \in 1 .. N |-> drop(i)] \in Seq(Ops) /\ [i \in 1 .. N |-> put(i)] \in Seq(Ops)
  <2> HIDE DEF Ops
  <2> QED  BY <1>1, <1>2, <1>3
<1> QED  BY <1>4, <1>5, <1>6, <1>7, <1>8

LEMMA BufferTakeKeeps ==
  ASSUME SourcesInv, BufferInv, BufferTake
  PROVE  BufferInv'
<1> DEFINE e == history[bufAt + 1]
           b == e.block
           known == e.state # "proposed" /\ heightByHash[b] # 0
<1>1. /\ bufAt < Len(history) /\ bufAt' = bufAt + 1 /\ byHeight' = byHeight
      /\ todo' = IF known THEN << >> ELSE InsertOps(b)
      /\ ring' = IF known THEN ring
                 ELSE <<Height[b]>> \o SubSeq(ring, 1, Min({Len(ring), BufferCapacity - 1}))
  BY DEF BufferTake
<1>2. bufAt \in Nat /\ ring \in Seq(AllHeights) /\ Len(ring) \in Nat
      /\ byHeight \in [AllHeights -> Blocks \cup {NoBlock}]
  BY LenProperties DEF BufferInv
<1>3. b \in Blocks
  <2>1. Len(history) \in Nat /\ \A i \in 1 .. Len(history) : history[i].block \in Blocks
    BY HistoryFacts DEF SourcesInv
  <2>2. bufAt + 1 \in 1 .. Len(history)
    BY <1>1, <1>2, <2>1
  <2> QED  BY <2>1, <2>2
<1> HIDE DEF b, known
<1>4. Height[b] \in AllHeights
  BY <1>3, OpsOfBlock
<1>5. ring' \in Seq(AllHeights)
  <2> DEFINE m == Min({Len(ring), BufferCapacity - 1})
  <2>1. m \in Nat /\ m <= Len(ring)
    <3>1. BufferCapacity - 1 \in Nat
      BY SourcesAssumption
    <3> QED  BY <1>2, <3>1, LeastOfTwo
  <2> HIDE DEF m
  <2>2. SubSeq(ring, 1, m) \in Seq(AllHeights)
    <3>1. \A i \in 1 .. m : ring[i] \in AllHeights
      BY <1>2, <2>1, ElementOfSeq
    <3> QED  BY <2>1, <3>1, SubSeqProperties
  <2>3. <<Height[b]>> \in Seq(AllHeights)
    BY <1>4
  <2>4. <<Height[b]>> \o SubSeq(ring, 1, m) \in Seq(AllHeights)
    BY <2>2, <2>3, ConcatProperties
  <2> QED  BY <1>1, <1>2, <2>4 DEF m
<1>6. << >> \in Seq(Ops)
  OBVIOUS
<1>7. \A x, y \in Seq(Ops) : x \o y \in Seq(Ops)
  BY ConcatProperties
<1>8. RemoveOld(byHeight[Height[b]]) \in Seq(Ops)
  <2> DEFINE old == byHeight[Height[b]]
  <2>1. old \in Blocks \cup {NoBlock}
    BY <1>2, <1>4
  <2> HIDE DEF old
  <2>2. CASE old = NoBlock
    BY <1>6, <2>2 DEF RemoveOld, old
  <2>3. CASE old # NoBlock
    <3>1. <<[op |-> "delHash", block |-> old]>> \in Seq(Ops) /\ DropTxs(old) \in Seq(Ops)
      BY <2>1, <2>3, OpsOfBlock
    <3>2. RemoveOld(old) = <<[op |-> "delHash", block |-> old]>> \o DropTxs(old)
      BY <2>3 DEF RemoveOld
    <3> QED  BY <1>7, <3>1, <3>2 DEF old
  <2> QED  BY <2>2, <2>3
<1>9. Evictions(b) \in Seq(Ops)
  <2> DEFINE rest == <<Height[b]>> \o ring
             out == rest[Len(rest)]
             old == IF out = Height[b] THEN b ELSE byHeight[out]
             L == <<[op |-> "delHeight", num |-> out]>> \o DropTxs(old) \o <<[op |-> "delHash", block |-> old]>>
  <2>1. Evictions(b) = << >> \/ (old # NoBlock /\ Evictions(b) = L)
    BY DEF Evictions
  <2>2. rest \in Seq(AllHeights) /\ Len(rest) \in 1 .. Len(rest)
    <3>1. <<Height[b]>> \in Seq(AllHeights) /\ Len(<<Height[b]>>) = 1
      BY <1>4
    <3>2. rest \in Seq(AllHeights) /\ Len(rest) = 1 + Len(ring)
      BY <1>2, <3>1, ConcatProperties
    <3> HIDE DEF rest
    <3> QED  BY <1>2, <3>2
  <2> HIDE DEF rest
  <2>3. out \in AllHeights
    BY <2>2, ElementOfSeq
  <2> HIDE DEF out
  <2>4. old # NoBlock => old \in Blocks
    BY <1>2, <1>3, <2>3
  <2> HIDE DEF old
  <2>5. ASSUME old # NoBlock PROVE L \in Seq(Ops)
    <3> DEFINE first == <<[op |-> "delHeight", num |-> out]>>
               last == <<[op |-> "delHash", block |-> old]>>
    <3>1. last \in Seq(Ops) /\ DropTxs(old) \in Seq(Ops)
      BY <2>4, <2>5, OpsOfBlock
    <3>2. first \in Seq(Ops)
      <4>1. [op |-> "delHeight", num |-> out] \in Ops
        BY <2>3 DEF Ops
      <4> DEFINE x == [op |-> "delHeight", num |-> out]
      <4> HIDE DEF x, Ops
      <4> QED  BY <4>1 DEF x
    <3> HIDE DEF first, last
    <3>3. first \o DropTxs(old) \o last \in Seq(Ops)
      BY <1>7, <3>1, <3>2
    <3> QED  BY <3>3 DEF first, last
  <2> HIDE DEF L
  <2> QED  BY <1>6, <2>1, <2>5
<1>10. InsertOps(b) \in Seq(Ops)
  <2> DEFINE u == <<[op |-> "putHeight", block |-> b]>>
             v == RemoveOld(byHeight[Height[b]])
             w == <<[op |-> "putHash", block |-> b]>>
             x == PutTxs(b)
             y == Evictions(b)
  <2>1. u \in Seq(Ops) /\ w \in Seq(Ops) /\ x \in Seq(Ops) /\ v \in Seq(Ops) /\ y \in Seq(Ops)
    BY <1>3, <1>8, <1>9, OpsOfBlock
  <2>2. InsertOps(b) = u \o v \o w \o x \o y
    BY DEF InsertOps
  <2> HIDE DEF u, v, w, x, y
  <2> QED  BY <1>7, <2>1, <2>2
<1>11. todo' \in Seq(Ops)
  BY <1>1, <1>6, <1>10
<1>12. /\ bufAt' \in Nat /\ byHeight' \in [AllHeights -> Blocks \cup {NoBlock}]
       /\ \A n \in AllHeights : byHeight'[n] # NoBlock => Height[byHeight'[n]] = n
  <2>1. byHeight' = byHeight /\ bufAt' = bufAt + 1
    BY <1>1
  <2> QED  BY <1>2, <2>1 DEF BufferInv
<1> QED  BY <1>5, <1>11, <1>12 DEF BufferInv

LEMMA BufferStepKeeps ==
  ASSUME BufferInv, NEW held, BufferStep(held)
  PROVE  BufferInv'
<1> DEFINE o == Head(todo)
<1>1. /\ todo # << >> /\ todo' = Tail(todo) /\ UNCHANGED <<bufAt, ring>>
      /\ byHeight' = CASE o.op = "putHeight" -> [byHeight EXCEPT ![Height[o.block]] = o.block]
                       [] o.op = "delHeight" -> [byHeight EXCEPT ![o.num] = NoBlock]
                       [] OTHER -> byHeight
  BY DEF BufferStep
<1>2. todo \in Seq(Ops) /\ byHeight \in [AllHeights -> Blocks \cup {NoBlock}]
      /\ \A n \in AllHeights : byHeight[n] # NoBlock => Height[byHeight[n]] = n
  BY DEF BufferInv
<1>3. o \in Ops /\ Tail(todo) \in Seq(Ops)
  <2> HIDE DEF Ops
  <2> QED  BY <1>1, <1>2, HeadTailProperties
<1> HIDE DEF o
<1>4. o.op = "putHeight" => o.block \in Blocks /\ Height[o.block] \in AllHeights
  <2>1. o.op = "putHeight" => o.block \in Blocks
    BY <1>3 DEF Ops
  <2> QED  BY <2>1, OpsOfBlock
<1>5. CASE o.op = "putHeight"
  <2>1. byHeight' = [byHeight EXCEPT ![Height[o.block]] = o.block]
    BY <1>1, <1>5
  <2>2. /\ byHeight' \in [AllHeights -> Blocks \cup {NoBlock}]
        /\ \A n \in AllHeights : byHeight'[n] # NoBlock => Height[byHeight'[n]] = n
    BY <1>2, <1>4, <1>5, <2>1
  <2> QED  BY <1>1, <1>3, <2>2 DEF BufferInv
<1>6. CASE o.op = "delHeight"
  <2>1. byHeight' = [byHeight EXCEPT ![o.num] = NoBlock]
    BY <1>1, <1>6
  <2>2. /\ byHeight' \in [AllHeights -> Blocks \cup {NoBlock}]
        /\ \A n \in AllHeights : byHeight'[n] # NoBlock => Height[byHeight'[n]] = n
    BY <1>2, <2>1
  <2> QED  BY <1>1, <1>3, <2>2 DEF BufferInv
<1>7. CASE o.op \notin {"putHeight", "delHeight"}
  <2>1. byHeight' = byHeight
    BY <1>1, <1>7
  <2> QED  BY <1>1, <1>3, <2>1 DEF BufferInv
<1> QED  BY <1>5, <1>6, <1>7

LEMMA LogSourcesStep ==
  ASSUME IInv, LogInv, pc # "done", Sources(Held), UNCHANGED <<req, pc, loc, rows, ans, begun, faults>>,
         touched' = IF pc = "idle" THEN {}
                    ELSE touched \cup {n \in AllHeights : byHeight'[n] # NoBlock}
  PROVE  LogInv'
<1>1. SourcesInv /\ BufferInv /\ archived <= FinHeight(dbAt) /\ RequestInv
  BY DEF IInv, LogInv
<1>2. history \in Histories /\ dbAt \in SyncedTo .. Len(history) /\ Len(history) \in Nat /\ SyncedTo \in Nat
      /\ archived \in Nat /\ FinHeight(dbAt) \in Nat
  BY <1>1, HistoryFacts, FinFacts DEF SourcesInv
<1>3. history' = history /\ (archived <= FinHeight(dbAt))' /\ BufferInv'
  <2>1. CASE DbFollows
    <3>1. dbAt' = dbAt + 1 /\ dbAt < Len(history) /\ UNCHANGED <<history, archived, bufAt, byHeight, ring, todo>>
      BY <2>1 DEF DbFollows, bufVars
    <3>2. dbAt' \in dbAt .. Len(history) /\ dbAt' \in SyncedTo .. Len(history)
      BY <1>2, <3>1
    <3>3. FinHeight(dbAt) <= FinHeight(dbAt') /\ FinHeight(dbAt') \in Nat
      BY <1>2, <3>2, FinGrows, FinFacts
    <3>4. FinHeight(dbAt)' = FinHeight(dbAt')
      BY <3>1 DEF FinHeight, Finalized, Reached
    <3>5. (archived <= FinHeight(dbAt))'
      BY <1>1, <1>2, <3>1, <3>3, <3>4
    <3> QED  BY <1>1, <3>1, <3>5 DEF BufferInv
  <2>2. CASE Prune \/ IndexLogs
    <3>1. UNCHANGED <<history, dbAt, archived, bufAt, byHeight, ring, todo>>
      BY <2>2 DEF Prune, IndexLogs, bufVars
    <3>2. FinHeight(dbAt)' = FinHeight(dbAt)
      BY <3>1 DEF FinHeight, Finalized, Reached
    <3> QED  BY <1>1, <3>1, <3>2 DEF BufferInv
  <2>3. CASE Archive
    <3>1. archived' = archived + 1 /\ archived < FinHeight(dbAt)
          /\ UNCHANGED <<history, dbAt, bufAt, byHeight, ring, todo>>
      BY <2>3 DEF Archive, bufVars
    <3>2. FinHeight(dbAt)' = FinHeight(dbAt)
      BY <3>1 DEF FinHeight, Finalized, Reached
    <3>3. archived' <= FinHeight(dbAt)
      BY <1>2, <3>1
    <3> QED  BY <1>1, <3>1, <3>2, <3>3 DEF BufferInv
  <2>4. CASE BufferTake \/ BufferStep(Held)
    <3>1. UNCHANGED <<history, dbAt, archived>>
      BY <2>4 DEF BufferTake, BufferStep, dbVars
    <3>2. FinHeight(dbAt)' = FinHeight(dbAt)
      BY <3>1 DEF FinHeight, Finalized, Reached
    <3>3. BufferInv'
      BY <1>1, <2>4, BufferTakeKeeps, BufferStepKeeps
    <3> QED  BY <1>1, <3>1, <3>2, <3>3
  <2> QED  BY <2>1, <2>2, <2>3, <2>4 DEF Sources
<1>4. TouchedInv'
  BY DEF TouchedInv, HeldHeights
<1>5. \A n : Canonical(n)' = Canonical(n)
  BY <1>3 DEF Canonical, CanonAt, Finalized, Reached
<1>6. ASSUME req.m = "logs", pc \in {"logs", "logsIndex"} PROVE RowsInv'
  <2>1. RowsInv /\ touched \subseteq touched'
    BY <1>6 DEF LogInv, LogsAt
  <2>2. \A n, b : Taken(n, b) => Taken(n, b)'
    BY <1>5, <2>1 DEF Taken
  <2> QED  BY <2>1, <2>2 DEF RowsInv
<1>7. LogsAt'
  BY <1>6 DEF LogInv, LogsAt
<1>8. LogsExact'
  <2>1. ans' = NoAns
    BY <1>1 DEF RequestInv
  <2> QED  BY <2>1 DEF LogsExact, NoAns
<1> QED  BY <1>3, <1>4, <1>7, <1>8 DEF LogInv

(***************************************************************************)
(* The theorem about eth_getLogs.                                          *)
(***************************************************************************)
LEMMA LogInvInit == Init => LogInv
<1> SUFFICES ASSUME Init PROVE LogInv
  OBVIOUS
<1>1. /\ history \in Histories /\ dbAt = SyncedTo /\ bufAt = SyncedTo /\ archived = 1
      /\ byHeight = [n \in AllHeights |-> NoBlock] /\ ring = << >> /\ todo = << >>
      /\ req = NoReq /\ pc = "idle" /\ ans = NoAns
  BY DEF Init, SourcesInit
<1>2. SourcesInv
  BY IInvInit DEF IInv
<1>3. archived <= FinHeight(dbAt)
  BY <1>1, <1>2, FinalAt
<1>4. BufferInv
  <2>1. SyncedTo \in Nat
    BY <1>1, HistoryFacts
  <2>2. << >> \in Seq(AllHeights) /\ << >> \in Seq(Ops)
    OBVIOUS
  <2> QED  BY <1>1, <2>1, <2>2 DEF BufferInv
<1> QED  BY <1>1, <1>3, <1>4 DEF LogInv, TouchedInv, LogsAt, LogsExact, NoReq

LEMMA LogInvStep == IInv /\ LogInv /\ [Next]_vars => LogInv'
<1> SUFFICES ASSUME IInv, LogInv, [Next]_vars PROVE LogInv'
  OBVIOUS
<1>1. CASE UNCHANGED vars
  <2>1. /\ UNCHANGED <<history, dbAt, archived, bufAt, byHeight, ring, todo>>
        /\ UNCHANGED <<req, pc, loc, rows, ans, begun, touched>>
    BY <1>1 DEF vars, reqVars, srcVars, dbVars, bufVars
  <2>2. FinHeight(dbAt)' = FinHeight(dbAt)
    BY <2>1 DEF FinHeight, Finalized, Reached
  <2>3. \A n : Canonical(n)' = Canonical(n)
    BY <2>1 DEF Canonical, CanonAt, Finalized, Reached
  <2>4. \A n : LogsIn(Canonical(n))' = LogsIn(Canonical(n))
    BY <2>1 DEF LogsIn, header_transactions_receipts_to_block_number_logs, receipt_envelope_to_logs_iter,
         parse_receipt_envelope, Canonical, CanonAt, Finalized, Reached
  <2>5. (archived <= FinHeight(dbAt))' /\ BufferInv' /\ TouchedInv'
    BY <2>1, <2>2 DEF LogInv, BufferInv, TouchedInv, HeldHeights
  <2>6. LogsAt'
    <3>1. \A n, b : Taken(n, b)' = Taken(n, b)
      BY <2>1, <2>3 DEF Taken
    <3>2. RowsInv => RowsInv'
      BY <2>1, <3>1 DEF RowsInv
    <3> QED  BY <2>1, <3>2 DEF LogInv, LogsAt
  <2>7. LogsExact'
    BY <2>1, <2>4 DEF LogInv, LogsExact
  <2> QED  BY <2>5, <2>6, <2>7 DEF LogInv
<1>2. ASSUME Step, UNCHANGED srcVars,
             touched' = IF pc = "idle" THEN HeldHeights ELSE IF pc = "done" THEN {} ELSE touched
      PROVE  LogInv'
  <2>1. touched' = touched
    BY <1>2, LogsShape, OtherShape
  <2> QED  BY <1>2, <2>1, GetLogsStep, OtherStep
<1>3. ASSUME (\E r \in Requests : Begin(r)) \/ Finish, UNCHANGED srcVars,
             touched' = IF pc = "idle" THEN HeldHeights ELSE IF pc = "done" THEN {} ELSE touched
      PROVE  LogInv'
  <2>1. \/ pc = "idle" /\ pc' = "buffer" /\ UNCHANGED <<loc, ans>>
        \/ pc' = "idle" /\ req' = NoReq
    BY <1>3 DEF Begin, Finish
  <2>2. UNCHANGED <<history, dbAt, archived, bufAt, byHeight, ring, todo>>
    BY <1>3 DEF srcVars, dbVars, bufVars
  <2>3. FinHeight(dbAt)' = FinHeight(dbAt) /\ HeldHeights' = HeldHeights
    BY <2>2 DEF FinHeight, Finalized, Reached, HeldHeights
  <2>4. (archived <= FinHeight(dbAt))' /\ BufferInv'
    BY <2>2, <2>3 DEF LogInv, BufferInv
  <2>5. TouchedInv'
    BY <1>3, <2>1, <2>3 DEF TouchedInv
  <2>6. LogsAt' /\ LogsExact'
    <3>1. pc = "idle" => loc = Fresh /\ ans = NoAns
      BY DEF IInv, RequestInv
    <3> QED  BY <2>1, <3>1 DEF LogsAt, LogsExact, NoReq, NoAns
  <2> QED  BY <2>4, <2>5, <2>6 DEF LogInv
<1>4. CASE Next
  BY <1>2, <1>3, <1>4, LogSourcesStep DEF Next
<1> QED  BY <1>1, <1>4

\* eth_getLogs never loses, doubles, adds or reorders a log: for every finalized
\* block of the range that the buffer did not hold, and for every block when
\* the index answers, the answer has exactly the matching logs of that block in
\* one run, whatever was proposed, finalized, pruned, archived or indexed while
\* the blocks were fetched one by one from three sources.
THEOREM LogsAreExact == Spec => []LogsExact
<1>1. Spec => [](IInv /\ LogInv)
  BY IInvInit, IInvStep, LogInvInit, LogInvStep, PTL DEF Spec
<1>2. LogInv => LogsExact
  BY DEF LogInv
<1> QED  BY <1>1, <1>2, PTL
=============================================================================
