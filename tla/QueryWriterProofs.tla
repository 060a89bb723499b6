-------------------------- MODULE QueryWriterProofs --------------------------
(***************************************************************************)
(* Proofs about QueryWriter, for every chain, batch size, partition size   *)
(* and number of crashes: the types are kept, the index is recoverable     *)
(* after any prefix of a flush, committed records never change, the staged *)
(* flush implements the atomic append of QueryIndex, queries find all      *)
(* committed records and nothing else, and the validator of QueryValidator *)
(* has nothing to report about committed blocks.                           *)
(***************************************************************************)
EXTENDS QueryValidator, FiniteSetTheorems, TLAPS

(* Memory against disk: what a running process believes to be committed    *)
(* is what the state index says, but for a start block that has not been   *)
(* written yet.                                                            *)
MemoryAgrees ==
  /\ stateIndex.started => stateIndex.start < stateIndex.next[BlockHeader]
  /\ ~stateIndex.started => stateIndex = DefaultState
  /\ up => \/ stateIndex.started /\ state = stateIndex
           \/ stateIndex = DefaultState /\ state = StartAt(DefaultState)
  /\ ~up => stage = "idle" /\ pending = <<>>
  /\ \A k \in 1 .. Len(pending) : pending[k].number = state.next[BlockHeader] + k - 1

(* The batch of a flush in progress. *)
BatchShape ==
  /\ stage = "idle" => ranges = <<>>
  /\ stage \in {"idle", "assign"} => bufs = EmptyTable
  /\ stage # "idle" =>
       /\ up /\ pending # <<>>
       /\ Len(ranges) <= Len(pending)
       /\ stage # "assign" => Len(ranges) = Len(pending)
       /\ \A k \in 1 .. Len(ranges) : \A f \in Family :
            ranges[k][f].count = Len(pending[k].rows[f])
       /\ cursor[BlockHeader] = state.next[BlockHeader] + Len(ranges)
       /\ \A f \in Family : state.next[f] <= cursor[f]
       /\ stage = "append" => state.next[fam] <= nid /\ nid <= cursor[fam]
       /\ stage = "payload" => nid = cursor[fam]

(* Ids of family f below Prepared[f] have been given a place in a blob. *)
Prepared ==
  [f \in Family |->
     IF stage \in {"idle", "assign"} THEN state.next[f]
     ELSE IF stage \in {"append", "payload"}
       THEN IF f < fam THEN cursor[f] ELSE IF f = fam THEN nid ELSE state.next[f]
       ELSE cursor[f]]

(* The new contents of a blob are still in memory only. *)
Buffered(f, p) ==
  /\ f = fam
  /\ stage = "append" \/ (stage = "payload" /\ p \in unput)

(* The locations gathered so far: one for each prepared id and no other,   *)
(* in order, after every committed location of the same blob, and within   *)
(* the bytes of that blob.                                                 *)
NewLocations ==
  /\ up => \A f \in Family, id \in Nat :
       <<f, id>> \in DOMAIN locs <=> state.next[f] <= id /\ id < Prepared[f]
  /\ ~up => DOMAIN locs = {}
  /\ \A f \in Family : \A id, jd \in Nat :
       <<f, id>> \in DOMAIN locs /\ <<f, jd>> \in DOMAIN locs
         /\ jd <= id /\ Partition(jd) = Partition(id)
         => locs[<<f, jd>>] <= locs[<<f, id>>]
  /\ \A f \in Family : \A id \in Nat : \A jd \in CommittedIds(stateIndex, f) :
       <<f, id>> \in DOMAIN locs /\ Partition(jd) = Partition(id)
         => location[<<f, jd>>] <= locs[<<f, id>>]
  /\ \A f \in Family : \A id \in Nat : <<f, id>> \in DOMAIN locs =>
       IF Buffered(f, Partition(id))
         THEN /\ Partition(id) \in DOMAIN bufs
              /\ locs[<<f, id>>] <= Len(bufs[Partition(id)])
         ELSE /\ <<f, Partition(id)>> \in DOMAIN blob
              /\ locs[<<f, id>>] <= Len(blob[<<f, Partition(id)>>])

(* A prepared blob begins with the committed bytes of the stored one. *)
BuffersExtend ==
  /\ stage = "payload" => unput \subseteq DOMAIN bufs
  /\ stage \in {"append", "payload"} =>
       \A p \in DOMAIN bufs : \A jd \in CommittedIds(stateIndex, fam) :
         Partition(jd) = p =>
           /\ location[<<fam, jd>>] <= Len(bufs[p])
           /\ \A i \in 1 .. location[<<fam, jd>>] : bufs[p][i] = blob[<<fam, p>>][i]

(* The stages after the locations, and after the block hashes, are stored. *)
Located == {"bitmap_read", "bitmap", "block_hash", "family", "block_index", "state"}
Hashed == {"family", "block_index", "state"}

StagesStored ==
  /\ stage \in Located =>
       \A k \in DOMAIN locs : k \in DOMAIN location /\ location[k] = locs[k]
  /\ stage \in Hashed =>
       \A k \in 1 .. Len(pending) : pending[k].number \in DOMAIN blockHash

IInv ==
  /\ TypeOK
  /\ Recoverable
  /\ MemoryAgrees
  /\ BatchShape
  /\ NewLocations
  /\ BuffersExtend
  /\ StagesStored

-----------------------------------------------------------------------------
(* Partition numbers are natural numbers. *)
LEMMA PartitionNat == \A id \in Nat : Partition(id) \in Nat
  BY SizesAssumption DEF Partition

(* Ids and their partitions are in the same order. *)
LEMMA PartitionMonotone ==
  \A a, b \in Nat : a <= b => Partition(a) <= Partition(b)
<1> SUFFICES ASSUME NEW a \in Nat, NEW b \in Nat, a <= b
             PROVE  a \div ITEMS_PER_BLOB <= b \div ITEMS_PER_BLOB
  BY DEF Partition
<1> DEFINE d == ITEMS_PER_BLOB
           q == a \div d
           r == b \div d
<1>1. d \in Nat /\ d > 0
  BY SizesAssumption
<1>2. q \in Nat /\ r \in Nat
  BY <1>1
<1>3. a >= d * q /\ b < d * r + d
  BY <1>1
<1> HIDE DEF d, q, r
<1>4. ASSUME q >= r + 1 PROVE FALSE
  <2>1. PICK n \in Nat : q = r + 1 + n
    BY <1>2, <1>4
  <2>2. d * q = d * r + d + d * n
    BY <1>1, <1>2, <2>1
  <2>3. d * n >= 0
    BY <1>1
  <2>4. d * q \in Nat /\ d * r \in Nat /\ d * n \in Nat
    BY <1>1, <1>2
  <2> QED
    BY <1>1, <1>3, <2>2, <2>3, <2>4
<1> QED
  BY <1>2, <1>4 DEF q, r, d

(* What a running process takes for committed is committed, and the ids it *)
(* hands out lie beyond every committed one.                               *)
LEMMA Frontier ==
  ASSUME TypeOK, MemoryAgrees, up, NEW f \in Family
  PROVE  /\ \A id \in CommittedIds(stateIndex, f) :
              id \in Nat /\ id < state.next[f] /\ HasCommitted(state, f)
         /\ HasCommitted(state, f) =>
              /\ state.next[f] - 1 \in CommittedIds(stateIndex, f)
              /\ state.next[f] > 0
<1>0. /\ stateIndex.next[f] \in Nat /\ stateIndex.next[BlockHeader] \in Nat
      /\ stateIndex.start \in Nat /\ stateIndex.started \in BOOLEAN
  BY SizesAssumption DEF TypeOK, StateType, BlockHeader, Family
<1>1. CASE stateIndex.started /\ state = stateIndex
  BY <1>0, <1>1 DEF MemoryAgrees, HasCommitted, HasLastBlock, CommittedIds, FirstId
<1>2. CASE stateIndex = DefaultState /\ state = StartAt(DefaultState)
  <2>1. \A id : id \notin CommittedIds(stateIndex, f)
    BY <1>2 DEF DefaultState, CommittedIds, FirstId
  <2>2. ~HasCommitted(state, f)
    BY <1>2, SizesAssumption DEF DefaultState, StartAt, HasCommitted, HasLastBlock,
              BlockHeader, Family
  <2> QED
    BY <2>1, <2>2
<1> QED
  BY <1>1, <1>2 DEF MemoryAgrees

-----------------------------------------------------------------------------
(* The header family is a family, and the rows of a block are byte strings. *)
LEMMA Families == BlockHeader \in Family
  BY SizesAssumption DEF Family, BlockHeader

LEMMA RowBytes ==
  \A b \in Blocks : \A f \in Family : \A j \in 1 .. Len(b.rows[f]) :
    b.rows[f][j].bytes \in Seq(Byte)
<1> SUFFICES ASSUME NEW b \in Blocks, NEW f \in Family, NEW j \in 1 .. Len(b.rows[f])
             PROVE  b.rows[f][j].bytes \in Seq(Byte)
  OBVIOUS
<1>1. b.rows[f] \in Seq(Row)
  BY BlocksAssumption DEF BlockType
<1>2. b.rows[f][j] \in Row
  BY <1>1
<1> QED
  BY <1>2 DEF Row

LEMMA BlockFacts ==
  \A b \in Blocks : /\ b.number \in Nat
                    /\ b.hash \in Hash
                    /\ \A f \in Family : Len(b.rows[f]) \in Nat
                    /\ Len(b.rows[BlockHeader]) = 1
  BY BlocksAssumption, Families DEF BlockType

(* The empty index satisfies the invariant. *)
LEMMA InitIInv == Init => IInv
<1> SUFFICES ASSUME Init PROVE IInv
  OBVIOUS
<1> USE DEF Init, ScratchCleared, EmptyTable, DefaultState
<1>1. TypeOK
  BY SizesAssumption DEF TypeOK, StateType, Stages, Family, IdRange
<1>2. \A f \in Family : CommittedIds(stateIndex, f) = {}
  BY DEF CommittedIds, FirstId
<1>3. Recoverable
  <2>1. stateIndex.next[BlockHeader] = 0
    BY Families
  <2> HIDE DEF Init, ScratchCleared, EmptyTable, DefaultState
  <2>2. Openable
    BY <2>1 DEF Openable, HasLastBlock
  <2>3. CommittedLocated
    BY <1>2 DEF CommittedLocated
  <2> QED
    BY <2>2, <2>3 DEF Recoverable
<1>4. MemoryAgrees
  BY DEF MemoryAgrees
<1>5. BatchShape
  BY DEF BatchShape
<1>6. NewLocations
  BY DEF NewLocations
<1>7. BuffersExtend /\ StagesStored
  BY DEF BuffersExtend, StagesStored, Located, Hashed
<1> QED
  BY <1>1, <1>3, <1>4, <1>5, <1>6, <1>7 DEF IInv

(* What payload::flush appends to is a byte string. *)
LEMMA PrefixType ==
  ASSUME TypeOK, NEW f \in Family, NEW p \in Nat, Appendable(f, p)
  PROVE  CommittedPrefix(f, p) \in Seq(Byte)
<1>1. CASE ~SharesPartition(f, p)
  BY <1>1 DEF CommittedPrefix
<1>2. CASE SharesPartition(f, p)
  <2> DEFINE e == location[<<f, state.next[f] - 1>>]
             s == blob[<<f, p>>]
  <2>1. e \in Nat /\ s \in Seq(Byte) /\ e <= Len(s)
    BY <1>2 DEF TypeOK, Appendable
  <2> HIDE DEF e, s
  <2>2. SubSeq(s, 1, e) \in Seq(Byte)
    BY <2>1
  <2> USE DEF e, s
  <2> QED
    BY <1>2, <2>2 DEF CommittedPrefix
<1> QED
  BY <1>1, <1>2

(* AppendItem for item j of block k. *)
ItemStep(k, j) ==
  LET p    == Partition(nid)
      base == IF p \in DOMAIN bufs THEN bufs[p] ELSE CommittedPrefix(fam, p)
      buf  == base \o pending[k].rows[fam][j].bytes
  IN /\ ranges[k][fam].first + j - 1 = nid
     /\ p \notin DOMAIN bufs => Appendable(fam, p)
     /\ bufs' = Put(bufs, p, buf)
     /\ locs' = Put(locs, <<fam, nid>>, Len(buf))

LEMMA AppendItemCase ==
  AppendItem => \E k \in 1 .. Len(ranges) :
                \E j \in 1 .. ranges[k][fam].count : ItemStep(k, j)
  BY DEF AppendItem, ItemStep

-----------------------------------------------------------------------------
(* Every step keeps the types. *)
LEMMA TypeStep == IInv /\ [Next]_vars => TypeOK'
<1> SUFFICES ASSUME IInv, [Next]_vars PROVE TypeOK'
  OBVIOUS
<1> USE Families DEF IInv
<1>1. CASE Open
  <2>1. StartAt(stateIndex) \in StateType
    BY SizesAssumption DEF StartAt, StateType, TypeOK
  <2>2. lastHash' \in Hash \cup {NoHash}
    BY <1>1 DEF Open, TypeOK, Openable, HasLastBlock, LastBlockId
  <2> QED
    BY <1>1, <2>1, <2>2 DEF Open, TypeOK, tables, scratch
<1>2. ASSUME NEW b \in Blocks, Append1(b) PROVE TypeOK'
  BY <1>2 DEF Append1, TypeOK, tables, scratch
<1>3. CASE BeginFlush
  BY <1>3 DEF BeginFlush, TypeOK, StateType, Stages, tables
<1>4. CASE AssignRange
  <2> DEFINE b == pending[Len(ranges) + 1]
  <2>1. b \in Blocks
    BY <1>4 DEF AssignRange, TypeOK
  <2>2. \A f \in Family : Len(b.rows[f]) \in Nat /\ cursor[f] \in Nat /\ b.number \in Nat
    BY <2>1, BlockFacts DEF TypeOK
  <2>3. ranges' \in Seq([Family -> IdRange])
    BY <1>4, <2>2 DEF AssignRange, TypeOK, IdRange
  <2>4. cursor' \in [Family -> Nat]
    BY <1>4, <2>2 DEF AssignRange
  <2> QED
    BY <1>4, <2>3, <2>4 DEF AssignRange, TypeOK, tables
<1>5. CASE Assigned
  BY <1>5 DEF Assigned, TypeOK, StateType, Stages, tables
<1>6. CASE AppendItem
  <2>a. PICK k \in 1 .. Len(ranges) : \E j \in 1 .. ranges[k][fam].count : ItemStep(k, j)
    BY <1>6, AppendItemCase
  <2>1. PICK j \in 1 .. ranges[k][fam].count : ItemStep(k, j)
    BY <2>a
  <2>0. LET p    == Partition(nid)
              base == IF p \in DOMAIN bufs THEN bufs[p] ELSE CommittedPrefix(fam, p)
              buf  == base \o pending[k].rows[fam][j].bytes
          IN /\ p \notin DOMAIN bufs => Appendable(fam, p)
             /\ bufs' = Put(bufs, p, buf)
             /\ locs' = Put(locs, <<fam, nid>>, Len(buf))
    BY <2>1 DEF ItemStep
  <2> DEFINE p    == Partition(nid)
             base == IF p \in DOMAIN bufs THEN bufs[p] ELSE CommittedPrefix(fam, p)
             buf  == base \o pending[k].rows[fam][j].bytes
  <2>2. p \in Nat
    BY PartitionNat DEF TypeOK
  <2>3. base \in Seq(Byte)
    BY <2>0, <2>2, PrefixType DEF TypeOK
  <2>4. stage = "append" /\ fam \in Family /\ nid \in Nat
    BY <1>6 DEF AppendItem, TypeOK
  <2>5. pending[k] \in Blocks /\ j \in 1 .. Len(pending[k].rows[fam])
    <3>1. /\ pending \in Seq(Blocks) /\ Len(pending) \in Nat
          /\ ranges \in Seq([Family -> IdRange]) /\ Len(ranges) \in Nat
      BY DEF TypeOK
    <3>2. Len(ranges) = Len(pending) /\ ranges[k][fam].count = Len(pending[k].rows[fam])
      BY <2>4 DEF BatchShape
    <3>3. k \in 1 .. Len(pending)
      BY <3>2
    <3>4. pending[k] \in Blocks
      BY <3>1, <3>3
    <3> QED
      BY <3>2, <3>4
  <2>6. buf \in Seq(Byte)
    BY <2>3, <2>4, <2>5, RowBytes
  <2> HIDE DEF buf
  <2>7. Len(buf) \in Nat
    BY <2>6
  <2>8. bufs' = Put(bufs, p, buf) /\ locs' = Put(locs, <<fam, nid>>, Len(buf))
    BY <2>0 DEF buf
  <2> HIDE DEF p
  <2>9. DOMAIN bufs' \subseteq Nat /\ \A q \in DOMAIN bufs' : bufs'[q] \in Seq(Byte)
    BY <2>2, <2>6, <2>8 DEF Put, TypeOK
  <2>10. DOMAIN locs' \subseteq Family \X Nat /\ \A q \in DOMAIN locs' : locs'[q] \in Nat
    <3>1. <<fam, nid>> \in Family \X Nat
      BY <2>4
    <3>2. DOMAIN locs \subseteq Family \X Nat /\ \A q \in DOMAIN locs : locs[q] \in Nat
      BY DEF TypeOK
    <3> QED
      BY <2>7, <2>8, <3>1, <3>2 DEF Put
  <2>11. /\ nid' = nid + 1
         /\ UNCHANGED <<tables, up, state, lastHash, pending, stage, ranges,
                        cursor, fam, fails>>
    BY <1>6 DEF AppendItem
  <2> QED
    BY <2>4, <2>9, <2>10, <2>11 DEF TypeOK, tables
<1>7. CASE BeginPutPayload
  BY <1>7 DEF BeginPutPayload, TypeOK, Stages, tables
<1>8. ASSUME NEW p \in unput, PutPayload(p) PROVE TypeOK'
  <2>1. p \in DOMAIN bufs /\ p \in Nat
    BY <1>8 DEF PutPayload, BuffersExtend, TypeOK
  <2>2. DOMAIN blob' \subseteq Family \X Nat /\ \A q \in DOMAIN blob' : blob'[q] \in Seq(Byte)
    BY <1>8, <2>1 DEF PutPayload, Put, TypeOK
  <2> QED
    BY <1>8, <2>2 DEF PutPayload, TypeOK
<1>9. CASE FamilyDone
  <2>1. fam' \in Family /\ nid' \in Nat /\ stage' \in Stages
    <3>1. CASE fam + 1 < NumFamilies
      <4>1. fam + 1 \in Family
        BY <3>1, SizesAssumption DEF TypeOK, Family
      <4> QED
        BY <1>9, <3>1, <4>1 DEF FamilyDone, TypeOK, Stages, StateType
    <3>2. CASE ~(fam + 1 < NumFamilies)
      BY <1>9, <3>2 DEF FamilyDone, TypeOK, Stages
    <3> QED
      BY <3>1, <3>2
  <2>2. DOMAIN bufs' = {}
    BY <1>9 DEF FamilyDone, EmptyTable
  <2>3. UNCHANGED <<tables, up, state, lastHash, pending, ranges, cursor, locs, fails>>
    BY <1>9 DEF FamilyDone
  <2> QED
    BY <2>1, <2>2, <2>3 DEF TypeOK, tables
<1>10. CASE PutLocations
  <2>1. DOMAIN location' \subseteq Family \X Nat /\ \A k \in DOMAIN location' : location'[k] \in Nat
    BY <1>10 DEF PutLocations, PutBatch, TypeOK
  <2> QED
    BY <1>10, <2>1 DEF PutLocations, TypeOK, Stages, scratch
<1>11. CASE ReadPages
  BY <1>11 DEF ReadPages, TypeOK, Stages, tables
<1>12. ASSUME NEW k \in unput, PutPage(k) PROVE TypeOK'
  BY <1>12 DEF PutPage, TypeOK
<1>13. CASE PutStats
  BY <1>13 DEF PutStats, TypeOK, Stages, scratch
<1>14. CASE PutBlockHashes
  <2>1. \A n \in Heights : n \in Nat /\ pending[BlockOf(n)].hash \in Hash
    <3> SUFFICES ASSUME NEW n \in Heights
                 PROVE  n \in Nat /\ pending[BlockOf(n)].hash \in Hash
      OBVIOUS
    <3>1. \E k \in 1 .. Len(pending) : pending[k].number = n
      BY DEF Heights
    <3>2. BlockOf(n) \in 1 .. Len(pending) /\ pending[BlockOf(n)].number = n
      BY <3>1 DEF BlockOf
    <3>3. pending[BlockOf(n)] \in Blocks
      BY <3>2 DEF TypeOK
    <3> QED
      BY <3>2, <3>3, BlockFacts
  <2>2. \A n \in DOMAIN blockHash' : n \in Nat /\ blockHash'[n] \in Hash
    BY <1>14, <2>1 DEF PutBlockHashes, PutBatch, TypeOK
  <2> QED
    BY <1>14, <2>2 DEF PutBlockHashes, TypeOK, Stages, scratch
<1>15. CASE PutFamilies
  BY <1>15 DEF PutFamilies, TypeOK, Stages, scratch
<1>16. CASE PutBlockIndex
  BY <1>16 DEF PutBlockIndex, TypeOK, Stages, scratch
<1>17. CASE PutState
  <2>1. /\ pending[1] \in Blocks /\ pending[Len(pending)] \in Blocks
        /\ Len(pending) \in Nat /\ Len(pending) > 0
    BY <1>17 DEF PutState, BatchShape, TypeOK
  <2> DEFINE next  == [cursor EXCEPT ![BlockHeader] = pending[Len(pending)].number + 1]
             start == IF state.started THEN state.start ELSE pending[1].number
  <2>a. pending[1].number \in Nat /\ pending[Len(pending)].number \in Nat
    BY <2>1, BlockFacts
  <2>b. next \in [Family -> Nat]
    BY <2>a, Families DEF TypeOK
  <2>c. start \in Nat
    BY <2>a DEF TypeOK, StateType
  <2>d. BatchState = [started |-> TRUE, start |-> start, next |-> next]
    BY DEF BatchState
  <2> HIDE DEF next, start
  <2>2. BatchState \in StateType
    BY <2>b, <2>c, <2>d DEF StateType
  <2> QED
    BY <1>17, <2>1, <2>2, BlockFacts, SizesAssumption
       DEF PutState, ClearScratch, TypeOK, Stages, EmptyTable, Family
<1>18. CASE FlushError
  BY <1>18, SizesAssumption
     DEF FlushError, ClearScratch, TypeOK, Stages, EmptyTable, Family, tables
<1>19. CASE Crash
  <2>1. DefaultState \in StateType
    BY DEF DefaultState, StateType
  <2> QED
    <3>1. DOMAIN bufs' = {} /\ DOMAIN locs' = {}
      BY <1>19 DEF Crash, ClearScratch, EmptyTable
    <3>2. fam' \in Family /\ nid' \in Nat /\ cursor' \in [Family -> Nat]
      BY <1>19 DEF Crash, ClearScratch, BlockHeader
    <3>3. /\ UNCHANGED tables /\ up' = FALSE /\ state' = DefaultState
          /\ lastHash' = NoHash /\ pending' = <<>> /\ stage' = "idle" /\ ranges' = <<>>
          /\ fails' = fails + 1
      BY <1>19 DEF Crash, ClearScratch
    <3>4. UNCHANGED <<stateIndex, blob, location, blockHash>>
      BY <3>3 DEF tables
    <3>5. state' \in StateType /\ up' \in BOOLEAN /\ lastHash' \in Hash \cup {NoHash}
      BY <2>1, <3>3
    <3>6. /\ pending' \in Seq(Blocks) /\ ranges' \in Seq([Family -> IdRange])
          /\ stage' \in Stages /\ fails' \in Nat
      BY <3>3 DEF Stages, TypeOK
    <3> QED
      BY <3>1, <3>2, <3>4, <3>5, <3>6 DEF TypeOK
<1>20. CASE UNCHANGED vars
  BY <1>20 DEF vars, tables, scratch, TypeOK
<1> QED
  BY <1>1, <1>2, <1>3, <1>4, <1>5, <1>6, <1>7, <1>8, <1>9, <1>10, <1>11, <1>12,
     <1>13, <1>14, <1>15, <1>16, <1>17, <1>18, <1>19, <1>20 DEF Next, Flushing

-----------------------------------------------------------------------------
(* The parts of the invariant other than the types, and what a step may do *)
(* to committed records.                                                   *)
Rest ==
  /\ Recoverable
  /\ MemoryAgrees
  /\ BatchShape
  /\ NewLocations
  /\ BuffersExtend
  /\ StagesStored

(* A step that leaves the state index, the blobs and the locations alone   *)
(* keeps the index recoverable and the committed records unchanged.        *)
LEMMA FixedTables ==
  ASSUME IInv, UNCHANGED <<stateIndex, blob, location>>,
         DOMAIN blockHash \subseteq DOMAIN blockHash'
  PROVE  Recoverable' /\ CommittedUnchanged
<1>1. Openable'
  BY DEF IInv, Recoverable, Openable, HasLastBlock, LastBlockId
<1>2. CommittedLocated'
  BY DEF IInv, Recoverable, CommittedLocated, CommittedIds, FirstId
<1>3. CommittedUnchanged
  BY DEF IInv, Recoverable, CommittedLocated, CommittedUnchanged, CommittedIds, FirstId
<1> QED
  BY <1>1, <1>2, <1>3 DEF Recoverable

(* A stage after the locations are stored that writes none of the tables   *)
(* the invariant speaks of, or the block hashes.                           *)
LEMMA LateStep ==
  ASSUME IInv,
         UNCHANGED <<stateIndex, blob, location, up, state, pending, ranges,
                     cursor, fam, nid, bufs, locs>>,
         stage \in Located, stage' \in Located,
         DOMAIN blockHash \subseteq DOMAIN blockHash',
         stage' \in Hashed =>
           \A k \in 1 .. Len(pending) : pending[k].number \in DOMAIN blockHash'
  PROVE  Rest' /\ CommittedUnchanged
<1>1. Recoverable' /\ CommittedUnchanged
  BY FixedTables
<1>2. MemoryAgrees'
  BY DEF IInv, MemoryAgrees, Located
<1>3. BatchShape'
  BY DEF IInv, BatchShape, Located
<1>4. \A f \in Family : Prepared'[f] = Prepared[f]
  BY DEF Prepared, Located
<1>5. \A f \in Family, p \in Nat : ~Buffered(f, p)' /\ ~Buffered(f, p)
  BY DEF Buffered, Located
<1>6. NewLocations'
  BY <1>4, <1>5, PartitionNat DEF IInv, NewLocations, CommittedIds, FirstId
<1>7. BuffersExtend' /\ StagesStored'
  BY DEF IInv, BuffersExtend, StagesStored, Located
<1> QED
  BY <1>1, <1>2, <1>3, <1>6, <1>7 DEF Rest

LEMMA LateSteps ==
  ASSUME IInv,
         \/ ReadPages \/ (\E k \in unput : PutPage(k)) \/ PutStats
         \/ PutBlockHashes \/ PutFamilies \/ PutBlockIndex
  PROVE  Rest' /\ CommittedUnchanged
<1>1. CASE ReadPages
  BY <1>1, LateStep DEF ReadPages, tables, Located, Hashed
<1>2. ASSUME NEW k \in unput, PutPage(k) PROVE Rest' /\ CommittedUnchanged
  BY <1>2, LateStep DEF PutPage, Located, Hashed
<1>3. CASE PutStats
  BY <1>3, LateStep DEF PutStats, scratch, Located, Hashed
<1>4. CASE PutBlockHashes
  <2>1. DOMAIN blockHash' = DOMAIN blockHash \cup Heights
    BY <1>4 DEF PutBlockHashes, PutBatch
  <2>2. \A k \in 1 .. Len(pending) : pending[k].number \in DOMAIN blockHash'
    BY <2>1 DEF Heights
  <2> QED
    BY <1>4, <2>1, <2>2, LateStep DEF PutBlockHashes, scratch, Located, Hashed
<1>5. CASE PutFamilies
  BY <1>5, LateStep DEF PutFamilies, scratch, Located, Hashed, IInv, StagesStored
<1>6. CASE PutBlockIndex
  BY <1>6, LateStep DEF PutBlockIndex, scratch, Located, Hashed, IInv, StagesStored
<1> QED
  BY <1>1, <1>2, <1>3, <1>4, <1>5, <1>6

-----------------------------------------------------------------------------
(* Start-up and the steps of prepare_flush: nothing is prepared yet. *)
LEMMA OpenStep == IInv /\ Open => Rest' /\ CommittedUnchanged
<1> SUFFICES ASSUME IInv, Open PROVE Rest' /\ CommittedUnchanged
  OBVIOUS
<1> USE Families
<1>0. /\ UNCHANGED <<stateIndex, blob, location, blockHash, stage, ranges, cursor,
                     fam, nid, bufs, locs, unput>>
      /\ ~up /\ up' /\ pending' = <<>>
      /\ state' = IF stateIndex.next[BlockHeader] = 0 THEN StartAt(stateIndex) ELSE stateIndex
  BY DEF Open, tables, scratch
<1>1. Recoverable' /\ CommittedUnchanged
  BY <1>0, FixedTables
<1>2. stage = "idle"
  BY <1>0 DEF IInv, MemoryAgrees
<1>3. MemoryAgrees'
  <2>1. CASE stateIndex.next[BlockHeader] = 0
    <3>1. stateIndex = DefaultState
      BY <2>1 DEF IInv, MemoryAgrees, TypeOK, StateType
    <3> QED
      BY <1>0, <2>1, <3>1 DEF IInv, MemoryAgrees
  <2>2. CASE stateIndex.next[BlockHeader] # 0
    <3>1. stateIndex.started
      BY <2>2 DEF IInv, MemoryAgrees, DefaultState
    <3> QED
      BY <1>0, <2>2, <3>1 DEF IInv, MemoryAgrees
  <2> QED
    BY <2>1, <2>2
<1>4. BatchShape'
  BY <1>0, <1>2 DEF IInv, BatchShape
<1>5. NewLocations'
  <2>1. DOMAIN locs' = {}
    BY <1>0 DEF IInv, NewLocations
  <2>2. \A f \in Family : Prepared'[f] = state'.next[f]
    BY <1>0, <1>2 DEF Prepared
  <2>3. state'.next \in [Family -> Nat]
    BY TypeStep DEF Next, TypeOK, StateType
  <2>4. \A f \in Family, id \in Nat : ~(state'.next[f] <= id /\ id < Prepared'[f])
    BY <2>2, <2>3
  <2> QED
    BY <1>0, <2>1, <2>4 DEF NewLocations
<1>6. BuffersExtend' /\ StagesStored'
  BY <1>0, <1>2 DEF BuffersExtend, StagesStored, Located, Hashed
<1> QED
  BY <1>1, <1>3, <1>4, <1>5, <1>6 DEF Rest

(* While nothing is prepared, changes of the batch keep the locations. *)
LEMMA UnpreparedLocations ==
  ASSUME IInv, UNCHANGED <<stateIndex, blob, location, up, state, locs>>,
         stage \in {"idle", "assign"}, up,
         \A f \in Family : Prepared'[f] = state.next[f]
  PROVE  NewLocations'
<1>1. \A f \in Family : Prepared[f] = state.next[f]
  BY DEF Prepared
<1>2. state.next \in [Family -> Nat]
  BY DEF IInv, TypeOK, StateType
<1>3. \A f \in Family, id \in Nat : <<f, id>> \notin DOMAIN locs
  <2> SUFFICES ASSUME NEW f \in Family, NEW id \in Nat, <<f, id>> \in DOMAIN locs
               PROVE  FALSE
    OBVIOUS
  <2>1. state.next[f] <= id /\ id < Prepared[f]
    BY DEF IInv, NewLocations
  <2>2. Prepared[f] = state.next[f] /\ state.next[f] \in Nat
    BY <1>1, <1>2
  <2> QED
    BY <2>1, <2>2
<1>4. \A f \in Family, id \in Nat : ~(state.next[f] <= id /\ id < Prepared'[f])
  BY <1>2
<1>5. /\ \A f \in Family, id \in Nat : <<f, id>> \notin DOMAIN locs'
      /\ \A f \in Family, id \in Nat : ~(state'.next[f] <= id /\ id < Prepared'[f])
      /\ up'
  BY <1>3, <1>4
<1> QED
  BY <1>5 DEF NewLocations

LEMMA AppendStep ==
  ASSUME IInv, NEW b \in Blocks, Append1(b)
  PROVE  Rest' /\ CommittedUnchanged
<1>0. /\ UNCHANGED <<stateIndex, blob, location, blockHash, stage, ranges, cursor,
                     fam, nid, bufs, locs, unput, up, state>>
      /\ up /\ stage = "idle" /\ pending' = Append(pending, b)
      /\ b.number = state.next[BlockHeader] + Len(pending)
  BY DEF Append1, NextBlockNumber, tables, scratch
<1>1. Recoverable' /\ CommittedUnchanged
  BY <1>0, FixedTables
<1>2. MemoryAgrees'
  <2>1. pending \in Seq(Blocks)
    BY DEF IInv, TypeOK
  <2>a. \A k \in 1 .. Len(pending) : pending[k].number = state.next[BlockHeader] + k - 1
    BY DEF IInv, MemoryAgrees
  <2>b. state.next[BlockHeader] \in Nat
    BY Families DEF IInv, TypeOK, StateType
  <2>2. \A k \in 1 .. Len(pending') : pending'[k].number = state.next[BlockHeader] + k - 1
    BY <1>0, <2>1, <2>a, <2>b
  <2> QED
    BY <1>0, <2>2 DEF IInv, MemoryAgrees
<1>3. BatchShape'
  BY <1>0 DEF IInv, BatchShape
<1>4. NewLocations'
  BY <1>0, UnpreparedLocations DEF Prepared
<1>5. BuffersExtend' /\ StagesStored'
  BY <1>0 DEF BuffersExtend, StagesStored, Located, Hashed
<1> QED
  BY <1>1, <1>2, <1>3, <1>4, <1>5 DEF Rest

LEMMA BeginFlushStep ==
  ASSUME IInv, BeginFlush
  PROVE  Rest' /\ CommittedUnchanged
<1>0. /\ UNCHANGED <<stateIndex, blob, location, blockHash, ranges, fam, nid, bufs,
                     locs, unput, up, state, pending>>
      /\ up /\ stage = "idle" /\ stage' = "assign" /\ pending # <<>>
      /\ cursor' = state.next
  BY DEF BeginFlush, tables
<1>1. Recoverable' /\ CommittedUnchanged
  BY <1>0, FixedTables
<1>2. MemoryAgrees'
  BY <1>0 DEF IInv, MemoryAgrees
<1>3. BatchShape'
  <2>1. ranges = <<>> /\ bufs = EmptyTable
    BY <1>0 DEF IInv, BatchShape
  <2>2. state.next \in [Family -> Nat] /\ Len(pending) \in Nat
    BY DEF IInv, TypeOK, StateType
  <2> QED
    BY <1>0, <2>1, <2>2, Families DEF BatchShape
<1>4. NewLocations'
  BY <1>0, UnpreparedLocations DEF Prepared
<1>5. BuffersExtend' /\ StagesStored'
  BY <1>0 DEF BuffersExtend, StagesStored, Located, Hashed
<1> QED
  BY <1>1, <1>2, <1>3, <1>4, <1>5 DEF Rest

LEMMA AssignRangeStep ==
  ASSUME IInv, AssignRange
  PROVE  Rest' /\ CommittedUnchanged
<1> DEFINE b == pending[Len(ranges) + 1]
<1>0. /\ UNCHANGED <<stateIndex, blob, location, blockHash, fam, nid, bufs, stage,
                     locs, unput, up, state, pending>>
      /\ stage = "assign" /\ Len(ranges) < Len(pending)
  BY DEF AssignRange, tables
<1>a. up
  BY <1>0 DEF IInv, BatchShape
<1>b. /\ ranges \in Seq([Family -> IdRange]) /\ Len(pending) \in Nat
      /\ cursor \in [Family -> Nat] /\ state.next \in [Family -> Nat]
  BY DEF IInv, TypeOK, StateType
<1>c. b \in Blocks
  BY <1>0, <1>b DEF IInv, TypeOK
<1>1. Recoverable' /\ CommittedUnchanged
  BY <1>0, FixedTables
<1>2. MemoryAgrees'
  BY <1>0 DEF IInv, MemoryAgrees
<1>3. BatchShape'
  <2> DEFINE r == [f \in Family |->
                     [first |-> IF f = BlockHeader THEN b.number ELSE cursor[f],
                      count |-> Len(b.rows[f])]]
  <2>a. /\ ranges' = Append(ranges, r)
        /\ cursor' = [f \in Family |-> cursor[f] + Len(b.rows[f])]
    BY DEF AssignRange
  <2>b. \A f \in Family : r[f].count = Len(b.rows[f])
    OBVIOUS
  <2> HIDE DEF b, r
  <2>1. /\ Len(ranges') = Len(ranges) + 1
        /\ \A k \in 1 .. Len(ranges) : ranges'[k] = ranges[k]
        /\ \A f \in Family : ranges'[Len(ranges) + 1][f].count = Len(b.rows[f])
    BY <1>b, <2>a, <2>b
  <2>2. \A k \in 1 .. Len(ranges') : \A f \in Family :
          ranges'[k][f].count = Len(pending[k].rows[f])
    <3> SUFFICES ASSUME NEW k \in 1 .. Len(ranges'), NEW f \in Family
                 PROVE  ranges'[k][f].count = Len(pending[k].rows[f])
      OBVIOUS
    <3>1. CASE k = Len(ranges) + 1
      BY <2>1, <3>1 DEF b
    <3>2. CASE k \in 1 .. Len(ranges)
      BY <1>0, <2>1, <3>2 DEF IInv, BatchShape
    <3>3. Len(ranges) \in Nat
      BY <1>b
    <3> QED
      BY <2>1, <3>1, <3>2, <3>3
  <2>3. /\ cursor'[BlockHeader] = state.next[BlockHeader] + Len(ranges')
        /\ \A f \in Family : state.next[f] <= cursor'[f]
    <3>1. \A f \in Family : cursor'[f] = cursor[f] + Len(b.rows[f])
      BY <2>a
    <3>2. \A f \in Family : Len(b.rows[f]) \in Nat /\ Len(b.rows[BlockHeader]) = 1
      BY <1>c, BlockFacts
    <3>3. /\ cursor[BlockHeader] = state.next[BlockHeader] + Len(ranges)
          /\ \A f \in Family : state.next[f] <= cursor[f]
      BY <1>0 DEF IInv, BatchShape
    <3>4. Len(ranges) \in Nat /\ \A f \in Family : cursor[f] \in Nat /\ state.next[f] \in Nat
      BY <1>b
    <3>5. \A f \in Family : state.next[f] <= cursor'[f]
      BY <3>1, <3>2, <3>3, <3>4
    <3>6. cursor'[BlockHeader] = cursor[BlockHeader] + 1
      BY <3>1, <3>2, Families
    <3> QED
      BY <2>1, <3>3, <3>4, <3>5, <3>6, Families
  <2> QED
    BY <1>0, <1>b, <2>1, <2>2, <2>3 DEF IInv, BatchShape
<1>4. NewLocations'
  BY <1>0, <1>a, UnpreparedLocations DEF Prepared
<1>5. BuffersExtend' /\ StagesStored'
  BY <1>0 DEF BuffersExtend, StagesStored, Located, Hashed
<1> QED
  BY <1>1, <1>2, <1>3, <1>4, <1>5 DEF Rest

LEMMA AssignedStep ==
  ASSUME IInv, Assigned
  PROVE  Rest' /\ CommittedUnchanged
<1>0. /\ UNCHANGED <<stateIndex, blob, location, blockHash, ranges, cursor, bufs,
                     locs, unput, up, state, pending>>
      /\ stage = "assign" /\ stage' = "append" /\ Len(ranges) = Len(pending)
      /\ fam' = BlockHeader /\ nid' = state.next[BlockHeader]
  BY DEF Assigned, tables
<1>a. up /\ bufs = EmptyTable
  BY <1>0 DEF IInv, BatchShape
<1>b. state.next \in [Family -> Nat] /\ cursor \in [Family -> Nat]
  BY DEF IInv, TypeOK, StateType
<1>1. Recoverable' /\ CommittedUnchanged
  BY <1>0, FixedTables
<1>2. MemoryAgrees'
  BY <1>0, <1>a DEF IInv, MemoryAgrees
<1>3. BatchShape'
  BY <1>0, <1>b, Families DEF IInv, BatchShape
<1>4. NewLocations'
  <2>1. \A f \in Family : Prepared'[f] = state.next[f]
    BY <1>0, SizesAssumption DEF Prepared, Family, BlockHeader
  <2> QED
    BY <1>0, <1>a, <2>1, UnpreparedLocations
<1>5. BuffersExtend' /\ StagesStored'
  BY <1>0, <1>a DEF BuffersExtend, StagesStored, Located, Hashed, EmptyTable
<1> QED
  BY <1>1, <1>2, <1>3, <1>4, <1>5 DEF Rest

(* An abandoned flush forgets what it prepared. *)
LEMMA AbandonStep ==
  ASSUME IInv, FlushError \/ Crash
  PROVE  Rest' /\ CommittedUnchanged
<1>0. /\ UNCHANGED <<stateIndex, blob, location, blockHash>>
      /\ stage' = "idle" /\ ranges' = <<>> /\ bufs' = EmptyTable /\ DOMAIN locs' = {}
  BY DEF FlushError, Crash, ClearScratch, EmptyTable, tables
<1>1. Recoverable' /\ CommittedUnchanged
  BY <1>0, FixedTables
<1>2. MemoryAgrees'
  <2>1. CASE FlushError
    BY <1>0, <2>1 DEF FlushError, IInv, MemoryAgrees, BatchShape
  <2>2. CASE Crash
    <3>1. ~up' /\ pending' = <<>> /\ Len(pending') = 0
      BY <2>2 DEF Crash
    <3> QED
      BY <1>0, <3>1 DEF IInv, MemoryAgrees
  <2> QED
    BY <2>1, <2>2
<1>3. BatchShape'
  BY <1>0 DEF BatchShape
<1>4. NewLocations'
  <2>1. state'.next \in [Family -> Nat]
    BY TypeStep DEF Next, TypeOK, StateType
  <2>2. \A f \in Family : Prepared'[f] = state'.next[f]
    BY <1>0 DEF Prepared
  <2>3. \A f \in Family, id \in Nat : ~(state'.next[f] <= id /\ id < Prepared'[f])
    BY <2>1, <2>2
  <2> QED
    BY <1>0, <2>3 DEF NewLocations
<1>5. BuffersExtend' /\ StagesStored'
  BY <1>0 DEF BuffersExtend, StagesStored, Located, Hashed
<1> QED
  BY <1>1, <1>2, <1>3, <1>4, <1>5 DEF Rest

-----------------------------------------------------------------------------
(* What AppendItem appends to holds every committed byte of its partition  *)
(* and every item prepared before.                                         *)
LEMMA BaseCovers ==
  ASSUME IInv, stage = "append", NEW p \in Nat, p = Partition(nid),
         p \notin DOMAIN bufs => Appendable(fam, p),
         NEW base, base = IF p \in DOMAIN bufs THEN bufs[p] ELSE CommittedPrefix(fam, p)
  PROVE  /\ base \in Seq(Byte)
         /\ \A jd \in CommittedIds(stateIndex, fam) : Partition(jd) = p =>
              /\ location[<<fam, jd>>] <= Len(base)
              /\ \A i \in 1 .. location[<<fam, jd>>] : base[i] = blob[<<fam, p>>][i]
         /\ \A id \in Nat : <<fam, id>> \in DOMAIN locs /\ Partition(id) = p =>
              locs[<<fam, id>>] <= Len(base)
<1>0. /\ up /\ fam \in Family /\ nid \in Nat
      /\ state.next[fam] \in Nat /\ state.next[fam] <= nid
  BY DEF IInv, TypeOK, StateType, BatchShape
<1>1. base \in Seq(Byte)
  BY <1>0, PrefixType DEF IInv, TypeOK
<1>2. ASSUME NEW jd \in CommittedIds(stateIndex, fam), Partition(jd) = p
      PROVE  /\ location[<<fam, jd>>] <= Len(base)
             /\ \A i \in 1 .. location[<<fam, jd>>] : base[i] = blob[<<fam, p>>][i]
  <2>1. CASE p \in DOMAIN bufs
    BY <1>2, <2>1 DEF IInv, BuffersExtend
  <2>2. CASE p \notin DOMAIN bufs
    <3> DEFINE last == state.next[fam] - 1
    <3>1. /\ jd \in Nat /\ jd < state.next[fam] /\ HasCommitted(state, fam)
          /\ last \in CommittedIds(stateIndex, fam) /\ state.next[fam] > 0
      BY <1>0, Frontier DEF IInv
    <3>2. last \in Nat /\ jd <= last /\ last <= nid
      BY <1>0, <3>1
    <3>3. Partition(last) = p
      <4>1. Partition(jd) <= Partition(last) /\ Partition(last) <= Partition(nid)
        BY <1>0, <3>1, <3>2, PartitionMonotone
      <4>2. Partition(jd) \in Nat /\ Partition(last) \in Nat
        BY <3>1, <3>2, PartitionNat
      <4> QED
        BY <1>2, <4>1, <4>2
    <3>4. SharesPartition(fam, p)
      BY <3>1, <3>3 DEF SharesPartition
    <3> DEFINE e == location[<<fam, last>>]
               old == blob[<<fam, p>>]
    <3>5. base = SubSeq(old, 1, e)
      BY <2>2, <3>4 DEF CommittedPrefix
    <3>6. e \in Nat /\ old \in Seq(Byte) /\ e <= Len(old)
      BY <2>2, <3>4 DEF Appendable, IInv, TypeOK
    <3>7. location[<<fam, jd>>] \in Nat /\ location[<<fam, jd>>] <= e
      BY <1>0, <1>2, <3>1, <3>2, <3>3 DEF IInv, Recoverable, CommittedLocated, TypeOK
    <3> HIDE DEF e, old, last
    <3>8. Len(base) = e /\ \A i \in 1 .. e : base[i] = old[i]
      BY <3>5, <3>6
    <3> QED
      BY <3>6, <3>7, <3>8 DEF old
  <2> QED
    BY <2>1, <2>2
<1>3. ASSUME NEW id \in Nat, <<fam, id>> \in DOMAIN locs, Partition(id) = p
      PROVE  locs[<<fam, id>>] <= Len(base)
  <2>1. Buffered(fam, Partition(id))
    BY DEF Buffered
  <2>2. p \in DOMAIN bufs /\ locs[<<fam, id>>] <= Len(bufs[p])
    BY <1>0, <1>3, <2>1 DEF IInv, NewLocations
  <2> QED
    BY <2>2
<1> QED
  BY <1>1, <1>2, <1>3

LEMMA AppendItemStep ==
  ASSUME IInv, AppendItem
  PROVE  Rest' /\ CommittedUnchanged
<1>0. /\ UNCHANGED <<stateIndex, blob, location, blockHash, ranges, cursor, fam,
                     unput, up, state, pending, stage>>
      /\ stage = "append" /\ nid < cursor[fam] /\ nid' = nid + 1
  BY DEF AppendItem, tables
<1>a. PICK k \in 1 .. Len(ranges) : \E j \in 1 .. ranges[k][fam].count : ItemStep(k, j)
  BY AppendItemCase
<1>b. PICK j \in 1 .. ranges[k][fam].count : ItemStep(k, j)
  BY <1>a
<1> DEFINE p    == Partition(nid)
           base == IF p \in DOMAIN bufs THEN bufs[p] ELSE CommittedPrefix(fam, p)
           row  == pending[k].rows[fam][j].bytes
           buf  == base \o row
<1>c. /\ p \notin DOMAIN bufs => Appendable(fam, p)
      /\ bufs' = Put(bufs, p, buf)
      /\ locs' = Put(locs, <<fam, nid>>, Len(buf))
  BY <1>b DEF ItemStep
<1>d. /\ up /\ fam \in Family /\ nid \in Nat /\ p \in Nat
      /\ cursor[fam] \in Nat /\ state.next[fam] \in Nat /\ state.next[fam] <= nid
  BY <1>0, PartitionNat DEF IInv, TypeOK, BatchShape, StateType
<1>e. /\ base \in Seq(Byte)
      /\ \A jd \in CommittedIds(stateIndex, fam) : Partition(jd) = p =>
           /\ location[<<fam, jd>>] <= Len(base)
           /\ \A i \in 1 .. location[<<fam, jd>>] : base[i] = blob[<<fam, p>>][i]
      /\ \A id \in Nat : <<fam, id>> \in DOMAIN locs /\ Partition(id) = p =>
           locs[<<fam, id>>] <= Len(base)
  BY <1>0, <1>c, <1>d, BaseCovers
<1>f. row \in Seq(Byte)
  <2>1. pending[k] \in Blocks /\ j \in 1 .. Len(pending[k].rows[fam])
    BY <1>0, <1>d DEF IInv, BatchShape, TypeOK
  <2> QED
    BY <1>d, <2>1, RowBytes
<1> HIDE DEF base, row
<1>g. /\ buf \in Seq(Byte) /\ Len(base) \in Nat /\ Len(buf) \in Nat /\ Len(base) <= Len(buf)
      /\ \A i \in 1 .. Len(base) : buf[i] = base[i]
  BY <1>e, <1>f
<1> HIDE DEF buf, p
<1>h. /\ DOMAIN bufs' = DOMAIN bufs \cup {p} /\ bufs'[p] = buf
      /\ \A q \in DOMAIN bufs : q # p => bufs'[q] = bufs[q]
  BY <1>c DEF Put
<1>i. /\ DOMAIN locs' = DOMAIN locs \cup {<<fam, nid>>} /\ locs'[<<fam, nid>>] = Len(buf)
      /\ \A x \in DOMAIN locs : x # <<fam, nid>> => locs'[x] = locs[x]
  BY <1>c DEF Put
<1>j. \A jd \in CommittedIds(stateIndex, fam) :
        location[<<fam, jd>>] \in Nat /\ jd \in Nat
  BY <1>d, Frontier DEF IInv, Recoverable, CommittedLocated, TypeOK
<1>k. \A f \in Family, id \in Nat : <<f, id>> \in DOMAIN locs =>
        /\ state.next[f] <= id /\ id < Prepared[f]
        /\ locs[<<f, id>>] \in Nat
  <2> SUFFICES ASSUME NEW f \in Family, NEW id \in Nat, <<f, id>> \in DOMAIN locs
               PROVE  /\ state.next[f] <= id /\ id < Prepared[f]
                      /\ locs[<<f, id>>] \in Nat
    OBVIOUS
  <2> QED
    BY <1>d DEF IInv, NewLocations, TypeOK
<1>l. Prepared[fam] = nid /\ Prepared'[fam] = nid + 1
      /\ \A f \in Family : f # fam => Prepared'[f] = Prepared[f]
  <2>1. ~(fam < fam)
    BY <1>d, SizesAssumption DEF Family
  <2>2. stage \notin {"idle", "assign"} /\ stage \in {"append", "payload"}
    BY <1>0
  <2>3. Prepared = [f \in Family |-> IF f < fam THEN cursor[f]
                                    ELSE IF f = fam THEN nid ELSE state.next[f]]
    BY <2>2 DEF Prepared
  <2>4. Prepared' = [f \in Family |-> IF f < fam THEN cursor[f]
                                     ELSE IF f = fam THEN nid + 1 ELSE state.next[f]]
    BY <1>0, <2>2 DEF Prepared
  <2> QED
    BY <1>d, <2>1, <2>3, <2>4
<1>1. Recoverable' /\ CommittedUnchanged
  BY <1>0, FixedTables
<1>2. MemoryAgrees'
  BY <1>0 DEF IInv, MemoryAgrees
<1>3. BatchShape'
  BY <1>0, <1>d DEF IInv, BatchShape
<1>4. NewLocations'
  <2>1. ASSUME NEW f \in Family, NEW id \in Nat
        PROVE  <<f, id>> \in DOMAIN locs' <=> state'.next[f] <= id /\ id < Prepared'[f]
    <3>1. <<f, id>> \in DOMAIN locs <=> state.next[f] <= id /\ id < Prepared[f]
      BY <1>d DEF IInv, NewLocations
    <3>2. <<f, id>> \in DOMAIN locs' <=> <<f, id>> \in DOMAIN locs \/ (f = fam /\ id = nid)
      BY <1>i
    <3> QED
      BY <1>0, <1>d, <1>l, <3>1, <3>2
  <2>2. ASSUME NEW f \in Family, NEW id \in Nat, NEW jd \in Nat,
               <<f, id>> \in DOMAIN locs', <<f, jd>> \in DOMAIN locs',
               jd <= id, Partition(jd) = Partition(id)
        PROVE  locs'[<<f, jd>>] <= locs'[<<f, id>>]
    <3>1. CASE <<f, id>> = <<fam, nid>> /\ <<f, jd>> = <<fam, nid>>
      BY <1>g, <1>i, <3>1
    <3>2. CASE <<f, id>> = <<fam, nid>> /\ <<f, jd>> # <<fam, nid>>
      <4>1. f = fam /\ id = nid /\ <<fam, jd>> \in DOMAIN locs /\ Partition(jd) = p
        BY <1>i, <2>2, <3>2 DEF p
      <4>2. locs[<<fam, jd>>] <= Len(base) /\ locs[<<fam, jd>>] \in Nat
        BY <1>d, <1>e, <1>k, <4>1
      <4> QED
        BY <1>g, <1>i, <3>2, <4>1, <4>2
    <3>3. CASE <<f, id>> # <<fam, nid>> /\ <<f, jd>> = <<fam, nid>>
      BY <1>d, <1>i, <1>k, <1>l, <2>2, <3>3
    <3>4. CASE <<f, id>> # <<fam, nid>> /\ <<f, jd>> # <<fam, nid>>
      <4>1. /\ <<f, id>> \in DOMAIN locs /\ <<f, jd>> \in DOMAIN locs
            /\ locs'[<<f, id>>] = locs[<<f, id>>] /\ locs'[<<f, jd>>] = locs[<<f, jd>>]
        BY <1>i, <2>2, <3>4
      <4> QED
        BY <2>2, <4>1 DEF IInv, NewLocations
    <3> QED
      BY <3>1, <3>2, <3>3, <3>4
  <2>3. ASSUME NEW f \in Family, NEW id \in Nat, NEW jd \in CommittedIds(stateIndex, f),
               <<f, id>> \in DOMAIN locs', Partition(jd) = Partition(id)
        PROVE  location[<<f, jd>>] <= locs'[<<f, id>>]
    <3>1. CASE <<f, id>> = <<fam, nid>>
      <4>1. f = fam /\ id = nid /\ Partition(jd) = p
        BY <2>3, <3>1 DEF p
      <4>2. location[<<fam, jd>>] <= Len(base) /\ location[<<fam, jd>>] \in Nat
        BY <1>e, <1>j, <4>1
      <4> QED
        BY <1>g, <1>i, <4>1, <4>2
    <3>2. CASE <<f, id>> # <<fam, nid>>
      <4>1. <<f, id>> \in DOMAIN locs /\ locs'[<<f, id>>] = locs[<<f, id>>]
        BY <1>i, <2>3, <3>2
      <4> QED
        BY <2>3, <4>1 DEF IInv, NewLocations
    <3> QED
      BY <3>1, <3>2
  <2>4. ASSUME NEW f \in Family, NEW id \in Nat, <<f, id>> \in DOMAIN locs'
        PROVE  IF f = fam
                 THEN /\ Partition(id) \in DOMAIN bufs'
                      /\ locs'[<<f, id>>] <= Len(bufs'[Partition(id)])
                 ELSE /\ <<f, Partition(id)>> \in DOMAIN blob
                      /\ locs'[<<f, id>>] <= Len(blob[<<f, Partition(id)>>])
    <3>1. CASE <<f, id>> = <<fam, nid>>
      <4>1. f = fam /\ id = nid /\ Partition(id) = p
        BY <3>1 DEF p
      <4> QED
        BY <1>g, <1>h, <1>i, <4>1
    <3>2. CASE <<f, id>> # <<fam, nid>>
      <4>1. <<f, id>> \in DOMAIN locs /\ locs'[<<f, id>>] = locs[<<f, id>>]
        BY <1>i, <2>4, <3>2
      <4>2. IF f = fam
              THEN /\ Partition(id) \in DOMAIN bufs
                   /\ locs[<<f, id>>] <= Len(bufs[Partition(id)])
              ELSE /\ <<f, Partition(id)>> \in DOMAIN blob
                   /\ locs[<<f, id>>] <= Len(blob[<<f, Partition(id)>>])
        BY <1>0, <4>1 DEF IInv, NewLocations, Buffered
      <4>3. CASE f = fam /\ Partition(id) = p
        <5>1. locs[<<fam, id>>] <= Len(base) /\ locs[<<fam, id>>] \in Nat
          BY <1>d, <1>e, <1>k, <4>1, <4>3
        <5> QED
          BY <1>g, <1>h, <4>1, <4>3, <5>1
      <4>4. CASE ~(f = fam /\ Partition(id) = p)
        BY <1>h, <4>1, <4>2, <4>4
      <4> QED
        BY <4>3, <4>4
    <3> QED
      BY <3>1, <3>2
  <2>5. ASSUME NEW f \in Family, NEW id \in Nat, <<f, id>> \in DOMAIN locs'
        PROVE  IF Buffered(f, Partition(id))'
                 THEN /\ Partition(id) \in DOMAIN bufs'
                      /\ locs'[<<f, id>>] <= Len(bufs'[Partition(id)])
                 ELSE /\ <<f, Partition(id)>> \in DOMAIN blob'
                      /\ locs'[<<f, id>>] <= Len(blob'[<<f, Partition(id)>>])
    BY <1>0, <2>4, <2>5 DEF Buffered
  <2>6. \A f \in Family : CommittedIds(stateIndex, f)' = CommittedIds(stateIndex, f)
    BY <1>0 DEF CommittedIds, FirstId
  <2> QED
    BY <1>0, <1>d, <2>1, <2>2, <2>3, <2>5, <2>6 DEF NewLocations, Partition
<1>5. BuffersExtend'
  <2>1. ASSUME NEW q \in DOMAIN bufs', NEW jd \in CommittedIds(stateIndex, fam),
               Partition(jd) = q
        PROVE  /\ location[<<fam, jd>>] <= Len(bufs'[q])
               /\ \A i \in 1 .. location[<<fam, jd>>] : bufs'[q][i] = blob[<<fam, q>>][i]
    <3>1. CASE q = p
      <4>1. /\ location[<<fam, jd>>] \in Nat /\ location[<<fam, jd>>] <= Len(base)
            /\ \A i \in 1 .. location[<<fam, jd>>] : base[i] = blob[<<fam, p>>][i]
        BY <1>e, <1>j, <2>1, <3>1
      <4>2. \A i \in 1 .. location[<<fam, jd>>] : buf[i] = base[i]
        BY <1>g, <4>1
      <4>3. location[<<fam, jd>>] <= Len(buf)
        BY <1>g, <4>1
      <4> QED
        BY <1>h, <3>1, <4>1, <4>2, <4>3
    <3>2. CASE q # p
      BY <1>0, <1>h, <2>1, <3>2 DEF IInv, BuffersExtend
    <3> QED
      BY <3>1, <3>2
  <2> QED
    BY <1>0, <2>1 DEF BuffersExtend, CommittedIds, FirstId, Partition
<1>6. StagesStored'
  BY <1>0 DEF StagesStored, Located, Hashed
<1> QED
  BY <1>1, <1>2, <1>3, <1>4, <1>5, <1>6 DEF Rest

LEMMA BeginPutStep ==
  ASSUME IInv, BeginPutPayload
  PROVE  Rest' /\ CommittedUnchanged
<1>0. /\ UNCHANGED <<stateIndex, blob, location, blockHash, ranges, cursor, fam, nid,
                     bufs, locs, up, state, pending>>
      /\ stage = "append" /\ stage' = "payload" /\ nid = cursor[fam]
      /\ unput' = DOMAIN bufs
  BY DEF BeginPutPayload, tables
<1>1. Recoverable' /\ CommittedUnchanged
  BY <1>0, FixedTables
<1>2. MemoryAgrees' /\ BatchShape'
  BY <1>0 DEF IInv, MemoryAgrees, BatchShape
<1>3. NewLocations'
  <2>1. Prepared' = Prepared
    BY <1>0 DEF Prepared
  <2>2. ASSUME NEW f \in Family, NEW id \in Nat, <<f, id>> \in DOMAIN locs
        PROVE  IF Buffered(f, Partition(id))'
                 THEN /\ Partition(id) \in DOMAIN bufs
                      /\ locs[<<f, id>>] <= Len(bufs[Partition(id)])
                 ELSE /\ <<f, Partition(id)>> \in DOMAIN blob
                      /\ locs[<<f, id>>] <= Len(blob[<<f, Partition(id)>>])
    <3>1. CASE f = fam
      <4>1. /\ Partition(id) \in DOMAIN bufs
            /\ locs[<<f, id>>] <= Len(bufs[Partition(id)])
        BY <1>0, <2>2, <3>1 DEF IInv, NewLocations, Buffered
      <4>2. Buffered(f, Partition(id))'
        BY <1>0, <3>1, <4>1 DEF Buffered, Partition
      <4> QED
        BY <4>1, <4>2
    <3>2. CASE f # fam
      BY <1>0, <2>2, <3>2 DEF IInv, NewLocations, Buffered
    <3> QED
      BY <3>1, <3>2
  <2> QED
    BY <1>0, <2>1, <2>2 DEF IInv, NewLocations, CommittedIds, FirstId, Partition
<1>4. BuffersExtend' /\ StagesStored'
  BY <1>0 DEF IInv, BuffersExtend, StagesStored, Located, Hashed, CommittedIds,
              FirstId, Partition
<1> QED
  BY <1>1, <1>2, <1>3, <1>4 DEF Rest

(* One blob of the batch reaches the store: it begins with the committed   *)
(* bytes of the blob it replaces.                                          *)
LEMMA PutPayloadStep ==
  ASSUME IInv, NEW p \in unput, PutPayload(p)
  PROVE  Rest' /\ CommittedUnchanged
<1>0. /\ UNCHANGED <<stateIndex, location, blockHash, ranges, cursor, fam, nid,
                     bufs, locs, up, state, pending, stage>>
      /\ stage = "payload" /\ unput' = unput \ {p}
      /\ blob' = Put(blob, <<fam, p>>, bufs[p])
  BY DEF PutPayload
<1>a. /\ p \in DOMAIN bufs /\ fam \in Family /\ up
  BY <1>0 DEF IInv, BuffersExtend, TypeOK, BatchShape
<1>b. /\ DOMAIN blob' = DOMAIN blob \cup {<<fam, p>>} /\ blob'[<<fam, p>>] = bufs[p]
      /\ \A x \in DOMAIN blob : x # <<fam, p>> => blob'[x] = blob[x]
  BY <1>0 DEF Put
<1>c. \A jd \in CommittedIds(stateIndex, fam) : Partition(jd) = p =>
        /\ location[<<fam, jd>>] <= Len(bufs[p])
        /\ \A i \in 1 .. location[<<fam, jd>>] : bufs[p][i] = blob[<<fam, p>>][i]
  BY <1>0, <1>a DEF IInv, BuffersExtend
<1>d. \A f \in Family : CommittedIds(stateIndex, f)' = CommittedIds(stateIndex, f)
  BY <1>0 DEF CommittedIds, FirstId
<1>1. CommittedLocated' /\ CommittedUnchanged
  <2>1. ASSUME NEW f \in Family, NEW id \in CommittedIds(stateIndex, f)
        PROVE  /\ <<f, Partition(id)>> \in DOMAIN blob'
               /\ location[<<f, id>>] <= Len(blob'[<<f, Partition(id)>>])
               /\ \A i \in 1 .. location[<<f, id>>] :
                    blob'[<<f, Partition(id)>>][i] = blob[<<f, Partition(id)>>][i]
    <3>1. CASE f = fam /\ Partition(id) = p
      BY <1>b, <1>c, <2>1, <3>1
    <3>2. CASE ~(f = fam /\ Partition(id) = p)
      <4>1. /\ <<f, Partition(id)>> \in DOMAIN blob
            /\ location[<<f, id>>] <= Len(blob[<<f, Partition(id)>>])
        BY <2>1 DEF IInv, Recoverable, CommittedLocated
      <4>2. <<f, Partition(id)>> # <<fam, p>>
        BY <3>2
      <4> QED
        BY <1>b, <4>1, <4>2
    <3> QED
      BY <3>1, <3>2
  <2>2. CommittedLocated'
    BY <1>0, <1>d, <2>1 DEF IInv, Recoverable, CommittedLocated, Partition
  <2>3. CommittedUnchanged
    BY <1>0, <1>d, <2>1 DEF IInv, Recoverable, CommittedLocated, CommittedUnchanged
  <2> QED
    BY <2>2, <2>3
<1>2. Recoverable'
  BY <1>0, <1>1 DEF IInv, Recoverable, Openable, HasLastBlock, LastBlockId
<1>3. MemoryAgrees' /\ BatchShape'
  BY <1>0 DEF IInv, MemoryAgrees, BatchShape
<1>4. NewLocations'
  <2>1. Prepared' = Prepared
    BY <1>0 DEF Prepared
  <2>2. ASSUME NEW f \in Family, NEW id \in Nat, <<f, id>> \in DOMAIN locs
        PROVE  IF Buffered(f, Partition(id))'
                 THEN /\ Partition(id) \in DOMAIN bufs
                      /\ locs[<<f, id>>] <= Len(bufs[Partition(id)])
                 ELSE /\ <<f, Partition(id)>> \in DOMAIN blob'
                      /\ locs[<<f, id>>] <= Len(blob'[<<f, Partition(id)>>])
    <3>0. IF Buffered(f, Partition(id))
            THEN /\ Partition(id) \in DOMAIN bufs
                 /\ locs[<<f, id>>] <= Len(bufs[Partition(id)])
            ELSE /\ <<f, Partition(id)>> \in DOMAIN blob
                 /\ locs[<<f, id>>] <= Len(blob[<<f, Partition(id)>>])
      BY <2>2 DEF IInv, NewLocations
    <3>1. CASE f = fam /\ Partition(id) = p
      <4>1. Buffered(f, Partition(id))
        BY <1>0, <3>1 DEF Buffered
      <4>2. ~Buffered(f, Partition(id))'
        BY <1>0, <3>1 DEF Buffered, Partition
      <4> QED
        BY <1>b, <3>0, <3>1, <4>1, <4>2
    <3>2. CASE ~(f = fam /\ Partition(id) = p)
      <4>1. Buffered(f, Partition(id))' <=> Buffered(f, Partition(id))
        BY <1>0, <3>2 DEF Buffered, Partition
      <4>2. <<f, Partition(id)>> # <<fam, p>>
        BY <3>2
      <4>3. CASE Buffered(f, Partition(id))
        BY <3>0, <4>1, <4>3
      <4>4. CASE ~Buffered(f, Partition(id))
        BY <1>b, <3>0, <4>1, <4>2, <4>4
      <4> QED
        BY <4>3, <4>4
    <3> QED
      BY <3>1, <3>2
  <2> QED
    BY <1>0, <1>d, <2>1, <2>2 DEF IInv, NewLocations, Partition
<1>5. BuffersExtend'
  <2>1. ASSUME NEW q \in DOMAIN bufs, NEW jd \in CommittedIds(stateIndex, fam),
               Partition(jd) = q
        PROVE  /\ location[<<fam, jd>>] <= Len(bufs[q])
               /\ \A i \in 1 .. location[<<fam, jd>>] : bufs[q][i] = blob'[<<fam, q>>][i]
    <3>1. CASE q = p
      BY <1>b, <1>c, <2>1, <3>1
    <3>2. CASE q # p
      <4>1. <<fam, q>> \in DOMAIN blob /\ <<fam, q>> # <<fam, p>>
        BY <1>a, <2>1, <3>2 DEF IInv, Recoverable, CommittedLocated
      <4>2. blob'[<<fam, q>>] = blob[<<fam, q>>]
        BY <1>b, <4>1
      <4> QED
        BY <1>0, <2>1, <4>2 DEF IInv, BuffersExtend
    <3> QED
      BY <3>1, <3>2
  <2> QED
    BY <1>0, <1>a, <1>d, <2>1 DEF IInv, BuffersExtend, Partition
<1>6. StagesStored'
  BY <1>0 DEF StagesStored, Located, Hashed
<1> QED
  BY <1>1, <1>2, <1>3, <1>4, <1>5, <1>6 DEF Rest

LEMMA FamilyDoneStep ==
  ASSUME IInv, FamilyDone
  PROVE  Rest' /\ CommittedUnchanged
<1>0. /\ UNCHANGED <<stateIndex, blob, location, blockHash, ranges, cursor, unput,
                     locs, up, state, pending>>
      /\ stage = "payload" /\ unput = {} /\ bufs' = EmptyTable
      /\ \/ /\ fam + 1 < NumFamilies /\ stage' = "append"
            /\ fam' = fam + 1 /\ nid' = state.next[fam + 1]
         \/ /\ ~(fam + 1 < NumFamilies) /\ stage' = "location"
            /\ fam' = fam /\ nid' = nid
  BY DEF FamilyDone, tables
<1>a. /\ up /\ fam \in Family /\ nid = cursor[fam]
      /\ state.next \in [Family -> Nat] /\ cursor \in [Family -> Nat]
  BY <1>0 DEF IInv, TypeOK, StateType, BatchShape
<1>b. DOMAIN bufs' = {}
  BY <1>0 DEF EmptyTable
<1>1. Recoverable' /\ CommittedUnchanged
  BY <1>0, FixedTables
<1>2. MemoryAgrees'
  BY <1>0, <1>a DEF IInv, MemoryAgrees
<1>3. BatchShape'
  <2>1. fam' = fam + 1 /\ stage' = "append" =>
          state.next[fam'] <= nid' /\ nid' <= cursor[fam']
    <3>1. CASE fam + 1 < NumFamilies
      <4>1. fam + 1 \in Family
        BY <1>a, <3>1, SizesAssumption DEF Family
      <4>2. state.next[fam + 1] <= cursor[fam + 1] /\ state.next[fam + 1] \in Nat
        BY <1>0, <1>a, <4>1 DEF IInv, BatchShape
      <4> QED
        BY <1>0, <3>1, <4>2
    <3> QED
      BY <1>0, <3>1
  <2> QED
    BY <1>0, <2>1 DEF IInv, BatchShape
<1>4. NewLocations'
  <2>1. \A f \in Family : Prepared'[f] = Prepared[f]
    <3> SUFFICES ASSUME NEW f \in Family PROVE Prepared'[f] = Prepared[f]
      OBVIOUS
    <3>0. f \in Int /\ fam \in Int /\ NumFamilies \in Int /\ f < NumFamilies
      BY <1>a, SizesAssumption DEF Family
    <3>1. Prepared[f] = IF f < fam THEN cursor[f] ELSE IF f = fam THEN nid ELSE state.next[f]
      BY <1>0 DEF Prepared
    <3>2. CASE stage' = "append"
      <4>1. Prepared'[f] = IF f < fam + 1 THEN cursor[f]
                           ELSE IF f = fam + 1 THEN state.next[fam + 1] ELSE state.next[f]
        BY <1>0, <3>2 DEF Prepared
      <4> QED
        BY <1>a, <3>0, <3>1, <4>1
    <3>3. CASE stage' = "location"
      <4>1. Prepared'[f] = cursor[f] /\ ~(fam + 1 < NumFamilies)
        BY <1>0, <3>3 DEF Prepared
      <4> QED
        BY <1>a, <3>0, <3>1, <4>1
    <3> QED
      BY <1>0, <3>2, <3>3
  <2>2. ASSUME NEW f \in Family, NEW id \in Nat, <<f, id>> \in DOMAIN locs
        PROVE  /\ ~Buffered(f, Partition(id))'
               /\ <<f, Partition(id)>> \in DOMAIN blob
               /\ locs[<<f, id>>] <= Len(blob[<<f, Partition(id)>>])
    <3>1. ~Buffered(f, Partition(id))
      BY <1>0 DEF Buffered
    <3>2. /\ <<f, Partition(id)>> \in DOMAIN blob
          /\ locs[<<f, id>>] <= Len(blob[<<f, Partition(id)>>])
      BY <2>2, <3>1 DEF IInv, NewLocations
    <3>3. state.next[f] <= id /\ id < Prepared[f]
      BY <1>a, <2>2 DEF IInv, NewLocations
    <3>4. ~(stage' = "append" /\ f = fam + 1)
      <4>1. SUFFICES ASSUME f = fam + 1 PROVE FALSE
        OBVIOUS
      <4>2. Prepared[f] = state.next[f]
        BY <1>0, <1>a, <4>1, SizesAssumption DEF Prepared, Family
      <4>3. state.next[f] \in Nat
        BY <1>a
      <4> QED
        BY <3>3, <4>2, <4>3
    <3>5. ~Buffered(f, Partition(id))'
      BY <1>0, <3>4 DEF Buffered, Partition
    <3> QED
      BY <3>2, <3>5
  <2> QED
    BY <1>0, <1>a, <2>1, <2>2 DEF IInv, NewLocations, CommittedIds, FirstId, Partition
<1>5. BuffersExtend' /\ StagesStored'
  BY <1>0, <1>b DEF BuffersExtend, StagesStored, Located, Hashed
<1> QED
  BY <1>1, <1>2, <1>3, <1>4, <1>5 DEF Rest

(* Only locations of uncommitted ids are written. *)
LEMMA PutLocationsStep ==
  ASSUME IInv, PutLocations
  PROVE  Rest' /\ CommittedUnchanged
<1>0. /\ UNCHANGED <<stateIndex, blob, blockHash, ranges, cursor, fam, nid, bufs,
                     unput, locs, up, state, pending>>
      /\ stage = "location" /\ stage' = "bitmap_read"
      /\ location' = PutBatch(location, locs)
  BY DEF PutLocations, scratch
<1>a. up
  BY <1>0 DEF IInv, BatchShape
<1>b. \A f \in Family : CommittedIds(stateIndex, f)' = CommittedIds(stateIndex, f)
  BY <1>0 DEF CommittedIds, FirstId
<1>c. /\ DOMAIN location' = DOMAIN location \cup DOMAIN locs
      /\ \A k \in DOMAIN locs : location'[k] = locs[k]
      /\ \A k \in DOMAIN location : k \notin DOMAIN locs => location'[k] = location[k]
  BY <1>0 DEF PutBatch
<1>d. ASSUME NEW f \in Family, NEW id \in CommittedIds(stateIndex, f)
      PROVE  /\ id \in Nat /\ <<f, id>> \in DOMAIN location'
             /\ location'[<<f, id>>] = location[<<f, id>>]
  <2>1. id \in Nat /\ id < state.next[f] /\ state.next[f] \in Nat
    BY <1>a, <1>d, Frontier DEF IInv, TypeOK, StateType
  <2>2. <<f, id>> \in DOMAIN location
    BY <1>d DEF IInv, Recoverable, CommittedLocated
  <2>3. <<f, id>> \notin DOMAIN locs
    <3>1. SUFFICES ASSUME <<f, id>> \in DOMAIN locs PROVE FALSE
      OBVIOUS
    <3>2. state.next[f] <= id
      BY <1>a, <2>1, <3>1 DEF IInv, NewLocations
    <3> QED
      BY <2>1, <3>2
  <2> QED
    BY <1>c, <2>1, <2>2, <2>3
<1>1. CommittedLocated'
  BY <1>0, <1>b, <1>d DEF IInv, Recoverable, CommittedLocated, Partition
<1>2. CommittedUnchanged
  BY <1>0, <1>b, <1>d DEF CommittedUnchanged
<1>3. Recoverable'
  BY <1>0, <1>1 DEF IInv, Recoverable, Openable, HasLastBlock, LastBlockId
<1>4. MemoryAgrees' /\ BatchShape'
  BY <1>0, <1>a DEF IInv, MemoryAgrees, BatchShape
<1>5. NewLocations'
  <2>1. Prepared' = Prepared
    BY <1>0 DEF Prepared
  <2>2. ASSUME NEW f \in Family, NEW id \in Nat, <<f, id>> \in DOMAIN locs
        PROVE  /\ ~Buffered(f, Partition(id))'
               /\ <<f, Partition(id)>> \in DOMAIN blob
               /\ locs[<<f, id>>] <= Len(blob[<<f, Partition(id)>>])
    BY <1>0, <2>2 DEF IInv, NewLocations, Buffered
  <2>3. ASSUME NEW f \in Family, NEW id \in Nat, NEW jd \in CommittedIds(stateIndex, f),
               <<f, id>> \in DOMAIN locs, Partition(jd) = Partition(id)
        PROVE  location'[<<f, jd>>] <= locs[<<f, id>>]
    BY <1>d, <2>3 DEF IInv, NewLocations
  <2> QED
    BY <1>0, <1>b, <2>1, <2>2, <2>3 DEF IInv, NewLocations, Partition
<1>6. BuffersExtend' /\ StagesStored'
  BY <1>0, <1>c DEF BuffersExtend, StagesStored, Located, Hashed
<1> QED
  BY <1>2, <1>3, <1>4, <1>5, <1>6 DEF Rest

(* The commit: the ids of the batch become committed, and their locations  *)
(* and bytes are already in place.                                         *)
LEMMA PutStateStep ==
  ASSUME IInv, PutState
  PROVE  Rest' /\ CommittedUnchanged
<1>0. /\ UNCHANGED <<blob, location, blockHash, up>>
      /\ stage = "state" /\ stage' = "idle"
      /\ stateIndex' = BatchState /\ state' = BatchState
      /\ pending' = <<>> /\ ranges' = <<>> /\ bufs' = EmptyTable /\ locs' = EmptyTable
  BY DEF PutState, ClearScratch
<1> DEFINE n == Len(pending)
<1>a. /\ up /\ pending # <<>> /\ pending \in Seq(Blocks) /\ n \in Nat /\ n > 0
      /\ state.next \in [Family -> Nat] /\ cursor \in [Family -> Nat]
      /\ cursor[BlockHeader] = state.next[BlockHeader] + n
      /\ state.start \in Nat
  BY <1>0 DEF IInv, BatchShape, TypeOK, StateType
<1>b. pending[n].number = state.next[BlockHeader] + n - 1
  BY <1>a DEF IInv, MemoryAgrees
<1>c. state.started
  BY <1>a DEF IInv, MemoryAgrees, StartAt, DefaultState
<1>d. /\ stateIndex'.started /\ stateIndex'.start = state.start
      /\ stateIndex'.next = cursor
  <2>1. pending[n].number + 1 = cursor[BlockHeader]
    BY <1>a, <1>b, Families
  <2>2. [cursor EXCEPT ![BlockHeader] = pending[n].number + 1] = cursor
    BY <1>a, <2>1, Families
  <2> QED
    BY <1>0, <1>c, <2>2 DEF BatchState
<1>e. state.start <= state.next[BlockHeader]
  <2>1. CASE stateIndex.started /\ state = stateIndex
    BY <1>a, <2>1, Families DEF IInv, MemoryAgrees
  <2>2. CASE stateIndex = DefaultState /\ state = StartAt(DefaultState)
    BY <1>a, <2>2, Families, SizesAssumption DEF StartAt, DefaultState
  <2> QED
    BY <1>a, <2>1, <2>2 DEF IInv, MemoryAgrees
(* The committed ids after the step are those before it and the batch's. *)
<1>f. ASSUME NEW f \in Family, NEW id \in CommittedIds(stateIndex', f)
      PROVE  /\ id \in Nat
             /\ id \in CommittedIds(stateIndex, f) \/ <<f, id>> \in DOMAIN locs
  <2>0. /\ id \in Nat /\ FirstId(stateIndex', f) <= id /\ id < cursor[f]
        /\ FirstId(stateIndex', f) = FirstId(state, f)
    BY <1>a, <1>d, <1>f DEF CommittedIds, FirstId
  <2>1. CASE id >= state.next[f]
    <3>1. Prepared[f] = cursor[f]
      BY <1>0 DEF Prepared
    <3> QED
      BY <1>a, <2>0, <2>1, <3>1 DEF IInv, NewLocations
  <2>2. CASE id < state.next[f]
    <3>1. CASE stateIndex.started /\ state = stateIndex
      BY <1>a, <2>0, <2>2, <3>1 DEF CommittedIds, FirstId
    <3>2. CASE stateIndex = DefaultState /\ state = StartAt(DefaultState)
      BY <2>0, <2>2, <3>2, SizesAssumption DEF StartAt, DefaultState, FirstId, BlockHeader, Family
    <3> QED
      BY <1>a, <3>1, <3>2 DEF IInv, MemoryAgrees
  <2> QED
    BY <1>a, <2>0, <2>1, <2>2
<1>g. ASSUME NEW f \in Family, NEW id \in CommittedIds(stateIndex, f)
      PROVE  id \in Nat /\ id < state.next[f] /\ id \in CommittedIds(stateIndex', f)
  <2>1. id \in Nat /\ id < state.next[f] /\ FirstId(stateIndex, f) <= id
    BY <1>a, Frontier DEF IInv, CommittedIds
  <2>2. state.next[f] <= cursor[f]
    BY <1>0 DEF IInv, BatchShape
  <2>3. FirstId(stateIndex', f) = FirstId(stateIndex, f)
    <3>1. CASE stateIndex.started /\ state = stateIndex
      BY <1>d, <3>1 DEF FirstId
    <3>2. CASE stateIndex = DefaultState
      BY <1>g, <3>2 DEF DefaultState, CommittedIds, FirstId
    <3> QED
      BY <1>a, <3>1, <3>2 DEF IInv, MemoryAgrees
  <2>4. FirstId(stateIndex, f) \in Nat
    BY DEF FirstId, IInv, TypeOK, StateType
  <2> QED
    BY <1>a, <1>d, <2>1, <2>2, <2>3, <2>4 DEF CommittedIds
<1>h. \A f \in Family, id \in Nat : <<f, id>> \in DOMAIN locs =>
        /\ <<f, id>> \in DOMAIN location /\ location[<<f, id>>] = locs[<<f, id>>]
        /\ <<f, Partition(id)>> \in DOMAIN blob
        /\ locs[<<f, id>>] <= Len(blob[<<f, Partition(id)>>])
        /\ state.next[f] <= id
  <2> SUFFICES ASSUME NEW f \in Family, NEW id \in Nat, <<f, id>> \in DOMAIN locs
               PROVE  /\ <<f, id>> \in DOMAIN location /\ location[<<f, id>>] = locs[<<f, id>>]
                      /\ <<f, Partition(id)>> \in DOMAIN blob
                      /\ locs[<<f, id>>] <= Len(blob[<<f, Partition(id)>>])
                      /\ state.next[f] <= id
    OBVIOUS
  <2>1. ~Buffered(f, Partition(id))
    BY <1>0 DEF Buffered
  <2>2. /\ <<f, Partition(id)>> \in DOMAIN blob
        /\ locs[<<f, id>>] <= Len(blob[<<f, Partition(id)>>])
    BY <2>1 DEF IInv, NewLocations
  <2>3. <<f, id>> \in DOMAIN location /\ location[<<f, id>>] = locs[<<f, id>>]
    BY <1>0 DEF IInv, StagesStored, Located
  <2>4. state.next[f] <= id
    BY <1>a DEF IInv, NewLocations
  <2> QED
    BY <2>2, <2>3, <2>4
<1>1. CommittedLocated'
  <2>1. ASSUME NEW f \in Family, NEW id \in CommittedIds(stateIndex', f)
        PROVE  /\ <<f, id>> \in DOMAIN location
               /\ <<f, Partition(id)>> \in DOMAIN blob
               /\ location[<<f, id>>] <= Len(blob[<<f, Partition(id)>>])
    BY <1>f, <1>h, <2>1 DEF IInv, Recoverable, CommittedLocated
  <2>2. ASSUME NEW f \in Family, NEW id \in CommittedIds(stateIndex', f),
               NEW jd \in CommittedIds(stateIndex', f),
               jd <= id, Partition(jd) = Partition(id)
        PROVE  location[<<f, jd>>] <= location[<<f, id>>]
    <3>0. id \in Nat /\ jd \in Nat
      BY <1>f
    <3>1. CASE id \in CommittedIds(stateIndex, f) /\ jd \in CommittedIds(stateIndex, f)
      BY <2>2, <3>1 DEF IInv, Recoverable, CommittedLocated
    <3>2. CASE <<f, id>> \in DOMAIN locs /\ jd \in CommittedIds(stateIndex, f)
      <4>1. location[<<f, jd>>] <= locs[<<f, id>>]
        BY <2>2, <3>0, <3>2 DEF IInv, NewLocations
      <4> QED
        BY <1>h, <3>0, <3>2, <4>1
    <3>3. CASE id \in CommittedIds(stateIndex, f) /\ <<f, jd>> \in DOMAIN locs
      <4>1. id < state.next[f] /\ state.next[f] <= jd /\ state.next[f] \in Nat
        BY <1>a, <1>g, <1>h, <3>0, <3>3
      <4> QED
        BY <2>2, <3>0, <4>1
    <3>4. CASE <<f, id>> \in DOMAIN locs /\ <<f, jd>> \in DOMAIN locs
      <4>1. locs[<<f, jd>>] <= locs[<<f, id>>]
        BY <2>2, <3>0, <3>4 DEF IInv, NewLocations
      <4> QED
        BY <1>h, <3>0, <3>4, <4>1
    <3> QED
      BY <1>f, <3>1, <3>2, <3>3, <3>4
  <2>3. \A f \in Family : CommittedIds(stateIndex, f)' = CommittedIds(stateIndex', f)
    BY DEF CommittedIds, FirstId
  <2> QED
    BY <1>0, <2>1, <2>2, <2>3 DEF CommittedLocated, Partition
<1>2. CommittedUnchanged
  <2>1. \A f \in Family : \A id \in CommittedIds(stateIndex, f) : <<f, id>> \in DOMAIN location
    BY DEF IInv, Recoverable, CommittedLocated
  <2> QED
    BY <1>0, <1>g, <2>1 DEF CommittedUnchanged
<1>3. Recoverable'
  <2>1. stateIndex'.next[BlockHeader] - 1 = pending[n].number
    BY <1>a, <1>b, <1>d, Families
  <2>2. pending[n].number \in DOMAIN blockHash
    BY <1>0, <1>a DEF IInv, StagesStored, Hashed
  <2>3. Openable'
    BY <1>0, <2>1, <2>2 DEF Openable, LastBlockId
  <2> QED
    BY <1>1, <2>3 DEF Recoverable
<1>4. MemoryAgrees'
  <2>1. stateIndex'.start < stateIndex'.next[BlockHeader]
    BY <1>a, <1>d, <1>e, Families
  <2>2. Len(pending') = 0
    BY <1>0
  <2> QED
    BY <1>0, <1>a, <1>d, <2>1, <2>2 DEF MemoryAgrees
<1>5. BatchShape'
  BY <1>0 DEF BatchShape
<1>6. NewLocations'
  <2>1. DOMAIN locs' = {}
    BY <1>0 DEF EmptyTable
  <2>2. \A f \in Family : Prepared'[f] = state'.next[f] /\ state'.next[f] \in Nat
    BY <1>0, <1>a, <1>d DEF Prepared
  <2>3. \A f \in Family, id \in Nat : ~(state'.next[f] <= id /\ id < Prepared'[f])
    BY <2>2
  <2> QED
    BY <1>0, <1>a, <2>1, <2>3 DEF NewLocations
<1>7. BuffersExtend' /\ StagesStored'
  BY <1>0 DEF BuffersExtend, StagesStored, Located, Hashed
<1> QED
  BY <1>2, <1>3, <1>4, <1>5, <1>6, <1>7 DEF Rest

-----------------------------------------------------------------------------
(* Every step keeps the invariant and leaves committed records unchanged. *)
LEMMA InvStep == IInv /\ [Next]_vars => IInv' /\ CommittedUnchanged
<1> SUFFICES ASSUME IInv, [Next]_vars PROVE IInv' /\ CommittedUnchanged
  OBVIOUS
<1>1. TypeOK'
  BY TypeStep
<1>2. CASE UNCHANGED vars
  <2>1. UNCHANGED <<stateIndex, blob, location, blockHash, up, state, pending, stage,
                    ranges, cursor, fam, nid, bufs, locs, unput>>
    BY <1>2 DEF vars, tables, scratch
  <2>2. Recoverable' /\ CommittedUnchanged
    BY <2>1, FixedTables
  <2>3. MemoryAgrees' /\ BatchShape'
    BY <2>1 DEF IInv, MemoryAgrees, BatchShape
  <2>4. NewLocations'
    BY <2>1 DEF IInv, NewLocations, CommittedIds, FirstId, Prepared, Buffered, Partition
  <2>5. BuffersExtend' /\ StagesStored'
    BY <2>1 DEF IInv, BuffersExtend, StagesStored, CommittedIds, FirstId, Partition
  <2> QED
    BY <1>1, <2>2, <2>3, <2>4, <2>5 DEF IInv
<1>3. CASE Next
  <2>1. Rest' /\ CommittedUnchanged
    BY <1>3, OpenStep, AppendStep, BeginFlushStep, AssignRangeStep, AssignedStep,
       AppendItemStep, BeginPutStep, PutPayloadStep, FamilyDoneStep, PutLocationsStep,
       LateSteps, PutStateStep, AbandonStep DEF Next, Flushing
  <2> QED
    BY <1>1, <2>1 DEF Rest, IInv
<1> QED
  BY <1>2, <1>3

(* The variables keep their types in every behaviour of the writer. *)
THEOREM TypeCorrect == Spec => []TypeOK
<1>1. IInv => TypeOK
  BY DEF IInv
<1> QED
  BY InitIInv, InvStep, <1>1, PTL DEF Spec

(* After any prefix of a flush, with any writes lost to a crash or an      *)
(* error, the index can be opened and extended.                            *)
THEOREM AlwaysRecoverable == Spec => []Recoverable
<1>1. IInv => Recoverable
  BY DEF IInv
<1> QED
  BY InitIInv, InvStep, <1>1, PTL DEF Spec

(* A committed record keeps its place and its bytes for ever. *)
THEOREM CommittedForever == Spec => CommittedStable
<1>1. IInv /\ [Next]_vars => [CommittedUnchanged]_vars
  BY InvStep
<1> QED
  BY InitIInv, InvStep, <1>1, PTL DEF Spec, CommittedStable

-----------------------------------------------------------------------------
(***************************************************************************)
(* What the committed tables hold.                                         *)
(***************************************************************************)
(* The bytes from .. to of a blob, the first excluded, are a record's. *)
HoldsAt(bytes, from, to, row) ==
  /\ from \in Nat /\ to = from + Len(row) /\ to <= Len(bytes)
  /\ \A i \in 1 .. Len(row) : bytes[from + i] = row[i]

RowStored(f, id, row) ==
  /\ id \in CommittedIds(stateIndex, f)
  /\ HoldsAt(blob[<<f, Partition(id)>>], PayloadStart(f, id), location[<<f, id>>], row)

RangeStored(f, n, b) ==
  /\ <<f, n>> \in DOMAIN familyRange
  /\ familyRange[<<f, n>>].first \in Nat
  /\ familyRange[<<f, n>>].count = Len(b.rows[f])
  /\ \A j \in 1 .. Len(b.rows[f]) :
       RowStored(f, familyRange[<<f, n>>].first + j - 1, b.rows[f][j].bytes)

BlockStored(n, b) ==
  /\ n \in DOMAIN blockHash /\ blockHash[n] = b.hash /\ b.number = n
  /\ \A f \in Family : RangeStored(f, n, b)

CommittedHeights == stateIndex.start .. stateIndex.next[BlockHeader] - 1

BlocksStored == \A n \in CommittedHeights : \E b \in Blocks : BlockStored(n, b)

(* The hash that the next block has to extend. *)
HeadKnown ==
  /\ up => lastHash = IF HasLastBlock(state) THEN blockHash[LastBlockId(state)] ELSE NoHash
  /\ lastHash # NoHash /\ pending # <<>> => pending[1].parent = lastHash
  /\ \A k \in 1 .. Len(pending) - 1 : pending[k + 1].parent = pending[k].hash

(* The ids of the batch: ranges follow one another, from the first id that *)
(* is not committed up to the cursor.                                      *)
Assigns ==
  stage # "idle" => \A f \in Family :
    /\ \A k \in 1 .. Len(ranges) :
         /\ state.next[f] <= ranges[k][f].first
         /\ ranges[k][f].first + ranges[k][f].count <= cursor[f]
         /\ \A m \in 1 .. k - 1 :
              ranges[m][f].first + ranges[m][f].count <= ranges[k][f].first
    /\ \A id \in state.next[f] .. cursor[f] - 1 :
         \E k \in 1 .. Len(ranges) :
           ranges[k][f].first <= id /\ id < ranges[k][f].first + ranges[k][f].count

(* Where the bytes of a blob are while it is prepared and stored, and      *)
(* where a new record begins in it.                                        *)
Bytes(f, p) == IF Buffered(f, p) THEN bufs[p] ELSE blob[<<f, p>>]

NewStart(f, id) ==
  IF id = FirstId(state, f) \/ id % ITEMS_PER_BLOB = 0 THEN 0
  ELSE IF id = state.next[f] THEN location[<<f, id - 1>>]
  ELSE locs[<<f, id - 1>>]

(* Every prepared record is at its place, and the buffer that is being     *)
(* filled ends with the last one.                                          *)
NewRow(f, id, row) ==
  id < Prepared[f] => HoldsAt(Bytes(f, Partition(id)), NewStart(f, id), locs[<<f, id>>], row)
NewRows ==
  stage \notin {"idle", "assign"} =>
    \A f \in Family : \A k \in 1 .. Len(ranges) : \A j \in 1 .. ranges[k][f].count :
      NewRow(f, ranges[k][f].first + j - 1, pending[k].rows[f][j].bytes)

BufferEnds ==
  stage = "append" =>
    /\ \A p \in DOMAIN bufs : state.next[fam] < nid /\ p <= Partition(nid - 1)
    /\ state.next[fam] < nid =>
         /\ Partition(nid - 1) \in DOMAIN bufs
         /\ Len(bufs[Partition(nid - 1)]) = locs[<<fam, nid - 1>>]

(* The metadata of the batch once it is written. *)
MetadataStored ==
  /\ stage \in Hashed =>
       \A k \in 1 .. Len(pending) : blockHash[pending[k].number] = pending[k].hash
  /\ stage \in {"block_index", "state"} =>
       \A k \in 1 .. Len(pending), f \in Family :
         /\ <<f, pending[k].number>> \in DOMAIN familyRange
         /\ familyRange[<<f, pending[k].number>>] = ranges[k][f]

CInv ==
  /\ BlocksStored
  /\ HeadKnown
  /\ Assigns
  /\ NewRows
  /\ BufferEnds
  /\ MetadataStored

-----------------------------------------------------------------------------
(* Where a record lies in its blob. *)
LEMMA SameBlob ==
  ASSUME NEW id \in Nat, id > 0
  PROVE  id % ITEMS_PER_BLOB # 0 <=> Partition(id - 1) = Partition(id)
<1> DEFINE d == ITEMS_PER_BLOB
           q == id \div d
           r == id % d
<1>1. d \in Nat /\ d > 0
  BY SizesAssumption
<1>2. q \in Nat /\ r \in 0 .. d - 1 /\ id = d * q + r
  BY <1>1
<1> HIDE DEF d, q, r
<1>3. CASE r # 0
  <2>1. id - 1 = d * q + (r - 1) /\ r - 1 \in 0 .. d - 1
    BY <1>1, <1>2, <1>3
  <2>2. (id - 1) \div d = q
    BY <1>1, <1>2, <2>1
  <2> QED
    BY <1>3, <2>2 DEF Partition, d, q, r
<1>4. CASE r = 0
  <2>1. q > 0
    BY <1>1, <1>2, <1>4
  <2>2. d * (q - 1) = d * q - d
    BY <1>1, <1>2
  <2>3. id - 1 = d * (q - 1) + (d - 1)
    BY <1>1, <1>2, <1>4, <2>2
  <2>4. (id - 1) \div d = q - 1
    BY <1>1, <1>2, <2>1, <2>3
  <2> QED
    BY <1>2, <1>4, <2>4 DEF Partition, d, q, r
<1> QED
  BY <1>3, <1>4

(* A record that is held somewhere stays held when the bytes below its end *)
(* stay the same.                                                          *)
LEMMA HeldKept ==
  ASSUME NEW x \in Seq(Byte), NEW y \in Seq(Byte), NEW from, NEW to, NEW row \in Seq(Byte),
         HoldsAt(x, from, to, row), to <= Len(y), \A i \in 1 .. to : y[i] = x[i]
  PROVE  HoldsAt(y, from, to, row)
<1>1. from \in Nat /\ to = from + Len(row) /\ Len(row) \in Nat
  BY DEF HoldsAt
<1>2. \A i \in 1 .. Len(row) : from + i \in 1 .. to
  BY <1>1
<1> QED
  BY <1>1, <1>2 DEF HoldsAt

(* What is held is what a reader cuts out. *)
LEMMA HeldIsRead ==
  ASSUME NEW x \in Seq(Byte), NEW from, NEW to, NEW row \in Seq(Byte), HoldsAt(x, from, to, row)
  PROVE  SubSeq(x, from + 1, to) = row
<1>1. from \in Nat /\ to = from + Len(row) /\ Len(row) \in Nat /\ to <= Len(x) /\ to \in Nat
  BY DEF HoldsAt
<1>2. PICK s : s = SubSeq(x, from + 1, to)
  OBVIOUS
<1>3. s \in Seq(Byte) /\ Len(s) = Len(row)
  BY <1>1, <1>2
<1>4. ASSUME NEW i \in 1 .. Len(row) PROVE s[i] = row[i]
  <2>1. s[i] = x[from + i]
    BY <1>1, <1>2
  <2> QED
    BY <2>1 DEF HoldsAt
<1>5. s = row
  BY <1>3, <1>4
<1> QED
  BY <1>2, <1>5

(* The state index changes only when a batch is committed, and then keeps  *)
(* the first ids of what was committed before.                             *)
LEMMA FirstKept ==
  ASSUME IInv, [Next]_vars
  PROVE  /\ stateIndex' = stateIndex \/ PutState
         /\ \A f \in Family : CommittedIds(stateIndex, f) # {} =>
              FirstId(stateIndex', f) = FirstId(stateIndex, f)
         /\ stateIndex.started => stateIndex'.start = stateIndex.start
<1>1. stateIndex' = stateIndex \/ PutState
  BY DEF Next, Flushing, vars, tables, scratch, Open, Append1, BeginFlush, AssignRange, Assigned,
     AppendItem, BeginPutPayload, PutPayload, FamilyDone, PutLocations, ReadPages, PutPage,
     PutStats, PutBlockHashes, PutFamilies, PutBlockIndex, FlushError, Crash
<1>2. CASE stateIndex' = stateIndex
  BY <1>1, <1>2 DEF FirstId
<1>3. CASE PutState
  <2>1. up /\ stateIndex'.start = IF state.started THEN state.start ELSE pending[1].number
    BY <1>3 DEF PutState, BatchState, IInv, BatchShape
  <2>2. CASE stateIndex.started /\ state = stateIndex
    BY <1>1, <2>1, <2>2 DEF FirstId
  <2>3. CASE stateIndex = DefaultState
    <3>1. \A f \in Family : CommittedIds(stateIndex, f) = {}
      BY <2>3 DEF DefaultState, CommittedIds, FirstId
    <3>2. ~stateIndex.started
      BY <2>3 DEF DefaultState
    <3> QED
      BY <1>1, <3>1, <3>2
  <2> QED
    BY <2>1, <2>2, <2>3 DEF IInv, MemoryAgrees
<1> QED
  BY <1>1, <1>2, <1>3

LEMMA RowKept ==
  ASSUME IInv, IInv', CommittedUnchanged, NEW f \in Family, NEW id, NEW row \in Seq(Byte),
         RowStored(f, id, row), FirstId(stateIndex', f) = FirstId(stateIndex, f)
  PROVE  RowStored(f, id, row)'
<1>1. id \in CommittedIds(stateIndex, f)
  BY DEF RowStored
<1>2. FirstId(stateIndex, f) \in Nat /\ id \in Nat /\ stateIndex.next[f] \in Nat
  <2>1. FirstId(stateIndex, f) \in Nat /\ stateIndex.next[f] \in Nat
    BY DEF FirstId, IInv, TypeOK, StateType
  <2> QED
    BY <1>1, <2>1 DEF CommittedIds
<1>3. /\ id \in CommittedIds(stateIndex', f)
      /\ <<f, id>> \in DOMAIN location' /\ location'[<<f, id>>] = location[<<f, id>>]
      /\ \A i \in 1 .. location[<<f, id>>] :
           blob'[<<f, Partition(id)>>][i] = blob[<<f, Partition(id)>>][i]
  BY <1>1 DEF CommittedUnchanged
<1>4. PICK p : p = Partition(id)
  OBVIOUS
<1>5. PICK x : x = blob[<<f, p>>]
  OBVIOUS
<1>6. PICK y : y = blob'[<<f, p>>]
  OBVIOUS
<1>7. PICK to : to = location[<<f, id>>]
  OBVIOUS
<1>8. x \in Seq(Byte)
  BY <1>1, <1>4, <1>5 DEF IInv, Recoverable, CommittedLocated, TypeOK
<1>9. y \in Seq(Byte) /\ to <= Len(y)
  <2>1. CommittedLocated' /\ TypeOK'
    BY DEF IInv, Recoverable
  <2>2. CommittedIds(stateIndex, f)' = CommittedIds(stateIndex', f)
    BY DEF CommittedIds, FirstId
  <2>3. <<f, p>> \in DOMAIN blob' /\ location'[<<f, id>>] <= Len(y)
    BY <1>3, <1>4, <1>6, <2>1, <2>2 DEF CommittedLocated, Partition
  <2> QED
    BY <1>3, <1>6, <1>7, <2>1, <2>3 DEF TypeOK
<1>10. PICK from : from = PayloadStart(f, id)
  OBVIOUS
<1>11. HoldsAt(x, from, to, row)
  BY <1>4, <1>5, <1>7, <1>10 DEF RowStored
<1>12. HoldsAt(y, from, to, row)
  BY <1>3, <1>4, <1>5, <1>6, <1>7, <1>8, <1>9, <1>11, HeldKept
<1>13. PayloadStart(f, id)' = from
  <2>1. CASE id = FirstId(stateIndex, f) \/ id % ITEMS_PER_BLOB = 0
    BY <1>10, <2>1 DEF PayloadStart, FirstId
  <2>2. CASE ~(id = FirstId(stateIndex, f) \/ id % ITEMS_PER_BLOB = 0)
    <3>1. id - 1 \in CommittedIds(stateIndex, f)
      BY <1>1, <1>2, <2>2 DEF CommittedIds
    <3>2. location'[<<f, id - 1>>] = location[<<f, id - 1>>]
      BY <3>1 DEF CommittedUnchanged
    <3> QED
      BY <1>10, <2>2, <3>2 DEF PayloadStart, FirstId
  <2> QED
    BY <2>1, <2>2
<1>14. (id \in CommittedIds(stateIndex, f))'
  BY <1>3 DEF CommittedIds, FirstId
<1>15. location'[<<f, id>>] = to /\ blob'[<<f, Partition(id)>>] = y
  BY <1>3, <1>4, <1>6, <1>7
<1> QED
  BY <1>12, <1>13, <1>14, <1>15 DEF RowStored, Partition

(* The heights of a batch lie above every committed one, and are distinct. *)
LEMMA BatchHeights ==
  ASSUME IInv
  PROVE  /\ \A n \in CommittedHeights : n \in Nat /\ n \in CommittedIds(stateIndex, BlockHeader)
         /\ \A n \in CommittedHeights, k \in 1 .. Len(pending) : n < pending[k].number
         /\ \A k \in 1 .. Len(pending) :
              pending[k].number \in Heights /\ BlockOf(pending[k].number) = k
         /\ \A n \in Heights : \E k \in 1 .. Len(pending) : n = pending[k].number
<1>1. stateIndex.start \in Nat /\ stateIndex.next[BlockHeader] \in Nat /\ state.next[BlockHeader] \in Nat
  BY Families DEF IInv, TypeOK, StateType
<1>2. \A n \in CommittedHeights : n \in Nat /\ n \in CommittedIds(stateIndex, BlockHeader)
  BY <1>1 DEF CommittedHeights, CommittedIds, FirstId
<1>3. ASSUME NEW n \in CommittedHeights, NEW k \in 1 .. Len(pending) PROVE n < pending[k].number
  <2>1. up
    BY DEF IInv, MemoryAgrees
  <2>2. n \in Nat /\ n < state.next[BlockHeader]
    BY <1>2, <2>1, Frontier, Families DEF IInv
  <2>3. pending[k].number = state.next[BlockHeader] + k - 1
    BY DEF IInv, MemoryAgrees
  <2> QED
    BY <1>1, <2>2, <2>3
<1>4. ASSUME NEW k \in 1 .. Len(pending)
      PROVE  pending[k].number \in Heights /\ BlockOf(pending[k].number) = k
  <2>1. \A m \in 1 .. Len(pending) : pending[m].number = state.next[BlockHeader] + m - 1
    BY DEF IInv, MemoryAgrees
  <2>2. \A m \in 1 .. Len(pending) : pending[m].number = pending[k].number => m = k
    BY <1>1, <2>1
  <2> QED
    BY <2>2 DEF Heights, BlockOf
<1> QED
  BY <1>2, <1>3, <1>4 DEF Heights

(* The metadata of committed blocks is not written again. *)
LEMMA MetadataKept ==
  ASSUME IInv, [Next]_vars, NEW n \in CommittedHeights
  PROVE  /\ n \in DOMAIN blockHash => n \in DOMAIN blockHash' /\ blockHash'[n] = blockHash[n]
         /\ \A f \in Family : <<f, n>> \in DOMAIN familyRange =>
              <<f, n>> \in DOMAIN familyRange' /\ familyRange'[<<f, n>>] = familyRange[<<f, n>>]
<1>1. n \notin Heights
  <2>1. \A k \in 1 .. Len(pending) : n < pending[k].number /\ n \in Nat /\ pending[k].number \in Nat
    <3>1. \A k \in 1 .. Len(pending) : pending[k] \in Blocks
      BY DEF IInv, TypeOK
    <3> QED
      BY <3>1, BatchHeights, BlockFacts
  <2> QED
    BY <2>1 DEF Heights
<1>2. CASE PutBlockHashes
  BY <1>1, <1>2 DEF PutBlockHashes, PutBatch
<1>3. CASE PutFamilies
  BY <1>1, <1>3 DEF PutFamilies, PutBatch
<1>4. CASE UNCHANGED <<blockHash, familyRange>>
  BY <1>4
<1>5. PutBlockHashes \/ PutFamilies \/ UNCHANGED <<blockHash, familyRange>>
  BY DEF Next, Flushing, vars, tables, scratch, Open, Append1, BeginFlush, AssignRange, Assigned,
     AppendItem, BeginPutPayload, PutPayload, FamilyDone, PutLocations, ReadPages, PutPage,
     PutStats, PutBlockIndex, PutState, FlushError, Crash
<1> QED
  BY <1>2, <1>3, <1>4, <1>5

LEMMA BlockKept ==
  ASSUME IInv, IInv', CommittedUnchanged, [Next]_vars,
         NEW n \in CommittedHeights, NEW b \in Blocks, BlockStored(n, b)
  PROVE  BlockStored(n, b)'
<1>1. n \in DOMAIN blockHash' /\ blockHash'[n] = b.hash /\ b.number = n
  BY MetadataKept DEF BlockStored
<1>2. ASSUME NEW f \in Family PROVE RangeStored(f, n, b)'
  <2>1. RangeStored(f, n, b)
    BY DEF BlockStored
  <2>2. PICK r : r = familyRange[<<f, n>>]
    OBVIOUS
  <2>3. <<f, n>> \in DOMAIN familyRange' /\ familyRange'[<<f, n>>] = r
    BY <2>1, <2>2, MetadataKept DEF RangeStored
  <2>4. ASSUME NEW j \in 1 .. Len(b.rows[f]) PROVE RowStored(f, r.first + j - 1, b.rows[f][j].bytes)'
    <3>1. PICK id : id = r.first + j - 1
      OBVIOUS
    <3>2. PICK row : row = b.rows[f][j].bytes
      OBVIOUS
    <3>3. RowStored(f, id, row) /\ row \in Seq(Byte)
      BY <2>1, <2>2, <3>1, <3>2, RowBytes DEF RangeStored
    <3>4. FirstId(stateIndex', f) = FirstId(stateIndex, f)
      BY <3>3, FirstKept DEF RowStored
    <3>5. RowStored(f, id, row)'
      BY <3>3, <3>4, RowKept
    <3> QED
      BY <3>1, <3>2, <3>5
  <2> QED
    BY <2>1, <2>2, <2>3, <2>4 DEF RangeStored
<1> QED
  BY <1>1, <1>2 DEF BlockStored

(* The commit: the blocks of the batch are stored, and the new heights are *)
(* the old ones and the batch's.                                           *)
LEMMA CommitHeights ==
  ASSUME IInv, PutState
  PROVE  /\ up /\ stage = "state" /\ state.started /\ Len(pending) \in Nat /\ Len(pending) > 0
         /\ Len(ranges) = Len(pending)
         /\ stateIndex'.start = state.start /\ stateIndex'.next = cursor /\ stateIndex'.started
         /\ state.start \in Nat /\ state.start <= state.next[BlockHeader]
         /\ state.next[BlockHeader] \in Nat
         /\ stateIndex'.next[BlockHeader] = state.next[BlockHeader] + Len(pending)
         /\ \A n \in CommittedHeights' :
              n \in CommittedHeights \/ \E k \in 1 .. Len(pending) : n = pending[k].number
<1>1. /\ up /\ stage = "state" /\ stateIndex' = BatchState /\ pending # <<>> /\ pending \in Seq(Blocks)
      /\ state \in StateType /\ cursor \in [Family -> Nat]
      /\ cursor[BlockHeader] = state.next[BlockHeader] + Len(ranges) /\ Len(ranges) = Len(pending)
  BY DEF PutState, IInv, BatchShape, TypeOK
<1>2. PICK n \in Nat : n = Len(pending)
  BY <1>1
<1>3. n > 0
  BY <1>1, <1>2
<1>4. state.next[BlockHeader] \in Nat /\ state.start \in Nat /\ cursor[BlockHeader] \in Nat
  BY <1>1, Families DEF StateType
<1>5. pending[n].number = state.next[BlockHeader] + n - 1
  BY <1>2, <1>3 DEF IInv, MemoryAgrees
<1>6. state.started
  BY <1>1 DEF IInv, MemoryAgrees, StartAt, DefaultState
<1>7. pending[n].number + 1 = cursor[BlockHeader]
  BY <1>1, <1>2, <1>4, <1>5
<1>8. stateIndex'.start = state.start /\ stateIndex'.next = cursor /\ stateIndex'.started
  <2>1. [cursor EXCEPT ![BlockHeader] = pending[n].number + 1] = cursor
    BY <1>1, <1>7
  <2> QED
    BY <1>1, <1>2, <1>6, <2>1 DEF BatchState
<1>9. state.start <= state.next[BlockHeader]
  <2>1. CASE stateIndex.started /\ state = stateIndex
    BY <1>4, <2>1, Families DEF IInv, MemoryAgrees
  <2>2. CASE stateIndex = DefaultState /\ state = StartAt(DefaultState)
    BY <1>4, <2>2, Families, SizesAssumption DEF StartAt, DefaultState
  <2> QED
    BY <1>1, <2>1, <2>2 DEF IInv, MemoryAgrees
<1>10. ASSUME NEW m \in state.start .. cursor[BlockHeader] - 1
       PROVE  m \in CommittedHeights \/ \E k \in 1 .. Len(pending) : m = pending[k].number
  <2>1. CASE m >= state.next[BlockHeader]
    <3>1. m - state.next[BlockHeader] + 1 \in 1 .. n
      BY <1>1, <1>2, <1>4, <2>1
    <3>2. PICK k \in 1 .. n : k = m - state.next[BlockHeader] + 1
      BY <3>1
    <3>3. pending[k].number = state.next[BlockHeader] + k - 1
      BY <1>2 DEF IInv, MemoryAgrees
    <3>4. m = pending[k].number
      BY <1>4, <3>2, <3>3
    <3> QED
      BY <1>2, <3>4
  <2>2. CASE m < state.next[BlockHeader]
    <3>1. CASE stateIndex.started /\ state = stateIndex
      BY <1>4, <2>2, <3>1 DEF CommittedHeights
    <3>2. CASE stateIndex = DefaultState /\ state = StartAt(DefaultState)
      BY <1>4, <2>2, <3>2, Families, SizesAssumption DEF StartAt, DefaultState
    <3> QED
      BY <1>1, <3>1, <3>2 DEF IInv, MemoryAgrees
  <2> QED
    BY <1>4, <2>1, <2>2
<1>11. CommittedHeights' = state.start .. cursor[BlockHeader] - 1
  BY <1>8 DEF CommittedHeights
<1>12. stateIndex'.next[BlockHeader] = state.next[BlockHeader] + Len(pending)
  BY <1>1, <1>8
<1>13. Len(pending) \in Nat /\ Len(pending) > 0
  BY <1>2, <1>3
<1> QED
  BY <1>1, <1>4, <1>6, <1>8, <1>9, <1>10, <1>11, <1>12, <1>13

(* The ids of a range lie between its bounds, and those of a later range  *)
(* come after them.                                                        *)
LEMMA IdWithin ==
  \A a, c, x, y, j \in Nat : x <= a /\ a + c <= y /\ 1 <= j /\ j <= c =>
    a + j - 1 \in Nat /\ x <= a + j - 1 /\ a + j - 1 < y
  OBVIOUS

LEMMA IdsApart ==
  \A a, c, i, b, j \in Nat : a + c <= b /\ i <= c /\ 1 <= j => a + i - 1 # b + j - 1
  OBVIOUS

(* The ids of the batch's records. *)
LEMMA ItemIds ==
  ASSUME IInv, Assigns, stage # "idle", NEW f \in Family,
         NEW k \in 1 .. Len(ranges), NEW j \in 1 .. ranges[k][f].count
  PROVE  /\ k \in 1 .. Len(pending) /\ pending[k] \in Blocks
         /\ ranges[k][f].first \in Nat /\ ranges[k][f].count = Len(pending[k].rows[f])
         /\ ranges[k][f].count \in Nat
         /\ ranges[k][f].first + j - 1 \in Nat
         /\ state.next[f] \in Nat /\ cursor[f] \in Nat
         /\ state.next[f] <= ranges[k][f].first + j - 1
         /\ ranges[k][f].first + j - 1 < cursor[f]
         /\ FirstId(state, f) \in Nat /\ FirstId(state, f) <= state.next[f]
<1>1. /\ pending \in Seq(Blocks) /\ ranges \in Seq([Family -> IdRange]) /\ Len(ranges) <= Len(pending)
      /\ state \in StateType /\ cursor \in [Family -> Nat] /\ up
  BY DEF IInv, TypeOK, BatchShape
<1>2. k \in 1 .. Len(pending) /\ pending[k] \in Blocks
  BY <1>1
<1>3. ranges[k][f] \in IdRange
  BY <1>1
<1>4. ranges[k][f].first \in Nat /\ ranges[k][f].count \in Nat /\ j \in Nat /\ 1 <= j
      /\ j <= ranges[k][f].count
  BY <1>3 DEF IdRange
<1>5. ranges[k][f].count = Len(pending[k].rows[f])
  BY DEF IInv, BatchShape
<1>6. state.next[f] \in Nat /\ cursor[f] \in Nat
  BY <1>1 DEF StateType
<1>7. state.next[f] <= ranges[k][f].first /\ ranges[k][f].first + ranges[k][f].count <= cursor[f]
  BY DEF Assigns
<1>8. FirstId(state, f) \in Nat /\ FirstId(state, f) <= state.next[f]
  <2>1. CASE stateIndex.started /\ state = stateIndex
    BY <1>1, <1>6, <2>1, Families DEF IInv, MemoryAgrees, FirstId, StateType
  <2>2. CASE stateIndex = DefaultState /\ state = StartAt(DefaultState)
    BY <1>6, <2>2, Families, SizesAssumption DEF StartAt, DefaultState, FirstId
  <2> QED
    BY <1>1, <2>1, <2>2 DEF IInv, MemoryAgrees
<1>9. /\ ranges[k][f].first + j - 1 \in Nat
      /\ state.next[f] <= ranges[k][f].first + j - 1
      /\ ranges[k][f].first + j - 1 < cursor[f]
  BY <1>4, <1>6, <1>7, IdWithin
<1> QED
  BY <1>2, <1>4, <1>5, <1>6, <1>8, <1>9

LEMMA CommitRow ==
  ASSUME IInv, CInv, PutState, NEW f \in Family,
         NEW k \in 1 .. Len(ranges), NEW j \in 1 .. ranges[k][f].count,
         NEW id, id = ranges[k][f].first + j - 1, NEW row, row = pending[k].rows[f][j].bytes
  PROVE  RowStored(f, id, row)'
<1>1. id = ranges[k][f].first + j - 1
  OBVIOUS
<1>2. row = pending[k].rows[f][j].bytes
  OBVIOUS
<1>3. /\ up /\ stage = "state" /\ stateIndex'.start = state.start /\ stateIndex'.next = cursor
      /\ UNCHANGED <<blob, location>>
  BY CommitHeights DEF PutState
<1>4. /\ id \in Nat /\ state.next[f] \in Nat /\ cursor[f] \in Nat
      /\ state.next[f] <= id /\ id < cursor[f]
      /\ FirstId(state, f) \in Nat /\ FirstId(state, f) <= state.next[f]
  BY <1>1, <1>3, ItemIds DEF CInv
<1>5. FirstId(stateIndex', f) = FirstId(state, f)
  BY <1>3 DEF FirstId
<1>6. id \in CommittedIds(stateIndex', f)
  BY <1>3, <1>4, <1>5 DEF CommittedIds
<1>7. Prepared[f] = cursor[f] /\ ~Buffered(f, Partition(id))
  BY <1>3 DEF Prepared, Buffered
<1>8. NewRow(f, id, row)
  BY <1>1, <1>2, <1>3 DEF CInv, NewRows
<1>9. HoldsAt(blob[<<f, Partition(id)>>], NewStart(f, id), locs[<<f, id>>], row)
  BY <1>4, <1>7, <1>8 DEF NewRow, Bytes
<1>10. \A x \in Nat : state.next[f] <= x /\ x < cursor[f] => location[<<f, x>>] = locs[<<f, x>>]
  BY <1>3, <1>7 DEF IInv, NewLocations, StagesStored, Located
<1>11. NewStart(f, id) = PayloadStart(f, id)'
  <2>1. CASE id = FirstId(state, f) \/ id % ITEMS_PER_BLOB = 0
    BY <1>5, <2>1 DEF NewStart, PayloadStart, FirstId
  <2>2. CASE ~(id = FirstId(state, f) \/ id % ITEMS_PER_BLOB = 0)
    <3>1. id = state.next[f] \/ location[<<f, id - 1>>] = locs[<<f, id - 1>>]
      BY <1>4, <1>10
    <3>2. NewStart(f, id) = location[<<f, id - 1>>]
      BY <2>2, <3>1 DEF NewStart
    <3>3. ~(id = FirstId(stateIndex', f) \/ id % ITEMS_PER_BLOB = 0)
      BY <1>5, <2>2
    <3> QED
      BY <1>3, <3>2, <3>3 DEF PayloadStart, FirstId
  <2> QED
    BY <2>1, <2>2
<1>12. location'[<<f, id>>] = locs[<<f, id>>]
  BY <1>3, <1>4, <1>10
<1>13. (id \in CommittedIds(stateIndex, f))'
  BY <1>6 DEF CommittedIds, FirstId
<1>14. HoldsAt(blob'[<<f, Partition(id)>>], PayloadStart(f, id)', location'[<<f, id>>], row)
  BY <1>3, <1>9, <1>11, <1>12
<1> QED
  BY <1>13, <1>14 DEF RowStored, Partition

LEMMA CommitStored ==
  ASSUME IInv, CInv, PutState, NEW k \in 1 .. Len(pending), NEW b, b = pending[k],
         NEW n, n = b.number
  PROVE  BlockStored(n, b)'
<1>1. b = pending[k]
  OBVIOUS
<1>2. n = b.number
  OBVIOUS
<1>3. stage = "state" /\ Len(ranges) = Len(pending) /\ UNCHANGED <<blockHash, familyRange>>
  BY CommitHeights DEF PutState
<1>4. n \in DOMAIN blockHash /\ blockHash[n] = b.hash
  BY <1>1, <1>2, <1>3 DEF IInv, StagesStored, Hashed, CInv, MetadataStored
<1>5. ASSUME NEW f \in Family PROVE RangeStored(f, n, b)'
  <2>1. PICK r : r = ranges[k][f]
    OBVIOUS
  <2>2. <<f, n>> \in DOMAIN familyRange /\ familyRange[<<f, n>>] = r
    BY <1>1, <1>2, <1>3, <2>1 DEF CInv, MetadataStored
  <2>3. r \in IdRange /\ r.count = Len(b.rows[f])
    <3>1. ranges \in Seq([Family -> IdRange]) /\ k \in 1 .. Len(ranges)
      BY <1>3 DEF IInv, TypeOK
    <3>2. ranges[k][f] \in IdRange
      BY <3>1
    <3> QED
      BY <1>1, <1>3, <2>1, <3>1, <3>2 DEF IInv, BatchShape
  <2>5. ASSUME NEW j \in 1 .. Len(b.rows[f]) PROVE RowStored(f, r.first + j - 1, b.rows[f][j].bytes)'
    <3>1. PICK id : id = r.first + j - 1
      OBVIOUS
    <3>2. PICK row : row = b.rows[f][j].bytes
      OBVIOUS
    <3>3. k \in 1 .. Len(ranges) /\ j \in 1 .. ranges[k][f].count
      BY <1>3, <2>1, <2>3
    <3>4. id = ranges[k][f].first + j - 1 /\ row = pending[k].rows[f][j].bytes
      BY <1>1, <2>1, <3>1, <3>2
    <3>5. RowStored(f, id, row)'
      BY <3>3, <3>4, CommitRow
    <3> QED
      BY <3>1, <3>2, <3>5
  <2>6. <<f, n>> \in DOMAIN familyRange' /\ familyRange'[<<f, n>>] = r /\ r.first \in Nat
    BY <1>3, <2>2, <2>3 DEF IdRange
  <2> QED
    BY <2>3, <2>5, <2>6 DEF RangeStored
<1> QED
  BY <1>2, <1>3, <1>4, <1>5 DEF BlockStored

LEMMA StoredStep ==
  ASSUME IInv, IInv', CommittedUnchanged, CInv, [Next]_vars
  PROVE  BlocksStored'
<1>1. ASSUME NEW n \in CommittedHeights PROVE \E b \in Blocks : BlockStored(n, b)'
  BY BlockKept DEF CInv, BlocksStored
<1>2. CASE stateIndex' = stateIndex
  BY <1>1, <1>2 DEF BlocksStored, CommittedHeights
<1>3. CASE PutState
  <2>1. ASSUME NEW n \in CommittedHeights' PROVE \E b \in Blocks : BlockStored(n, b)'
    <3>1. CASE n \in CommittedHeights
      BY <1>1, <3>1
    <3>2. CASE \E k \in 1 .. Len(pending) : n = pending[k].number
      <4>1. PICK k \in 1 .. Len(pending) : n = pending[k].number
        BY <3>2
      <4>2. pending[k] \in Blocks
        BY DEF IInv, TypeOK
      <4>3. PICK b : b = pending[k]
        OBVIOUS
      <4>4. BlockStored(n, b)'
        BY <1>3, <4>1, <4>3, CommitStored
      <4> QED
        BY <4>2, <4>3, <4>4
    <3> QED
      BY <1>3, <2>1, <3>1, <3>2, CommitHeights
  <2> QED
    BY <2>1 DEF BlocksStored
<1> QED
  BY <1>2, <1>3, FirstKept

-----------------------------------------------------------------------------
(* The head of the chain. *)
LEMMA HeadKept ==
  ASSUME IInv, CInv, [Next]_vars, UNCHANGED <<up, lastHash, state, pending>>
  PROVE  HeadKnown'
<1>1. ASSUME up, HasLastBlock(state)
      PROVE  blockHash'[LastBlockId(state)] = blockHash[LastBlockId(state)]
  <2>1. PICK n : n = LastBlockId(state)
    OBVIOUS
  <2>2. n \in CommittedIds(stateIndex, BlockHeader)
    BY <1>1, <2>1, Frontier, Families DEF IInv, HasCommitted, LastBlockId
  <2>3. n \in CommittedHeights
    BY <2>2 DEF CommittedHeights, CommittedIds, FirstId
  <2>4. n \in DOMAIN blockHash
    BY <2>3 DEF CInv, BlocksStored, BlockStored
  <2> QED
    BY <2>1, <2>3, <2>4, MetadataKept
<1>2. up' => lastHash' = IF HasLastBlock(state) THEN blockHash'[LastBlockId(state)] ELSE NoHash
  BY <1>1 DEF CInv, HeadKnown
<1> QED
  BY <1>2 DEF CInv, HeadKnown, HasLastBlock, LastBlockId

LEMMA HeadStep ==
  ASSUME IInv, CInv, [Next]_vars
  PROVE  HeadKnown'
<1>1. CASE Open
  <2>1. /\ up' /\ pending' = <<>> /\ UNCHANGED blockHash
        /\ state' = IF stateIndex.next[BlockHeader] = 0 THEN StartAt(stateIndex) ELSE stateIndex
        /\ lastHash' = IF HasLastBlock(stateIndex) THEN blockHash[LastBlockId(stateIndex)] ELSE NoHash
    BY <1>1 DEF Open, tables
  <2>2. lastHash' = IF HasLastBlock(state') THEN blockHash[LastBlockId(state')] ELSE NoHash
    <3>1. CASE stateIndex.next[BlockHeader] = 0
      <4>1. ~HasLastBlock(stateIndex)
        BY <3>1 DEF HasLastBlock
      <4>2. state' = StartAt(stateIndex) /\ stateIndex \in StateType
        BY <2>1, <3>1 DEF IInv, TypeOK
      <4>3. state'.started /\ state'.start = StartBlock /\ state'.next[BlockHeader] = StartBlock
        BY <4>2, Families DEF StartAt, StateType
      <4>4. ~HasLastBlock(state')
        BY <4>3, SizesAssumption DEF HasLastBlock
      <4> QED
        BY <2>1, <4>1, <4>4
    <3>2. CASE stateIndex.next[BlockHeader] # 0
      BY <2>1, <3>2
    <3> QED
      BY <3>1, <3>2
  <2>3. Len(pending') = 0
    BY <2>1
  <2> QED
    BY <2>1, <2>2, <2>3 DEF HeadKnown, HasLastBlock, LastBlockId
<1>2. ASSUME NEW b \in Blocks, Append1(b) PROVE HeadKnown'
  <2>1. /\ pending' = Append(pending, b) /\ UNCHANGED <<up, state, lastHash, blockHash>>
        /\ PreviousHash # NoHash => b.parent = PreviousHash
    BY <1>2 DEF Append1, tables
  <2>2. PICK n \in Nat : n = Len(pending)
    BY DEF IInv, TypeOK
  <2>3. /\ pending \in Seq(Blocks) /\ Len(pending') = n + 1 /\ pending'[n + 1] = b
        /\ \A k \in 1 .. n : pending'[k] = pending[k]
    <3>1. pending \in Seq(Blocks)
      BY DEF IInv, TypeOK
    <3> QED
      BY <2>1, <2>2, <3>1
  <2>4. CASE n = 0
    <3>1. pending = <<>>
      <4>1. pending \in Seq(Blocks) /\ Len(pending) = 0
        BY <2>2, <2>4 DEF IInv, TypeOK
      <4> QED
        BY <4>1
    <3>2. PreviousHash = lastHash
      BY <3>1 DEF PreviousHash
    <3>3. lastHash # NoHash => pending'[1].parent = lastHash
      BY <2>1, <2>3, <2>4, <3>2
    <3> QED
      BY <2>1, <2>3, <2>4, <3>3 DEF HeadKnown, CInv, HasLastBlock, LastBlockId
  <2>5. CASE n > 0
    <3>1. pending # <<>> /\ pending[n] \in Blocks /\ pending'[1] = pending[1]
      BY <2>2, <2>3, <2>5
    <3>2. PreviousHash = pending[n].hash
      BY <2>2, <3>1 DEF PreviousHash
    <3>3. PreviousHash # NoHash
      BY <3>1, <3>2, BlockFacts, BlocksAssumption
    <3>4. b.parent = pending[n].hash
      BY <2>1, <3>2, <3>3
    <3>5. ASSUME NEW k \in 1 .. Len(pending') - 1 PROVE pending'[k + 1].parent = pending'[k].hash
      <4>1. k \in 1 .. n - 1 \/ k = n
        BY <2>3, <2>5
      <4>2. CASE k = n
        BY <2>3, <2>5, <3>4, <4>2
      <4>3. CASE k \in 1 .. n - 1
        <5>1. pending'[k + 1] = pending[k + 1] /\ pending'[k] = pending[k]
          BY <2>3, <4>3
        <5>2. pending[k + 1].parent = pending[k].hash
          BY <2>2, <4>3 DEF CInv, HeadKnown
        <5> QED
          BY <5>1, <5>2
      <4> QED
        BY <4>1, <4>2, <4>3
    <3> QED
      BY <2>1, <3>1, <3>5 DEF HeadKnown, CInv, HasLastBlock, LastBlockId
  <2> QED
    BY <2>4, <2>5
<1>3. CASE PutState
  <2>1. PICK n \in Nat : n = Len(pending)
    BY DEF IInv, TypeOK
  <2>2. /\ up' /\ stateIndex' = state' /\ lastHash' = pending[n].hash /\ pending' = <<>>
        /\ n > 0 /\ stage = "state" /\ UNCHANGED blockHash
    BY <1>3, <2>1, CommitHeights DEF PutState
  <2>3. pending[n].number = state.next[BlockHeader] + n - 1
    BY <2>1, <2>2 DEF IInv, MemoryAgrees
  <2>4. LastBlockId(state') = pending[n].number /\ HasLastBlock(state')
    BY <1>3, <2>1, <2>2, <2>3, CommitHeights DEF LastBlockId, HasLastBlock
  <2>5. blockHash[pending[n].number] = pending[n].hash
    BY <2>1, <2>2 DEF CInv, MetadataStored, Hashed
  <2>6. Len(pending') = 0
    BY <2>2
  <2> QED
    BY <2>2, <2>4, <2>5, <2>6 DEF HeadKnown, HasLastBlock, LastBlockId
<1>4. CASE Crash
  <2>1. ~up' /\ lastHash' = NoHash /\ pending' = <<>> /\ Len(pending') = 0
    BY <1>4 DEF Crash
  <2> QED
    BY <2>1 DEF HeadKnown
<1>5. Open \/ (\E b \in Blocks : Append1(b)) \/ PutState \/ Crash
        \/ UNCHANGED <<up, lastHash, state, pending>>
  BY DEF Next, Flushing, vars, tables, scratch, BeginFlush, AssignRange, Assigned,
     AppendItem, BeginPutPayload, PutPayload, FamilyDone, PutLocations, ReadPages, PutPage,
     PutStats, PutBlockHashes, PutFamilies, PutBlockIndex, FlushError
<1> QED
  BY <1>1, <1>2, <1>3, <1>4, <1>5, HeadKept

-----------------------------------------------------------------------------
(* The ids of the batch. *)
LEMMA AssignedFirst ==
  ASSUME IInv, AssignRange
  PROVE  \E r \in [Family -> IdRange] :
           /\ ranges' = Append(ranges, r)
           /\ \A f \in Family : /\ r[f].first = cursor[f] /\ cursor'[f] = cursor[f] + r[f].count
                                /\ r[f].count = Len(pending[Len(ranges) + 1].rows[f])
<1>1. PICK b : b = pending[Len(ranges) + 1]
  OBVIOUS
<1>2. pending \in Seq(Blocks) /\ ranges \in Seq([Family -> IdRange]) /\ cursor \in [Family -> Nat]
  BY DEF IInv, TypeOK
<1>3. Len(ranges) \in Nat /\ Len(ranges) < Len(pending)
  BY <1>2 DEF AssignRange
<1>4. b \in Blocks
  BY <1>1, <1>2, <1>3
<1>5. b.number = cursor[BlockHeader]
  <2>1. b.number = state.next[BlockHeader] + (Len(ranges) + 1) - 1
    BY <1>1, <1>2, <1>3 DEF IInv, MemoryAgrees
  <2>2. cursor[BlockHeader] = state.next[BlockHeader] + Len(ranges)
    BY DEF AssignRange, IInv, BatchShape
  <2>3. state.next[BlockHeader] \in Nat
    BY Families DEF IInv, TypeOK, StateType
  <2> QED
    BY <1>3, <2>1, <2>2, <2>3
<1>6. PICK r : r = [f \in Family |-> [first |-> IF f = BlockHeader THEN b.number ELSE cursor[f],
                                      count |-> Len(b.rows[f])]]
  OBVIOUS
<1>7. \A f \in Family : r[f].first = cursor[f] /\ r[f].count = Len(b.rows[f])
  BY <1>5, <1>6
<1>8. r \in [Family -> IdRange]
  BY <1>2, <1>4, <1>5, <1>6, BlockFacts, Families DEF IdRange
<1>9. ranges' = Append(ranges, r)
  BY <1>1, <1>6 DEF AssignRange
<1>10. \A f \in Family : cursor'[f] = cursor[f] + Len(b.rows[f])
  BY <1>1 DEF AssignRange
<1> QED
  BY <1>1, <1>7, <1>8, <1>9, <1>10

LEMMA AssignsStep ==
  ASSUME IInv, Assigns, [Next]_vars
  PROVE  Assigns'
<1>1. CASE BeginFlush
  <2>1. /\ stage = "idle" /\ ranges' = ranges /\ cursor' = state.next /\ state' = state
        /\ state.next \in [Family -> Nat]
    BY <1>1 DEF BeginFlush, IInv, TypeOK, StateType
  <2>2. Len(ranges') = 0
    BY <2>1 DEF IInv, BatchShape
  <2> QED
    BY <2>1, <2>2 DEF Assigns
<1>2. CASE AssignRange
  <2>1. PICK r \in [Family -> IdRange] :
           /\ ranges' = Append(ranges, r)
           /\ \A f \in Family : r[f].first = cursor[f] /\ cursor'[f] = cursor[f] + r[f].count
    BY <1>2, AssignedFirst
  <2>2. PICK n \in Nat : n = Len(ranges)
    BY DEF IInv, TypeOK
  <2>3. /\ ranges \in Seq([Family -> IdRange]) /\ cursor \in [Family -> Nat] /\ state \in StateType
        /\ state' = state /\ stage # "idle"
    BY <1>2 DEF IInv, TypeOK, AssignRange
  <2>4. Len(ranges') = n + 1 /\ ranges'[n + 1] = r /\ \A k \in 1 .. n : ranges'[k] = ranges[k]
    BY <2>1, <2>2, <2>3
  <2>5. ASSUME NEW f \in Family
        PROVE  /\ \A k \in 1 .. Len(ranges') :
                    /\ state.next[f] <= ranges'[k][f].first
                    /\ ranges'[k][f].first + ranges'[k][f].count <= cursor'[f]
                    /\ \A m \in 1 .. k - 1 :
                         ranges'[m][f].first + ranges'[m][f].count <= ranges'[k][f].first
               /\ \A id \in state.next[f] .. cursor'[f] - 1 :
                    \E k \in 1 .. Len(ranges') :
                      ranges'[k][f].first <= id /\ id < ranges'[k][f].first + ranges'[k][f].count
    <3>1. PICK c \in Nat : c = cursor[f]
      BY <2>3
    <3>2. PICK d \in Nat : d = r[f].count
      BY DEF IdRange
    <3>3. PICK s \in Nat : s = state.next[f]
      BY <2>3 DEF StateType
    <3>4. r[f].first = c /\ cursor'[f] = c + d /\ s <= c
      <4>1. state.next[f] <= cursor[f]
        BY <2>3 DEF IInv, BatchShape
      <4> QED
        BY <2>1, <3>1, <3>2, <3>3, <4>1
    <3>5. \A k \in 1 .. n : ranges[k][f] \in IdRange
      BY <2>2, <2>3
    <3>6. \A k \in 1 .. n : ranges[k][f].first \in Nat /\ ranges[k][f].count \in Nat
      BY <3>5 DEF IdRange
    <3>7. /\ \A k \in 1 .. n :
               /\ s <= ranges[k][f].first
               /\ ranges[k][f].first + ranges[k][f].count <= c
               /\ \A m \in 1 .. k - 1 :
                    ranges[m][f].first + ranges[m][f].count <= ranges[k][f].first
          /\ \A id \in s .. c - 1 : \E k \in 1 .. n :
               ranges[k][f].first <= id /\ id < ranges[k][f].first + ranges[k][f].count
      BY <2>2, <2>3, <3>1, <3>3 DEF Assigns
    <3>8. ASSUME NEW k \in 1 .. n + 1
          PROVE  /\ s <= ranges'[k][f].first
                 /\ ranges'[k][f].first + ranges'[k][f].count <= c + d
                 /\ \A m \in 1 .. k - 1 :
                      ranges'[m][f].first + ranges'[m][f].count <= ranges'[k][f].first
      <4>1. CASE k = n + 1
        <5>1. ranges'[k] = r
          BY <2>4, <4>1
        <5>2. \A m \in 1 .. k - 1 : ranges'[m] = ranges[m] /\ m \in 1 .. n
          BY <2>4, <4>1
        <5> QED
          BY <3>2, <3>4, <3>7, <5>1, <5>2
      <4>2. CASE k \in 1 .. n
        <5>1. ranges'[k] = ranges[k]
          BY <2>4, <4>2
        <5>2. \A m \in 1 .. k - 1 : ranges'[m] = ranges[m]
          BY <2>4, <4>2
        <5>3. ranges[k][f].first + ranges[k][f].count <= c + d
          BY <3>6, <3>7, <4>2
        <5> QED
          BY <3>7, <4>2, <5>1, <5>2, <5>3
      <4> QED
        BY <4>1, <4>2
    <3>9. ASSUME NEW id \in s .. c + d - 1
          PROVE  \E k \in 1 .. n + 1 :
                   ranges'[k][f].first <= id /\ id < ranges'[k][f].first + ranges'[k][f].count
      <4>1. CASE id < c
        <5>1. PICK k \in 1 .. n : ranges[k][f].first <= id /\ id < ranges[k][f].first + ranges[k][f].count
          BY <3>7, <4>1
        <5> QED
          BY <2>4, <5>1
      <4>2. CASE id >= c
        <5>1. ranges'[n + 1][f].first <= id /\ id < ranges'[n + 1][f].first + ranges'[n + 1][f].count
          BY <2>4, <3>2, <3>4, <4>2
        <5> QED
          BY <5>1
      <4> QED
        BY <4>1, <4>2
    <3>10. Len(ranges') = n + 1 /\ cursor'[f] = c + d /\ state.next[f] = s
      BY <2>4, <3>3, <3>4
    <3>11. \A k \in 1 .. n + 1 :
             /\ s <= ranges'[k][f].first
             /\ ranges'[k][f].first + ranges'[k][f].count <= c + d
             /\ \A m \in 1 .. k - 1 :
                  ranges'[m][f].first + ranges'[m][f].count <= ranges'[k][f].first
      BY <3>8
    <3>12. \A id \in s .. c + d - 1 : \E k \in 1 .. n + 1 :
             ranges'[k][f].first <= id /\ id < ranges'[k][f].first + ranges'[k][f].count
      BY <3>9
    <3> QED
      BY <3>10, <3>11, <3>12
  <2> QED
    BY <2>3, <2>5 DEF Assigns
<1>3. CASE stage' = "idle"
  BY <1>3 DEF Assigns
<1>4. CASE UNCHANGED <<ranges, cursor, state>> /\ stage # "idle"
  BY <1>4 DEF Assigns
<1>5. CASE UNCHANGED <<ranges, cursor, state, stage>>
  BY <1>5 DEF Assigns
<1>6. BeginFlush \/ AssignRange \/ stage' = "idle" \/ UNCHANGED <<ranges, cursor, state, stage>>
        \/ (UNCHANGED <<ranges, cursor, state>> /\ stage # "idle")
  BY DEF Next, Flushing, vars, tables, scratch, Open, Append1, Assigned,
     AppendItem, BeginPutPayload, PutPayload, FamilyDone, PutLocations, ReadPages, PutPage,
     PutStats, PutBlockHashes, PutFamilies, PutBlockIndex, PutState, FlushError, Crash,
     IInv, MemoryAgrees
<1> QED
  BY <1>1, <1>2, <1>3, <1>4, <1>5, <1>6

(* The metadata of the batch. *)
LEMMA MetadataStep ==
  ASSUME IInv, MetadataStored, [Next]_vars
  PROVE  MetadataStored'
<1>1. CASE PutBlockHashes
  <2>1. /\ blockHash' = PutBatch(blockHash, [n \in Heights |-> pending[BlockOf(n)].hash])
        /\ stage' = "family" /\ pending' = pending
    BY <1>1 DEF PutBlockHashes
  <2>2. \A k \in 1 .. Len(pending) : blockHash'[pending[k].number] = pending[k].hash
    BY <2>1, BatchHeights DEF PutBatch
  <2> QED
    BY <2>1, <2>2 DEF MetadataStored
<1>2. CASE PutFamilies
  <2>1. /\ familyRange' = PutBatch(familyRange, [k \in Family \X Heights |-> ranges[BlockOf(k[2])][k[1]]])
        /\ stage = "family" /\ stage' = "block_index" /\ UNCHANGED <<blockHash, pending, ranges>>
    BY <1>2 DEF PutFamilies, scratch
  <2>2. ASSUME NEW k \in 1 .. Len(pending), NEW f \in Family
        PROVE  /\ <<f, pending[k].number>> \in DOMAIN familyRange'
               /\ familyRange'[<<f, pending[k].number>>] = ranges[k][f]
    <3>1. <<f, pending[k].number>> \in Family \X Heights /\ BlockOf(pending[k].number) = k
      BY BatchHeights
    <3> QED
      BY <2>1, <3>1 DEF PutBatch
  <2> QED
    BY <2>1, <2>2 DEF MetadataStored, Hashed
<1>3. CASE stage' \notin Hashed
  BY <1>3 DEF MetadataStored, Hashed
<1>4. CASE UNCHANGED <<blockHash, familyRange, pending, ranges>> /\ (stage' = stage \/ PutBlockIndex)
  BY <1>4 DEF MetadataStored, Hashed, PutBlockIndex
<1>5. CASE UNCHANGED vars
  BY <1>5 DEF MetadataStored, vars, tables, scratch
<1>6. ASSUME Next PROVE PutBlockHashes \/ PutFamilies \/ stage' \notin Hashed \/ PutBlockIndex
  BY <1>6 DEF Next, Flushing, Open, Append1, BeginFlush, AssignRange, Assigned,
     AppendItem, BeginPutPayload, PutPayload, FamilyDone, PutLocations, ReadPages, PutPage,
     PutStats, PutState, FlushError, Crash, Hashed, IInv, MemoryAgrees
<1>7. PutBlockIndex => UNCHANGED <<blockHash, familyRange, pending, ranges>>
  BY DEF PutBlockIndex, scratch
<1> QED
  BY <1>1, <1>2, <1>3, <1>4, <1>5, <1>6, <1>7

-----------------------------------------------------------------------------
(* The records of the batch. *)
LEMMA CommittedBelow ==
  ASSUME IInv, up, NEW f \in Family
  PROVE  /\ state.next[f] \in Nat /\ FirstId(state, f) \in Nat /\ FirstId(state, f) <= state.next[f]
         /\ FirstId(state, f) < state.next[f] <=> HasCommitted(state, f)
         /\ FirstId(state, f) < state.next[f] => state.next[f] - 1 \in CommittedIds(stateIndex, f)
<1>1. state \in StateType
  BY DEF IInv, TypeOK
<1>2. state.next[f] \in Nat /\ state.start \in Nat /\ state.next[BlockHeader] \in Nat
  BY <1>1, Families DEF StateType
<1>3. state.started /\ state.start <= state.next[BlockHeader]
  <2>1. CASE stateIndex.started /\ state = stateIndex
    BY <1>2, <2>1, Families DEF IInv, MemoryAgrees
  <2>2. CASE stateIndex = DefaultState /\ state = StartAt(DefaultState)
    BY <1>2, <2>2, Families, SizesAssumption DEF StartAt, DefaultState
  <2> QED
    BY <2>1, <2>2 DEF IInv, MemoryAgrees
<1>4. FirstId(state, f) \in Nat /\ FirstId(state, f) <= state.next[f]
  BY <1>2, <1>3 DEF FirstId
<1>5. FirstId(state, f) < state.next[f] <=> HasCommitted(state, f)
  BY <1>2, <1>3 DEF FirstId, HasCommitted, HasLastBlock
<1>6. HasCommitted(state, f) => state.next[f] - 1 \in CommittedIds(stateIndex, f)
  BY Frontier DEF IInv
<1> QED
  BY <1>2, <1>4, <1>5, <1>6

LEMMA StartSame ==
  ASSUME IInv, up, NEW f \in Family, NEW id \in Nat, state.next[f] <= id, state' = state,
         CommittedUnchanged,
         \A x \in Nat : state.next[f] <= x /\ x < id => locs'[<<f, x>>] = locs[<<f, x>>]
  PROVE  NewStart(f, id)' = NewStart(f, id)
<1>1. state.next[f] \in Nat /\ FirstId(state, f) \in Nat /\ FirstId(state, f) <= state.next[f]
  BY CommittedBelow
<1>2. CASE id = FirstId(state, f) \/ id % ITEMS_PER_BLOB = 0
  BY <1>2 DEF NewStart, FirstId
<1>3. CASE ~(id = FirstId(state, f) \/ id % ITEMS_PER_BLOB = 0) /\ id = state.next[f]
  <2>1. id - 1 \in CommittedIds(stateIndex, f)
    BY <1>1, <1>3, CommittedBelow
  <2>2. location'[<<f, id - 1>>] = location[<<f, id - 1>>]
    BY <2>1 DEF CommittedUnchanged
  <2> QED
    BY <1>3, <2>2 DEF NewStart, FirstId
<1>4. CASE ~(id = FirstId(state, f) \/ id % ITEMS_PER_BLOB = 0) /\ id # state.next[f]
  <2>1. id - 1 \in Nat /\ state.next[f] <= id - 1 /\ id - 1 < id
    BY <1>1, <1>4
  <2>2. locs'[<<f, id - 1>>] = locs[<<f, id - 1>>]
    BY <2>1
  <2> QED
    BY <1>4, <2>2 DEF NewStart, FirstId
<1> QED
  BY <1>2, <1>3, <1>4

LEMMA RowsSame ==
  ASSUME IInv, TypeOK', Assigns, NewRows, stage \notin {"idle", "assign"}, CommittedUnchanged,
         UNCHANGED <<state, ranges, pending>>,
         \A f \in Family : \A id \in Nat : state.next[f] <= id /\ id < Prepared'[f] =>
           /\ id < Prepared[f] /\ locs'[<<f, id>>] = locs[<<f, id>>]
           /\ Bytes(f, Partition(id))' = Bytes(f, Partition(id))
  PROVE  NewRows'
<1>1. ASSUME NEW f \in Family, NEW k \in 1 .. Len(ranges), NEW j \in 1 .. ranges[k][f].count,
             NEW id, id = ranges[k][f].first + j - 1, NEW row, row = pending[k].rows[f][j].bytes
      PROVE  NewRow(f, id, row)'
  <2>1. id \in Nat /\ state.next[f] \in Nat /\ state.next[f] <= id
    BY <1>1, ItemIds
  <2>2. NewRow(f, id, row)
    BY <1>1 DEF NewRows
  <2>3. up
    BY DEF IInv, BatchShape
  <2>4. SUFFICES ASSUME id < Prepared'[f]
                 PROVE  HoldsAt(Bytes(f, Partition(id))', NewStart(f, id)', locs'[<<f, id>>], row)
    BY DEF NewRow, Partition
  <2>5. /\ id < Prepared[f] /\ locs'[<<f, id>>] = locs[<<f, id>>]
        /\ Bytes(f, Partition(id))' = Bytes(f, Partition(id))
    BY <2>1, <2>4
  <2>6. \A x \in Nat : state.next[f] <= x /\ x < id => locs'[<<f, x>>] = locs[<<f, x>>]
    <3>1. ASSUME NEW x \in Nat, state.next[f] <= x, x < id PROVE x < Prepared'[f]
      <4>1. Prepared'[f] \in Nat
        <5>1. state' \in StateType /\ cursor' \in [Family -> Nat] /\ nid' \in Nat
          BY DEF TypeOK
        <5>2. Prepared'[f] \in {state'.next[f], cursor'[f], nid'}
          BY DEF Prepared
        <5> QED
          BY <5>1, <5>2 DEF StateType
      <4> QED
        BY <2>1, <2>4, <3>1, <4>1
    <3> QED
      BY <3>1
  <2>7. NewStart(f, id)' = NewStart(f, id)
    BY <2>1, <2>3, <2>6, StartSame
  <2> QED
    BY <2>2, <2>5, <2>7 DEF NewRow
<1> QED
  BY <1>1 DEF NewRows

LEMMA AppendRows ==
  ASSUME IInv, TypeOK', CommittedUnchanged, Assigns, NewRows, BufferEnds, AppendItem
  PROVE  NewRows' /\ BufferEnds'
<1>1. PICK k \in 1 .. Len(ranges) : \E j \in 1 .. ranges[k][fam].count : ItemStep(k, j)
  BY AppendItemCase
<1>2. PICK j \in 1 .. ranges[k][fam].count : ItemStep(k, j)
  BY <1>1
<1>3. /\ stage = "append" /\ stage' = "append" /\ nid < cursor[fam] /\ nid' = nid + 1 /\ up
      /\ UNCHANGED <<state, ranges, pending, cursor, fam, blob, location>>
      /\ fam \in Family /\ nid \in Nat /\ state.next[fam] <= nid
  BY DEF AppendItem, IInv, BatchShape, TypeOK, tables
<1>4. PICK p \in Nat : p = Partition(nid)
  BY <1>3, PartitionNat
<1>5. PICK base : base = IF p \in DOMAIN bufs THEN bufs[p] ELSE CommittedPrefix(fam, p)
  OBVIOUS
<1>6. PICK row : row = pending[k].rows[fam][j].bytes
  OBVIOUS
<1>7. PICK buf : buf = base \o row
  OBVIOUS
<1>8. /\ ranges[k][fam].first + j - 1 = nid
      /\ p \notin DOMAIN bufs => Appendable(fam, p)
      /\ bufs' = Put(bufs, p, buf) /\ locs' = Put(locs, <<fam, nid>>, Len(buf))
  BY <1>2, <1>4, <1>5, <1>6, <1>7 DEF ItemStep
<1>9. base \in Seq(Byte)
  BY <1>3, <1>4, <1>5, <1>8, PrefixType DEF IInv, TypeOK
<1>10. row \in Seq(Byte)
  <2>1. pending[k] \in Blocks /\ j \in 1 .. Len(pending[k].rows[fam])
    BY <1>3, ItemIds
  <2> QED
    BY <1>3, <1>6, <2>1, RowBytes
<1>11. /\ buf \in Seq(Byte) /\ Len(buf) = Len(base) + Len(row)
       /\ \A i \in 1 .. Len(base) : buf[i] = base[i]
       /\ \A i \in 1 .. Len(row) : buf[Len(base) + i] = row[i]
  BY <1>7, <1>9, <1>10
<1>12. /\ DOMAIN bufs' = DOMAIN bufs \cup {p} /\ bufs'[p] = buf
       /\ \A q \in DOMAIN bufs : q # p => bufs'[q] = bufs[q]
       /\ locs'[<<fam, nid>>] = Len(buf)
       /\ \A x \in DOMAIN locs : x # <<fam, nid>> => locs'[x] = locs[x]
  BY <1>8 DEF Put
<1>13. /\ Prepared[fam] = nid /\ Prepared'[fam] = nid + 1
       /\ \A f \in Family : f # fam => Prepared'[f] = Prepared[f]
  <2>1. fam \in Nat
    BY <1>3, SizesAssumption DEF Family
  <2>2. ~(fam < fam)
    BY <2>1
  <2>3. Prepared[fam] = nid /\ Prepared'[fam] = nid + 1
    BY <1>3, <2>2 DEF Prepared
  <2>4. \A f \in Family : f # fam => Prepared'[f] = Prepared[f]
    BY <1>3 DEF Prepared
  <2> QED
    BY <2>3, <2>4
<1>14. \A f \in Family, x \in Nat : state.next[f] <= x /\ x < Prepared[f] =>
         <<f, x>> \in DOMAIN locs /\ <<f, x>> # <<fam, nid>> /\ locs'[<<f, x>>] = locs[<<f, x>>]
  <2>1. \A f \in Family, x \in Nat : state.next[f] <= x /\ x < Prepared[f] => <<f, x>> \in DOMAIN locs
    BY <1>3 DEF IInv, NewLocations
  <2>2. \A x \in Nat : x < Prepared[fam] => x # nid
    BY <1>3, <1>13
  <2> QED
    BY <1>12, <2>1, <2>2
<1>15. \A x \in Nat : state.next[fam] <= x /\ x < nid =>
         Partition(x) \in DOMAIN bufs /\ locs[<<fam, x>>] <= Len(bufs[Partition(x)])
  <2>1. \A x \in Nat : Buffered(fam, Partition(x))
    BY <1>3 DEF Buffered
  <2> QED
    BY <1>3, <1>13, <1>14, <2>1 DEF IInv, NewLocations
(* The new record begins where its buffer ended. *)
<1>16. NewStart(fam, nid) = Len(base)
  <2>1. /\ state.next[fam] \in Nat /\ FirstId(state, fam) \in Nat /\ FirstId(state, fam) <= state.next[fam]
        /\ FirstId(state, fam) < state.next[fam] <=> HasCommitted(state, fam)
    BY <1>3, CommittedBelow
  <2>2. CASE p \in DOMAIN bufs
    <3>1. state.next[fam] < nid /\ p <= Partition(nid - 1)
      BY <1>3, <2>2 DEF BufferEnds
    <3>2. nid - 1 \in Nat /\ nid > 0
      BY <1>3, <2>1, <3>1
    <3>3. Partition(nid - 1) = p
      BY <1>3, <1>4, <3>1, <3>2, PartitionMonotone, PartitionNat
    <3>4. nid % ITEMS_PER_BLOB # 0
      BY <1>3, <1>4, <3>2, <3>3, SameBlob
    <3>5. nid # FirstId(state, fam) /\ nid # state.next[fam]
      BY <1>3, <2>1, <3>1
    <3>6. NewStart(fam, nid) = locs[<<fam, nid - 1>>]
      BY <3>4, <3>5 DEF NewStart
    <3> QED
      BY <1>3, <1>5, <2>2, <3>1, <3>3, <3>6 DEF BufferEnds
  <2>3. CASE p \notin DOMAIN bufs
    <3>1. ASSUME state.next[fam] < nid PROVE nid - 1 \in Nat /\ Partition(nid - 1) # p
      <4>1. nid - 1 \in Nat /\ Partition(nid - 1) \in DOMAIN bufs
        BY <1>3, <2>1, <3>1 DEF BufferEnds
      <4> QED
        BY <2>3, <4>1
    <3>2. CASE SharesPartition(fam, p)
      <4>1. HasCommitted(state, fam) /\ Partition(state.next[fam] - 1) = p
        BY <3>2 DEF SharesPartition
      <4>2. state.next[fam] - 1 \in Nat /\ state.next[fam] > 0
        BY <2>1, <4>1
      <4>3. nid = state.next[fam]
        <5>1. ASSUME state.next[fam] < nid PROVE FALSE
          <6>1. /\ Partition(state.next[fam] - 1) <= Partition(nid - 1)
                /\ Partition(nid - 1) <= Partition(nid)
            BY <1>3, <2>1, <3>1, <4>2, <5>1, PartitionMonotone
          <6> QED
            BY <1>3, <1>4, <3>1, <4>1, <5>1, <6>1, PartitionNat
        <5> QED
          BY <1>3, <2>1, <5>1
      <4>4. nid % ITEMS_PER_BLOB # 0 /\ nid # FirstId(state, fam)
        BY <1>3, <1>4, <2>1, <4>1, <4>2, <4>3, SameBlob
      <4>5. NewStart(fam, nid) = location[<<fam, nid - 1>>]
        BY <4>3, <4>4 DEF NewStart
      <4>6. Len(base) = location[<<fam, nid - 1>>]
        <5>1. PICK x : x = blob[<<fam, p>>]
          OBVIOUS
        <5>2. PICK e : e = location[<<fam, nid - 1>>]
          OBVIOUS
        <5>3. x \in Seq(Byte) /\ e \in Nat /\ e <= Len(x)
          BY <1>8, <2>3, <3>2, <4>3, <5>1, <5>2 DEF Appendable, IInv, TypeOK
        <5>4. base = SubSeq(x, 1, e)
          BY <1>5, <2>3, <3>2, <4>3, <5>1, <5>2 DEF CommittedPrefix
        <5>5. Len(SubSeq(x, 1, e)) = e
          BY <5>3
        <5> QED
          BY <5>2, <5>4, <5>5
      <4> QED
        BY <4>5, <4>6
    <3>3. CASE ~SharesPartition(fam, p)
      <4>1. base = <<>>
        BY <1>5, <2>3, <3>3 DEF CommittedPrefix
      <4>2. nid = FirstId(state, fam) \/ nid % ITEMS_PER_BLOB = 0
        <5>1. SUFFICES ASSUME nid # FirstId(state, fam), nid % ITEMS_PER_BLOB # 0 PROVE FALSE
          OBVIOUS
        <5>2. nid > 0
          BY <1>3, <2>1, <5>1
        <5>3. Partition(nid - 1) = p
          BY <1>3, <1>4, <5>1, <5>2, SameBlob
        <5>4. nid = state.next[fam]
          BY <1>3, <2>1, <3>1, <5>3
        <5>5. HasCommitted(state, fam)
          BY <1>3, <2>1, <5>1, <5>4
        <5> QED
          BY <3>3, <5>3, <5>4, <5>5 DEF SharesPartition
      <4> QED
        BY <4>1, <4>2 DEF NewStart
    <3> QED
      BY <3>2, <3>3
  <2> QED
    BY <2>2, <2>3
<1>17. HoldsAt(buf, NewStart(fam, nid), Len(buf), row)
  <2>1. Len(base) \in Nat /\ Len(row) \in Nat
    BY <1>9, <1>10
  <2> QED
    BY <1>11, <1>16, <2>1 DEF HoldsAt
<1>18. ASSUME NEW f \in Family, NEW m \in 1 .. Len(ranges), NEW i \in 1 .. ranges[m][f].count,
              NEW id, id = ranges[m][f].first + i - 1, NEW r, r = pending[m].rows[f][i].bytes
       PROVE  NewRow(f, id, r)'
  <2>1. /\ id \in Nat /\ state.next[f] \in Nat /\ state.next[f] <= id
        /\ pending[m] \in Blocks /\ i \in 1 .. Len(pending[m].rows[f])
    BY <1>3, <1>18, ItemIds
  <2>2. NewRow(f, id, r)
    BY <1>3, <1>18 DEF NewRows
  <2>3. r \in Seq(Byte)
    BY <1>18, <2>1, RowBytes
  <2>4. SUFFICES ASSUME id < Prepared'[f]
                 PROVE  HoldsAt(Bytes(f, Partition(id))', NewStart(f, id)', locs'[<<f, id>>], r)
    BY DEF NewRow, Partition
  <2>5. \A x \in Nat : state.next[f] <= x /\ x < id => x < Prepared[f]
    <3>1. CASE f = fam
      BY <1>3, <1>13, <2>1, <2>4, <3>1
    <3>2. CASE f # fam
      <4>1. Prepared'[f] = Prepared[f] /\ (Prepared[f] = cursor[f] \/ Prepared[f] = state.next[f])
            /\ cursor[f] \in Nat
        BY <1>3, <1>13, <3>2 DEF Prepared, IInv, TypeOK
      <4> QED
        BY <2>1, <2>4, <4>1
    <3> QED
      BY <3>1, <3>2
  <2>6. \A x \in Nat : state.next[f] <= x /\ x < id => locs'[<<f, x>>] = locs[<<f, x>>]
    BY <1>14, <2>5
  <2>7. NewStart(f, id)' = NewStart(f, id)
    BY <1>3, <2>1, <2>6, StartSame
  <2>8. CASE f # fam
    <3>1. id < Prepared[f] /\ locs'[<<f, id>>] = locs[<<f, id>>]
      BY <1>13, <1>14, <2>1, <2>4, <2>8
    <3>2. Bytes(f, Partition(id))' = Bytes(f, Partition(id))
      BY <1>3, <2>8 DEF Bytes, Buffered, Partition
    <3> QED
      BY <2>2, <2>7, <3>1, <3>2 DEF NewRow
  <2>9. CASE f = fam /\ id = nid
    <3>1. m = k /\ i = j
      <4>1. ranges \in Seq([Family -> IdRange]) /\ stage # "idle"
        BY <1>3 DEF IInv, TypeOK
      <4>2. ranges[m][fam] \in IdRange /\ ranges[k][fam] \in IdRange
        BY <1>3, <4>1
      <4>3. /\ ranges[m][fam].first \in Nat /\ ranges[m][fam].count \in Nat
            /\ ranges[k][fam].first \in Nat /\ ranges[k][fam].count \in Nat
        BY <4>2 DEF IdRange
      <4>31. i \in Nat /\ i <= ranges[m][fam].count /\ nid = ranges[m][fam].first + i - 1 /\ 1 <= i
        BY <1>18, <2>9, <4>3
      <4>32. j \in Nat /\ j <= ranges[k][fam].count /\ nid = ranges[k][fam].first + j - 1 /\ 1 <= j
        BY <1>8, <4>3
      <4>4. m = k
        <5>1. ASSUME m < k PROVE FALSE
          <6>1. ranges[m][fam].first + ranges[m][fam].count <= ranges[k][fam].first
            BY <1>3, <4>1, <5>1 DEF Assigns
          <6> QED
            BY <4>3, <4>31, <4>32, <6>1, IdsApart
        <5>2. ASSUME k < m PROVE FALSE
          <6>1. ranges[k][fam].first + ranges[k][fam].count <= ranges[m][fam].first
            BY <1>3, <4>1, <5>2 DEF Assigns
          <6> QED
            BY <4>3, <4>31, <4>32, <6>1, IdsApart
        <5> QED
          BY <5>1, <5>2
      <4> QED
        BY <4>3, <4>31, <4>32, <4>4
    <3>2. r = row
      BY <1>6, <1>18, <2>9, <3>1
    <3>3. Bytes(f, Partition(id))' = buf
      BY <1>3, <1>4, <1>12, <2>9 DEF Bytes, Buffered, Partition
    <3> QED
      BY <1>12, <1>17, <2>7, <2>9, <3>2, <3>3
  <2>10. CASE f = fam /\ id # nid
    <3>1. id < nid /\ id < Prepared[fam]
      BY <1>3, <1>13, <2>1, <2>4, <2>10
    <3>2. PICK q : q = Partition(id)
      OBVIOUS
    <3>3. q \in DOMAIN bufs /\ locs[<<fam, id>>] <= Len(bufs[q]) /\ locs'[<<fam, id>>] = locs[<<fam, id>>]
      BY <1>3, <1>14, <1>15, <2>1, <2>10, <3>1, <3>2
    <3>4. Bytes(f, Partition(id)) = bufs[q] /\ Bytes(f, Partition(id))' = bufs'[q]
      BY <1>3, <2>10, <3>2 DEF Bytes, Buffered, Partition
    <3>5. HoldsAt(bufs[q], NewStart(f, id), locs[<<f, id>>], r)
      BY <2>2, <2>10, <3>1, <3>4 DEF NewRow
    <3>6. HoldsAt(bufs'[q], NewStart(f, id), locs[<<f, id>>], r)
      <4>1. CASE q # p
        BY <1>12, <3>3, <3>5, <4>1
      <4>2. CASE q = p
        <5>1. bufs[q] = base /\ bufs'[q] = buf
          BY <1>5, <1>12, <3>3, <4>2
        <5>2. PICK to : to = locs[<<f, id>>]
          OBVIOUS
        <5>3. to \in Nat /\ to <= Len(base) /\ to <= Len(buf)
          <6>1. to \in Nat
            BY <1>3, <1>14, <2>1, <2>10, <3>1, <5>2 DEF IInv, TypeOK
          <6> QED
            BY <1>9, <1>10, <1>11, <2>10, <3>3, <5>1, <5>2, <6>1
        <5>4. \A x \in 1 .. to : buf[x] = base[x]
          BY <1>9, <1>11, <5>3
        <5> QED
          BY <1>9, <1>11, <2>3, <3>5, <5>1, <5>2, <5>3, <5>4, HeldKept
      <4> QED
        BY <4>1, <4>2
    <3> QED
      BY <2>7, <2>10, <3>3, <3>4, <3>6
  <2> QED
    BY <2>8, <2>9, <2>10
<1>19. NewRows'
  BY <1>3, <1>18 DEF NewRows
<1>20. BufferEnds'
  <2>1. nid' - 1 = nid /\ state'.next[fam'] < nid' /\ state.next[fam] \in Nat
    BY <1>3, CommittedBelow
  <2>2. ASSUME NEW q \in DOMAIN bufs' PROVE q <= Partition(nid)
    <3>1. CASE q = p
      BY <1>4, <3>1
    <3>2. CASE q \in DOMAIN bufs
      <4>1. state.next[fam] < nid /\ q <= Partition(nid - 1) /\ q \in Nat
        BY <1>3, <3>2 DEF BufferEnds, IInv, TypeOK
      <4>2. nid - 1 \in Nat /\ Partition(nid - 1) <= Partition(nid)
        BY <1>3, <2>1, <4>1, PartitionMonotone
      <4> QED
        BY <1>3, <4>1, <4>2, PartitionNat
    <3> QED
      BY <1>12, <3>1, <3>2
  <2>3. Partition(nid - 1)' = p /\ Partition(nid) = p
    BY <1>4, <2>1 DEF Partition
  <2>4. \A q \in DOMAIN bufs' : q <= p
    BY <2>2, <2>3
  <2>5. p \in DOMAIN bufs' /\ Len(bufs'[p]) = locs'[<<fam', nid' - 1>>]
    BY <1>3, <1>12, <2>1
  <2> QED
    BY <2>1, <2>3, <2>4, <2>5 DEF BufferEnds, Partition
<1> QED
  BY <1>19, <1>20

LEMMA EmptyBuffers ==
  ASSUME stage' = "append" => DOMAIN bufs' = {} /\ nid' = state'.next[fam'] /\ nid' \in Nat
  PROVE  BufferEnds'
BY DEF BufferEnds

LEMMA RowsStep ==
  ASSUME IInv, TypeOK', CommittedUnchanged, Assigns, NewRows, BufferEnds, [Next]_vars
  PROVE  NewRows' /\ BufferEnds'
<1> DEFINE Same(f, id) ==
      /\ id < Prepared[f] /\ locs'[<<f, id>>] = locs[<<f, id>>]
      /\ Bytes(f, Partition(id))' = Bytes(f, Partition(id))
<1>1. CASE stage' \in {"idle", "assign"}
  BY <1>1 DEF NewRows, BufferEnds
<1>2. CASE Assigned
  <2>1. /\ stage' = "append" /\ fam' = BlockHeader /\ nid' = state.next[BlockHeader] /\ up
        /\ UNCHANGED <<state, ranges, pending, cursor, bufs>> /\ stage = "assign"
    BY <1>2 DEF Assigned, IInv, BatchShape
  <2>2. \A f \in Family : Prepared'[f] = state.next[f]
    BY <2>1, SizesAssumption DEF Prepared, Family, BlockHeader
  <2>3. ASSUME NEW f \in Family, NEW k \in 1 .. Len(ranges), NEW j \in 1 .. ranges[k][f].count,
               NEW id, id = ranges[k][f].first + j - 1, NEW row
        PROVE  NewRow(f, id, row)'
    <3>1. id \in Nat /\ state.next[f] \in Nat /\ state.next[f] <= id
      BY <2>1, <2>3, ItemIds
    <3>2. ~(id < Prepared'[f])
      BY <2>2, <3>1
    <3> QED
      BY <3>2 DEF NewRow
  <2>4. NewRows'
    BY <2>1, <2>3 DEF NewRows
  <2>5. state.next[BlockHeader] \in Nat
    BY <2>1, CommittedBelow, Families
  <2>6. DOMAIN bufs' = {}
    BY <2>1 DEF IInv, BatchShape, EmptyTable
  <2> QED
    BY <2>1, <2>4, <2>5, <2>6, EmptyBuffers
<1>3. CASE AppendItem
  BY <1>3, AppendRows
<1>4. CASE BeginPutPayload
  <2>1. /\ stage = "append" /\ stage' = "payload" /\ unput' = DOMAIN bufs /\ up
        /\ UNCHANGED <<state, ranges, pending, cursor, fam, nid, bufs, locs, blob>>
    BY <1>4 DEF BeginPutPayload, IInv, BatchShape, tables
  <2>2. \A f \in Family : Prepared'[f] = Prepared[f]
    BY <2>1 DEF Prepared
  <2>3. ASSUME NEW f \in Family, NEW id \in Nat, state.next[f] <= id, id < Prepared'[f]
        PROVE  Same(f, id)
    <3>1. id < Prepared[f] /\ <<f, id>> \in DOMAIN locs
      BY <2>1, <2>2, <2>3 DEF IInv, NewLocations
    <3>2. CASE f = fam
      <4>1. Buffered(f, Partition(id))
        BY <2>1, <3>2 DEF Buffered
      <4>2. Partition(id) \in DOMAIN bufs
        BY <3>1, <4>1 DEF IInv, NewLocations
      <4>3. Buffered(f, Partition(id))'
        BY <2>1, <3>2, <4>2 DEF Buffered, Partition
      <4> QED
        BY <2>1, <3>1, <4>1, <4>3 DEF Bytes, Partition
    <3>3. CASE f # fam
      BY <2>1, <3>1, <3>3 DEF Bytes, Buffered, Partition
    <3> QED
      BY <3>2, <3>3
  <2>4. NewRows'
    BY <2>1, <2>3, RowsSame
  <2> QED
    BY <2>1, <2>4 DEF BufferEnds
<1>5. ASSUME NEW p \in unput, PutPayload(p) PROVE NewRows' /\ BufferEnds'
  <2>1. /\ stage = "payload" /\ stage' = "payload" /\ unput' = unput \ {p} /\ up
        /\ blob' = Put(blob, <<fam, p>>, bufs[p])
        /\ UNCHANGED <<state, ranges, pending, cursor, fam, nid, bufs, locs>>
    BY <1>5 DEF PutPayload, IInv, BatchShape
  <2>2. \A f \in Family : Prepared'[f] = Prepared[f]
    BY <2>1 DEF Prepared
  <2>3. ASSUME NEW f \in Family, NEW id \in Nat, state.next[f] <= id, id < Prepared'[f]
        PROVE  Same(f, id)
    <3>1. id < Prepared[f] /\ <<f, id>> \in DOMAIN locs
      BY <2>1, <2>2, <2>3 DEF IInv, NewLocations
    <3>2. CASE <<f, Partition(id)>> = <<fam, p>>
      <4>1. Buffered(f, Partition(id))
        BY <1>5, <2>1, <3>2 DEF Buffered
      <4>2. ~Buffered(f, Partition(id))'
        BY <2>1, <3>2 DEF Buffered, Partition
      <4>3. blob'[<<f, Partition(id)>>] = bufs[Partition(id)]
        BY <2>1, <3>2 DEF Put
      <4> QED
        BY <2>1, <3>1, <4>1, <4>2, <4>3 DEF Bytes, Partition
    <3>3. CASE <<f, Partition(id)>> # <<fam, p>>
      <4>1. Buffered(f, Partition(id))' <=> Buffered(f, Partition(id))
        BY <2>1, <3>3 DEF Buffered, Partition
      <4>2. CASE Buffered(f, Partition(id))
        BY <2>1, <3>1, <4>1, <4>2 DEF Bytes, Partition
      <4>3. CASE ~Buffered(f, Partition(id))
        <5>1. <<f, Partition(id)>> \in DOMAIN blob
          BY <3>1, <4>3 DEF IInv, NewLocations
        <5>2. blob'[<<f, Partition(id)>>] = blob[<<f, Partition(id)>>]
          BY <2>1, <3>3, <5>1 DEF Put
        <5> QED
          BY <2>1, <3>1, <4>1, <4>3, <5>2 DEF Bytes, Partition
      <4> QED
        BY <4>2, <4>3
    <3> QED
      BY <3>2, <3>3
  <2>4. NewRows'
    BY <2>1, <2>3, RowsSame
  <2> QED
    BY <2>1, <2>4 DEF BufferEnds
<1>6. CASE FamilyDone
  <2>1. /\ stage = "payload" /\ unput = {} /\ up /\ bufs' = EmptyTable
        /\ UNCHANGED <<state, ranges, pending, cursor, locs, blob, unput>>
        /\ fam \in Family /\ nid = cursor[fam]
        /\ IF fam + 1 < NumFamilies
             THEN stage' = "append" /\ fam' = fam + 1 /\ nid' = state.next[fam + 1]
             ELSE stage' = "location" /\ UNCHANGED <<fam, nid>>
    BY <1>6 DEF FamilyDone, IInv, BatchShape, TypeOK, tables
  <2>2. fam \in Nat /\ fam < NumFamilies /\ NumFamilies \in Nat
    BY <2>1, SizesAssumption DEF Family
  <2>3. \A f \in Family : f \in Nat /\ f < NumFamilies
    BY SizesAssumption DEF Family
  <2>4. \A f \in Family : Prepared'[f] = Prepared[f]
    <3>1. CASE fam + 1 < NumFamilies
      <4>1. ASSUME NEW f \in Family PROVE Prepared'[f] = Prepared[f]
        <5>1. Prepared[f] = IF f < fam \/ f = fam THEN cursor[f] ELSE state.next[f]
          BY <2>1 DEF Prepared
        <5>2. Prepared'[f] = IF f < fam + 1 THEN cursor[f] ELSE state.next[f]
          BY <2>1, <3>1 DEF Prepared
        <5> QED
          BY <2>2, <2>3, <5>1, <5>2
      <4> QED
        BY <4>1
    <3>2. CASE ~(fam + 1 < NumFamilies)
      <4>1. ASSUME NEW f \in Family PROVE Prepared'[f] = Prepared[f]
        <5>1. Prepared[f] = IF f < fam \/ f = fam THEN cursor[f] ELSE state.next[f]
          BY <2>1 DEF Prepared
        <5>2. Prepared'[f] = cursor[f]
          BY <2>1, <3>2 DEF Prepared
        <5>3. f < fam \/ f = fam
          BY <2>2, <2>3, <3>2
        <5> QED
          BY <5>1, <5>2, <5>3
      <4> QED
        BY <4>1
    <3> QED
      BY <3>1, <3>2
  <2>5. ASSUME NEW f \in Family, NEW id \in Nat, state.next[f] <= id, id < Prepared'[f]
        PROVE  Same(f, id)
    <3>1. id < Prepared[f] /\ ~Buffered(f, Partition(id))
      BY <2>1, <2>4, <2>5 DEF Buffered
    <3>2. ~Buffered(f, Partition(id))'
      <4>1. CASE fam + 1 < NumFamilies /\ f = fam + 1
        <5>1. ~(f < fam) /\ f # fam
          BY <2>2, <4>1
        <5>2. Prepared[f] = state.next[f]
          BY <2>1, <5>1 DEF Prepared
        <5>3. state.next[f] \in Nat
          BY <2>1, CommittedBelow
        <5> QED
          BY <2>5, <3>1, <5>2, <5>3
      <4>2. CASE ~(fam + 1 < NumFamilies /\ f = fam + 1)
        BY <2>1, <4>2 DEF Buffered
      <4> QED
        BY <4>1, <4>2
    <3> QED
      BY <2>1, <3>1, <3>2 DEF Bytes, Partition
  <2>6. NewRows'
    BY <2>1, <2>5, RowsSame
  <2>7. stage' = "append" => DOMAIN bufs' = {} /\ nid' = state'.next[fam'] /\ nid' \in Nat
    BY <2>1 DEF EmptyTable, TypeOK
  <2> QED
    BY <2>6, <2>7, EmptyBuffers
<1>7. CASE /\ stage \in Located \cup {"location"} /\ stage' \in Located
           /\ UNCHANGED <<state, ranges, pending, cursor, locs, blob>>
  <2>1. \A f \in Family : Prepared'[f] = Prepared[f]
    BY <1>7 DEF Prepared, Located
  <2>2. \A f \in Family, p \in Nat : Bytes(f, p)' = Bytes(f, p)
    BY <1>7 DEF Bytes, Buffered, Located
  <2>3. ASSUME NEW f \in Family, NEW id \in Nat, state.next[f] <= id, id < Prepared'[f]
        PROVE  Same(f, id)
    <3>1. PICK p \in Nat : p = Partition(id)
      BY PartitionNat
    <3> QED
      BY <1>7, <2>1, <2>2, <2>3, <3>1 DEF Partition
  <2>4. NewRows'
    BY <1>7, <2>3, RowsSame DEF Located
  <2> QED
    BY <1>7, <2>4 DEF BufferEnds, Located
<1>8. CASE UNCHANGED <<stage, state, ranges, pending, cursor, fam, nid, bufs, locs, blob, location, unput>>
  BY <1>8 DEF NewRows, NewRow, BufferEnds, Bytes, Buffered, NewStart, Prepared, FirstId, Partition
<1>9. UNCHANGED vars => UNCHANGED <<stage, state, ranges, pending, cursor, fam, nid, bufs, locs, blob,
                                    location, unput>>
  BY DEF vars, tables, scratch
<1>10. PutLocations \/ ReadPages \/ (\E k \in unput : PutPage(k)) \/ PutStats \/ PutBlockHashes
         \/ PutFamilies \/ PutBlockIndex =>
         /\ stage \in Located \cup {"location"} /\ stage' \in Located
         /\ UNCHANGED <<state, ranges, pending, cursor, locs, blob>>
  BY DEF PutLocations, ReadPages, PutPage, PutStats, PutBlockHashes, PutFamilies, PutBlockIndex,
     Located, tables, scratch
<1>11. Open \/ (\E b \in Blocks : Append1(b)) \/ BeginFlush \/ AssignRange \/ PutState \/ FlushError
         \/ Crash => stage' \in {"idle", "assign"}
  BY DEF Open, Append1, BeginFlush, AssignRange, PutState, FlushError, Crash, IInv, MemoryAgrees
<1> QED
  BY <1>1, <1>2, <1>3, <1>4, <1>5, <1>6, <1>7, <1>8, <1>9, <1>10, <1>11 DEF Next, Flushing

-----------------------------------------------------------------------------
(* The empty index satisfies the invariant, and every step keeps it. *)
LEMMA InitCInv == Init => CInv
<1> SUFFICES ASSUME Init PROVE CInv
  OBVIOUS
<1>1. /\ stateIndex.start = 0 /\ stateIndex.next[BlockHeader] = 0 /\ ~up /\ lastHash = NoHash
      /\ Len(pending) = 0 /\ stage = "idle"
  BY Families DEF Init, DefaultState
<1>2. BlocksStored
  BY <1>1 DEF BlocksStored, CommittedHeights
<1>3. HeadKnown
  BY <1>1 DEF HeadKnown
<1> QED
  BY <1>1, <1>2, <1>3 DEF CInv, Assigns, NewRows, BufferEnds, MetadataStored, Hashed

LEMMA CInvStep == IInv /\ CInv /\ [Next]_vars => CInv'
<1> SUFFICES ASSUME IInv, CInv, [Next]_vars PROVE CInv'
  OBVIOUS
<1>1. IInv' /\ TypeOK' /\ CommittedUnchanged
  BY InvStep DEF IInv
<1>2. Assigns /\ NewRows /\ BufferEnds /\ MetadataStored
  BY DEF CInv
<1>3. BlocksStored' /\ HeadKnown'
  BY <1>1, StoredStep, HeadStep
<1>4. Assigns' /\ MetadataStored'
  BY <1>2, AssignsStep, MetadataStep
<1>5. NewRows' /\ BufferEnds'
  BY <1>1, <1>2, RowsStep
<1> QED
  BY <1>3, <1>4, <1>5 DEF CInv

-----------------------------------------------------------------------------
(* A reader puts together exactly the block that is stored. *)
EntriesRead ==
  \A n \in Nat, b \in Blocks : BlockStored(n, b) => ReadBlock(n) = Index!Stored(b)

LEMMA ReadsStored == IInv => EntriesRead
<1> SUFFICES ASSUME IInv, NEW n \in Nat, NEW b \in Blocks, BlockStored(n, b)
             PROVE  ReadBlock(n) = Index!Stored(b)
  BY DEF EntriesRead
<1>1. b.rows \in [Family -> Seq(Row)] /\ DOMAIN b.rows = Family
  BY BlocksAssumption DEF BlockType
<1>2. ASSUME NEW f \in Family, NEW j \in 1 .. familyRange[<<f, n>>].count
      PROVE  ReadRow(f, familyRange[<<f, n>>].first + j - 1) = b.rows[f][j].bytes
  <2>1. PICK id : id = familyRange[<<f, n>>].first + j - 1
    OBVIOUS
  <2>2. PICK row : row = b.rows[f][j].bytes
    OBVIOUS
  <2>3. j \in 1 .. Len(b.rows[f])
    BY <1>2 DEF BlockStored, RangeStored
  <2>4. RowStored(f, id, row)
    BY <2>1, <2>2, <2>3 DEF BlockStored, RangeStored
  <2>5. row \in Seq(Byte)
    BY <2>2, <2>3, RowBytes
  <2>6. blob[<<f, Partition(id)>>] \in Seq(Byte)
    BY <2>4 DEF RowStored, IInv, Recoverable, CommittedLocated, TypeOK
  <2>7. ReadRow(f, id) = row
    BY <2>4, <2>5, <2>6, HeldIsRead DEF RowStored, ReadRow
  <2> QED
    BY <2>1, <2>2, <2>7
<1>3. \A f \in Family : familyRange[<<f, n>>].count = Len(b.rows[f])
  BY DEF BlockStored, RangeStored
<1>4. blockHash[n] = b.hash /\ b.number = n
  BY DEF BlockStored
<1>5. ASSUME NEW f \in Family
      PROVE  [j \in 1 .. familyRange[<<f, n>>].count |->
                ReadRow(f, familyRange[<<f, n>>].first + j - 1)]
             = [j \in 1 .. Len(b.rows[f]) |-> b.rows[f][j].bytes]
  BY <1>2, <1>3
<1>6. ReadBlock(n).payload = Index!Stored(b).payload
  BY <1>1, <1>5 DEF ReadBlock, Index!Stored
<1> QED
  BY <1>4, <1>6 DEF ReadBlock, Index!Stored

(* The log of the index is empty to begin with. *)
LEMMA InitRefines == Init => Index!Init
<1> SUFFICES ASSUME Init PROVE ReadLog = <<>>
  BY DEF Index!Init
<1>1. stateIndex.start = 0 /\ stateIndex.next[BlockHeader] = 0
  BY Families DEF Init, DefaultState
<1>2. 1 .. stateIndex.next[BlockHeader] - stateIndex.start = {}
  BY <1>1
<1> QED
  BY <1>2 DEF ReadLog

(* A committed entry reads the same after the step. *)
LEMMA EntryKept ==
  ASSUME IInv, CInv, EntriesRead, EntriesRead', [Next]_vars, NEW n \in CommittedHeights
  PROVE  ReadBlock(n)' = ReadBlock(n)
<1>1. PICK b \in Blocks : BlockStored(n, b)
  BY DEF CInv, BlocksStored
<1>2. BlockStored(n, b)'
  BY <1>1, InvStep, BlockKept
<1>3. n \in Nat
  BY BatchHeights
<1>4. ReadBlock(n) = Index!Stored(b)
  BY <1>1, <1>3 DEF EntriesRead
<1>5. ReadBlock(n)' = Index!Stored(b)
  BY <1>2, <1>3 DEF EntriesRead
<1> QED
  BY <1>4, <1>5

(* The log of a running process, and where the batch goes in it. *)
LEMMA LogLength ==
  ASSUME IInv, up, NEW L, L = state.next[BlockHeader] - state.start
  PROVE  /\ L \in Nat /\ L = stateIndex.next[BlockHeader] - stateIndex.start
         /\ L > 0 => stateIndex.start = state.start /\ stateIndex.started /\ state = stateIndex
         /\ state.start \in Nat /\ stateIndex.next[BlockHeader] \in Nat /\ stateIndex.start \in Nat
<1>1. /\ stateIndex.next[BlockHeader] \in Nat /\ stateIndex.start \in Nat
      /\ state.next[BlockHeader] \in Nat /\ state.start \in Nat
  BY Families DEF IInv, TypeOK, StateType
<1>2. CASE stateIndex.started /\ state = stateIndex
  BY <1>1, <1>2 DEF IInv, MemoryAgrees
<1>3. CASE stateIndex = DefaultState /\ state = StartAt(DefaultState)
  <2>1. stateIndex.next[BlockHeader] = 0 /\ stateIndex.start = 0
    BY <1>3, Families DEF DefaultState
  <2>2. state.next[BlockHeader] = StartBlock /\ state.start = StartBlock
    BY <1>3, Families DEF DefaultState, StartAt
  <2> QED
    BY <1>1, <2>1, <2>2, SizesAssumption
<1> QED
  BY <1>2, <1>3 DEF IInv, MemoryAgrees

(* Committing the batch appends its blocks to the log, each one linked to  *)
(* the one before it.                                                      *)
LEMMA CommitExtends ==
  ASSUME IInv, CInv, EntriesRead, EntriesRead', [Next]_vars, PutState
  PROVE  Index!Extend
<1>1. /\ up /\ Len(pending) \in Nat /\ Len(pending) > 0 /\ stateIndex'.start = state.start
      /\ stateIndex'.next[BlockHeader] = state.next[BlockHeader] + Len(pending)
      /\ state.next[BlockHeader] \in Nat
  BY CommitHeights
<1>2. PICK L : L = state.next[BlockHeader] - state.start
  OBVIOUS
<1>3. /\ L \in Nat /\ L = stateIndex.next[BlockHeader] - stateIndex.start
      /\ L > 0 => stateIndex.start = state.start /\ stateIndex.started /\ state = stateIndex
      /\ state.start \in Nat /\ stateIndex.next[BlockHeader] \in Nat /\ stateIndex.start \in Nat
  BY <1>1, <1>2, LogLength
<1>4. PICK P \in Nat : P = Len(pending) /\ P > 0
  BY <1>1
<1>5. PICK s \in Nat : s = state.start
  BY <1>3
<1>6. PICK new : new = ReadLog'
  OBVIOUS
<1>7. PICK old : old = ReadLog
  OBVIOUS
<1>8. new = [i \in 1 .. L + P |-> ReadBlock(s + i - 1)']
  <2>1. stateIndex'.next[BlockHeader] - stateIndex'.start = L + P
    BY <1>1, <1>2, <1>3, <1>4
  <2> QED
    BY <2>1, <1>1, <1>5, <1>6 DEF ReadLog
<1>9. Len(new) = L + P /\ L + P \in Nat
  BY <1>3, <1>4, <1>8
<1>10. Len(old) = L /\ \A i \in 1 .. L : old[i] = ReadBlock(s + i - 1)
  <2>1. old = [i \in 1 .. L |-> ReadBlock(stateIndex.start + i - 1)]
    BY <1>3, <1>7 DEF ReadLog
  <2>2. Len(old) = L
    BY <1>3, <2>1
  <2>3. ASSUME NEW i \in 1 .. L PROVE old[i] = ReadBlock(s + i - 1)
    <3>1. stateIndex.start = s
      BY <1>3, <1>5
    <3> QED
      BY <2>1, <3>1
  <2> QED
    BY <2>2, <2>3
<1>11. ASSUME NEW i \in 1 .. L PROVE new[i] = old[i]
  <2>1. s + i - 1 \in CommittedHeights
    BY <1>3, <1>5 DEF CommittedHeights
  <2>2. PICK n : n = s + i - 1
    OBVIOUS
  <2>3. ReadBlock(n)' = ReadBlock(n)
    BY <2>1, <2>2, EntryKept
  <2>4. i \in 1 .. L + P
    BY <1>3, <1>4
  <2>5. new[i] = ReadBlock(n)'
    BY <1>8, <2>2, <2>4
  <2> QED
    BY <1>10, <2>2, <2>3, <2>5
<1>12. ASSUME NEW k \in 1 .. P, NEW b, b = pending[k]
       PROVE  /\ b \in Blocks /\ b.number = s + L + k - 1
              /\ new[L + k] = Index!Stored(b)
  <2>1. b \in Blocks /\ b.number = state.next[BlockHeader] + k - 1
    BY <1>4, <1>12 DEF IInv, TypeOK, MemoryAgrees
  <2>2. b.number = s + L + k - 1 /\ b.number \in Nat
    BY <1>1, <1>2, <1>3, <1>5, <2>1, BlockFacts
  <2>3. PICK n \in Nat : n = b.number
    BY <2>2
  <2>4. BlockStored(n, b)'
    BY <1>4, <1>12, <2>3, CommitStored
  <2>5. ReadBlock(n)' = Index!Stored(b)
    BY <2>1, <2>4 DEF EntriesRead
  <2>6. L + k \in 1 .. L + P /\ s + (L + k) - 1 = n
    BY <1>3, <1>4, <2>2, <2>3
  <2>7. new[L + k] = ReadBlock(n)'
    BY <1>8, <2>6
  <2> QED
    BY <2>1, <2>2, <2>5, <2>7
<1>13. ASSUME NEW i \in L + 1 .. L + P PROVE Index!Links(new, i)
  <2>1. PICK k \in 1 .. P : i = L + k
    <3>1. i - L \in 1 .. P /\ i = L + (i - L)
      BY <1>3, <1>4
    <3> QED
      BY <3>1
  <2>2. PICK b : b = pending[k]
    OBVIOUS
  <2>3. b \in Blocks /\ b.number = s + L + k - 1 /\ new[i] = Index!Stored(b)
    BY <1>12, <2>1, <2>2
  <2>4. ASSUME i > 1
        PROVE  b.number = new[i - 1].number + 1 /\ b.parent = new[i - 1].hash
    <3>1. CASE k > 1
      <4>1. PICK m \in 1 .. P : k = m + 1 /\ i - 1 = L + m /\ m \in 1 .. P - 1
        <5>1. PICK m : m = k - 1
          OBVIOUS
        <5>2. m \in 1 .. P /\ m \in 1 .. P - 1 /\ k = m + 1
          BY <3>1, <5>1
        <5>3. i - 1 = L + m
          BY <1>3, <2>1, <5>2
        <5> QED
          BY <5>2, <5>3
      <4>2. PICK c : c = pending[m]
        OBVIOUS
      <4>3. c.number = s + L + m - 1 /\ new[i - 1] = Index!Stored(c)
        BY <1>12, <4>1, <4>2
      <4>4. b.parent = c.hash
        BY <1>4, <2>2, <4>1, <4>2 DEF CInv, HeadKnown
      <4>5. new[i - 1].number = c.number /\ new[i - 1].hash = c.hash
        BY <4>3 DEF Index!Stored
      <4>6. s + L + k - 1 = (s + L + m - 1) + 1
        BY <1>3, <4>1
      <4> QED
        BY <2>3, <4>3, <4>4, <4>5, <4>6
    <3>2. CASE k = 1
      <4>1. L > 0 /\ L \in 1 .. L /\ i - 1 = L
        BY <1>3, <2>1, <2>4, <3>2
      <4>2. PICK n : n = s + L - 1
        OBVIOUS
      <4>3. n \in Nat /\ n \in CommittedHeights /\ n = state.next[BlockHeader] - 1
        <5>1. PICK x \in Nat : x = state.next[BlockHeader]
          BY <1>1
        <5>2. x = s + L
          BY <1>2, <1>3, <1>5, <5>1
        <5>3. stateIndex.next[BlockHeader] = x /\ stateIndex.start = s
          BY <1>3, <1>5, <4>1, <5>1
        <5>4. n = x - 1 /\ n \in Nat /\ n \in s .. x - 1
          BY <1>3, <4>1, <4>2, <5>2
        <5> QED
          BY <5>1, <5>3, <5>4 DEF CommittedHeights
      <4>4. HasLastBlock(state) /\ LastBlockId(state) = n
        <5>1. PICK x \in Nat : x = state.next[BlockHeader]
          BY <1>1
        <5>2. x > 0 /\ x - 1 >= s /\ x - 1 = n
          BY <1>3, <4>1, <4>2, <4>3, <5>1
        <5> QED
          BY <1>5, <5>1, <5>2 DEF HasLastBlock, LastBlockId
      <4>5. lastHash = blockHash[n]
        BY <1>1, <4>4 DEF CInv, HeadKnown
      <4>6. blockHash[n] \in Hash
        <5>1. n \in DOMAIN blockHash
          BY <4>3 DEF CInv, BlocksStored, BlockStored
        <5> QED
          BY <5>1 DEF IInv, TypeOK
      <4>7. b.parent = blockHash[n]
        <5>1. lastHash # NoHash
          BY <4>5, <4>6, BlocksAssumption
        <5>2. pending # <<>>
          BY <1>1
        <5> QED
          BY <2>2, <3>2, <4>5, <5>1, <5>2 DEF CInv, HeadKnown
      <4>8. new[i - 1] = ReadBlock(n)
        BY <1>10, <1>11, <4>1, <4>2
      <4>9. new[i - 1].number = n /\ new[i - 1].hash = blockHash[n]
        BY <4>8 DEF ReadBlock
      <4> QED
        BY <1>3, <2>3, <3>2, <4>2, <4>3, <4>7, <4>9
    <3> QED
      BY <3>1, <3>2
  <2> QED
    BY <2>3, <2>4 DEF Index!Links
<1>14. Len(new) > Len(old)
  BY <1>3, <1>4, <1>9, <1>10
<1> QED
  BY <1>6, <1>7, <1>9, <1>10, <1>11, <1>13, <1>14 DEF Index!Extend

LEMMA RefineStep ==
  IInv /\ CInv /\ EntriesRead /\ EntriesRead' /\ [Next]_vars => [Index!Extend]_ReadLog
<1> SUFFICES ASSUME IInv, CInv, EntriesRead, EntriesRead', [Next]_vars
             PROVE  [Index!Extend]_ReadLog
  OBVIOUS
<1>1. CASE stateIndex' = stateIndex
  <2>1. PICK s \in Nat : s = stateIndex.start
    BY DEF IInv, TypeOK, StateType
  <2>2. PICK m : m = stateIndex.next[BlockHeader] - stateIndex.start
    OBVIOUS
  <2>3. ASSUME NEW i \in 1 .. m PROVE ReadBlock(s + i - 1)' = ReadBlock(s + i - 1)
    <3>1. PICK n : n = s + i - 1
      OBVIOUS
    <3>2. stateIndex.next[BlockHeader] \in Nat
      BY Families DEF IInv, TypeOK, StateType
    <3>3. n \in CommittedHeights
      BY <2>1, <2>2, <3>1, <3>2 DEF CommittedHeights
    <3> QED
      BY <3>1, <3>3, EntryKept
  <2>4. ReadLog = [i \in 1 .. m |-> ReadBlock(s + i - 1)]
    BY <2>1, <2>2 DEF ReadLog
  <2>5. ReadLog' = [i \in 1 .. m |-> ReadBlock(s + i - 1)']
    BY <1>1, <2>1, <2>2 DEF ReadLog
  <2>6. ReadLog' = ReadLog
    BY <2>3, <2>4, <2>5
  <2> QED
    BY <2>6
<1>2. CASE PutState
  BY <1>2, CommitExtends
<1> QED
  BY <1>1, <1>2, FirstKept

(* The staged flush, with every write it may lose, implements an atomic    *)
(* append of whole linked blocks.                                          *)
THEOREM WriterImplementsIndex == Spec => ImplementsIndex
<1>1. Init => IInv /\ CInv
  BY InitIInv, InitCInv
<1>2. IInv /\ CInv /\ [Next]_vars => IInv' /\ CInv'
  BY InvStep, CInvStep
<1> QED
  BY <1>1, <1>2, ReadsStored, InitRefines, RefineStep, PTL DEF Spec, ImplementsIndex, Index!Spec

-----------------------------------------------------------------------------
(***************************************************************************)
(* What queries find.  An abandoned flush leaves bits and keys behind that *)
(* belong to blocks beyond the frontier.  They do no harm because the      *)
(* source offers one finalized chain: whichever blocks come next are the   *)
(* ones these bits and keys were made from.  The run is that part of the   *)
(* chain, with the ids its records have had and will have again.           *)
(***************************************************************************)
(* What a process that starts now takes for committed. *)
Opened == IF stateIndex.next[BlockHeader] = 0 THEN StartAt(stateIndex) ELSE stateIndex
HeadHash == IF HasLastBlock(Opened) THEN blockHash[LastBlockId(Opened)] ELSE NoHash

Size(b, f) == Len(b.rows[f])
Entry == [block : Blocks, first : [Family -> Nat]]

Run(r) ==
  /\ r \in Seq(Entry)
  /\ Len(r) > 0 => /\ r[1].first = Opened.next
                   /\ HeadHash # NoHash => r[1].block.parent = HeadHash
  /\ \A k \in 1 .. Len(r) - 1 :
       /\ r[k + 1].block.parent = r[k].block.hash
       /\ \A f \in Family : r[k + 1].first[f] = r[k].first[f] + Size(r[k].block, f)
  /\ \A k \in 1 .. Len(r) :
       /\ r[k].block.number = Opened.next[BlockHeader] + k - 1
       /\ \A f \in Family :
            /\ Opened.next[f] <= r[k].first[f]
            /\ \A m \in 1 .. k - 1 : r[m].first[f] + Size(r[m].block, f) <= r[k].first[f]

(* The pending blocks and the run are the same blocks with the same ids as *)
(* far as both go, and the run covers a batch whose ids are assigned.      *)
RunAhead(r) ==
  /\ \A k \in 1 .. Len(pending) : k <= Len(r) => r[k].block = pending[k]
  /\ stage # "idle" =>
       \A k \in 1 .. Len(ranges), f \in Family : k <= Len(r) => r[k].first[f] = ranges[k][f].first
  /\ stage = "assign" /\ Len(ranges) < Len(r) => r[Len(ranges) + 1].first = cursor
  /\ stage \notin {"idle", "assign"} => Len(pending) <= Len(r)

BatchTiled ==
  stage # "idle" => \A f \in Family :
    /\ Len(ranges) = 0 => cursor[f] = state.next[f]
    /\ Len(ranges) > 0 =>
         /\ ranges[1][f].first = state.next[f]
         /\ cursor[f] = ranges[Len(ranges)][f].first + ranges[Len(ranges)][f].count
    /\ \A k \in 1 .. Len(ranges) - 1 :
         ranges[k + 1][f].first = ranges[k][f].first + ranges[k][f].count

(* The bitmap pages. *)
IsPageKey(key) == \E f \in Family, w \in Filter, x \in Nat : key = <<f, w, Page(x)>>
BitmapType ==
  \A key \in DOMAIN bitmap : IsPageKey(key) /\ bitmap[key] \subseteq 0 .. PAGE_SPAN - 1

Marked(f, w, id) ==
  <<f, w, Page(id)>> \in DOMAIN bitmap /\ id - Page(id) \in bitmap[<<f, w, Page(id)>>]
RunMarks(r, f, w, id) ==
  \E k \in 1 .. Len(r) : \E j \in 1 .. Size(r[k].block, f) :
    id = r[k].first[f] + j - 1 /\ w \in r[k].block.rows[f][j].filters
BatchMarks(f, w, id) ==
  \E k \in 1 .. Len(ranges) : \E j \in 1 .. ranges[k][f].count :
    id = ranges[k][f].first + j - 1 /\ w \in pending[k].rows[f][j].filters

(* A bit beyond the frontier is one of the run. *)
Beyond(r) ==
  \A f \in Family, w \in Filter, id \in Nat :
    Opened.next[f] <= id /\ Marked(f, w, id) => RunMarks(r, f, w, id)

(* The pages of a batch hold the committed bits as they are stored and the *)
(* bits of the batch; then they are stored, and then counted.              *)
Paging == {"bitmap", "block_hash", "family", "block_index", "state"}
PagesMade ==
  stage \in Paging =>
    /\ DOMAIN pages = TouchedPages
    /\ \A key \in TouchedPages : pages[key] \subseteq 0 .. PAGE_SPAN - 1
    /\ \A f \in Family, w \in Filter, id \in Nat : <<f, w, Page(id)>> \in TouchedPages =>
         (id - Page(id) \in pages[<<f, w, Page(id)>>] <=>
            IF id < state.next[f] THEN Marked(f, w, id) ELSE BatchMarks(f, w, id))
PagesStored ==
  /\ stage = "bitmap" => unput \subseteq TouchedPages
  /\ stage \in Paging =>
       \A key \in TouchedPages : (stage # "bitmap" \/ key \notin unput) =>
         /\ key \in DOMAIN bitmap /\ bitmap[key] = pages[key]
         /\ stage # "bitmap" => key \in DOMAIN pageStats /\ pageStats[key] = Cardinality(pages[key])

(* The bits of a committed block are those of its records. *)
BlockBits(n, b) ==
  \A f \in Family, w \in Filter : \A j \in 1 .. Size(b, f) :
    w \in b.rows[f][j].filters <=> Marked(f, w, familyRange[<<f, n>>].first + j - 1)
BitsStored ==
  \A n \in CommittedHeights : \E b \in Blocks : BlockStored(n, b) /\ BlockBits(n, b)

(* Committed ranges are in order, below the frontier. *)
RangeEnd(f, n) == familyRange[<<f, n>>].first + familyRange[<<f, n>>].count
RangesOrdered ==
  \A n \in CommittedHeights, f \in Family :
    /\ RangeEnd(f, n) <= stateIndex.next[f]
    /\ \A m \in CommittedHeights : m < n => RangeEnd(f, m) <= familyRange[<<f, n>>].first

(* The block index has the first id of every committed block, and other    *)
(* keys only of the run.                                                   *)
KeyStored(f, id, n) == <<f, id>> \in DOMAIN blockIndex /\ blockIndex[<<f, id>>] = n
KeysStored ==
  \A n \in CommittedHeights, f \in Family :
    familyRange[<<f, n>>].count > 0 => KeyStored(f, familyRange[<<f, n>>].first, n)
BatchKeys ==
  stage = "state" => \A k \in 1 .. Len(ranges), f \in Family :
    ranges[k][f].count > 0 => KeyStored(f, ranges[k][f].first, pending[k].number)
KeysKnown(r) ==
  \A f \in Family, id \in Nat : <<f, id>> \in DOMAIN blockIndex =>
    \/ \E n \in CommittedHeights : id = familyRange[<<f, n>>].first
    \/ \E k \in 1 .. Len(r) : id = r[k].first[f]

QInv(r) ==
  /\ Run(r) /\ RunAhead(r) /\ BatchTiled
  /\ BitmapType /\ Beyond(r) /\ PagesMade /\ PagesStored
  /\ BitsStored /\ StatsNeverUnderstate
  /\ RangesOrdered /\ KeysStored /\ BatchKeys /\ KeysKnown(r)

-----------------------------------------------------------------------------
(* A page covers PAGE_SPAN ids. *)
LEMMA PageFacts ==
  ASSUME NEW id \in Nat
  PROVE  Page(id) \in Nat /\ Page(id) <= id /\ id - Page(id) \in 0 .. PAGE_SPAN - 1
<1> DEFINE d == PAGE_SPAN
           q == id \div d
           r == id % d
<1>1. d \in Nat /\ d > 0
  BY SizesAssumption
<1>2. q \in Nat /\ r \in 0 .. d - 1 /\ id = d * q + r
  BY <1>1
<1>3. q * d = d * q /\ d * q \in Nat
  BY <1>1, <1>2
<1> HIDE DEF d, q, r
<1>4. q * d \in Nat /\ q * d <= id /\ id - q * d \in 0 .. d - 1
  BY <1>1, <1>2, <1>3
<1> QED
  BY <1>4 DEF Page, d, q

LEMMA PageOf ==
  ASSUME NEW x \in Nat, NEW bit \in 0 .. PAGE_SPAN - 1
  PROVE  Page(x) + bit \in Nat /\ Page(Page(x) + bit) = Page(x)
<1> DEFINE d == PAGE_SPAN
           q == x \div d
<1>1. d \in Nat /\ d > 0 /\ bit \in 0 .. d - 1
  BY SizesAssumption
<1>2. q \in Nat
  BY <1>1
<1> HIDE DEF q, d
<1>3. q * d \in Nat /\ q * d = d * q
  BY <1>1, <1>2
<1>4. PICK y \in Nat : y = q * d + bit
  BY <1>1, <1>3
<1>5. y \div d = q
  <2>1. y = d * q + bit
    BY <1>3, <1>4
  <2> QED
    BY <1>1, <1>2, <2>1
<1> QED
  BY <1>4, <1>5 DEF Page, q, d

(* Every id of a page is a bit of it, and every bit an id. *)
LEMMA BitIsId ==
  ASSUME NEW key, IsPageKey(key), NEW bit \in 0 .. PAGE_SPAN - 1
  PROVE  \E f \in Family, w \in Filter, id \in Nat :
           key = <<f, w, Page(id)>> /\ bit = id - Page(id) /\ key[1] = f /\ key[3] + bit = id
<1>1. PICK f \in Family, w \in Filter, x \in Nat : key = <<f, w, Page(x)>>
  BY DEF IsPageKey
<1>2. PICK p \in Nat : p = Page(x)
  BY PageFacts
<1>3. PICK id : id = p + bit
  OBVIOUS
<1>4. id \in Nat /\ Page(id) = p
  BY <1>2, <1>3, PageOf
<1>5. bit = id - p
  BY <1>3, SizesAssumption
<1>6. key = <<f, w, Page(id)>> /\ key[1] = f /\ key[3] = p
  BY <1>1, <1>2, <1>4
<1> QED
  BY <1>3, <1>4, <1>5, <1>6

(* What the process in memory, and one that starts now, take for committed. *)
LEMMA OpenedFacts ==
  ASSUME IInv
  PROVE  /\ Opened \in StateType /\ Opened.next \in [Family -> Nat]
         /\ up => state = Opened
         /\ stateIndex.started => Opened = stateIndex
         /\ ~stateIndex.started => Opened = StartAt(DefaultState) /\ stateIndex = DefaultState
<1>1. stateIndex \in StateType
  BY DEF IInv, TypeOK
<1>2. StartAt(DefaultState) \in StateType
  BY SizesAssumption, Families DEF StartAt, DefaultState, StateType
<1>3. CASE stateIndex.started
  <2>1. stateIndex.start \in Nat /\ stateIndex.next[BlockHeader] \in Nat
    BY <1>1, Families DEF StateType
  <2>2. Opened = stateIndex
    BY <1>3, <2>1 DEF IInv, MemoryAgrees, Opened
  <2>3. ~DefaultState.started
    BY DEF DefaultState
  <2> QED
    BY <1>1, <1>3, <2>2, <2>3 DEF IInv, MemoryAgrees, StateType
<1>4. CASE ~stateIndex.started
  <2>1. stateIndex = DefaultState
    BY <1>4 DEF IInv, MemoryAgrees
  <2>2. stateIndex.next[BlockHeader] = 0
    BY <2>1, Families DEF DefaultState
  <2>3. Opened = StartAt(DefaultState)
    BY <2>1, <2>2 DEF Opened
  <2> QED
    BY <1>2, <1>4, <2>1, <2>3 DEF IInv, MemoryAgrees, StateType
<1> QED
  BY <1>3, <1>4

(* Committed ids lie below the frontier, and every id below it of a height *)
(* that is not below the first block is committed.                         *)
LEMMA OpenedIds ==
  ASSUME IInv, NEW f \in Family
  PROVE  /\ \A id \in CommittedIds(stateIndex, f) : id \in Nat /\ id < Opened.next[f]
         /\ \A id \in Nat : id < stateIndex.next[f] => id < Opened.next[f]
         /\ stateIndex.next[f] <= Opened.next[f]
         /\ FirstId(stateIndex, f) \in Nat /\ stateIndex.next[f] \in Nat
<1>1. stateIndex \in StateType /\ stateIndex.next[f] \in Nat /\ FirstId(stateIndex, f) \in Nat
  BY DEF IInv, TypeOK, StateType, FirstId
<1>2. Opened.next[f] \in Nat
  BY OpenedFacts
<1>3. stateIndex.next[f] <= Opened.next[f]
  <2>1. CASE stateIndex.started
    BY <1>1, <2>1, OpenedFacts
  <2>2. CASE ~stateIndex.started
    <3>1. stateIndex.next[f] = 0
      BY <2>2, OpenedFacts DEF DefaultState
    <3> QED
      BY <1>2, <3>1
  <2> QED
    BY <2>1, <2>2
<1> QED
  BY <1>1, <1>2, <1>3 DEF CommittedIds

LEMMA HeadHashIs ==
  ASSUME IInv, CInv, up
  PROVE  lastHash = HeadHash
BY OpenedFacts DEF CInv, HeadKnown, HeadHash

(* The head keeps its hash as long as nothing is committed. *)
LEMMA HeadHashKept ==
  ASSUME IInv, CInv, [Next]_vars, stateIndex' = stateIndex
  PROVE  Opened' = Opened /\ HeadHash' = HeadHash
<1>1. Opened' = Opened
  BY DEF Opened, StartAt
<1>2. ASSUME HasLastBlock(Opened) PROVE blockHash'[LastBlockId(Opened)] = blockHash[LastBlockId(Opened)]
  <2>1. PICK n : n = LastBlockId(Opened)
    OBVIOUS
  <2>2. stateIndex.started
    <3>1. ASSUME ~stateIndex.started PROVE FALSE
      <4>1. Opened.next[BlockHeader] = StartBlock /\ Opened.start = StartBlock /\ Opened.started
        BY <3>1, OpenedFacts, Families DEF StartAt, DefaultState
      <4> QED
        BY <1>2, <4>1, SizesAssumption DEF HasLastBlock
    <3> QED
      BY <3>1
  <2>3. Opened = stateIndex
    BY <2>2, OpenedFacts
  <2>4. stateIndex.start \in Nat /\ stateIndex.next[BlockHeader] \in Nat /\ stateIndex.start < stateIndex.next[BlockHeader]
    BY <2>2, Families DEF IInv, TypeOK, StateType, MemoryAgrees
  <2>5. n \in CommittedHeights
    BY <2>1, <2>3, <2>4 DEF CommittedHeights, LastBlockId
  <2>6. n \in DOMAIN blockHash
    BY <2>5 DEF CInv, BlocksStored, BlockStored
  <2> QED
    BY <2>1, <2>5, <2>6, MetadataKept
<1> QED
  BY <1>1, <1>2 DEF HeadHash, HasLastBlock, LastBlockId

LEMMA RunKept ==
  ASSUME IInv, CInv, [Next]_vars, stateIndex' = stateIndex, NEW r, Run(r)
  PROVE  Run(r)'
<1>1. Opened' = Opened /\ HeadHash' = HeadHash
  BY HeadHashKept
<1> QED
  BY <1>1 DEF Run, Size

LEMMA RunEntry ==
  ASSUME NEW r, Run(r), NEW k \in 1 .. Len(r)
  PROVE  /\ r[k] \in Entry /\ r[k].block \in Blocks /\ r[k].first \in [Family -> Nat]
         /\ \A f \in Family : r[k].first[f] \in Nat /\ Size(r[k].block, f) \in Nat
<1>1. r[k] \in Entry
  BY DEF Run
<1>2. r[k].block \in Blocks /\ r[k].first \in [Family -> Nat]
  BY <1>1 DEF Entry
<1> QED
  BY <1>1, <1>2, BlockFacts DEF Size

(* Within a flush the batch stays as it is once its ids are assigned. *)
LEMMA StepKinds ==
  ASSUME IInv, [Next]_vars
  PROVE  \/ pending' = <<>> /\ stage' = "idle" /\ stateIndex' = stateIndex
         \/ pending' = pending /\ stage' = "idle" /\ stateIndex' = stateIndex
         \/ \E b \in Blocks : Append1(b)
         \/ BeginFlush \/ AssignRange \/ Assigned \/ PutState
         \/ /\ stage \notin {"idle", "assign"} /\ stage' \notin {"idle", "assign"}
            /\ UNCHANGED <<stateIndex, up, state, pending, ranges, cursor>>
         \/ UNCHANGED vars
<1>1. Open \/ Crash => pending' = <<>> /\ stage' = "idle" /\ stateIndex' = stateIndex
  BY DEF Open, Crash, tables, IInv, MemoryAgrees
<1>2. FlushError => pending' = pending /\ stage' = "idle" /\ stateIndex' = stateIndex
  BY DEF FlushError, tables
<1>3. AppendItem \/ BeginPutPayload \/ (\E p \in unput : PutPayload(p)) \/ FamilyDone \/ PutLocations
        \/ ReadPages \/ (\E k \in unput : PutPage(k)) \/ PutStats \/ PutBlockHashes \/ PutFamilies
        \/ PutBlockIndex
      => /\ stage \notin {"idle", "assign"} /\ stage' \notin {"idle", "assign"}
         /\ UNCHANGED <<stateIndex, up, state, pending, ranges, cursor>>
  BY DEF AppendItem, BeginPutPayload, PutPayload, FamilyDone, PutLocations, ReadPages, PutPage, PutStats,
     PutBlockHashes, PutFamilies, PutBlockIndex, tables, scratch
<1> QED
  BY <1>1, <1>2, <1>3 DEF Next, Flushing

(* A batch's ranges follow one another without a gap. *)
LEMMA TiledStep ==
  ASSUME IInv, BatchTiled, [Next]_vars
  PROVE  BatchTiled'
<1>1. CASE BeginFlush
  <2>1. /\ stage = "idle" /\ ranges' = ranges /\ cursor' = state.next /\ state' = state
    BY <1>1 DEF BeginFlush
  <2>2. Len(ranges') = 0
    BY <2>1 DEF IInv, BatchShape
  <2> QED
    BY <2>1, <2>2 DEF BatchTiled
<1>2. CASE AssignRange
  <2>1. PICK s \in [Family -> IdRange] :
          /\ ranges' = Append(ranges, s)
          /\ \A f \in Family : s[f].first = cursor[f] /\ cursor'[f] = cursor[f] + s[f].count
    BY <1>2, AssignedFirst
  <2>2. /\ ranges \in Seq([Family -> IdRange]) /\ stage = "assign" /\ stage' = "assign" /\ state' = state
        /\ cursor \in [Family -> Nat]
    BY <1>2 DEF AssignRange, IInv, TypeOK
  <2>3. PICK L \in Nat : L = Len(ranges)
    BY <2>2
  <2>4. /\ Len(ranges') = L + 1 /\ ranges'[L + 1] = s
        /\ \A k \in 1 .. L : ranges'[k] = ranges[k]
    BY <2>1, <2>2, <2>3
  <2>5. ASSUME NEW f \in Family
        PROVE  /\ ranges'[1][f].first = state.next[f]
               /\ cursor'[f] = ranges'[L + 1][f].first + ranges'[L + 1][f].count
               /\ \A k \in 1 .. L : ranges'[k + 1][f].first = ranges'[k][f].first + ranges'[k][f].count
    <3>1. cursor'[f] = ranges'[L + 1][f].first + ranges'[L + 1][f].count
      BY <2>1, <2>4
    <3>2. ranges'[1][f].first = state.next[f]
      <4>1. CASE L = 0
        BY <2>1, <2>2, <2>3, <2>4, <4>1 DEF BatchTiled
      <4>2. CASE L > 0
        <5>1. ranges[1][f].first = state.next[f]
          BY <2>2, <2>3, <4>2 DEF BatchTiled
        <5>2. 1 \in 1 .. L
          BY <4>2
        <5> QED
          BY <2>4, <5>1, <5>2
      <4> QED
        BY <4>1, <4>2
    <3>3. ASSUME NEW k \in 1 .. L
          PROVE  ranges'[k + 1][f].first = ranges'[k][f].first + ranges'[k][f].count
      <4>1. CASE k = L
        <5>1. cursor[f] = ranges[L][f].first + ranges[L][f].count
          BY <2>2, <2>3, <4>1 DEF BatchTiled
        <5> QED
          BY <2>1, <2>4, <4>1, <5>1
      <4>2. CASE k < L
        <5>1. k \in 1 .. L - 1 /\ k + 1 \in 1 .. L
          BY <4>2
        <5>2. ranges[k + 1][f].first = ranges[k][f].first + ranges[k][f].count
          BY <2>2, <2>3, <5>1 DEF BatchTiled
        <5> QED
          BY <2>4, <5>1, <5>2
      <4> QED
        BY <4>1, <4>2
    <3> QED
      BY <3>1, <3>2, <3>3
  <2>6. Len(ranges') > 0 /\ Len(ranges') # 0 /\ Len(ranges') - 1 = L
    BY <2>4
  <2> QED
    BY <2>2, <2>4, <2>5, <2>6 DEF BatchTiled
<1>3. CASE stage' = "idle"
  BY <1>3 DEF BatchTiled
<1>4. CASE stage # "idle" /\ UNCHANGED <<ranges, cursor, state>>
  BY <1>4 DEF BatchTiled
<1>6. (\E b \in Blocks : Append1(b)) => stage' = "idle"
  BY DEF Append1
<1>7. Assigned => stage # "idle" /\ UNCHANGED <<ranges, cursor, state>>
  BY DEF Assigned
<1>8. PutState => stage' = "idle"
  BY DEF PutState
<1>9. CASE UNCHANGED vars
  BY <1>9 DEF BatchTiled, vars, scratch
<1> QED
  BY <1>1, <1>2, <1>3, <1>4, <1>6, <1>7, <1>8, <1>9, StepKinds

(* The source offers the next block of the run again. *)
LEMMA SameBlock ==
  ASSUME IInv, CInv, NEW r, Run(r), RunAhead(r), NEW b \in Blocks, Append1(b),
         Len(pending) + 1 <= Len(r)
  PROVE  r[Len(pending) + 1].block = b
<1>1. pending \in Seq(Blocks) /\ r \in Seq(Entry) /\ up
  BY DEF IInv, TypeOK, Run, Append1
<1>2. PICK L \in Nat : L = Len(pending)
  BY <1>1
<1>3. PICK R \in Nat : R = Len(r)
  BY <1>1
<1>4. L + 1 \in 1 .. R
  BY <1>2, <1>3
<1>5. PICK c \in Blocks : c = r[L + 1].block
  BY <1>3, <1>4, RunEntry
<1>6. PICK x \in Nat : x = Opened.next[BlockHeader]
  BY OpenedFacts, Families
<1>7. state = Opened /\ lastHash = HeadHash
  BY <1>1, OpenedFacts, HeadHashIs
<1>8. b.number = x + L
  BY <1>2, <1>6, <1>7 DEF Append1, NextBlockNumber
<1>9. c.number = x + (L + 1) - 1
  BY <1>3, <1>4, <1>5, <1>6 DEF Run
<1>10. b.number = c.number
  BY <1>8, <1>9
<1>11. CASE L > 0
  <2>1. L \in 1 .. Len(pending) /\ L <= Len(r) /\ L \in 1 .. Len(r) - 1 /\ pending # <<>>
    BY <1>1, <1>2, <1>3, <1>4, <1>11
  <2>2. b.parent = pending[L].hash
    <3>1. pending[L] \in Blocks
      BY <1>1, <2>1
    <3>2. PreviousHash = pending[L].hash
      BY <1>2, <2>1 DEF PreviousHash
    <3>3. PreviousHash # NoHash
      BY <3>1, <3>2, BlockFacts, BlocksAssumption
    <3> QED
      BY <3>2, <3>3 DEF Append1
  <2>3. r[L].block = pending[L]
    BY <2>1 DEF RunAhead
  <2>4. c.parent = r[L].block.hash
    BY <1>5, <2>1 DEF Run
  <2> QED
    BY <1>2, <1>5, <1>10, <2>2, <2>3, <2>4, FinalityAssumption
<1>12. CASE L = 0
  <2>1. pending = <<>> /\ Len(r) > 0 /\ c = r[1].block
    <3>1. pending = <<>>
      <4>1. pending # <<>> => Len(pending) # 0
        BY <1>1
      <4> QED
        BY <1>2, <1>12, <4>1
    <3>2. L + 1 = 1
      BY <1>12
    <3>3. Len(r) > 0
      BY <1>3, <1>4
    <3> QED
      BY <1>5, <3>1, <3>2, <3>3
  <2>2. CASE HeadHash # NoHash
    <3>1. b.parent = HeadHash
      BY <1>7, <2>1, <2>2 DEF Append1, PreviousHash
    <3>2. c.parent = HeadHash
      BY <2>1, <2>2 DEF Run
    <3> QED
      BY <1>2, <1>5, <1>10, <3>1, <3>2, FinalityAssumption
  <2>3. CASE HeadHash = NoHash
    <3>1. ~stateIndex.started
      <4>1. ASSUME stateIndex.started PROVE FALSE
        <5>1. Opened = stateIndex
          BY <4>1, OpenedFacts
        <5>2. /\ stateIndex.start \in Nat /\ stateIndex.next[BlockHeader] \in Nat
              /\ stateIndex.start < stateIndex.next[BlockHeader]
          BY <4>1, Families DEF IInv, TypeOK, StateType, MemoryAgrees
        <5>3. HasLastBlock(Opened) /\ LastBlockId(Opened) \in CommittedHeights
          BY <5>1, <5>2 DEF HasLastBlock, LastBlockId, CommittedHeights
        <5>4. LastBlockId(Opened) \in DOMAIN blockHash
          BY <5>3 DEF CInv, BlocksStored, BlockStored
        <5>5. HeadHash \in Hash
          BY <5>3, <5>4 DEF HeadHash, IInv, TypeOK
        <5> QED
          BY <2>3, <5>5, BlocksAssumption
      <4> QED
        BY <4>1
    <3>2. Opened.next[BlockHeader] = StartBlock
      BY <3>1, OpenedFacts, Families DEF StartAt, DefaultState
    <3>3. b.number = StartBlock
      BY <1>6, <1>8, <1>12, <3>2
    <3> QED
      BY <1>2, <1>5, <1>10, <3>3, FinalityAssumption
  <2> QED
    BY <2>2, <2>3
<1> QED
  BY <1>11, <1>12

LEMMA AheadStep ==
  ASSUME IInv, CInv, NEW r, Run(r), RunAhead(r), [Next]_vars, stateIndex' = stateIndex, ~Assigned
  PROVE  RunAhead(r)' \/ PutState
<1>0. r \in Seq(Entry) /\ pending \in Seq(Blocks)
  BY DEF Run, IInv, TypeOK
<1>1. CASE pending' = <<>> /\ stage' = "idle"
  BY <1>1 DEF RunAhead
<1>2. CASE pending' = pending /\ stage' = "idle"
  BY <1>2 DEF RunAhead
<1>3. ASSUME NEW b \in Blocks, Append1(b) PROVE RunAhead(r)'
  <2>1. pending' = Append(pending, b) /\ stage' = "idle"
    BY <1>3 DEF Append1
  <2>2. PICK L \in Nat : L = Len(pending)
    BY <1>0
  <2>3. /\ Len(pending') = L + 1 /\ pending'[L + 1] = b
        /\ \A k \in 1 .. L : pending'[k] = pending[k]
    BY <1>0, <2>1, <2>2
  <2>4. ASSUME NEW k \in 1 .. L + 1, k <= Len(r) PROVE r[k].block = pending'[k]
    <3>1. CASE k = L + 1
      BY <1>3, <2>2, <2>3, <2>4, <3>1, SameBlock
    <3>2. CASE k \in 1 .. L
      BY <2>2, <2>3, <2>4, <3>2 DEF RunAhead
    <3> QED
      BY <3>1, <3>2
  <2> QED
    BY <2>1, <2>3, <2>4 DEF RunAhead
<1>4. CASE BeginFlush
  <2>1. /\ stage = "idle" /\ stage' = "assign" /\ UNCHANGED <<pending, ranges>> /\ cursor' = state.next /\ up
    BY <1>4 DEF BeginFlush
  <2>2. Len(ranges') = 0 /\ Len(ranges') + 1 = 1
    BY <2>1 DEF IInv, BatchShape
  <2>3. Len(r) > 0 => r[1].first = cursor'
    BY <2>1, OpenedFacts DEF Run
  <2> QED
    BY <2>1, <2>2, <2>3 DEF RunAhead
<1>5. CASE AssignRange
  <2>1. PICK s \in [Family -> IdRange] :
          /\ ranges' = Append(ranges, s)
          /\ \A f \in Family : /\ s[f].first = cursor[f] /\ cursor'[f] = cursor[f] + s[f].count
                               /\ s[f].count = Len(pending[Len(ranges) + 1].rows[f])
    BY <1>5, AssignedFirst
  <2>2. /\ ranges \in Seq([Family -> IdRange]) /\ stage = "assign" /\ stage' = "assign" /\ pending' = pending
        /\ cursor \in [Family -> Nat] /\ Len(ranges) < Len(pending)
    BY <1>5 DEF AssignRange, IInv, TypeOK
  <2>3. PICK L \in Nat : L = Len(ranges)
    BY <2>2
  <2>4. /\ Len(ranges') = L + 1 /\ ranges'[L + 1] = s
        /\ \A k \in 1 .. L : ranges'[k] = ranges[k]
    BY <2>1, <2>2, <2>3
  <2>5. PICK R \in Nat : R = Len(r)
    BY <1>0
  <2>6. ASSUME NEW k \in 1 .. L + 1, NEW f \in Family, k <= R PROVE r[k].first[f] = ranges'[k][f].first
    <3>1. CASE k = L + 1
      <4>1. r[L + 1].first = cursor
        BY <2>2, <2>3, <2>5, <2>6, <3>1 DEF RunAhead
      <4> QED
        BY <2>1, <2>4, <3>1, <4>1
    <3>2. CASE k \in 1 .. L
      BY <2>2, <2>3, <2>4, <2>5, <2>6, <3>2 DEF RunAhead
    <3> QED
      BY <3>1, <3>2
  <2>7. ASSUME L + 1 < R PROVE r[(L + 1) + 1].first = cursor'
    <3>1. L + 1 \in 1 .. R - 1 /\ L + 1 \in 1 .. R /\ L < R /\ (L + 1) + 1 \in 1 .. R
      BY <2>7
    <3>2. r[L + 1].first = cursor
      BY <2>2, <2>3, <2>5, <3>1 DEF RunAhead
    <3>3. r[L + 1].block = pending[L + 1]
      <4>1. L + 1 \in 1 .. Len(pending)
        BY <1>0, <2>2, <2>3
      <4> QED
        BY <2>5, <3>1, <4>1 DEF RunAhead
    <3>4. \A f \in Family : r[(L + 1) + 1].first[f] = r[L + 1].first[f] + Size(r[L + 1].block, f)
      BY <2>5, <3>1 DEF Run
    <3>5. \A f \in Family : r[(L + 1) + 1].first[f] = cursor'[f]
      BY <2>1, <2>3, <3>2, <3>3, <3>4 DEF Size
    <3>6. r[(L + 1) + 1].first \in [Family -> Nat]
      BY <2>5, <3>1, RunEntry
    <3>7. cursor' \in [Family -> Nat]
      BY InvStep DEF IInv, TypeOK
    <3> QED
      BY <3>5, <3>6, <3>7
  <2> QED
    BY <2>2, <2>4, <2>5, <2>6, <2>7 DEF RunAhead
<1>6. CASE /\ stage \notin {"idle", "assign"} /\ stage' \notin {"idle", "assign"}
           /\ UNCHANGED <<stateIndex, up, state, pending, ranges, cursor>>
  BY <1>6 DEF RunAhead
<1>7. CASE UNCHANGED vars
  BY <1>7 DEF RunAhead, vars, scratch
<1> QED
  BY <1>1, <1>2, <1>3, <1>4, <1>5, <1>6, <1>7, StepKinds

(* Once the ids of a batch are assigned the run can be taken to cover it. *)
Covers(q, r) == Len(r) <= Len(q) /\ \A k \in 1 .. Len(r) : q[k] = r[k]

LEMMA BatchRun ==
  ASSUME IInv, CInv, BatchTiled, NEW r, Run(r), RunAhead(r),
         stage = "assign", Len(ranges) = Len(pending), Len(r) < Len(pending)
  PROVE  \E q : Run(q) /\ RunAhead(q) /\ Len(pending) <= Len(q) /\ Covers(q, r)
<1>1. /\ pending \in Seq(Blocks) /\ ranges \in Seq([Family -> IdRange]) /\ r \in Seq(Entry) /\ up
      /\ state.next \in [Family -> Nat]
  BY DEF IInv, TypeOK, StateType, BatchShape, Run
<1>2. PICK P \in Nat : P = Len(pending) /\ P = Len(ranges)
  BY <1>1
<1>3. PICK q : q = [k \in 1 .. P |->
                      [block |-> pending[k], first |-> [f \in Family |-> ranges[k][f].first]]]
  OBVIOUS
<1>4. ASSUME NEW k \in 1 .. P
      PROVE  /\ pending[k] \in Blocks
             /\ \A f \in Family : /\ ranges[k][f].first \in Nat
                                  /\ ranges[k][f].count = Size(pending[k], f)
  <2>1. pending[k] \in Blocks /\ ranges[k] \in [Family -> IdRange]
    BY <1>1, <1>2
  <2>2. \A f \in Family : ranges[k][f].first \in Nat
    BY <2>1 DEF IdRange
  <2>3. \A f \in Family : ranges[k][f].count = Size(pending[k], f)
    BY <1>2 DEF IInv, BatchShape, Size
  <2> QED
    BY <2>1, <2>2, <2>3
<1>5. ASSUME NEW k \in 1 .. P
      PROVE  /\ q[k] \in Entry /\ q[k].block = pending[k]
             /\ q[k].first \in [Family -> Nat]
             /\ \A f \in Family : q[k].first[f] = ranges[k][f].first
  <2>1. PICK g : g = [f \in Family |-> ranges[k][f].first]
    OBVIOUS
  <2>2. g \in [Family -> Nat] /\ \A f \in Family : g[f] = ranges[k][f].first
    BY <1>4, <2>1
  <2>3. q[k] = [block |-> pending[k], first |-> g]
    BY <1>3, <2>1
  <2> QED
    BY <1>4, <2>2, <2>3 DEF Entry
<1>6. q \in Seq(Entry) /\ Len(q) = P
  BY <1>2, <1>3, <1>5
<1>7. state = Opened /\ lastHash = HeadHash
  BY <1>1, OpenedFacts, HeadHashIs
<1>8. Run(q)
  <2>1. ASSUME Len(q) > 0
        PROVE  q[1].first = Opened.next /\ (HeadHash # NoHash => q[1].block.parent = HeadHash)
    <3>1. 1 \in 1 .. P /\ pending # <<>> /\ Len(ranges) > 0
      BY <1>1, <1>2, <1>6, <2>1
    <3>2. \A f \in Family : q[1].first[f] = state.next[f]
      BY <1>5, <3>1 DEF BatchTiled
    <3>3. q[1].first = state.next
      BY <1>1, <1>5, <3>1, <3>2
    <3>4. HeadHash # NoHash => q[1].block.parent = HeadHash
      BY <1>5, <1>7, <3>1 DEF CInv, HeadKnown
    <3> QED
      BY <1>7, <3>3, <3>4
  <2>2. ASSUME NEW k \in 1 .. P - 1
        PROVE  /\ q[k + 1].block.parent = q[k].block.hash
               /\ \A f \in Family : q[k + 1].first[f] = q[k].first[f] + Size(q[k].block, f)
    <3>1. k \in 1 .. P /\ k + 1 \in 1 .. P
      OBVIOUS
    <3>2. pending[k + 1].parent = pending[k].hash
      BY <1>2 DEF CInv, HeadKnown
    <3>3. \A f \in Family : ranges[k + 1][f].first = ranges[k][f].first + ranges[k][f].count
      BY <1>2 DEF BatchTiled
    <3> QED
      BY <1>4, <1>5, <3>1, <3>2, <3>3
  <2>3. ASSUME NEW k \in 1 .. P
        PROVE  /\ q[k].block.number = Opened.next[BlockHeader] + k - 1
               /\ \A f \in Family :
                    /\ Opened.next[f] <= q[k].first[f]
                    /\ \A m \in 1 .. k - 1 : q[m].first[f] + Size(q[m].block, f) <= q[k].first[f]
    <3>1. q[k].block.number = Opened.next[BlockHeader] + k - 1
      BY <1>2, <1>5, <1>7 DEF IInv, MemoryAgrees
    <3>2. ASSUME NEW f \in Family PROVE Opened.next[f] <= q[k].first[f]
      BY <1>2, <1>5, <1>7 DEF CInv, Assigns
    <3>3. ASSUME NEW f \in Family, NEW m \in 1 .. k - 1
          PROVE  q[m].first[f] + Size(q[m].block, f) <= q[k].first[f]
      <4>1. m \in 1 .. P
        OBVIOUS
      <4>2. ranges[m][f].first + ranges[m][f].count <= ranges[k][f].first
        BY <1>2 DEF CInv, Assigns
      <4> QED
        BY <1>4, <1>5, <4>1, <4>2
    <3> QED
      BY <3>1, <3>2, <3>3
  <2> QED
    BY <1>6, <2>1, <2>2, <2>3 DEF Run
<1>9. RunAhead(q)
  BY <1>2, <1>5, <1>6 DEF RunAhead
<1>10. Covers(q, r)
  <2>1. ASSUME NEW k \in 1 .. Len(r) PROVE q[k] = r[k]
    <3>1. k \in 1 .. P /\ k <= Len(r)
      BY <1>1, <1>2
    <3>2. r[k].block = pending[k]
      BY <1>2, <3>1 DEF RunAhead
    <3>3. \A f \in Family : r[k].first[f] = ranges[k][f].first
      BY <1>2, <3>1 DEF RunAhead
    <3>4. r[k] \in Entry /\ r[k].first \in [Family -> Nat]
      BY <2>1, RunEntry
    <3>5. r[k].first = q[k].first
      BY <1>5, <3>1, <3>3, <3>4
    <3>6. q[k] \in Entry /\ q[k].block = r[k].block
      BY <1>5, <3>1, <3>2
    <3>7. \A x, y \in Entry : x.block = y.block /\ x.first = y.first => x = y
      BY DEF Entry
    <3> QED
      BY <3>4, <3>5, <3>6, <3>7
  <2> QED
    BY <1>2, <1>6, <2>1 DEF Covers
<1> QED
  BY <1>2, <1>6, <1>8, <1>9, <1>10

LEMMA CoversKeeps ==
  ASSUME NEW r, NEW q, Run(r), Run(q), Covers(q, r)
  PROVE  (Beyond(r) => Beyond(q)) /\ (KeysKnown(r) => KeysKnown(q))
<1>1. \A k \in 1 .. Len(r) : k \in 1 .. Len(q) /\ q[k] = r[k]
  BY DEF Covers, Run
<1>2. \A f \in Family, w \in Filter, id \in Nat : RunMarks(r, f, w, id) => RunMarks(q, f, w, id)
  BY <1>1 DEF RunMarks
<1> QED
  BY <1>1, <1>2 DEF Beyond, KeysKnown

LEMMA Extended ==
  ASSUME IInv, CInv, NEW r, QInv(r), stage = "assign", Len(ranges) = Len(pending)
  PROVE  \E q : QInv(q) /\ Len(pending) <= Len(q)
<1>1. Run(r) /\ RunAhead(r) /\ BatchTiled
  BY DEF QInv
<1>2. Len(r) \in Nat /\ Len(pending) \in Nat
  BY <1>1 DEF Run, IInv, TypeOK
<1>3. CASE Len(pending) <= Len(r)
  BY <1>3
<1>4. CASE Len(r) < Len(pending)
  <2>1. PICK q : Run(q) /\ RunAhead(q) /\ Len(pending) <= Len(q) /\ Covers(q, r)
    BY <1>1, <1>4, BatchRun
  <2> QED
    BY <1>1, <2>1, CoversKeeps DEF QInv
<1> QED
  BY <1>2, <1>3, <1>4

-----------------------------------------------------------------------------
(* The pages of a batch. *)
LEMMA RowFilters ==
  \A b \in Blocks, f \in Family : \A j \in 1 .. Size(b, f) : b.rows[f][j].filters \subseteq Filter
<1> SUFFICES ASSUME NEW b \in Blocks, NEW f \in Family, NEW j \in 1 .. Size(b, f)
             PROVE  b.rows[f][j].filters \subseteq Filter
  OBVIOUS
<1>1. b.rows[f] \in Seq(Row)
  BY BlocksAssumption DEF BlockType
<1>2. b.rows[f][j] \in Row
  BY <1>1 DEF Size
<1> QED
  BY <1>2 DEF Row

LEMMA BatchIds ==
  ASSUME IInv, CInv, stage # "idle", NEW f \in Family, NEW w, NEW id, BatchMarks(f, w, id)
  PROVE  /\ id \in Nat /\ w \in Filter /\ state.next[f] <= id /\ id < cursor[f]
         /\ state.next[f] \in Nat /\ cursor[f] \in Nat
<1>1. PICK k \in 1 .. Len(ranges) : \E j \in 1 .. ranges[k][f].count :
        id = ranges[k][f].first + j - 1 /\ w \in pending[k].rows[f][j].filters
  BY DEF BatchMarks
<1>2. PICK j \in 1 .. ranges[k][f].count :
        id = ranges[k][f].first + j - 1 /\ w \in pending[k].rows[f][j].filters
  BY <1>1
<1>3. Assigns
  BY DEF CInv
<1>4. /\ pending[k] \in Blocks /\ id \in Nat /\ state.next[f] <= id /\ id < cursor[f]
      /\ state.next[f] \in Nat /\ cursor[f] \in Nat /\ ranges[k][f].count = Size(pending[k], f)
  BY <1>2, <1>3, ItemIds DEF Size
<1>5. w \in Filter
  BY <1>2, <1>4, RowFilters
<1> QED
  BY <1>4, <1>5

LEMMA BatchItems ==
  ASSUME NEW f \in Family, NEW w, NEW id
  PROVE  BatchMarks(f, w, id) <=> \E item \in Items(f) : item.id = id /\ w \in item.row.filters
<1>1. ASSUME NEW k \in 1 .. Len(ranges), NEW j \in 1 .. ranges[k][f].count
      PROVE  [id |-> ranges[k][f].first + j - 1, row |-> pending[k].rows[f][j]] \in Items(f)
  <2> DEFINE Of(m) == {[id |-> ranges[m][f].first + i - 1, row |-> pending[m].rows[f][i]] :
                         i \in 1 .. ranges[m][f].count}
  <2>1. [id |-> ranges[k][f].first + j - 1, row |-> pending[k].rows[f][j]] \in Of(k)
    OBVIOUS
  <2>2. Items(f) = UNION {Of(m) : m \in 1 .. Len(ranges)}
    BY DEF Items
  <2> HIDE DEF Of
  <2> QED
    BY <2>1, <2>2
<1>2. ASSUME BatchMarks(f, w, id)
      PROVE  \E item \in Items(f) : item.id = id /\ w \in item.row.filters
  <2>0. PICK k \in 1 .. Len(ranges) : \E j \in 1 .. ranges[k][f].count :
          id = ranges[k][f].first + j - 1 /\ w \in pending[k].rows[f][j].filters
    BY <1>2 DEF BatchMarks
  <2>1. PICK j \in 1 .. ranges[k][f].count :
          id = ranges[k][f].first + j - 1 /\ w \in pending[k].rows[f][j].filters
    BY <2>0
  <2>2. PICK item : item = [id |-> ranges[k][f].first + j - 1, row |-> pending[k].rows[f][j]]
    OBVIOUS
  <2> QED
    BY <1>1, <2>1, <2>2
<1>3. ASSUME NEW item \in Items(f), item.id = id, w \in item.row.filters
      PROVE  BatchMarks(f, w, id)
  <2>1. PICK k \in 1 .. Len(ranges) : \E j \in 1 .. ranges[k][f].count :
          item = [id |-> ranges[k][f].first + j - 1, row |-> pending[k].rows[f][j]]
    BY DEF Items
  <2> QED
    BY <1>3, <2>1 DEF BatchMarks
<1> QED
  BY <1>2, <1>3

LEMMA TouchedFacts ==
  ASSUME IInv, CInv, stage # "idle"
  PROVE  /\ \A key \in TouchedPages : IsPageKey(key)
         /\ \A f \in Family : \A w, id : BatchMarks(f, w, id) => <<f, w, Page(id)>> \in TouchedPages
<1>1. ASSUME NEW key \in TouchedPages PROVE IsPageKey(key)
  <2>1. PICK f \in Family : \E item \in Items(f) : \E w \in item.row.filters : key = <<f, w, Page(item.id)>>
    BY DEF TouchedPages
  <2>2. PICK item \in Items(f) : \E w \in item.row.filters : key = <<f, w, Page(item.id)>>
    BY <2>1
  <2>3. PICK w \in item.row.filters : key = <<f, w, Page(item.id)>>
    BY <2>2
  <2>4. PICK id : id = item.id
    OBVIOUS
  <2>5. BatchMarks(f, w, id)
    BY <2>3, <2>4, BatchItems
  <2>6. id \in Nat /\ w \in Filter
    BY <2>5, BatchIds
  <2> QED
    BY <2>3, <2>4, <2>6 DEF IsPageKey
<1>2. ASSUME NEW f \in Family, NEW w, NEW id, BatchMarks(f, w, id)
      PROVE  <<f, w, Page(id)>> \in TouchedPages
  <2>1. PICK item \in Items(f) : item.id = id /\ w \in item.row.filters
    BY <1>2, BatchItems
  <2> QED
    BY <2>1 DEF TouchedPages
<1> QED
  BY <1>1, <1>2

LEMMA PendingIs ==
  ASSUME IInv, CInv, stage # "idle", NEW f \in Family, NEW w, NEW id \in Nat
  PROVE  /\ id - Page(id) \in PendingBits(f, w, Page(id)) <=> BatchMarks(f, w, id)
         /\ PendingBits(f, w, Page(id)) \subseteq 0 .. PAGE_SPAN - 1
<1>1. PICK p \in Nat : p = Page(id)
  BY PageFacts
<1>2. ASSUME NEW item \in Items(f), w \in item.row.filters, Page(item.id) = p
      PROVE  /\ item.id \in Nat /\ BatchMarks(f, w, item.id) /\ item.id - p \in 0 .. PAGE_SPAN - 1
             /\ item.id - p = id - p => item.id = id
  <2>1. PICK jd : jd = item.id
    OBVIOUS
  <2>2. BatchMarks(f, w, jd)
    BY <1>2, <2>1, BatchItems
  <2>3. jd \in Nat
    BY <2>2, BatchIds
  <2>4. jd - p \in 0 .. PAGE_SPAN - 1
    BY <1>2, <2>1, <2>3, PageFacts
  <2>5. jd - p = id - p => jd = id
    BY <2>3
  <2> QED
    BY <2>1, <2>2, <2>3, <2>4, <2>5
<1>3. ASSUME BatchMarks(f, w, id) PROVE id - p \in PendingBits(f, w, p)
  BY <1>1, <1>3, BatchItems DEF PendingBits
<1>4. ASSUME id - p \in PendingBits(f, w, p) PROVE BatchMarks(f, w, id)
  <2>1. PICK item \in Items(f) : w \in item.row.filters /\ Page(item.id) = p /\ item.id - p = id - p
    BY <1>4 DEF PendingBits
  <2> QED
    BY <1>2, <2>1
<1>5. PendingBits(f, w, p) \subseteq 0 .. PAGE_SPAN - 1
  BY <1>2 DEF PendingBits
<1> QED
  BY <1>1, <1>3, <1>4, <1>5

(* A page is read and merged: committed bits stay, those of the batch are  *)
(* added and any left over are dropped.                                    *)
LEMMA MergedPage ==
  ASSUME IInv, CInv, NEW r, QInv(r), ReadPages, NEW f \in Family, NEW w \in Filter, NEW id \in Nat,
         <<f, w, Page(id)>> \in TouchedPages
  PROVE  /\ id - Page(id) \in pages'[<<f, w, Page(id)>>] <=>
              IF id < state.next[f] THEN Marked(f, w, id) ELSE BatchMarks(f, w, id)
         /\ pages'[<<f, w, Page(id)>>] \subseteq 0 .. PAGE_SPAN - 1
<1>1. PICK p \in Nat : p = Page(id) /\ p <= id /\ id - p \in 0 .. PAGE_SPAN - 1
  BY PageFacts
<1>2. PICK key : key = <<f, w, p>>
  OBVIOUS
<1>3. pages'[key] = KeptBits(f, w, p) \cup PendingBits(f, w, p)
  BY <1>1, <1>2 DEF ReadPages
<1>4. stage # "idle" /\ BatchTiled /\ BitmapType
  BY DEF ReadPages, QInv
<1>5. Len(ranges) > 0 /\ state.next[f] \in Nat
  <2>1. /\ ranges \in Seq([Family -> IdRange]) /\ pending \in Seq(Blocks) /\ pending # <<>>
        /\ Len(ranges) = Len(pending) /\ state.next[f] \in Nat
    BY DEF IInv, TypeOK, BatchShape, ReadPages, StateType
  <2> QED
    BY <2>1
<1>6. ranges[1][f].first = state.next[f]
  BY <1>4, <1>5 DEF BatchTiled
<1>7. PICK c \in Nat : c = state.next[f]
  BY <1>5
<1>8. id - p \in KeptBits(f, w, p) <=> id < c /\ Marked(f, w, id)
  <2>1. id - p < c - p <=> id < c
    BY <1>1
  <2>2. id < c => ~(c <= p)
    BY <1>1
  <2> QED
    BY <1>1, <1>2, <1>6, <1>7, <2>1, <2>2 DEF KeptBits, Marked
<1>9. KeptBits(f, w, p) \subseteq 0 .. PAGE_SPAN - 1
  BY <1>4 DEF KeptBits, BitmapType
<1>10. /\ id - p \in PendingBits(f, w, p) <=> BatchMarks(f, w, id)
       /\ PendingBits(f, w, p) \subseteq 0 .. PAGE_SPAN - 1
  BY <1>1, <1>4, PendingIs
<1>11. BatchMarks(f, w, id) => c <= id
  BY <1>4, <1>7, BatchIds
<1> QED
  BY <1>1, <1>2, <1>3, <1>7, <1>8, <1>9, <1>10, <1>11

(* What storing a page does to a mark. *)
LEMMA PutPageMarks ==
  ASSUME IInv, CInv, NEW r, QInv(r), NEW key \in unput, PutPage(key),
         NEW f \in Family, NEW w \in Filter, NEW id \in Nat
  PROVE  /\ key \in TouchedPages /\ pages[key] \subseteq 0 .. PAGE_SPAN - 1 /\ IsPageKey(key)
         /\ Marked(f, w, id)' <=>
              IF key # <<f, w, Page(id)>> THEN Marked(f, w, id)
              ELSE IF id < state.next[f] THEN Marked(f, w, id) ELSE BatchMarks(f, w, id)
<1>1. stage = "bitmap" /\ bitmap' = Put(bitmap, key, pages[key]) /\ stage # "idle" /\ stage \in Paging
  BY DEF PutPage, Paging
<1>2. key \in TouchedPages
  BY <1>1 DEF QInv, PagesStored
<1>3. pages[key] \subseteq 0 .. PAGE_SPAN - 1
  BY <1>1, <1>2 DEF QInv, PagesMade
<1>4. IsPageKey(key)
  BY <1>1, <1>2, TouchedFacts
<1>5. PICK page : page = <<f, w, Page(id)>>
  OBVIOUS
<1>6. PICK bit : bit = id - Page(id)
  OBVIOUS
<1>7. Marked(f, w, id)' <=> page \in DOMAIN bitmap' /\ bit \in bitmap'[page]
  BY <1>5, <1>6 DEF Marked, Page
<1>8. CASE key # page
  <2>1. page \in DOMAIN bitmap' /\ bit \in bitmap'[page] <=> page \in DOMAIN bitmap /\ bit \in bitmap[page]
    BY <1>1, <1>8 DEF Put
  <2>2. Marked(f, w, id) <=> page \in DOMAIN bitmap /\ bit \in bitmap[page]
    BY <1>5, <1>6 DEF Marked
  <2> QED
    BY <1>2, <1>3, <1>4, <1>5, <1>7, <1>8, <2>1, <2>2
<1>9. CASE key = page
  <2>1. Marked(f, w, id)' <=> bit \in pages[page]
    BY <1>1, <1>7, <1>9 DEF Put
  <2>2. bit \in pages[page] <=> IF id < state.next[f] THEN Marked(f, w, id) ELSE BatchMarks(f, w, id)
    BY <1>1, <1>2, <1>5, <1>6, <1>9 DEF QInv, PagesMade
  <2> QED
    BY <1>2, <1>3, <1>4, <1>5, <1>9, <2>1, <2>2
<1> QED
  BY <1>2, <1>3, <1>4, <1>5, <1>8, <1>9

LEMMA BitmapSteps ==
  ASSUME IInv, [Next]_vars
  PROVE  bitmap' = bitmap \/ \E key \in unput : PutPage(key)
BY DEF Next, Flushing, vars, tables, scratch, Open, Append1, BeginFlush, AssignRange, Assigned,
   AppendItem, BeginPutPayload, PutPayload, FamilyDone, PutLocations, ReadPages, PutStats,
   PutBlockHashes, PutFamilies, PutBlockIndex, PutState, FlushError, Crash

(* Committed bits never change. *)
LEMMA MarksKept ==
  ASSUME IInv, CInv, NEW r, QInv(r), [Next]_vars, NEW f \in Family, NEW w \in Filter, NEW id \in Nat,
         id < Opened.next[f]
  PROVE  Marked(f, w, id)' <=> Marked(f, w, id)
<1>1. CASE bitmap' = bitmap
  BY <1>1 DEF Marked, Page
<1>2. ASSUME NEW key \in unput, PutPage(key) PROVE Marked(f, w, id)' <=> Marked(f, w, id)
  <2>1. up
    BY <1>2 DEF PutPage, IInv, BatchShape
  <2>2. id < state.next[f]
    BY <2>1, OpenedFacts
  <2> QED
    BY <1>2, <2>2, PutPageMarks
<1> QED
  BY <1>1, <1>2, BitmapSteps

LEMMA BitmapTypeStep ==
  ASSUME IInv, CInv, NEW r, QInv(r), [Next]_vars
  PROVE  BitmapType'
<1>1. CASE bitmap' = bitmap
  BY <1>1 DEF QInv, BitmapType, IsPageKey, Page
<1>2. ASSUME NEW key \in unput, PutPage(key) PROVE BitmapType'
  <2>1. bitmap' = Put(bitmap, key, pages[key])
    BY <1>2 DEF PutPage
  <2>2. key \in TouchedPages /\ pages[key] \subseteq 0 .. PAGE_SPAN - 1
    BY <1>2 DEF PutPage, QInv, PagesStored, PagesMade, Paging
  <2>3. IsPageKey(key)
    BY <1>2, <2>2, TouchedFacts DEF PutPage
  <2> QED
    BY <2>1, <2>2, <2>3 DEF QInv, BitmapType, IsPageKey, Page, Put
<1> QED
  BY <1>1, <1>2, BitmapSteps

(* A batch in the stages of its pages keeps what was made of it. *)
LEMMA SameBatch ==
  ASSUME UNCHANGED <<pending, ranges>>
  PROVE  /\ TouchedPages' = TouchedPages
         /\ \A f \in Family : \A w, id : BatchMarks(f, w, id)' <=> BatchMarks(f, w, id)
<1>1. \A f \in Family : Items(f)' = Items(f)
  BY DEF Items
<1>2. TouchedPages' = TouchedPages
  BY <1>1 DEF TouchedPages, Page
<1>3. \A f \in Family : \A w, id : BatchMarks(f, w, id)' <=> BatchMarks(f, w, id)
  BY DEF BatchMarks
<1> QED
  BY <1>2, <1>3

(* The steps of these stages. *)
LEMMA PagingSteps ==
  ASSUME IInv, [Next]_vars, stage' \in Paging
  PROVE  \/ ReadPages
         \/ \E key \in unput : PutPage(key)
         \/ PutStats
         \/ /\ stage \in Paging /\ UNCHANGED <<bitmap, pageStats, pages, unput, state, pending, ranges>>
            /\ stage = "bitmap" <=> stage' = "bitmap"
<1>1. CASE PutBlockHashes \/ PutFamilies \/ PutBlockIndex
  BY <1>1 DEF PutBlockHashes, PutFamilies, PutBlockIndex, scratch, Paging
<1>2. CASE UNCHANGED vars
  BY <1>2 DEF vars, tables, scratch
<1>3. Open \/ (\E b \in Blocks : Append1(b)) \/ BeginFlush \/ AssignRange \/ Assigned \/ AppendItem
        \/ BeginPutPayload \/ (\E p \in unput : PutPayload(p)) \/ FamilyDone \/ PutLocations \/ PutState
        \/ FlushError \/ Crash => stage' \notin Paging
  BY DEF Open, Append1, BeginFlush, AssignRange, Assigned, AppendItem, BeginPutPayload, PutPayload,
     FamilyDone, PutLocations, PutState, FlushError, Crash, Paging, IInv, MemoryAgrees
<1> QED
  BY <1>1, <1>2, <1>3 DEF Next, Flushing

LEMMA PagesMadeStep ==
  ASSUME IInv, CInv, NEW r, QInv(r), [Next]_vars
  PROVE  PagesMade'
<1>1. CASE stage' \notin Paging
  BY <1>1 DEF PagesMade
<1>2. CASE ReadPages
  <2>1. /\ UNCHANGED <<pending, ranges, state, bitmap>> /\ DOMAIN pages' = TouchedPages
        /\ stage # "idle"
    BY <1>2 DEF ReadPages, tables
  <2>2. /\ TouchedPages' = TouchedPages
        /\ \A f \in Family : \A w, id : BatchMarks(f, w, id)' <=> BatchMarks(f, w, id)
    BY <2>1, SameBatch
  <2>3. ASSUME NEW key \in TouchedPages PROVE pages'[key] \subseteq 0 .. PAGE_SPAN - 1
    <3>1. PICK f \in Family, w \in Filter, x \in Nat : key = <<f, w, Page(x)>>
      BY <2>1, TouchedFacts DEF IsPageKey
    <3> QED
      BY <1>2, <3>1, MergedPage
  <2>4. ASSUME NEW f \in Family, NEW w \in Filter, NEW id \in Nat, <<f, w, Page(id)>> \in TouchedPages
        PROVE  (id - Page(id) \in pages'[<<f, w, Page(id)>>] <=>
                  IF id < state.next[f] THEN Marked(f, w, id) ELSE BatchMarks(f, w, id))
    BY <1>2, <2>4, MergedPage
  <2>5. \A f \in Family, w \in Filter, id \in Nat : Marked(f, w, id)' <=> Marked(f, w, id)
    BY <2>1 DEF Marked, Page
  <2>6. \A id : Page(id)' = Page(id)
    BY DEF Page
  <2> QED
    BY <2>1, <2>2, <2>3, <2>4, <2>5 DEF PagesMade, Page
<1>3. CASE stage \in Paging /\ UNCHANGED <<pages, state, pending, ranges>> /\ up
  <2>1. /\ TouchedPages' = TouchedPages
        /\ \A f \in Family : \A w, id : BatchMarks(f, w, id)' <=> BatchMarks(f, w, id)
    BY <1>3, SameBatch
  <2>2. ASSUME NEW f \in Family, NEW w \in Filter, NEW id \in Nat, id < state.next[f]
        PROVE  Marked(f, w, id)' <=> Marked(f, w, id)
    BY <1>3, <2>2, MarksKept, OpenedFacts
  <2>3. PagesMade
    BY DEF QInv
  <2>4. /\ DOMAIN pages' = TouchedPages'
        /\ \A key \in TouchedPages' : pages'[key] \subseteq 0 .. PAGE_SPAN - 1
    BY <1>3, <2>1, <2>3 DEF PagesMade
  <2>5. ASSUME NEW f \in Family, NEW w \in Filter, NEW id \in Nat, <<f, w, Page(id)>> \in TouchedPages
        PROVE  (id - Page(id) \in pages'[<<f, w, Page(id)>>] <=>
                  IF id < state'.next[f] THEN Marked(f, w, id)' ELSE BatchMarks(f, w, id)')
    <3>1. id - Page(id) \in pages[<<f, w, Page(id)>>] <=>
            IF id < state.next[f] THEN Marked(f, w, id) ELSE BatchMarks(f, w, id)
      BY <1>3, <2>3, <2>5 DEF PagesMade
    <3> QED
      BY <1>3, <2>1, <2>2, <3>1
  <2> QED
    BY <2>1, <2>4, <2>5 DEF PagesMade, Page
<1>4. stage \in Paging => up
  BY DEF IInv, BatchShape, Paging
<1>5. (\E key \in unput : PutPage(key)) \/ PutStats => stage \in Paging /\ UNCHANGED <<pages, state, pending, ranges>>
  BY DEF PutPage, PutStats, scratch, Paging
<1> QED
  BY <1>1, <1>2, <1>3, <1>4, <1>5, PagingSteps

LEMMA PagesStoredStep ==
  ASSUME IInv, CInv, NEW r, QInv(r), [Next]_vars
  PROVE  PagesStored'
<1>1. CASE stage' \notin Paging
  BY <1>1 DEF PagesStored, Paging
<1>2. CASE ReadPages
  <2>1. UNCHANGED <<pending, ranges>> /\ unput' = TouchedPages /\ stage' = "bitmap"
    BY <1>2 DEF ReadPages
  <2> QED
    BY <2>1, SameBatch DEF PagesStored
<1>3. ASSUME NEW key \in unput, PutPage(key) PROVE PagesStored'
  <2>1. /\ stage = "bitmap" /\ stage' = "bitmap" /\ UNCHANGED <<pending, ranges, pages>>
        /\ bitmap' = Put(bitmap, key, pages[key]) /\ unput' = unput \ {key}
    BY <1>3 DEF PutPage
  <2>2. TouchedPages' = TouchedPages
    BY <2>1, SameBatch
  <2>3. unput \subseteq TouchedPages /\ stage \in Paging
    BY <2>1 DEF QInv, PagesStored, Paging
  <2>4. ASSUME NEW k \in TouchedPages, k \notin unput' PROVE k \in DOMAIN bitmap' /\ bitmap'[k] = pages[k]
    <3>1. CASE k = key
      BY <2>1, <3>1 DEF Put
    <3>2. CASE k # key
      <4>1. k \notin unput
        BY <2>1, <2>4, <3>2
      <4>2. k \in DOMAIN bitmap /\ bitmap[k] = pages[k]
        BY <2>3, <4>1 DEF QInv, PagesStored
      <4> QED
        BY <2>1, <3>2, <4>2 DEF Put
    <3> QED
      BY <3>1, <3>2
  <2> QED
    BY <2>1, <2>2, <2>3, <2>4 DEF PagesStored
<1>4. CASE PutStats
  <2>1. /\ stage = "bitmap" /\ unput = {} /\ stage' = "block_hash" /\ UNCHANGED <<pending, ranges, pages, bitmap>>
        /\ pageStats' = PutBatch(pageStats, [k \in DOMAIN pages |-> Cardinality(pages[k])])
    BY <1>4 DEF PutStats, scratch
  <2>2. TouchedPages' = TouchedPages
    BY <2>1, SameBatch
  <2>3. DOMAIN pages = TouchedPages
    BY <2>1 DEF QInv, PagesMade, Paging
  <2>4. ASSUME NEW k \in TouchedPages
        PROVE  /\ k \in DOMAIN bitmap /\ bitmap[k] = pages[k]
               /\ k \in DOMAIN pageStats' /\ pageStats'[k] = Cardinality(pages[k])
    <3>1. k \in DOMAIN bitmap /\ bitmap[k] = pages[k]
      BY <2>1 DEF QInv, PagesStored, Paging
    <3>2. k \in DOMAIN pageStats' /\ pageStats'[k] = Cardinality(pages[k])
      BY <2>1, <2>3 DEF PutBatch
    <3> QED
      BY <3>1, <3>2
  <2> QED
    BY <2>1, <2>2, <2>4 DEF PagesStored
<1>5. CASE /\ stage \in Paging /\ UNCHANGED <<bitmap, pageStats, pages, unput, state, pending, ranges>>
           /\ stage = "bitmap" <=> stage' = "bitmap"
  <2>1. TouchedPages' = TouchedPages
    BY <1>5, SameBatch
  <2> QED
    BY <1>5, <2>1 DEF QInv, PagesStored
<1> QED
  BY <1>1, <1>2, <1>3, <1>4, <1>5, PagingSteps
-----------------------------------------------------------------------------
(* A batch whose ids are assigned is the beginning of the run. *)
LEMMA BatchInRun ==
  ASSUME IInv, CInv, NEW r, Run(r), RunAhead(r), stage \notin {"idle", "assign"}, NEW f \in Family
  PROVE  /\ Len(pending) \in Nat /\ Len(ranges) = Len(pending) /\ Len(pending) <= Len(r)
         /\ Len(r) \in Nat
         /\ \A k \in 1 .. Len(pending) :
              /\ k \in 1 .. Len(r) /\ r[k].block = pending[k] /\ pending[k] \in Blocks
              /\ r[k].first[f] = ranges[k][f].first /\ ranges[k][f].first \in Nat
              /\ ranges[k][f].count = Size(pending[k], f) /\ ranges[k][f].count \in Nat
<1>1. /\ pending \in Seq(Blocks) /\ ranges \in Seq([Family -> IdRange]) /\ r \in Seq(Entry)
      /\ Len(ranges) = Len(pending) /\ Len(pending) <= Len(r)
  BY DEF IInv, TypeOK, BatchShape, Run, RunAhead
<1>2. PICK P \in Nat : P = Len(pending) /\ P = Len(ranges)
  BY <1>1
<1>3. PICK R \in Nat : R = Len(r)
  BY <1>1
<1>4. ASSUME NEW k \in 1 .. P
      PROVE  /\ k \in 1 .. Len(r) /\ r[k].block = pending[k] /\ pending[k] \in Blocks
             /\ r[k].first[f] = ranges[k][f].first /\ ranges[k][f].first \in Nat
             /\ ranges[k][f].count = Size(pending[k], f) /\ ranges[k][f].count \in Nat
  <2>1. k \in 1 .. R /\ k <= R
    BY <1>1, <1>2, <1>3
  <2>2. r[k].block = pending[k] /\ r[k].first[f] = ranges[k][f].first
    BY <1>2, <1>3, <2>1 DEF RunAhead
  <2>3. pending[k] \in Blocks /\ ranges[k] \in [Family -> IdRange]
    BY <1>1, <1>2
  <2>4. ranges[k][f].first \in Nat /\ ranges[k][f].count \in Nat
    BY <2>3 DEF IdRange
  <2>5. ranges[k][f].count = Size(pending[k], f)
    BY <1>2 DEF IInv, BatchShape, Size
  <2> QED
    BY <1>3, <2>1, <2>2, <2>3, <2>4, <2>5
<1> QED
  BY <1>1, <1>2, <1>3, <1>4

LEMMA BatchRunMarks ==
  ASSUME IInv, CInv, NEW r, Run(r), RunAhead(r), stage \notin {"idle", "assign"},
         NEW f \in Family, NEW w, NEW id, BatchMarks(f, w, id)
  PROVE  RunMarks(r, f, w, id)
<1>1. PICK k \in 1 .. Len(ranges) : \E j \in 1 .. ranges[k][f].count :
        id = ranges[k][f].first + j - 1 /\ w \in pending[k].rows[f][j].filters
  BY DEF BatchMarks
<1>2. PICK j \in 1 .. ranges[k][f].count :
        id = ranges[k][f].first + j - 1 /\ w \in pending[k].rows[f][j].filters
  BY <1>1
<1>3. /\ k \in 1 .. Len(r) /\ r[k].block = pending[k] /\ r[k].first[f] = ranges[k][f].first
      /\ ranges[k][f].count = Size(pending[k], f)
  BY BatchInRun
<1> QED
  BY <1>2, <1>3 DEF RunMarks

(* The bits beyond the frontier stay those of the run. *)
LEMMA BeyondStep ==
  ASSUME IInv, CInv, NEW r, QInv(r), [Next]_vars, stateIndex' = stateIndex
  PROVE  Beyond(r)'
<1>1. Opened' = Opened
  BY HeadHashKept
<1>2. Run(r) /\ RunAhead(r) /\ Beyond(r)
  BY DEF QInv
<1>3. ASSUME NEW f \in Family, NEW w \in Filter, NEW id \in Nat, Opened.next[f] <= id, Marked(f, w, id)'
      PROVE  RunMarks(r, f, w, id)
  <2>1. CASE bitmap' = bitmap
    <3>1. Marked(f, w, id)
      BY <1>3, <2>1 DEF Marked, Page
    <3> QED
      BY <1>2, <1>3, <3>1 DEF Beyond
  <2>2. ASSUME NEW key \in unput, PutPage(key) PROVE RunMarks(r, f, w, id)
    <3>1. up /\ stage \notin {"idle", "assign"}
      BY <2>2 DEF PutPage, IInv, BatchShape
    <3>2. state.next[f] <= id /\ state.next[f] \in Nat
      BY <1>3, <3>1, OpenedFacts
    <3>3. Marked(f, w, id) \/ BatchMarks(f, w, id)
      BY <1>3, <2>2, <3>2, PutPageMarks
    <3> QED
      BY <1>2, <1>3, <3>1, <3>3, BatchRunMarks DEF Beyond
  <2> QED
    BY <2>1, <2>2, BitmapSteps
<1> QED
  BY <1>1, <1>3 DEF Beyond, RunMarks, Size

(* The bits of a committed block stay as they are. *)
LEMMA BitsKept ==
  ASSUME IInv, CInv, NEW r, QInv(r), [Next]_vars,
         NEW n \in CommittedHeights, NEW b \in Blocks, BlockStored(n, b), BlockBits(n, b)
  PROVE  BlockBits(n, b)'
<1>1. ASSUME NEW f \in Family, NEW w \in Filter, NEW j \in 1 .. Size(b, f)
      PROVE  w \in b.rows[f][j].filters <=> Marked(f, w, familyRange[<<f, n>>].first + j - 1)'
  <2>1. /\ <<f, n>> \in DOMAIN familyRange
        /\ \E row : RowStored(f, familyRange[<<f, n>>].first + j - 1, row)
    BY DEF BlockStored, RangeStored, Size
  <2>2. PICK id : id = familyRange[<<f, n>>].first + j - 1
    OBVIOUS
  <2>3. id \in CommittedIds(stateIndex, f)
    BY <2>1, <2>2 DEF RowStored
  <2>4. id \in Nat /\ id < Opened.next[f]
    BY <2>3, OpenedIds
  <2>5. Marked(f, w, id)' <=> Marked(f, w, id)
    BY <2>4, MarksKept
  <2>6. familyRange'[<<f, n>>].first + j - 1 = id
    BY <2>1, <2>2, MetadataKept
  <2>7. w \in b.rows[f][j].filters <=> Marked(f, w, id)
    BY <2>2 DEF BlockBits
  <2> QED
    BY <2>5, <2>6, <2>7 DEF Marked, Page
<1> QED
  BY <1>1 DEF BlockBits, Size

(* Where the batch ends in the run. *)
LEMMA BatchEnd ==
  ASSUME IInv, CInv, NEW r, QInv(r), stage \notin {"idle", "assign"}, NEW f \in Family
  PROVE  /\ cursor[f] \in Nat
         /\ \A k \in 1 .. Len(pending) : r[k].first[f] + Size(r[k].block, f) <= cursor[f]
         /\ \A k \in 1 .. Len(r) : k > Len(pending) => cursor[f] <= r[k].first[f]
         /\ Len(pending) \in 1 .. Len(r)
         /\ r[Len(pending)].first[f] + Size(r[Len(pending)].block, f) = cursor[f]
<1>1. Run(r) /\ RunAhead(r) /\ BatchTiled
  BY DEF QInv
<1>2. /\ Len(pending) \in Nat /\ Len(ranges) = Len(pending) /\ Len(pending) <= Len(r)
      /\ Len(r) \in Nat
      /\ \A k \in 1 .. Len(pending) :
           /\ k \in 1 .. Len(r) /\ r[k].block = pending[k] /\ pending[k] \in Blocks
           /\ r[k].first[f] = ranges[k][f].first /\ ranges[k][f].first \in Nat
           /\ ranges[k][f].count = Size(pending[k], f) /\ ranges[k][f].count \in Nat
  BY <1>1, BatchInRun
<1>3. PICK P \in Nat : P = Len(pending) /\ P = Len(ranges)
  BY <1>2
<1>4. pending \in Seq(Blocks) /\ pending # <<>> /\ cursor[f] \in Nat
  BY DEF IInv, TypeOK, BatchShape
<1>5. P > 0
  <2>1. Len(pending) # 0
    BY <1>4
  <2> QED
    BY <1>3, <2>1
<1>6. P \in 1 .. P /\ P \in 1 .. Len(r)
  BY <1>2, <1>3, <1>5
<1>7. cursor[f] = ranges[P][f].first + ranges[P][f].count
  BY <1>1, <1>3, <1>5 DEF BatchTiled
<1>8. r[P].first[f] + Size(r[P].block, f) = cursor[f]
  BY <1>2, <1>3, <1>6, <1>7
<1>9. ASSUME NEW k \in 1 .. P PROVE r[k].first[f] + Size(r[k].block, f) <= cursor[f]
  <2>1. ranges[k][f].first + ranges[k][f].count <= cursor[f]
    BY <1>3 DEF CInv, Assigns
  <2> QED
    BY <1>2, <1>3, <2>1
<1>10. ASSUME NEW k \in 1 .. Len(r), k > P PROVE cursor[f] <= r[k].first[f]
  <2>1. P \in 1 .. k - 1
    BY <1>5, <1>10
  <2> QED
    BY <1>1, <1>8, <2>1 DEF Run
<1> QED
  BY <1>3, <1>4, <1>6, <1>8, <1>9, <1>10

LEMMA RunInBatch ==
  ASSUME IInv, CInv, NEW r, QInv(r), stage \notin {"idle", "assign"},
         NEW f \in Family, NEW w, NEW id, RunMarks(r, f, w, id), id < cursor[f]
  PROVE  BatchMarks(f, w, id)
<1>1. Run(r) /\ RunAhead(r)
  BY DEF QInv
<1>2. PICK k \in 1 .. Len(r) : \E j \in 1 .. Size(r[k].block, f) :
        id = r[k].first[f] + j - 1 /\ w \in r[k].block.rows[f][j].filters
  BY DEF RunMarks
<1>3. PICK j \in 1 .. Size(r[k].block, f) :
        id = r[k].first[f] + j - 1 /\ w \in r[k].block.rows[f][j].filters
  BY <1>2
<1>4. r[k].first[f] \in Nat /\ Size(r[k].block, f) \in Nat
  BY <1>1, RunEntry
<1>5. PICK a \in Nat : a = r[k].first[f]
  BY <1>4
<1>6. PICK y \in Nat : y = cursor[f]
  BY BatchEnd
<1>7. j \in Nat /\ j >= 1
  BY <1>4
<1>8. ~(y <= a)
  BY <1>3, <1>5, <1>6, <1>7
<1>9. ~(k > Len(pending))
  BY <1>5, <1>6, <1>8, BatchEnd
<1>10. Len(r) \in Nat /\ Len(pending) \in Nat /\ Len(ranges) = Len(pending)
  BY <1>1, BatchInRun
<1>11. k \in 1 .. Len(pending)
  BY <1>9, <1>10
<1>12. /\ r[k].block = pending[k] /\ r[k].first[f] = ranges[k][f].first
       /\ ranges[k][f].count = Size(pending[k], f)
  BY <1>1, <1>11, BatchInRun
<1> QED
  BY <1>3, <1>10, <1>11, <1>12 DEF BatchMarks

(* An id of the batch is that of one record. *)
LEMMA BatchUnique ==
  ASSUME IInv, CInv, stage # "idle", NEW f \in Family, NEW w,
         NEW k \in 1 .. Len(ranges), NEW j \in 1 .. ranges[k][f].count
  PROVE  BatchMarks(f, w, ranges[k][f].first + j - 1) <=> w \in pending[k].rows[f][j].filters
<1>1. ASSUME NEW m \in 1 .. Len(ranges), NEW i \in 1 .. ranges[m][f].count,
             ranges[m][f].first + i - 1 = ranges[k][f].first + j - 1
      PROVE  m = k /\ i = j
  <2>1. Assigns
    BY DEF CInv
  <2>2. PICK a \in Nat, c \in Nat : a = ranges[k][f].first /\ c = ranges[k][f].count
    BY <2>1, ItemIds
  <2>3. PICK x \in Nat, y \in Nat : x = ranges[m][f].first /\ y = ranges[m][f].count
    BY <2>1, ItemIds
  <2>4. j \in Nat /\ 1 <= j /\ j <= c /\ i \in Nat /\ 1 <= i /\ i <= y
    BY <2>2, <2>3
  <2>5. Len(ranges) \in Nat
    BY DEF IInv, TypeOK
  <2>6. ASSUME m < k PROVE FALSE
    <3>1. m \in 1 .. k - 1
      BY <2>5, <2>6
    <3>2. x + y <= a
      BY <2>1, <2>2, <2>3, <3>1 DEF Assigns
    <3> QED
      BY <1>1, <2>2, <2>3, <2>4, <3>2, IdsApart
  <2>7. ASSUME k < m PROVE FALSE
    <3>1. k \in 1 .. m - 1
      BY <2>5, <2>7
    <3>2. a + c <= x
      BY <2>1, <2>2, <2>3, <3>1 DEF Assigns
    <3> QED
      BY <1>1, <2>2, <2>3, <2>4, <3>2, IdsApart
  <2>8. m = k
    BY <2>5, <2>6, <2>7
  <2>9. a + i - 1 = a + j - 1
    BY <1>1, <2>2, <2>8
  <2> QED
    BY <2>4, <2>8, <2>9
<1> QED
  BY <1>1 DEF BatchMarks

(* When everything is stored, the bits of the new ids are those of the batch. *)
LEMMA CommitMarks ==
  ASSUME IInv, CInv, NEW r, QInv(r), stage = "state", NEW f \in Family, NEW w \in Filter, NEW id \in Nat,
         state.next[f] <= id, id < cursor[f]
  PROVE  Marked(f, w, id) <=> BatchMarks(f, w, id)
<1>1. up /\ stage \notin {"idle", "assign"} /\ stage # "idle" /\ stage \in Paging /\ stage # "bitmap"
  BY DEF IInv, BatchShape, Paging
<1>2. state = Opened /\ state.next[f] \in Nat
  BY <1>1, OpenedFacts
<1>3. ASSUME Marked(f, w, id) PROVE BatchMarks(f, w, id)
  <2>1. RunMarks(r, f, w, id)
    BY <1>2, <1>3 DEF QInv, Beyond
  <2> QED
    BY <1>1, <2>1, RunInBatch
<1>4. ASSUME BatchMarks(f, w, id) PROVE Marked(f, w, id)
  <2>1. PICK key : key = <<f, w, Page(id)>>
    OBVIOUS
  <2>2. key \in TouchedPages
    BY <1>1, <1>4, <2>1, TouchedFacts
  <2>3. key \in DOMAIN bitmap /\ bitmap[key] = pages[key]
    BY <1>1, <2>2 DEF QInv, PagesStored
  <2>4. ~(id < state.next[f])
    BY <1>2
  <2>5. id - Page(id) \in pages[key]
    BY <1>1, <1>4, <2>1, <2>2, <2>4 DEF QInv, PagesMade
  <2> QED
    BY <2>1, <2>3, <2>5 DEF Marked
<1> QED
  BY <1>3, <1>4

LEMMA CommitBits ==
  ASSUME IInv, CInv, NEW r, QInv(r), PutState, NEW k \in 1 .. Len(pending), NEW b, b = pending[k],
         NEW n, n = b.number
  PROVE  BlockBits(n, b)'
<1>1. stage = "state" /\ stage # "idle" /\ UNCHANGED <<bitmap, familyRange>> /\ Len(ranges) = Len(pending)
  BY CommitHeights DEF PutState
<1>2. ASSUME NEW f \in Family, NEW w \in Filter, NEW j \in 1 .. Size(b, f)
      PROVE  w \in b.rows[f][j].filters <=> Marked(f, w, familyRange[<<f, n>>].first + j - 1)'
  <2>1. familyRange[<<f, n>>] = ranges[k][f]
    BY <1>1 DEF CInv, MetadataStored
  <2>2. j \in 1 .. ranges[k][f].count
    BY <1>1 DEF IInv, BatchShape, Size
  <2>3. PICK id : id = ranges[k][f].first + j - 1
    OBVIOUS
  <2>4. id \in Nat /\ state.next[f] <= id /\ id < cursor[f]
    BY <1>1, <2>2, <2>3, ItemIds DEF CInv
  <2>5. Marked(f, w, id) <=> BatchMarks(f, w, id)
    BY <1>1, <2>4, CommitMarks
  <2>6. BatchMarks(f, w, id) <=> w \in b.rows[f][j].filters
    BY <1>1, <2>2, <2>3, BatchUnique
  <2>7. Marked(f, w, id)' <=> Marked(f, w, id)
    BY <1>1 DEF Marked, Page
  <2>8. (familyRange[<<f, n>>].first + j - 1)' = id
    BY <1>1, <2>1, <2>3
  <2> QED
    BY <2>5, <2>6, <2>7, <2>8 DEF Marked, Page
<1> QED
  BY <1>2 DEF BlockBits, Size

LEMMA BitsStep ==
  ASSUME IInv, CInv, NEW r, QInv(r), [Next]_vars
  PROVE  BitsStored'
<1>1. IInv' /\ CommittedUnchanged
  BY InvStep
<1>2. ASSUME NEW n \in CommittedHeights PROVE \E b \in Blocks : (BlockStored(n, b) /\ BlockBits(n, b))'
  <2>1. PICK b \in Blocks : BlockStored(n, b) /\ BlockBits(n, b)
    BY DEF QInv, BitsStored
  <2>2. BlockStored(n, b)'
    BY <1>1, <2>1, BlockKept
  <2>3. BlockBits(n, b)'
    BY <2>1, BitsKept
  <2> QED
    BY <2>2, <2>3
<1>3. CASE stateIndex' = stateIndex
  <2>1. CommittedHeights' = CommittedHeights
    BY <1>3 DEF CommittedHeights
  <2> QED
    BY <1>2, <2>1 DEF BitsStored
<1>4. CASE PutState
  <2>1. ASSUME NEW k \in 1 .. Len(pending), NEW n, n = pending[k].number
        PROVE  \E b \in Blocks : (BlockStored(n, b) /\ BlockBits(n, b))'
    <3>1. PICK b : b = pending[k]
      OBVIOUS
    <3>2. b \in Blocks
      BY <3>1 DEF IInv, TypeOK
    <3>3. BlockStored(n, b)'
      BY <1>4, <2>1, <3>1, CommitStored
    <3>4. BlockBits(n, b)'
      BY <1>4, <2>1, <3>1, CommitBits
    <3> QED
      BY <3>2, <3>3, <3>4
  <2>2. \A n \in CommittedHeights' :
          n \in CommittedHeights \/ \E k \in 1 .. Len(pending) : n = pending[k].number
    BY <1>4, CommitHeights
  <2> QED
    BY <1>2, <2>1, <2>2 DEF BitsStored
<1> QED
  BY <1>3, <1>4, FirstKept

-----------------------------------------------------------------------------
(* The bits of a page that a query can find. *)
Visible(key) == {bit \in bitmap[key] : key[3] + bit \in CommittedIds(stateIndex, key[1])}
Understated(key) ==
  Visible(key) # {} /\ ~(key \in DOMAIN pageStats /\ Cardinality(Visible(key)) <= pageStats[key])

LEMMA StatsAre == StatsNeverUnderstate <=> \A key \in DOMAIN bitmap : ~Understated(key)
BY DEF StatsNeverUnderstate, Understated, Visible

(* A page that is counted as a whole is not understated. *)
LEMMA CountedWhole ==
  ASSUME NEW S, S \subseteq 0 .. PAGE_SPAN - 1, NEW V, V \subseteq S
  PROVE  Cardinality(V) <= Cardinality(S)
<1>1. PAGE_SPAN - 1 \in Int
  BY SizesAssumption
<1>2. IsFiniteSet(0 .. PAGE_SPAN - 1)
  BY <1>1, FS_Interval
<1>3. IsFiniteSet(S)
  BY <1>2, FS_Subset
<1> QED
  BY <1>3, FS_Subset

(* The visible bits of a page are ids with a mark. *)
LEMMA VisibleBits ==
  ASSUME IInv, BitmapType, NEW key \in DOMAIN bitmap, NEW bit \in bitmap[key]
  PROVE  \E f \in Family, w \in Filter, id \in Nat :
           /\ key = <<f, w, Page(id)>> /\ bit = id - Page(id) /\ key[1] = f /\ key[3] + bit = id
           /\ Marked(f, w, id)
<1>1. IsPageKey(key) /\ bit \in 0 .. PAGE_SPAN - 1
  BY DEF BitmapType
<1>2. PICK f \in Family, w \in Filter, id \in Nat :
        key = <<f, w, Page(id)>> /\ bit = id - Page(id) /\ key[1] = f /\ key[3] + bit = id
  BY <1>1, BitIsId
<1> QED
  BY <1>2 DEF Marked

(* A page that is stored again keeps the bits a query can find. *)
LEMMA VisibleKept ==
  ASSUME IInv, CInv, NEW r, QInv(r), NEW key \in unput, PutPage(key)
  PROVE  /\ key \notin DOMAIN bitmap => Visible(key)' = {}
         /\ key \in DOMAIN bitmap => Visible(key)' = Visible(key)
<1>1. /\ bitmap' = Put(bitmap, key, pages[key]) /\ stateIndex' = stateIndex /\ up /\ [Next]_vars
  BY DEF PutPage, IInv, BatchShape, Next, Flushing
<1>2. key \in DOMAIN bitmap' /\ bitmap'[key] = pages[key] /\ BitmapType /\ BitmapType'
  BY <1>1, BitmapTypeStep DEF Put, QInv
<1>3. IsPageKey(key)
  <2>1. IsPageKey(key)'
    BY <1>2 DEF BitmapType
  <2> QED
    BY <2>1 DEF IsPageKey, Page
<1>4. \A S : S \in {bitmap'[key]} => S \subseteq 0 .. PAGE_SPAN - 1
  BY <1>2 DEF BitmapType
<1>5. ASSUME NEW bit \in 0 .. PAGE_SPAN - 1, key[3] + bit \in CommittedIds(stateIndex, key[1])
      PROVE  bit \in bitmap'[key] <=> key \in DOMAIN bitmap /\ bit \in bitmap[key]
  <2>1. PICK f \in Family, w \in Filter, id \in Nat :
          key = <<f, w, Page(id)>> /\ bit = id - Page(id) /\ key[1] = f /\ key[3] + bit = id
    BY <1>3, BitIsId
  <2>2. id < Opened.next[f]
    BY <1>5, <2>1, OpenedIds
  <2>3. Marked(f, w, id)' <=> Marked(f, w, id)
    BY <1>1, <2>2, MarksKept
  <2>4. Marked(f, w, id) <=> key \in DOMAIN bitmap /\ bit \in bitmap[key]
    BY <2>1 DEF Marked
  <2>5. Marked(f, w, id)' <=> key \in DOMAIN bitmap' /\ bit \in bitmap'[key]
    BY <2>1 DEF Marked, Page
  <2> QED
    BY <1>2, <2>3, <2>4, <2>5
<1>6. Visible(key)' = {bit \in bitmap'[key] : key[3] + bit \in CommittedIds(stateIndex, key[1])}
  BY <1>1 DEF Visible, CommittedIds, FirstId
<1>7. ASSUME key \in DOMAIN bitmap PROVE bitmap[key] \subseteq 0 .. PAGE_SPAN - 1
  BY <1>2, <1>7 DEF BitmapType
<1> QED
  BY <1>4, <1>5, <1>6, <1>7 DEF Visible

LEMMA StatsSteps ==
  ASSUME IInv, [Next]_vars
  PROVE  \/ UNCHANGED <<bitmap, pageStats, stateIndex>>
         \/ \E key \in unput : PutPage(key)
         \/ PutStats
         \/ PutState
BY DEF Next, Flushing, vars, tables, scratch, Open, Append1, BeginFlush, AssignRange, Assigned,
   AppendItem, BeginPutPayload, PutPayload, FamilyDone, PutLocations, ReadPages,
   PutBlockHashes, PutFamilies, PutBlockIndex, FlushError, Crash

(* An id below the frontier that the commit covers was committed before. *)
LEMMA CommittedBefore ==
  ASSUME IInv, PutState, NEW f \in Family, NEW id \in CommittedIds(stateIndex', f), id < state.next[f]
  PROVE  id \in CommittedIds(stateIndex, f)
<1>1. stateIndex'.start = state.start /\ up
  BY CommitHeights
<1>2. FirstId(stateIndex', f) = FirstId(state, f)
  BY <1>1 DEF FirstId
<1>3. FirstId(state, f) \in Nat /\ state.next[f] \in Nat
  BY <1>1, CommittedBelow
<1>4. stateIndex'.next[f] \in Nat
  BY CommitHeights DEF IInv, TypeOK
<1>5. id \in Nat /\ FirstId(state, f) <= id
  BY <1>2, <1>3, <1>4 DEF CommittedIds
<1>6. CASE state = stateIndex
  BY <1>3, <1>5, <1>6 DEF CommittedIds
<1>7. CASE state = StartAt(DefaultState)
  <2>1. FirstId(state, f) = state.next[f]
    BY <1>7, Families DEF FirstId, StartAt, DefaultState
  <2> QED
    BY <1>3, <1>5, <2>1
<1> QED
  BY <1>1, <1>6, <1>7 DEF IInv, MemoryAgrees

LEMMA CommitVisible ==
  ASSUME IInv, CInv, NEW r, QInv(r), PutState, NEW key \in DOMAIN bitmap, key \notin TouchedPages
  PROVE  Visible(key)' = Visible(key)
<1>1. /\ stage = "state" /\ stage # "idle" /\ up /\ bitmap' = bitmap
      /\ stateIndex'.next = cursor /\ BitmapType /\ [Next]_vars
  BY CommitHeights DEF PutState, QInv, Next, Flushing
<1>2. CommittedUnchanged
  BY <1>1, InvStep
<1>3. ASSUME NEW bit \in bitmap[key]
      PROVE  key[3] + bit \in CommittedIds(stateIndex', key[1]) <=> key[3] + bit \in CommittedIds(stateIndex, key[1])
  <2>1. PICK f \in Family, w \in Filter, id \in Nat :
          /\ key = <<f, w, Page(id)>> /\ bit = id - Page(id) /\ key[1] = f /\ key[3] + bit = id
          /\ Marked(f, w, id)
    BY <1>1, VisibleBits
  <2>2. id \in CommittedIds(stateIndex, f) => id \in CommittedIds(stateIndex', f)
    BY <1>2 DEF CommittedUnchanged
  <2>3. ASSUME id \in CommittedIds(stateIndex', f) PROVE id < state.next[f]
    <3>1. state.next[f] \in Nat /\ cursor[f] \in Nat /\ FirstId(stateIndex', f) \in Nat
      <4>1. stateIndex' \in StateType
        BY <1>1, InvStep DEF IInv, TypeOK
      <4> QED
        BY <4>1 DEF IInv, TypeOK, StateType, FirstId
    <3>2. id < cursor[f]
      BY <1>1, <2>3, <3>1 DEF CommittedIds
    <3>3. BatchMarks(f, w, id) => FALSE
      BY <1>1, <2>1, TouchedFacts
    <3>4. ~(state.next[f] <= id)
      BY <1>1, <2>1, <3>2, <3>3, CommitMarks
    <3> QED
      BY <3>1, <3>4
  <2> QED
    BY <2>1, <2>2, <2>3, CommittedBefore
<1>4. Visible(key)' = {bit \in bitmap[key] : key[3] + bit \in CommittedIds(stateIndex', key[1])}
  BY <1>1 DEF Visible, CommittedIds, FirstId
<1> QED
  BY <1>3, <1>4 DEF Visible

LEMMA StatsStep ==
  ASSUME IInv, CInv, NEW r, QInv(r), [Next]_vars
  PROVE  StatsNeverUnderstate'
<1>1. \A key \in DOMAIN bitmap : ~Understated(key)
  BY StatsAre DEF QInv
<1>2. BitmapType /\ PagesMade /\ PagesStored
  BY DEF QInv
<1>3. CASE UNCHANGED <<bitmap, pageStats, stateIndex>>
  BY <1>3 DEF QInv, StatsNeverUnderstate, CommittedIds, FirstId
<1>4. ASSUME NEW key \in unput, PutPage(key), NEW k \in DOMAIN bitmap' PROVE ~Understated(k)'
  <2>1. UNCHANGED <<stateIndex, pageStats>> /\ bitmap' = Put(bitmap, key, pages[key])
    BY <1>4 DEF PutPage
  <2>2. CASE k = key
    <3>1. \/ Visible(k)' = {}
          \/ k \in DOMAIN bitmap /\ Visible(k)' = Visible(k)
      BY <1>4, <2>2, VisibleKept
    <3> QED
      BY <1>1, <2>1, <3>1 DEF Understated
  <2>3. CASE k # key
    <3>1. k \in DOMAIN bitmap /\ bitmap'[k] = bitmap[k]
      BY <2>1, <2>3 DEF Put
    <3>2. Visible(k)' = Visible(k)
      BY <2>1, <3>1 DEF Visible, CommittedIds, FirstId
    <3> QED
      BY <1>1, <2>1, <3>1, <3>2 DEF Understated
  <2> QED
    BY <2>2, <2>3
<1>5. ASSUME PutStats, NEW k \in DOMAIN bitmap' PROVE ~Understated(k)'
  <2>1. /\ UNCHANGED <<stateIndex, bitmap>> /\ stage = "bitmap" /\ unput = {} /\ stage \in Paging
        /\ pageStats' = PutBatch(pageStats, [x \in DOMAIN pages |-> Cardinality(pages[x])])
    BY <1>5 DEF PutStats, Paging
  <2>2. Visible(k)' = Visible(k)
    BY <2>1 DEF Visible, CommittedIds, FirstId
  <2>3. CASE k \in DOMAIN pages
    <3>1. k \in TouchedPages /\ pages[k] \subseteq 0 .. PAGE_SPAN - 1 /\ bitmap[k] = pages[k]
      BY <1>2, <2>1, <2>3 DEF PagesMade, PagesStored
    <3>2. k \in DOMAIN pageStats' /\ pageStats'[k] = Cardinality(pages[k])
      BY <2>1, <2>3 DEF PutBatch
    <3>3. Visible(k) \subseteq pages[k]
      BY <3>1 DEF Visible
    <3>4. Cardinality(Visible(k)) <= pageStats'[k]
      BY <3>1, <3>2, <3>3, CountedWhole
    <3> QED
      BY <2>2, <3>2, <3>4 DEF Understated
  <2>4. CASE k \notin DOMAIN pages
    <3>1. k \in DOMAIN pageStats => k \in DOMAIN pageStats' /\ pageStats'[k] = pageStats[k]
      BY <2>1, <2>4 DEF PutBatch
    <3> QED
      BY <1>1, <2>1, <2>2, <3>1 DEF Understated
  <2> QED
    BY <2>3, <2>4
<1>6. ASSUME PutState, NEW k \in DOMAIN bitmap' PROVE ~Understated(k)'
  <2>1. UNCHANGED <<bitmap, pageStats>> /\ stage = "state" /\ stage \in Paging /\ stage # "bitmap"
    BY <1>6 DEF PutState, Paging
  <2>2. CASE k \in TouchedPages
    <3>1. /\ pages[k] \subseteq 0 .. PAGE_SPAN - 1 /\ bitmap[k] = pages[k]
          /\ k \in DOMAIN pageStats /\ pageStats[k] = Cardinality(pages[k])
      BY <1>2, <2>1, <2>2 DEF PagesMade, PagesStored
    <3>2. PICK V : V = Visible(k)'
      OBVIOUS
    <3>3. V \subseteq pages[k]
      BY <2>1, <3>1, <3>2 DEF Visible
    <3>4. Cardinality(V) <= pageStats[k]
      BY <3>1, <3>3, CountedWhole
    <3> QED
      BY <2>1, <3>1, <3>2, <3>4 DEF Understated
  <2>3. CASE k \notin TouchedPages
    <3>1. Visible(k)' = Visible(k)
      BY <1>6, <2>1, <2>3, CommitVisible
    <3> QED
      BY <1>1, <2>1, <3>1 DEF Understated
  <2> QED
    BY <2>2, <2>3
<1>7. (\A key \in DOMAIN bitmap : ~Understated(key))' => StatsNeverUnderstate'
  BY DEF StatsNeverUnderstate, Understated, Visible
<1> QED
  BY <1>3, <1>4, <1>5, <1>6, <1>7, StatsSteps

-----------------------------------------------------------------------------
(* The block index. *)
LEMMA CommittedRange ==
  ASSUME IInv, CInv, [Next]_vars, NEW n \in CommittedHeights, NEW f \in Family
  PROVE  /\ familyRange[<<f, n>>].first \in Nat /\ familyRange[<<f, n>>].count \in Nat
         /\ familyRange'[<<f, n>>] = familyRange[<<f, n>>]
<1>1. PICK b \in Blocks : BlockStored(n, b)
  BY DEF CInv, BlocksStored
<1>2. /\ <<f, n>> \in DOMAIN familyRange /\ familyRange[<<f, n>>].first \in Nat
      /\ familyRange[<<f, n>>].count = Len(b.rows[f])
  BY <1>1 DEF BlockStored, RangeStored
<1> QED
  BY <1>2, BlockFacts, MetadataKept

LEMMA NewRange ==
  ASSUME IInv, CInv, PutState, NEW k \in 1 .. Len(pending), NEW f \in Family, NEW n, n = pending[k].number
  PROVE  /\ familyRange'[<<f, n>>] = ranges[k][f] /\ k \in 1 .. Len(ranges)
         /\ ranges[k][f].first \in Nat /\ ranges[k][f].count \in Nat
         /\ stateIndex.next[f] \in Nat /\ stateIndex.next[f] <= state.next[f] /\ state.next[f] \in Nat
         /\ state.next[f] <= ranges[k][f].first
         /\ ranges[k][f].first + ranges[k][f].count <= cursor[f]
         /\ stateIndex'.next[f] = cursor[f] /\ cursor[f] \in Nat
<1>1. /\ stage = "state" /\ stage # "idle" /\ familyRange' = familyRange /\ up /\ Len(ranges) = Len(pending)
      /\ stateIndex'.next = cursor
  BY CommitHeights DEF PutState
<1>2. familyRange[<<f, n>>] = ranges[k][f]
  BY <1>1 DEF CInv, MetadataStored
<1>3. ranges[k] \in [Family -> IdRange] /\ cursor[f] \in Nat
  BY <1>1 DEF IInv, TypeOK
<1>4. ranges[k][f].first \in Nat /\ ranges[k][f].count \in Nat
  BY <1>3 DEF IdRange
<1>5. stateIndex.next[f] \in Nat /\ stateIndex.next[f] <= state.next[f] /\ state.next[f] \in Nat
  BY <1>1, OpenedFacts, OpenedIds
<1>6. state.next[f] <= ranges[k][f].first /\ ranges[k][f].first + ranges[k][f].count <= cursor[f]
  BY <1>1 DEF CInv, Assigns
<1> QED
  BY <1>1, <1>2, <1>3, <1>4, <1>5, <1>6

LEMMA OrderedStep ==
  ASSUME IInv, CInv, RangesOrdered, [Next]_vars
  PROVE  RangesOrdered'
<1>1. ASSUME NEW n \in CommittedHeights, NEW f \in Family
      PROVE  /\ RangeEnd(f, n)' = RangeEnd(f, n) /\ RangeEnd(f, n) \in Nat
             /\ familyRange'[<<f, n>>].first = familyRange[<<f, n>>].first
             /\ familyRange[<<f, n>>].first \in Nat
             /\ RangeEnd(f, n) <= stateIndex.next[f] /\ stateIndex.next[f] \in Nat
             /\ \A m \in CommittedHeights : m < n => RangeEnd(f, m) <= familyRange[<<f, n>>].first
  BY CommittedRange, OpenedIds DEF RangeEnd, RangesOrdered
<1>2. CASE stateIndex' = stateIndex
  <2>1. CommittedHeights' = CommittedHeights
    BY <1>2 DEF CommittedHeights
  <2> QED
    BY <1>1, <1>2, <2>1 DEF RangesOrdered
<1>3. CASE PutState
  <2>1. \A n \in CommittedHeights' :
          n \in CommittedHeights \/ \E k \in 1 .. Len(pending) : n = pending[k].number
    BY <1>3, CommitHeights
  <2>2. ASSUME NEW f \in Family, NEW n \in CommittedHeights
        PROVE  RangeEnd(f, n)' <= stateIndex'.next[f]
    <3>1. Len(pending) \in Nat /\ 1 \in 1 .. Len(pending)
      BY <1>3, CommitHeights
    <3>2. /\ stateIndex.next[f] <= state.next[f] /\ state.next[f] \in Nat /\ stateIndex.next[f] \in Nat
          /\ state.next[f] <= ranges[1][f].first
          /\ ranges[1][f].first + ranges[1][f].count <= stateIndex'.next[f]
          /\ ranges[1][f].first \in Nat /\ ranges[1][f].count \in Nat /\ stateIndex'.next[f] \in Nat
      BY <1>3, <3>1, NewRange
    <3>3. PICK x \in Nat : x = RangeEnd(f, n) /\ x <= stateIndex.next[f] /\ RangeEnd(f, n)' = x
      BY <1>1
    <3> QED
      BY <3>2, <3>3
  <2>3. ASSUME NEW f \in Family, NEW k \in 1 .. Len(pending), NEW n, n = pending[k].number
        PROVE  /\ RangeEnd(f, n)' <= stateIndex'.next[f]
               /\ familyRange'[<<f, n>>].first = ranges[k][f].first
               /\ RangeEnd(f, n)' = ranges[k][f].first + ranges[k][f].count
    BY <1>3, <2>3, NewRange DEF RangeEnd
  <2>4. ASSUME NEW f \in Family, NEW n \in CommittedHeights', NEW m \in CommittedHeights', m < n
        PROVE  RangeEnd(f, m)' <= familyRange'[<<f, n>>].first
    <3>1. CASE n \in CommittedHeights /\ m \in CommittedHeights
      BY <1>1, <2>4, <3>1
    <3>2. ASSUME m \in CommittedHeights, NEW k \in 1 .. Len(pending), n = pending[k].number
          PROVE  RangeEnd(f, m)' <= familyRange'[<<f, n>>].first
      <4>1. PICK x \in Nat : x = RangeEnd(f, m) /\ x <= stateIndex.next[f] /\ RangeEnd(f, m)' = x
        BY <1>1, <3>2
      <4>2. /\ stateIndex.next[f] \in Nat /\ stateIndex.next[f] <= state.next[f] /\ state.next[f] \in Nat
            /\ state.next[f] <= ranges[k][f].first /\ ranges[k][f].first \in Nat
        BY <1>3, <3>2, NewRange
      <4>3. familyRange'[<<f, n>>].first = ranges[k][f].first
        BY <2>3, <3>2
      <4> QED
        BY <4>1, <4>2, <4>3
    <3>3. ASSUME NEW i \in 1 .. Len(pending), m = pending[i].number, NEW k \in 1 .. Len(pending), n = pending[k].number
          PROVE  RangeEnd(f, m)' <= familyRange'[<<f, n>>].first
      <4>1. PICK x \in Nat : x = state.next[BlockHeader]
        BY <1>3, CommitHeights
      <4>2. m = x + i - 1 /\ n = x + k - 1
        BY <3>3, <4>1 DEF IInv, MemoryAgrees
      <4>3. Len(pending) \in Nat
        BY <1>3, CommitHeights
      <4>4. i \in 1 .. k - 1
        BY <2>4, <4>2, <4>3
      <4>5. k \in 1 .. Len(ranges) /\ stage # "idle"
        BY <1>3, CommitHeights
      <4>6. ranges[i][f].first + ranges[i][f].count <= ranges[k][f].first
        BY <4>4, <4>5 DEF CInv, Assigns
      <4> QED
        BY <2>3, <3>3, <4>6
    <3>4. ASSUME n \in CommittedHeights, NEW i \in 1 .. Len(pending), m = pending[i].number
          PROVE  FALSE
      <4>1. n < m /\ n \in Nat /\ pending[i].number \in Nat
        BY <3>4, BatchHeights, BlockFacts DEF IInv, TypeOK
      <4> QED
        BY <2>4, <3>4, <4>1
    <3> QED
      BY <2>1, <3>1, <3>2, <3>3, <3>4
  <2> QED
    BY <2>1, <2>2, <2>3, <2>4 DEF RangesOrdered
<1> QED
  BY <1>2, <1>3, FirstKept

LEMMA IndexSteps ==
  ASSUME IInv, [Next]_vars
  PROVE  blockIndex' = blockIndex \/ PutBlockIndex
BY DEF Next, Flushing, vars, tables, scratch, Open, Append1, BeginFlush, AssignRange, Assigned,
   AppendItem, BeginPutPayload, PutPayload, FamilyDone, PutLocations, ReadPages, PutPage, PutStats,
   PutBlockHashes, PutFamilies, PutState, FlushError, Crash

(* The keys a batch adds are the first ids of its blocks. *)
LEMMA BatchIndex ==
  ASSUME IInv, CInv, PutBlockIndex
  PROVE  /\ stage # "idle" /\ UNCHANGED <<stateIndex, ranges, pending, familyRange>>
         /\ Len(ranges) = Len(pending)
         /\ \A f \in Family, k \in 1 .. Len(ranges) : ranges[k][f].count > 0 =>
              KeyStored(f, ranges[k][f].first, pending[k].number)'
         /\ \A f \in Family, id \in Nat :
              \/ \E k \in 1 .. Len(ranges) : ranges[k][f].count > 0 /\ id = ranges[k][f].first
              \/ /\ <<f, id>> \in DOMAIN blockIndex' <=> <<f, id>> \in DOMAIN blockIndex
                 /\ <<f, id>> \in DOMAIN blockIndex => blockIndex'[<<f, id>>] = blockIndex[<<f, id>>]
<1> DEFINE Keys == {<<x[1], ranges[x[2]][x[1]].first>> : x \in IndexedRanges}
           At(key) == CHOOSE k \in 1 .. Len(ranges) :
                        <<key[1], k>> \in IndexedRanges /\ ranges[k][key[1]].first = key[2]
           rows == [key \in Keys |-> pending[At(key)].number]
<1>1. /\ stage # "idle" /\ UNCHANGED <<stateIndex, ranges, pending, familyRange>>
      /\ blockIndex' = PutBatch(blockIndex, rows) /\ Len(ranges) = Len(pending)
  BY DEF PutBlockIndex, scratch, IInv, BatchShape
<1>2. ASSUME NEW f \in Family, NEW k \in 1 .. Len(ranges), ranges[k][f].count > 0
      PROVE  <<f, k>> \in IndexedRanges /\ <<f, ranges[k][f].first>> \in Keys
  <2>1. <<f, k>> \in IndexedRanges
    BY <1>2 DEF IndexedRanges
  <2> QED
    BY <2>1
<1>3. ASSUME NEW f \in Family, NEW k \in 1 .. Len(ranges), ranges[k][f].count > 0
      PROVE  At(<<f, ranges[k][f].first>>) = k
  <2>1. Len(ranges) \in Nat /\ ranges \in Seq([Family -> IdRange])
    BY DEF IInv, TypeOK
  <2>2. \A i \in 1 .. Len(ranges) : ranges[i][f].first \in Nat /\ ranges[i][f].count \in Nat
    <3>1. \A i \in 1 .. Len(ranges) : ranges[i] \in [Family -> IdRange]
      BY <2>1
    <3> QED
      BY <3>1 DEF IdRange
  <2>3. ASSUME NEW m \in 1 .. Len(ranges), <<f, m>> \in IndexedRanges, ranges[m][f].first = ranges[k][f].first
        PROVE  m = k
    <3>1. ranges[m][f].count > 0
      BY <2>3 DEF IndexedRanges
    <3>2. ASSUME m < k PROVE FALSE
      <4>1. m \in 1 .. k - 1
        BY <2>1, <3>2
      <4>2. ranges[m][f].first + ranges[m][f].count <= ranges[k][f].first
        BY <1>1, <4>1 DEF CInv, Assigns
      <4> QED
        BY <2>2, <2>3, <3>1, <4>2
    <3>3. ASSUME k < m PROVE FALSE
      <4>1. k \in 1 .. m - 1
        BY <2>1, <3>3
      <4>2. ranges[k][f].first + ranges[k][f].count <= ranges[m][f].first
        BY <1>1, <4>1 DEF CInv, Assigns
      <4> QED
        BY <1>3, <2>2, <2>3, <4>2
    <3> QED
      BY <2>1, <3>2, <3>3
  <2>4. PICK key : key = <<f, ranges[k][f].first>>
    OBVIOUS
  <2>5. key[1] = f /\ key[2] = ranges[k][f].first
    BY <2>4
  <2>6. <<f, k>> \in IndexedRanges
    BY <1>2, <1>3
  <2>7. At(key) = k
    BY <2>3, <2>5, <2>6
  <2> QED
    BY <2>4, <2>7
<1>4. ASSUME NEW f \in Family, NEW id \in Nat, <<f, id>> \in Keys
      PROVE  \E k \in 1 .. Len(ranges) : ranges[k][f].count > 0 /\ id = ranges[k][f].first
  <2>1. PICK x \in IndexedRanges : <<f, id>> = <<x[1], ranges[x[2]][x[1]].first>>
    BY <1>4
  <2>2. x[1] = f /\ id = ranges[x[2]][f].first
    BY <2>1
  <2>3. x[2] \in 1 .. Len(ranges) /\ ranges[x[2]][x[1]].count > 0
    BY DEF IndexedRanges
  <2> QED
    BY <2>2, <2>3
<1> HIDE DEF Keys, At
<1>5. /\ DOMAIN rows = Keys
      /\ \A key \in Keys : rows[key] = pending[At(key)].number
  OBVIOUS
<1> HIDE DEF rows
<1>6. ASSUME NEW f \in Family, NEW k \in 1 .. Len(ranges), ranges[k][f].count > 0
      PROVE  KeyStored(f, ranges[k][f].first, pending[k].number)'
  <2>1. PICK key : key = <<f, ranges[k][f].first>>
    OBVIOUS
  <2>2. key \in Keys /\ At(key) = k
    BY <1>2, <1>3, <1>6, <2>1
  <2>3. key \in DOMAIN blockIndex' /\ blockIndex'[key] = pending[k].number
    BY <1>1, <1>5, <2>2 DEF PutBatch
  <2> QED
    BY <1>1, <2>1, <2>3 DEF KeyStored
<1>7. ASSUME NEW f \in Family, NEW id \in Nat, <<f, id>> \notin Keys
      PROVE  /\ <<f, id>> \in DOMAIN blockIndex' <=> <<f, id>> \in DOMAIN blockIndex
             /\ <<f, id>> \in DOMAIN blockIndex => blockIndex'[<<f, id>>] = blockIndex[<<f, id>>]
  <2>1. PICK key : key = <<f, id>>
    OBVIOUS
  <2>2. key \notin DOMAIN rows
    BY <1>5, <1>7, <2>1
  <2> QED
    BY <1>1, <2>1, <2>2 DEF PutBatch
<1> QED
  BY <1>1, <1>4, <1>6, <1>7

LEMMA KeysStep ==
  ASSUME IInv, CInv, RangesOrdered, KeysStored, BatchKeys, [Next]_vars
  PROVE  KeysStored'
<1>1. ASSUME NEW n \in CommittedHeights, NEW f \in Family, familyRange'[<<f, n>>].count > 0
      PROVE  KeyStored(f, familyRange[<<f, n>>].first, n)'
  <2>1. /\ familyRange[<<f, n>>].first \in Nat /\ familyRange[<<f, n>>].count \in Nat
        /\ familyRange'[<<f, n>>] = familyRange[<<f, n>>]
    BY CommittedRange
  <2>2. PICK id \in Nat : id = familyRange[<<f, n>>].first
    BY <2>1
  <2>3. <<f, id>> \in DOMAIN blockIndex /\ blockIndex[<<f, id>>] = n
    BY <1>1, <2>1, <2>2 DEF KeysStored, KeyStored
  <2>4. <<f, id>> \in DOMAIN blockIndex' /\ blockIndex'[<<f, id>>] = n
    <3>1. CASE blockIndex' = blockIndex
      BY <2>3, <3>1
    <3>2. CASE PutBlockIndex
      <4>1. ASSUME NEW k \in 1 .. Len(ranges), id = ranges[k][f].first PROVE FALSE
        <5>1. up /\ stage # "idle"
          BY <3>2 DEF PutBlockIndex, IInv, BatchShape
        <5>2. stateIndex.next[f] \in Nat /\ stateIndex.next[f] <= state.next[f] /\ state.next[f] \in Nat
          BY <5>1, OpenedFacts, OpenedIds
        <5>3. state.next[f] <= id
          BY <4>1, <5>1 DEF CInv, Assigns
        <5>4. id + familyRange[<<f, n>>].count <= stateIndex.next[f]
          BY <2>2 DEF RangesOrdered, RangeEnd
        <5>5. familyRange[<<f, n>>].count > 0
          BY <1>1, <2>1
        <5> QED
          BY <2>1, <5>2, <5>3, <5>4, <5>5
      <4> QED
        BY <2>3, <3>2, <4>1, BatchIndex
    <3> QED
      BY <3>1, <3>2, IndexSteps
  <2>5. (familyRange[<<f, n>>].first)' = id
    BY <2>1, <2>2
  <2> QED
    BY <2>4, <2>5 DEF KeyStored
<1>2. CASE stateIndex' = stateIndex
  <2>1. CommittedHeights' = CommittedHeights
    BY <1>2 DEF CommittedHeights
  <2> QED
    BY <1>1, <2>1 DEF KeysStored
<1>3. CASE PutState
  <2>1. ASSUME NEW k \in 1 .. Len(pending), NEW n, n = pending[k].number, NEW f \in Family,
               familyRange'[<<f, n>>].count > 0
        PROVE  KeyStored(f, familyRange[<<f, n>>].first, n)'
    <3>1. familyRange'[<<f, n>>] = ranges[k][f] /\ k \in 1 .. Len(ranges)
      BY <1>3, <2>1, NewRange
    <3>2. stage = "state" /\ blockIndex' = blockIndex
      BY <1>3 DEF PutState
    <3>3. KeyStored(f, ranges[k][f].first, n)
      BY <2>1, <3>1, <3>2 DEF BatchKeys
    <3> QED
      BY <3>1, <3>2, <3>3 DEF KeyStored
  <2>2. \A n \in CommittedHeights' :
          n \in CommittedHeights \/ \E k \in 1 .. Len(pending) : n = pending[k].number
    BY <1>3, CommitHeights
  <2> QED
    BY <1>1, <2>1, <2>2 DEF KeysStored
<1> QED
  BY <1>2, <1>3, FirstKept

LEMMA BatchKeysStep ==
  ASSUME IInv, CInv, BatchKeys, [Next]_vars
  PROVE  BatchKeys'
<1>1. CASE stage' # "state"
  BY <1>1 DEF BatchKeys
<1>2. CASE PutBlockIndex
  <2>1. /\ UNCHANGED <<ranges, pending>>
        /\ \A f \in Family, k \in 1 .. Len(ranges) : ranges[k][f].count > 0 =>
             KeyStored(f, ranges[k][f].first, pending[k].number)'
    BY <1>2, BatchIndex
  <2> QED
    BY <2>1 DEF BatchKeys
<1>3. CASE UNCHANGED vars
  BY <1>3 DEF BatchKeys, KeyStored, vars, tables, scratch
<1>4. \/ PutBlockIndex
      \/ UNCHANGED vars
      \/ stage' # "state"
  BY DEF Next, Flushing, Open, Append1, BeginFlush, AssignRange, Assigned, AppendItem, BeginPutPayload,
     PutPayload, FamilyDone, PutLocations, ReadPages, PutPage, PutStats, PutBlockHashes, PutFamilies,
     PutState, FlushError, Crash, IInv, MemoryAgrees
<1> QED
  BY <1>1, <1>2, <1>3, <1>4

LEMMA KnownStep ==
  ASSUME IInv, CInv, NEW r, QInv(r), [Next]_vars, stateIndex' = stateIndex
  PROVE  KeysKnown(r)'
<1>1. CommittedHeights' = CommittedHeights
  BY DEF CommittedHeights
<1>2. \A n \in CommittedHeights, f \in Family : familyRange'[<<f, n>>] = familyRange[<<f, n>>]
  BY CommittedRange
<1>3. ASSUME NEW f \in Family, NEW id \in Nat, <<f, id>> \in DOMAIN blockIndex'
      PROVE  \/ \E n \in CommittedHeights : id = familyRange[<<f, n>>].first
             \/ \E k \in 1 .. Len(r) : id = r[k].first[f]
  <2>1. CASE <<f, id>> \in DOMAIN blockIndex
    BY <2>1 DEF QInv, KeysKnown
  <2>2. ASSUME PutBlockIndex, NEW k \in 1 .. Len(ranges), id = ranges[k][f].first
        PROVE  \E m \in 1 .. Len(r) : id = r[m].first[f]
    <3>1. stage \notin {"idle", "assign"}
      BY <2>2 DEF PutBlockIndex
    <3>2. k \in 1 .. Len(r) /\ r[k].first[f] = ranges[k][f].first
      BY <3>1, BatchInRun DEF QInv
    <3> QED
      BY <2>2, <3>2
  <2> QED
    BY <1>3, <2>1, <2>2, IndexSteps, BatchIndex
<1> QED
  BY <1>1, <1>2, <1>3 DEF KeysKnown

-----------------------------------------------------------------------------
(* The commit: the batch leaves the run and joins the chain. *)
LEMMA CommitHead ==
  ASSUME IInv, CInv, NEW r, QInv(r), PutState, NEW P \in Nat, P = Len(pending)
  PROVE  /\ P > 0 /\ Opened'.next = cursor /\ cursor \in [Family -> Nat]
         /\ HeadHash' = r[P].block.hash
         /\ Opened'.next[BlockHeader] = Opened.next[BlockHeader] + P
         /\ Opened.next[BlockHeader] \in Nat
<1>1. /\ up /\ stage = "state" /\ P > 0 /\ state.start \in Nat /\ state.start <= state.next[BlockHeader]
      /\ stateIndex'.start = state.start /\ stateIndex'.next = cursor /\ stateIndex'.started
      /\ state.next[BlockHeader] \in Nat /\ stateIndex'.next[BlockHeader] = state.next[BlockHeader] + P
  BY CommitHeights
<1>2. cursor \in [Family -> Nat] /\ state = Opened
  BY <1>1, OpenedFacts DEF IInv, TypeOK
<1>3. PICK x \in Nat : x = state.next[BlockHeader]
  BY <1>1
<1>4. PICK y \in Nat : y = stateIndex'.next[BlockHeader] /\ y = x + P
  BY <1>1, <1>3
<1>5. Opened' = stateIndex'
  <2>1. stateIndex'.next[BlockHeader] # 0
    BY <1>1, <1>4
  <2> QED
    BY <2>1 DEF Opened
<1>6. HasLastBlock(Opened)' /\ LastBlockId(Opened)' = x + P - 1
  <2>1. y > 0 /\ y - 1 >= state.start /\ y - 1 = x + P - 1
    BY <1>1, <1>3, <1>4
  <2> QED
    BY <1>1, <1>4, <1>5, <2>1 DEF HasLastBlock, LastBlockId
<1>7. HeadHash' = blockHash'[x + P - 1]
  BY <1>6 DEF HeadHash
<1>8. P \in 1 .. Len(pending)
  BY <1>1
<1>9. pending[P].number = x + P - 1
  BY <1>3, <1>8 DEF IInv, MemoryAgrees
<1>10. blockHash[pending[P].number] = pending[P].hash
  BY <1>1, <1>8 DEF CInv, MetadataStored, Hashed
<1>11. r[P].block = pending[P]
  BY <1>1, <1>8, Families, BatchInRun DEF QInv
<1>12. blockHash' = blockHash
  BY DEF PutState
<1>13. HeadHash' = r[P].block.hash
  BY <1>7, <1>9, <1>10, <1>11, <1>12
<1> QED
  BY <1>1, <1>2, <1>3, <1>4, <1>5, <1>13

LEMMA CommitRun ==
  ASSUME IInv, CInv, NEW r, QInv(r), PutState
  PROVE  \E q : /\ q \in Seq(Entry) /\ Len(q) = Len(r) - Len(pending) /\ Len(pending) <= Len(r)
                /\ Run(q)'
                /\ \A k \in 1 .. Len(r) - Len(pending) :
                     Len(pending) + k \in 1 .. Len(r) /\ q[k] = r[Len(pending) + k]
<1>a. PICK P \in Nat : P = Len(pending)
  BY CommitHeights
<1>b. PICK R \in Nat : R = Len(r)
  BY DEF QInv, Run
<1>0. PICK q : q = [k \in 1 .. R - P |-> r[P + k]]
  OBVIOUS
<1>1. Run(r) /\ RunAhead(r) /\ BatchTiled /\ r \in Seq(Entry)
  BY DEF QInv, Run
<1>2. stage \notin {"idle", "assign"} /\ P > 0
  BY <1>a, CommitHeights
<1>3. P <= R /\ P \in 1 .. R
  BY <1>a, <1>b, <1>2, Families, BatchEnd
<1>4. R - P \in Nat
  BY <1>3
<1>5. \A k \in 1 .. R - P : P + k \in 1 .. Len(r) /\ q[k] = r[P + k]
  BY <1>b, <1>0, <1>3, <1>4
<1>6. q \in Seq(Entry) /\ Len(q) = R - P
  BY <1>b, <1>0, <1>1, <1>4, <1>5
<1>7. ASSUME NEW f \in Family
      PROVE  /\ r[P].first[f] + Size(r[P].block, f) = cursor[f] /\ cursor[f] \in Nat
             /\ \A k \in 1 .. R - P : cursor[f] <= q[k].first[f]
  <2>1. /\ cursor[f] \in Nat /\ r[P].first[f] + Size(r[P].block, f) = cursor[f]
        /\ \A k \in 1 .. Len(r) : k > P => cursor[f] <= r[k].first[f]
    BY <1>a, <1>2, BatchEnd
  <2>2. \A k \in 1 .. R - P : P + k > P
    OBVIOUS
  <2> QED
    BY <1>5, <2>1, <2>2
<1>8. /\ Opened'.next = cursor /\ cursor \in [Family -> Nat] /\ HeadHash' = r[P].block.hash
      /\ Opened'.next[BlockHeader] = Opened.next[BlockHeader] + P
      /\ Opened.next[BlockHeader] \in Nat
  BY <1>a, CommitHead
<1>9. ASSUME Len(q) > 0
      PROVE  q[1].first = cursor /\ q[1].block.parent = r[P].block.hash
  <2>1. 1 \in 1 .. R - P /\ P \in 1 .. Len(r) - 1 /\ P + 1 \in 1 .. Len(r)
    BY <1>b, <1>2, <1>3, <1>4, <1>6, <1>9
  <2>2. q[1] = r[P + 1]
    BY <1>5, <2>1
  <2>3. /\ r[P + 1].block.parent = r[P].block.hash
        /\ \A f \in Family : r[P + 1].first[f] = r[P].first[f] + Size(r[P].block, f)
    BY <1>1, <2>1 DEF Run
  <2>4. r[P + 1].first \in [Family -> Nat]
    BY <1>1, <2>1, RunEntry
  <2>5. r[P + 1].first = cursor
    BY <1>7, <1>8, <2>3, <2>4
  <2> QED
    BY <2>2, <2>3, <2>5
<1>10. ASSUME NEW k \in 1 .. Len(q) - 1
       PROVE  /\ q[k + 1].block.parent = q[k].block.hash
              /\ \A f \in Family : q[k + 1].first[f] = q[k].first[f] + Size(q[k].block, f)
  <2>1. k \in 1 .. R - P /\ k + 1 \in 1 .. R - P /\ P + k \in 1 .. Len(r) - 1 /\ P + (k + 1) = (P + k) + 1
    BY <1>b, <1>3, <1>4, <1>6
  <2>2. q[k] = r[P + k] /\ q[k + 1] = r[(P + k) + 1]
    BY <1>5, <2>1
  <2> QED
    BY <1>1, <2>1, <2>2 DEF Run
<1>11. ASSUME NEW k \in 1 .. Len(q)
       PROVE  /\ q[k].block.number = Opened'.next[BlockHeader] + k - 1
              /\ \A f \in Family :
                   /\ Opened'.next[f] <= q[k].first[f]
                   /\ \A m \in 1 .. k - 1 : q[m].first[f] + Size(q[m].block, f) <= q[k].first[f]
  <2>1. k \in 1 .. R - P /\ q[k] = r[P + k] /\ P + k \in 1 .. Len(r)
    BY <1>5, <1>6
  <2>2. q[k].block.number = Opened'.next[BlockHeader] + k - 1
    <3>1. q[k].block.number = Opened.next[BlockHeader] + (P + k) - 1
      BY <1>1, <2>1 DEF Run
    <3>2. PICK x \in Nat : x = Opened.next[BlockHeader] /\ Opened'.next[BlockHeader] = x + P
      BY <1>8
    <3>3. k \in Nat
      BY <2>1
    <3>4. x + (P + k) - 1 = (x + P) + k - 1
      BY <3>3
    <3> QED
      BY <3>1, <3>2, <3>4
  <2>3. ASSUME NEW f \in Family, NEW m \in 1 .. k - 1
        PROVE  q[m].first[f] + Size(q[m].block, f) <= q[k].first[f]
    <3>1. m \in 1 .. R - P /\ P + m \in 1 .. (P + k) - 1
      BY <1>4, <2>1
    <3>2. q[m] = r[P + m]
      BY <1>5, <3>1
    <3> QED
      BY <1>1, <2>1, <3>1, <3>2 DEF Run
  <2> QED
    BY <1>7, <1>8, <2>1, <2>2, <2>3
<1>12. Run(q)'
  BY <1>6, <1>8, <1>9, <1>10, <1>11 DEF Run, Size, Entry
<1> QED
  BY <1>a, <1>b, <1>3, <1>5, <1>6, <1>12

LEMMA CommitStep ==
  ASSUME IInv, CInv, NEW r, QInv(r), PutState
  PROVE  \E q : (Run(q) /\ RunAhead(q) /\ Beyond(q) /\ KeysKnown(q))'
<1>1. Run(r) /\ RunAhead(r) /\ r \in Seq(Entry) /\ [Next]_vars
  BY DEF QInv, Run, Next, Flushing
<1>2. PICK P \in Nat : P = Len(pending)
  BY CommitHeights
<1>3. PICK R \in Nat : R = Len(r)
  BY <1>1
<1>4. PICK q : /\ q \in Seq(Entry) /\ Len(q) = Len(r) - Len(pending) /\ Len(pending) <= Len(r)
               /\ Run(q)'
               /\ \A k \in 1 .. Len(r) - Len(pending) :
                    Len(pending) + k \in 1 .. Len(r) /\ q[k] = r[Len(pending) + k]
  BY CommitRun
<1>5. /\ q \in Seq(Entry) /\ Len(q) = R - P /\ P <= R /\ Run(q)'
      /\ \A k \in 1 .. R - P : P + k \in 1 .. Len(r) /\ q[k] = r[P + k]
  BY <1>2, <1>3, <1>4
<1>6. /\ pending' = <<>> /\ stage' = "idle" /\ UNCHANGED <<bitmap, blockIndex, familyRange>>
      /\ stage \notin {"idle", "assign"}
  BY DEF PutState
<1>7. RunAhead(q)'
  BY <1>6 DEF RunAhead
<1>8. Opened'.next = cursor
  BY <1>2, CommitHead
<1>9. \A k \in 1 .. R : k > P => k - P \in 1 .. Len(q) /\ q[k - P] = r[k]
  <2>1. ASSUME NEW k \in 1 .. R, k > P PROVE k - P \in 1 .. Len(q) /\ q[k - P] = r[k]
    <3>1. k - P \in 1 .. R - P /\ P + (k - P) = k
      BY <2>1
    <3> QED
      BY <1>5, <3>1
  <2> QED
    BY <2>1
<1>10. ASSUME NEW f \in Family, NEW w \in Filter, NEW id \in Nat, cursor[f] <= id, Marked(f, w, id)
       PROVE  RunMarks(q, f, w, id)
  <2>1. state = Opened /\ state.next[f] <= cursor[f] /\ state.next[f] \in Nat /\ cursor[f] \in Nat
    BY <1>6, OpenedFacts DEF IInv, TypeOK, StateType, BatchShape
  <2>2. Opened.next[f] <= id
    BY <1>10, <2>1
  <2>3. RunMarks(r, f, w, id)
    BY <1>10, <2>2 DEF QInv, Beyond
  <2>4. PICK k \in 1 .. Len(r) : \E j \in 1 .. Size(r[k].block, f) :
          id = r[k].first[f] + j - 1 /\ w \in r[k].block.rows[f][j].filters
    BY <2>3 DEF RunMarks
  <2>5. PICK j \in 1 .. Size(r[k].block, f) :
          id = r[k].first[f] + j - 1 /\ w \in r[k].block.rows[f][j].filters
    BY <2>4
  <2>6. r[k].first[f] \in Nat /\ Size(r[k].block, f) \in Nat
    BY <1>1, RunEntry
  <2>7. ~(r[k].first[f] + Size(r[k].block, f) <= cursor[f])
    BY <1>10, <2>1, <2>5, <2>6
  <2>8. k \notin 1 .. Len(pending)
    BY <1>6, <2>7, BatchEnd
  <2>9. k > P
    BY <1>2, <1>3, <2>8
  <2> QED
    BY <1>3, <1>9, <2>5, <2>9 DEF RunMarks
<1>11. Beyond(q)'
  BY <1>6, <1>8, <1>10 DEF Beyond, RunMarks, Marked, Page, Size
<1>12. ASSUME NEW f \in Family, NEW id \in Nat, <<f, id>> \in DOMAIN blockIndex
       PROVE  \/ \E n \in CommittedHeights' : id = familyRange'[<<f, n>>].first
              \/ \E k \in 1 .. Len(q) : id = q[k].first[f]
  <2>1. ASSUME NEW n \in CommittedHeights, id = familyRange[<<f, n>>].first
        PROVE  n \in CommittedHeights' /\ id = familyRange'[<<f, n>>].first
    <3>1. CommittedUnchanged /\ n \in CommittedIds(stateIndex, BlockHeader)
      BY <1>1, InvStep, BatchHeights
    <3>2. n \in CommittedIds(stateIndex', BlockHeader)
      BY <3>1, Families DEF CommittedUnchanged
    <3> QED
      BY <1>6, <2>1, <3>2 DEF CommittedIds, CommittedHeights, FirstId
  <2>2. ASSUME NEW k \in 1 .. Len(r), id = r[k].first[f], ~(k > P)
        PROVE  \E n \in CommittedHeights' : id = familyRange'[<<f, n>>].first
    <3>1. k \in 1 .. Len(pending)
      BY <1>2, <1>3, <2>2
    <3>2. PICK n : n = pending[k].number
      OBVIOUS
    <3>3. familyRange'[<<f, n>>] = ranges[k][f]
      BY <3>1, <3>2, NewRange
    <3>4. id = ranges[k][f].first
      BY <1>1, <1>6, <2>2, <3>1, BatchInRun
    <3>5. n \in CommittedHeights'
      <4>1. PICK x \in Nat : x = state.next[BlockHeader] /\ x >= state.start
        BY CommitHeights
      <4>2. /\ stateIndex'.start = state.start /\ stateIndex'.next[BlockHeader] = x + P /\ state.start \in Nat
        BY <1>2, <4>1, CommitHeights
      <4>3. n = x + k - 1
        BY <3>1, <3>2, <4>1 DEF IInv, MemoryAgrees
      <4>4. n \in state.start .. (x + P) - 1
        BY <1>2, <3>1, <4>1, <4>2, <4>3
      <4> QED
        BY <4>2, <4>4 DEF CommittedHeights
    <3> QED
      BY <3>3, <3>4, <3>5
  <2>3. \/ \E n \in CommittedHeights : id = familyRange[<<f, n>>].first
        \/ \E k \in 1 .. Len(r) : id = r[k].first[f]
    BY <1>12 DEF QInv, KeysKnown
  <2> QED
    BY <1>3, <1>9, <2>1, <2>2, <2>3
<1>13. KeysKnown(q)'
  BY <1>6, <1>12 DEF KeysKnown
<1> QED
  BY <1>5, <1>7, <1>11, <1>13

-----------------------------------------------------------------------------
HasRun == \E r : QInv(r)

LEMMA InitHasRun == Init => HasRun
<1> SUFFICES ASSUME Init PROVE HasRun
  OBVIOUS
<1>1. PICK r : r = <<>>
  OBVIOUS
<1>2. r \in Seq(Entry) /\ Len(r) = 0
  BY <1>1
<1>3. Run(r)
  BY <1>2 DEF Run
<1>4. stage = "idle" /\ pending = <<>> /\ DOMAIN bitmap = {} /\ DOMAIN blockIndex = {}
  BY DEF Init, EmptyTable
<1>5. RunAhead(r) /\ BatchTiled /\ PagesMade /\ PagesStored /\ BatchKeys
  BY <1>4 DEF RunAhead, BatchTiled, PagesMade, PagesStored, BatchKeys, Paging
<1>6. BitmapType /\ Beyond(r) /\ StatsNeverUnderstate /\ KeysKnown(r)
  BY <1>4 DEF BitmapType, Beyond, Marked, StatsNeverUnderstate, KeysKnown
<1>7. CommittedHeights = {}
  BY Families DEF CommittedHeights, Init, DefaultState
<1>8. BitsStored /\ RangesOrdered /\ KeysStored
  BY <1>7 DEF BitsStored, RangesOrdered, KeysStored
<1> QED
  BY <1>3, <1>5, <1>6, <1>8 DEF HasRun, QInv

LEMMA RunStep == IInv /\ CInv /\ HasRun /\ [Next]_vars => HasRun'
<1> SUFFICES ASSUME IInv, CInv, HasRun, [Next]_vars PROVE HasRun'
  OBVIOUS
<1>1. PICK r : QInv(r)
  BY DEF HasRun
<1>2. BatchTiled' /\ BitmapType' /\ PagesMade' /\ PagesStored'
  BY <1>1, TiledStep, BitmapTypeStep, PagesMadeStep, PagesStoredStep DEF QInv
<1>3. BitsStored' /\ StatsNeverUnderstate'
  BY <1>1, BitsStep, StatsStep
<1>4. RangesOrdered' /\ KeysStored' /\ BatchKeys'
  BY <1>1, OrderedStep, KeysStep, BatchKeysStep DEF QInv
<1>5. CASE PutState
  <2>1. PICK q : (Run(q) /\ RunAhead(q) /\ Beyond(q) /\ KeysKnown(q))'
    BY <1>1, <1>5, CommitStep
  <2>2. QInv(q)'
    BY <1>2, <1>3, <1>4, <2>1 DEF QInv
  <2> QED
    BY <2>2 DEF HasRun
<1>6. ASSUME NEW q, QInv(q), stateIndex' = stateIndex, RunAhead(q)' PROVE HasRun'
  <2>1. Run(q)'
    BY <1>6, RunKept DEF QInv
  <2>2. Beyond(q)' /\ KeysKnown(q)'
    BY <1>6, BeyondStep, KnownStep
  <2>3. QInv(q)'
    BY <1>2, <1>3, <1>4, <1>6, <2>1, <2>2 DEF QInv
  <2> QED
    BY <2>3 DEF HasRun
<1>7. CASE Assigned
  <2>1. /\ stage = "assign" /\ Len(ranges) = Len(pending) /\ stage' = "append"
        /\ UNCHANGED <<stateIndex, pending, ranges>>
    BY <1>7 DEF Assigned, tables
  <2>2. PICK q : QInv(q) /\ Len(pending) <= Len(q)
    BY <1>1, <2>1, Extended
  <2>3. RunAhead(q)'
    BY <2>1, <2>2 DEF QInv, RunAhead
  <2> QED
    BY <1>6, <2>1, <2>2, <2>3
<1>8. CASE stateIndex' = stateIndex /\ ~Assigned /\ ~PutState
  <2>1. RunAhead(r)'
    BY <1>1, <1>8, AheadStep DEF QInv
  <2> QED
    BY <1>1, <1>6, <1>8, <2>1
<1> QED
  BY <1>5, <1>7, <1>8, FirstKept

(* What the run guarantees is what a query relies on. *)
LEMMA RunSuffices == IInv /\ CInv /\ HasRun => QueriesExact
<1> SUFFICES ASSUME IInv, CInv, HasRun PROVE QueriesExact
  OBVIOUS
<1>1. PICK r : QInv(r)
  BY DEF HasRun
<1>2. BitmapsExact
  <2> SUFFICES ASSUME NEW n \in CommittedHeights, NEW f \in Family, NEW w \in Filter,
                      NEW j \in 1 .. familyRange[<<f, n>>].count
               PROVE  (w \in BlockWithHash(blockHash[n]).rows[f][j].filters) <=>
                        Marked(f, w, familyRange[<<f, n>>].first + j - 1)
    BY DEF BitmapsExact, CommittedHeights, Marked
  <2>1. PICK b \in Blocks : BlockStored(n, b) /\ BlockBits(n, b)
    BY <1>1 DEF QInv, BitsStored
  <2>2. blockHash[n] = b.hash /\ familyRange[<<f, n>>].count = Size(b, f)
    BY <2>1 DEF BlockStored, RangeStored, Size
  <2>3. BlockWithHash(b.hash) = b
    BY FinalityAssumption DEF BlockWithHash
  <2> QED
    BY <2>1, <2>2, <2>3 DEF BlockBits
<1>3. SeekFindsBlock
  <2> SUFFICES ASSUME NEW n \in CommittedHeights, NEW f \in Family,
                      NEW id \in familyRange[<<f, n>>].first ..
                                 familyRange[<<f, n>>].first + familyRange[<<f, n>>].count - 1
               PROVE  \E m \in 0 .. id :
                        /\ <<f, m>> \in DOMAIN blockIndex /\ blockIndex[<<f, m>>] = n
                        /\ \A o \in m + 1 .. id : <<f, o>> \notin DOMAIN blockIndex
    BY DEF SeekFindsBlock, CommittedHeights
  <2>1. \A x \in CommittedHeights :
          familyRange[<<f, x>>].first \in Nat /\ familyRange[<<f, x>>].count \in Nat
    <3>1. ASSUME NEW x \in CommittedHeights
          PROVE  familyRange[<<f, x>>].first \in Nat /\ familyRange[<<f, x>>].count \in Nat
      <4>1. PICK b \in Blocks : BlockStored(x, b)
        BY DEF CInv, BlocksStored
      <4>2. /\ familyRange[<<f, x>>].first \in Nat
            /\ familyRange[<<f, x>>].count = Len(b.rows[f])
        BY <4>1 DEF BlockStored, RangeStored
      <4> QED
        BY <4>2, BlockFacts
    <3> QED
      BY <3>1
  <2>2. PICK m \in Nat, c \in Nat : m = familyRange[<<f, n>>].first /\ c = familyRange[<<f, n>>].count
    BY <2>1
  <2>3. id \in Nat /\ m <= id /\ id < m + c /\ c > 0
    BY <2>2
  <2>4. <<f, m>> \in DOMAIN blockIndex /\ blockIndex[<<f, m>>] = n
    BY <1>1, <2>2, <2>3 DEF QInv, KeysStored, KeyStored
  <2>5. m + c <= stateIndex.next[f] /\ stateIndex.next[f] \in Nat /\ stateIndex.next[f] <= Opened.next[f]
    BY <1>1, <2>2, OpenedIds DEF QInv, RangesOrdered, RangeEnd
  <2>6. ASSUME NEW o \in m + 1 .. id, <<f, o>> \in DOMAIN blockIndex PROVE FALSE
    <3>1. o \in Nat /\ m < o /\ o < m + c
      BY <2>3, <2>6
    <3>2. ASSUME NEW x \in CommittedHeights, o = familyRange[<<f, x>>].first PROVE FALSE
      <4>1. x \in Nat /\ n \in Nat
        BY BatchHeights
      <4>2. CASE x < n
        <5>1. PICK d \in Nat : d = familyRange[<<f, x>>].count
          BY <2>1
        <5>2. o + d <= m
          BY <1>1, <2>2, <3>2, <4>2, <5>1 DEF QInv, RangesOrdered, RangeEnd
        <5> QED
          BY <3>1, <5>2
      <4>3. CASE n < x
        <5>1. m + c <= o
          BY <1>1, <2>2, <3>2, <4>3 DEF QInv, RangesOrdered, RangeEnd
        <5> QED
          BY <3>1, <5>1
      <4>4. CASE x = n
        BY <2>2, <3>1, <3>2, <4>4
      <4> QED
        BY <4>1, <4>2, <4>3, <4>4
    <3>3. ASSUME NEW k \in 1 .. Len(r), o = r[k].first[f] PROVE FALSE
      <4>1. Opened.next[f] <= o
        BY <1>1, <3>3 DEF QInv, Run
      <4>2. Opened.next[f] \in Nat
        BY OpenedFacts
      <4> QED
        BY <2>5, <3>1, <4>1, <4>2
    <3> QED
      BY <1>1, <2>6, <3>1, <3>2, <3>3 DEF QInv, KeysKnown
  <2> QED
    BY <2>2, <2>3, <2>4, <2>6
<1>4. StatsNeverUnderstate
  BY <1>1 DEF QInv
<1> QED
  BY <1>2, <1>3, <1>4 DEF QueriesExact

(***************************************************************************)
(* A query by filter finds exactly the committed records that match it,    *)
(* the statistics it prunes with hide none of them, and the id of a record *)
(* leads to its block: whatever bitmap pages, statistics and block index   *)
(* keys abandoned flushes have left behind.                                *)
(***************************************************************************)
THEOREM QueriesFindAll == Spec => []QueriesExact
<1>1. Init => IInv /\ CInv /\ HasRun
  BY InitIInv, InitCInv, InitHasRun
<1>2. IInv /\ CInv /\ HasRun /\ [Next]_vars => (IInv /\ CInv /\ HasRun)'
  BY InvStep, CInvStep, RunStep
<1> QED
  BY <1>1, <1>2, RunSuffices, PTL DEF Spec

-----------------------------------------------------------------------------
(***************************************************************************)
(* What the validator reports.  It compares tables that the invariants     *)
(* above tie to the committed blocks, and it asks more of them: that the   *)
(* ranges of committed blocks join up to the frontier and leave no id out, *)
(* and that nothing is stored about heights before the first block.        *)
(***************************************************************************)
RangesJoin ==
  \A n \in CommittedHeights, f \in Family :
    /\ n + 1 \in CommittedHeights => RangeEnd(f, n) = familyRange[<<f, n + 1>>].first
    /\ n + 1 = stateIndex.next[BlockHeader] => RangeEnd(f, n) = stateIndex.next[f]
HeaderIds ==
  /\ \A n \in CommittedHeights : familyRange[<<BlockHeader, n>>].first = n
  /\ \A k \in 1 .. Len(ranges) : ranges[k][BlockHeader].first = pending[k].number
IdsCovered ==
  \A f \in Family : \A id \in CommittedIds(stateIndex, f) :
    \E n \in CommittedHeights : familyRange[<<f, n>>].first <= id /\ id < RangeEnd(f, n)

(* Nothing is stored about a height before the first. *)
RangesAbove == \A f \in Family, n \in Nat : <<f, n>> \in DOMAIN familyRange => Opened.start <= n
LocationsAbove == \A id \in Nat : <<BlockHeader, id>> \in DOMAIN location => Opened.start <= id
MarksAbove == \A w \in Filter, id \in Nat : Marked(BlockHeader, w, id) => Opened.start <= id

VInv == /\ RangesJoin /\ HeaderIds /\ IdsCovered
        /\ RangesAbove /\ LocationsAbove /\ MarksAbove

-----------------------------------------------------------------------------
LEMMA StoredRange ==
  ASSUME IInv, CInv, NEW n \in CommittedHeights, NEW f \in Family
  PROVE  /\ <<f, n>> \in DOMAIN familyRange /\ n \in Nat /\ n \in DOMAIN blockHash
         /\ familyRange[<<f, n>>].first \in Nat /\ familyRange[<<f, n>>].count \in Nat
<1>1. PICK b \in Blocks : BlockStored(n, b)
  BY DEF CInv, BlocksStored
<1>2. /\ <<f, n>> \in DOMAIN familyRange /\ familyRange[<<f, n>>].first \in Nat
      /\ familyRange[<<f, n>>].count = Len(b.rows[f]) /\ n \in DOMAIN blockHash
  BY <1>1 DEF BlockStored, RangeStored
<1> QED
  BY <1>2, BlockFacts, BatchHeights

LEMMA OpenedStart ==
  ASSUME IInv, [Next]_vars
  PROVE  Opened'.start = Opened.start
<1>1. CASE stateIndex' = stateIndex
  BY <1>1 DEF Opened, StartAt
<1>2. CASE PutState
  <2>1. /\ up /\ stateIndex'.start = state.start /\ Len(pending) \in Nat /\ Len(pending) > 0
        /\ state.next[BlockHeader] \in Nat
        /\ stateIndex'.next[BlockHeader] = state.next[BlockHeader] + Len(pending)
    BY <1>2, CommitHeights
  <2>2. stateIndex'.next[BlockHeader] # 0
    BY <2>1
  <2> QED
    BY <2>1, <2>2, OpenedFacts DEF Opened
<1> QED
  BY <1>1, <1>2, FirstKept

LEMMA StartBelow ==
  ASSUME IInv, up
  PROVE  /\ Opened.start \in Nat /\ Opened.start <= state.next[BlockHeader]
         /\ state.next[BlockHeader] \in Nat /\ Opened.start = state.start
<1>1. state = Opened
  BY OpenedFacts
<1>2. /\ state.next[BlockHeader] \in Nat /\ FirstId(state, BlockHeader) \in Nat
      /\ FirstId(state, BlockHeader) <= state.next[BlockHeader]
  BY Families, CommittedBelow
<1> QED
  BY <1>1, <1>2 DEF FirstId

LEMMA RangesAboveStep ==
  ASSUME IInv, RangesAbove, [Next]_vars
  PROVE  RangesAbove'
<1>1. ASSUME NEW f \in Family, NEW n \in Nat, <<f, n>> \in DOMAIN familyRange'
      PROVE  Opened.start <= n
  <2>1. CASE familyRange' = familyRange
    BY <1>1, <2>1 DEF RangesAbove
  <2>2. CASE PutFamilies
    <3>1. <<f, n>> \in DOMAIN familyRange \/ n \in Heights
      BY <1>1, <2>2 DEF PutFamilies, PutBatch
    <3>2. ASSUME n \in Heights PROVE Opened.start <= n
      <4>1. PICK k \in 1 .. Len(pending) : n = pending[k].number
        BY <3>2, BatchHeights
      <4>2. Opened.start \in Nat /\ Opened.start <= state.next[BlockHeader] /\ state.next[BlockHeader] \in Nat
        BY <2>2, StartBelow DEF PutFamilies, IInv, BatchShape
      <4>3. n = state.next[BlockHeader] + k - 1 /\ k \in Nat /\ k >= 1
        BY <4>1 DEF IInv, MemoryAgrees, TypeOK
      <4> QED
        BY <4>2, <4>3
    <3> QED
      BY <3>1, <3>2 DEF RangesAbove
  <2>3. familyRange' = familyRange \/ PutFamilies
    BY DEF Next, Flushing, vars, tables, scratch, Open, Append1, BeginFlush, AssignRange, Assigned,
       AppendItem, BeginPutPayload, PutPayload, FamilyDone, PutLocations, ReadPages, PutPage, PutStats,
       PutBlockHashes, PutBlockIndex, PutState, FlushError, Crash
  <2> QED
    BY <2>1, <2>2, <2>3
<1> QED
  BY <1>1, OpenedStart DEF RangesAbove

LEMMA LocationsAboveStep ==
  ASSUME IInv, LocationsAbove, [Next]_vars
  PROVE  LocationsAbove'
<1>1. ASSUME NEW id \in Nat, <<BlockHeader, id>> \in DOMAIN location'
      PROVE  Opened.start <= id
  <2>1. CASE location' = location
    BY <1>1, <2>1 DEF LocationsAbove
  <2>2. CASE PutLocations
    <3>1. <<BlockHeader, id>> \in DOMAIN location \/ <<BlockHeader, id>> \in DOMAIN locs
      BY <1>1, <2>2 DEF PutLocations, PutBatch
    <3>2. ASSUME <<BlockHeader, id>> \in DOMAIN locs PROVE Opened.start <= id
      <4>1. up
        BY <2>2 DEF PutLocations, IInv, BatchShape
      <4>2. state.next[BlockHeader] <= id
        BY <3>2, <4>1, Families DEF IInv, NewLocations
      <4> QED
        BY <4>1, <4>2, StartBelow
    <3> QED
      BY <3>1, <3>2 DEF LocationsAbove
  <2>3. location' = location \/ PutLocations
    BY DEF Next, Flushing, vars, tables, scratch, Open, Append1, BeginFlush, AssignRange, Assigned,
       AppendItem, BeginPutPayload, PutPayload, FamilyDone, ReadPages, PutPage, PutStats,
       PutBlockHashes, PutFamilies, PutBlockIndex, PutState, FlushError, Crash
  <2> QED
    BY <2>1, <2>2, <2>3
<1> QED
  BY <1>1, OpenedStart DEF LocationsAbove

LEMMA MarksAboveStep ==
  ASSUME IInv, CInv, NEW r, QInv(r), MarksAbove, [Next]_vars
  PROVE  MarksAbove'
<1>1. ASSUME NEW w \in Filter, NEW id \in Nat, Marked(BlockHeader, w, id)'
      PROVE  Opened.start <= id
  <2>1. CASE bitmap' = bitmap
    <3>1. Marked(BlockHeader, w, id)
      BY <1>1, <2>1 DEF Marked, Page
    <3> QED
      BY <3>1 DEF MarksAbove
  <2>2. ASSUME NEW key \in unput, PutPage(key) PROVE Opened.start <= id
    <3>1. up /\ stage # "idle"
      BY <2>2 DEF PutPage, IInv, BatchShape
    <3>2. Marked(BlockHeader, w, id) \/ BatchMarks(BlockHeader, w, id)
      BY <1>1, <2>2, Families, PutPageMarks
    <3>3. BatchMarks(BlockHeader, w, id) => state.next[BlockHeader] <= id
      BY <3>1, Families, BatchIds
    <3> QED
      BY <3>1, <3>2, <3>3, StartBelow DEF MarksAbove
  <2> QED
    BY <2>1, <2>2, BitmapSteps
<1> QED
  BY <1>1, OpenedStart DEF MarksAbove

LEMMA HeaderIdsStep ==
  ASSUME IInv, CInv, HeaderIds, [Next]_vars
  PROVE  HeaderIds'
<1>1. ASSUME NEW n \in CommittedHeights' PROVE familyRange'[<<BlockHeader, n>>].first = n
  <2>1. CASE n \in CommittedHeights
    BY <2>1, Families, CommittedRange DEF HeaderIds
  <2>2. ASSUME PutState, NEW k \in 1 .. Len(pending), n = pending[k].number
        PROVE  familyRange'[<<BlockHeader, n>>].first = n
    <3>1. familyRange'[<<BlockHeader, n>>] = ranges[k][BlockHeader] /\ k \in 1 .. Len(ranges)
      BY <2>2, Families, NewRange
    <3> QED
      BY <2>2, <3>1 DEF HeaderIds
  <2>3. stateIndex' = stateIndex => n \in CommittedHeights
    BY DEF CommittedHeights
  <2> QED
    BY <2>1, <2>2, <2>3, FirstKept, CommitHeights
<1>2. \A k \in 1 .. Len(ranges') : ranges'[k][BlockHeader].first = pending'[k].number
  <2>1. CASE AssignRange
    <3>1. PICK s \in [Family -> IdRange] :
            ranges' = Append(ranges, s) /\ \A f \in Family : s[f].first = cursor[f]
      BY <2>1, AssignedFirst
    <3>2. PICK L \in Nat : L = Len(ranges) /\ ranges \in Seq([Family -> IdRange])
      BY DEF IInv, TypeOK
    <3>3. /\ Len(ranges') = L + 1 /\ ranges'[L + 1] = s
          /\ \A k \in 1 .. L : ranges'[k] = ranges[k]
      BY <3>1, <3>2
    <3>4. pending' = pending /\ L + 1 \in 1 .. Len(pending) /\ stage # "idle"
      BY <2>1, <3>2 DEF AssignRange, IInv, TypeOK
    <3>5. s[BlockHeader].first = pending[L + 1].number
      <4>1. pending[L + 1].number = state.next[BlockHeader] + (L + 1) - 1
        BY <3>4 DEF IInv, MemoryAgrees
      <4>2. s[BlockHeader].first = state.next[BlockHeader] + L
        BY <3>1, <3>2, <3>4, Families DEF IInv, BatchShape
      <4>3. state.next[BlockHeader] \in Nat
        BY Families DEF IInv, TypeOK, StateType
      <4> QED
        BY <4>1, <4>2, <4>3
    <3> QED
      BY <3>2, <3>3, <3>4, <3>5 DEF HeaderIds
  <2>2. CASE ranges' = <<>>
    BY <2>2
  <2>3. CASE UNCHANGED <<ranges, pending>>
    BY <2>3 DEF HeaderIds
  <2>4. AssignRange \/ ranges' = <<>> \/ UNCHANGED <<ranges, pending>>
    BY DEF Next, Flushing, vars, tables, scratch, Open, Append1, BeginFlush, Assigned, ClearScratch,
       AppendItem, BeginPutPayload, PutPayload, FamilyDone, PutLocations, ReadPages, PutPage, PutStats,
       PutBlockHashes, PutFamilies, PutBlockIndex, PutState, FlushError, Crash, IInv, BatchShape, MemoryAgrees
  <2> QED
    BY <2>1, <2>2, <2>3, <2>4
<1> QED
  BY <1>1, <1>2 DEF HeaderIds

LEMMA JoinStep ==
  ASSUME IInv, CInv, BatchTiled, RangesJoin, [Next]_vars
  PROVE  RangesJoin'
<1>1. ASSUME NEW n \in CommittedHeights, NEW f \in Family
      PROVE  /\ RangeEnd(f, n)' = RangeEnd(f, n) /\ n \in Nat
             /\ familyRange'[<<f, n>>] = familyRange[<<f, n>>]
  BY CommittedRange, BatchHeights DEF RangeEnd
<1>2. CASE stateIndex' = stateIndex
  <2>1. CommittedHeights' = CommittedHeights
    BY <1>2 DEF CommittedHeights
  <2> QED
    BY <1>1, <1>2, <2>1 DEF RangesJoin
<1>3. CASE PutState
  <2>1. PICK P \in Nat : P = Len(pending) /\ P > 0 /\ P = Len(ranges)
    BY <1>3, CommitHeights
  <2>2. PICK x \in Nat : x = state.next[BlockHeader] /\ state.start <= x
    BY <1>3, CommitHeights
  <2>3. /\ up /\ stage # "idle" /\ stateIndex'.next = cursor /\ stateIndex'.next[BlockHeader] = x + P
        /\ state.start \in Nat /\ stateIndex'.start = state.start
    BY <1>3, <2>1, <2>2, CommitHeights
  <2>4. CommittedHeights' = state.start .. (x + P) - 1
    BY <2>3 DEF CommittedHeights
  <2>6. ASSUME NEW n \in CommittedHeights', n < x
        PROVE  /\ n \in CommittedHeights /\ state = stateIndex
    <3>1. state.start <= n /\ n \in Nat
      BY <2>3, <2>4
    <3>2. state = stateIndex
      <4>1. ASSUME state = StartAt(DefaultState) PROVE FALSE
        <5>1. state.start = x
          BY <2>2, <4>1, Families DEF StartAt, DefaultState
        <5> QED
          BY <2>3, <2>6, <3>1, <5>1
      <4> QED
        BY <2>3, <4>1 DEF IInv, MemoryAgrees
    <3> QED
      BY <2>2, <2>6, <3>1, <3>2 DEF CommittedHeights
  <2>7. ASSUME NEW n \in CommittedHeights', ~(n < x)
        PROVE  \E k \in 1 .. P : n = x + k - 1 /\ n = pending[k].number
    <3>1. PICK k \in Nat : n = x + k - 1 /\ k \in 1 .. P
      <4>1. n \in Nat /\ x <= n /\ n < x + P
        BY <2>3, <2>4, <2>7
      <4>2. n - x + 1 \in Nat /\ n = x + (n - x + 1) - 1 /\ n - x + 1 \in 1 .. P
        BY <4>1
      <4> QED
        BY <4>2
    <3>2. pending[k].number = x + k - 1
      BY <2>1, <2>2, <3>1 DEF IInv, MemoryAgrees
    <3> QED
      BY <3>1, <3>2
  <2>8. ASSUME NEW f \in Family, NEW k \in 1 .. P, NEW n, n = pending[k].number
        PROVE  /\ RangeEnd(f, n)' = ranges[k][f].first + ranges[k][f].count
               /\ familyRange'[<<f, n>>].first = ranges[k][f].first
    BY <1>3, <2>1, <2>8, NewRange DEF RangeEnd
  <2>9. ASSUME NEW n \in CommittedHeights', NEW f \in Family, n + 1 \in CommittedHeights'
        PROVE  RangeEnd(f, n)' = familyRange'[<<f, n + 1>>].first
    <3>0. n \in Nat
      BY <2>3, <2>4
    <3>1. CASE n + 1 < x
      <4>1. n \in CommittedHeights /\ n + 1 \in CommittedHeights
        BY <2>6, <2>9, <3>0, <3>1
      <4> QED
        BY <1>1, <4>1 DEF RangesJoin
    <3>2. CASE n < x /\ ~(n + 1 < x)
      <4>1. n \in CommittedHeights /\ state = stateIndex /\ n + 1 = x
        BY <2>6, <3>0, <3>2
      <4>2. RangeEnd(f, n) = state.next[f]
        BY <2>2, <4>1 DEF RangesJoin
      <4>3. PICK k \in 1 .. P : n + 1 = x + k - 1 /\ n + 1 = pending[k].number
        BY <2>7, <2>9, <3>2
      <4>4. k = 1
        BY <4>1, <4>3
      <4>5. ranges[1][f].first = state.next[f]
        BY <2>1, <2>3 DEF BatchTiled
      <4> QED
        BY <1>1, <2>8, <4>1, <4>2, <4>3, <4>4, <4>5
    <3>3. CASE ~(n < x)
      <4>1. PICK k \in 1 .. P : n = x + k - 1 /\ n = pending[k].number
        BY <2>7, <3>3
      <4>2. PICK m \in 1 .. P : n + 1 = x + m - 1 /\ n + 1 = pending[m].number
        BY <2>7, <2>9, <3>0, <3>3
      <4>3. m = k + 1 /\ k \in 1 .. P - 1
        BY <4>1, <4>2
      <4>4. ranges[k + 1][f].first = ranges[k][f].first + ranges[k][f].count
        BY <2>1, <2>3, <4>3 DEF BatchTiled
      <4> QED
        BY <2>8, <4>1, <4>2, <4>3, <4>4
    <3> QED
      BY <3>0, <3>1, <3>2, <3>3
  <2>10. ASSUME NEW n \in CommittedHeights', NEW f \in Family, n + 1 = stateIndex'.next[BlockHeader]
         PROVE  RangeEnd(f, n)' = stateIndex'.next[f]
    <3>1. n = x + P - 1 /\ ~(n < x)
      BY <2>1, <2>3, <2>4, <2>10
    <3>2. PICK k \in 1 .. P : n = x + k - 1 /\ n = pending[k].number
      BY <2>7, <3>1
    <3>3. k = P
      BY <3>1, <3>2
    <3>4. cursor[f] = ranges[P][f].first + ranges[P][f].count
      BY <2>1, <2>3 DEF BatchTiled
    <3> QED
      BY <2>3, <2>8, <3>2, <3>3, <3>4
  <2> QED
    BY <2>9, <2>10 DEF RangesJoin
<1> QED
  BY <1>2, <1>3, FirstKept

LEMMA CoveredStep ==
  ASSUME IInv, CInv, IdsCovered, [Next]_vars
  PROVE  IdsCovered'
<1>1. ASSUME NEW n \in CommittedHeights
      PROVE  /\ n \in CommittedHeights'
             /\ \A f \in Family : /\ RangeEnd(f, n)' = RangeEnd(f, n)
                                  /\ familyRange'[<<f, n>>].first = familyRange[<<f, n>>].first
  <2>1. CommittedUnchanged /\ n \in CommittedIds(stateIndex, BlockHeader)
    BY InvStep, BatchHeights
  <2>2. n \in CommittedHeights'
    BY <2>1, Families DEF CommittedUnchanged, CommittedHeights, CommittedIds, FirstId
  <2> QED
    BY <2>2, CommittedRange DEF RangeEnd
<1>2. ASSUME NEW f \in Family, NEW id \in CommittedIds(stateIndex, f)
      PROVE  \E n \in CommittedHeights' : familyRange'[<<f, n>>].first <= id /\ id < RangeEnd(f, n)'
  BY <1>1 DEF IdsCovered
<1>3. CASE stateIndex' = stateIndex
  BY <1>2, <1>3 DEF IdsCovered, CommittedIds, FirstId
<1>4. ASSUME PutState, NEW f \in Family, NEW id \in CommittedIds(stateIndex', f)
      PROVE  \E n \in CommittedHeights' : familyRange'[<<f, n>>].first <= id /\ id < RangeEnd(f, n)'
  <2>1. CASE id < state.next[f]
    BY <1>2, <1>4, <2>1, CommittedBefore
  <2>2. CASE ~(id < state.next[f])
    <3>1. /\ up /\ stage # "idle" /\ stateIndex'.next = cursor /\ Len(ranges) = Len(pending)
          /\ stateIndex'.start = state.start /\ state.start \in Nat
      BY <1>4, CommitHeights
    <3>2. state.next[f] \in Nat /\ cursor[f] \in Nat /\ FirstId(stateIndex', f) \in Nat
      BY <3>1, OpenedFacts DEF IInv, TypeOK, FirstId
    <3>3. id \in state.next[f] .. cursor[f] - 1
      BY <2>2, <3>1, <3>2 DEF CommittedIds
    <3>4. PICK k \in 1 .. Len(ranges) :
            ranges[k][f].first <= id /\ id < ranges[k][f].first + ranges[k][f].count
      BY <3>1, <3>3 DEF CInv, Assigns
    <3>5. PICK n : n = pending[k].number
      OBVIOUS
    <3>6. k \in 1 .. Len(pending) /\ familyRange'[<<f, n>>] = ranges[k][f]
      BY <1>4, <3>1, <3>5, NewRange
    <3>7. n \in CommittedHeights'
      <4>1. PICK x \in Nat : x = state.next[BlockHeader] /\ x >= state.start
        BY <1>4, CommitHeights
      <4>2. PICK P \in Nat : P = Len(pending) /\ stateIndex'.next[BlockHeader] = x + P
        BY <1>4, <4>1, CommitHeights
      <4>3. n = x + k - 1
        BY <3>5, <3>6, <4>1 DEF IInv, MemoryAgrees
      <4>4. n \in state.start .. (x + P) - 1
        BY <3>1, <3>6, <4>1, <4>2, <4>3
      <4> QED
        BY <3>1, <4>2, <4>4 DEF CommittedHeights
    <3> QED
      BY <3>4, <3>6, <3>7 DEF RangeEnd
  <2> QED
    BY <2>1, <2>2
<1> QED
  BY <1>3, <1>4, FirstKept DEF IdsCovered

LEMMA InitVInv == Init => VInv
<1> SUFFICES ASSUME Init PROVE VInv
  OBVIOUS
<1>1. CommittedHeights = {}
  BY Families DEF CommittedHeights, Init, DefaultState
<1>2. \A f \in Family : CommittedIds(stateIndex, f) = {}
  BY Families DEF CommittedIds, FirstId, Init, DefaultState
<1>3. RangesJoin /\ HeaderIds /\ IdsCovered
  BY <1>1, <1>2 DEF RangesJoin, HeaderIds, IdsCovered, Init, ScratchCleared
<1>4. RangesAbove /\ LocationsAbove /\ MarksAbove
  BY DEF RangesAbove, LocationsAbove, MarksAbove, Marked, Init, EmptyTable
<1> QED
  BY <1>3, <1>4 DEF VInv

LEMMA VInvStep == IInv /\ CInv /\ HasRun /\ VInv /\ [Next]_vars => VInv'
<1> SUFFICES ASSUME IInv, CInv, HasRun, VInv, [Next]_vars PROVE VInv'
  OBVIOUS
<1>1. PICK r : QInv(r)
  BY DEF HasRun
<1>2. BatchTiled
  BY <1>1 DEF QInv
<1> QED
  BY <1>1, <1>2, JoinStep, HeaderIdsStep, CoveredStep, RangesAboveStep, LocationsAboveStep, MarksAboveStep
     DEF VInv

-----------------------------------------------------------------------------
(* A record of a committed block, as the validator reads it. *)
LEMMA RecordRead ==
  ASSUME IInv, CInv, NEW r, QInv(r), NEW n \in CommittedHeights, NEW f \in Family, NEW id \in IdsOf(f, n)
  PROVE  \E b \in Blocks : \E j \in 1 .. Size(b, f) :
           /\ n \in DOMAIN blockHash /\ BlockWithHash(blockHash[n]) = b /\ b.number = n
           /\ Metadata(f, n).first \in Nat /\ Metadata(f, n).count = Size(b, f)
           /\ id = Metadata(f, n).first + j - 1 /\ RowOf(f, n, id) = b.rows[f][j]
           /\ id \in Nat /\ RowStored(f, id, b.rows[f][j].bytes)
           /\ \A w \in Filter : w \in b.rows[f][j].filters <=> Marked(f, w, id)
<1>1. PICK b \in Blocks : BlockStored(n, b) /\ BlockBits(n, b)
  BY DEF QInv, BitsStored
<1>2. /\ n \in DOMAIN blockHash /\ blockHash[n] = b.hash /\ b.number = n /\ RangeStored(f, n, b)
  BY <1>1 DEF BlockStored
<1>3. BlockWithHash(blockHash[n]) = b
  BY <1>2, FinalityAssumption DEF BlockWithHash
<1>4. PICK a \in Nat : a = Metadata(f, n).first /\ a = familyRange[<<f, n>>].first
  BY <1>2 DEF Metadata, RangeStored
<1>5. PICK c \in Nat : c = Metadata(f, n).count /\ c = Size(b, f)
  BY <1>2, BlockFacts DEF Metadata, RangeStored, Size
<1>6. id \in a .. a + c - 1
  BY <1>4, <1>5 DEF IdsOf, NextPrimaryId
<1>7. PICK j \in Nat : j = id - a + 1 /\ id = a + j - 1 /\ j \in 1 .. c /\ id \in Nat
  <2>1. id - a + 1 \in Nat /\ id = a + (id - a + 1) - 1 /\ id - a + 1 \in 1 .. c /\ id \in Nat
    BY <1>6
  <2> QED
    BY <2>1
<1>8. RowStored(f, id, b.rows[f][j].bytes)
  BY <1>2, <1>4, <1>5, <1>7 DEF RangeStored, Size
<1>9. \A w \in Filter : w \in b.rows[f][j].filters <=> Marked(f, w, id)
  BY <1>1, <1>4, <1>5, <1>7 DEF BlockBits
<1>10. RowOf(f, n, id) = b.rows[f][j]
  BY <1>3, <1>4, <1>7 DEF RowOf
<1> QED
  BY <1>2, <1>3, <1>4, <1>5, <1>7, <1>8, <1>9, <1>10

LEMMA RecordCommitted ==
  ASSUME IInv, CInv, NEW r, QInv(r), NEW n \in CommittedHeights, NEW f \in Family, NEW id \in IdsOf(f, n)
  PROVE  id \in Nat /\ id \in CommittedIds(stateIndex, f)
BY RecordRead DEF RowStored

LEMMA StartedThen ==
  ASSUME IInv, NEW n \in CommittedHeights
  PROVE  /\ stateIndex.started /\ Opened = stateIndex
         /\ stateIndex.start \in Nat /\ stateIndex.next[BlockHeader] \in Nat
         /\ stateIndex.start <= n /\ n < stateIndex.next[BlockHeader] /\ n \in Nat
<1>1. stateIndex.start \in Nat /\ stateIndex.next[BlockHeader] \in Nat
  BY Families DEF IInv, TypeOK, StateType
<1>2. stateIndex.start <= n /\ n < stateIndex.next[BlockHeader] /\ n \in Nat
  BY <1>1 DEF CommittedHeights
<1>3. stateIndex.started
  <2>1. ASSUME ~stateIndex.started PROVE FALSE
    <3>1. stateIndex.start = 0 /\ stateIndex.next[BlockHeader] = 0
      BY <2>1, Families DEF IInv, MemoryAgrees, DefaultState
    <3> QED
      BY <1>2, <3>1
  <2> QED
    BY <2>1
<1> QED
  BY <1>1, <1>2, <1>3, OpenedFacts

(* The id in front of a committed one is committed, or nothing is. *)
LEMMA Preceding ==
  ASSUME IInv, NEW f \in Family, NEW id \in CommittedIds(stateIndex, f), id \in Nat, NeedsPreceding(id),
         id # FirstId(stateIndex, f)
  PROVE  id - 1 \in CommittedIds(stateIndex, f)
<1>1. FirstId(stateIndex, f) \in Nat /\ stateIndex.next[f] \in Nat
  BY OpenedIds
<1> QED
  BY <1>1 DEF CommittedIds

LEMMA ZeroNeedsNone == ~NeedsPreceding(0)
<1>1. ITEMS_PER_BLOB \in Nat /\ ITEMS_PER_BLOB > 0
  BY SizesAssumption
<1>2. 0 % ITEMS_PER_BLOB = 0
  BY <1>1
<1> QED
  BY <1>2 DEF NeedsPreceding

(* The one location that the validator misses. *)
LEMMA MissedLocation ==
  ASSUME IInv, CInv, NEW r, QInv(r), VInv, NEW n \in CommittedHeights, NEW f \in Family,
         NEW i \in LocationIssues(f, n)
  PROVE  /\ f = BlockHeader /\ n = stateIndex.start /\ StartsInside
         /\ i = Issue(BlockHeader, stateIndex.start, "preceding location")
<1> DEFINE Of(id) == When(<<f, id>> \notin DOMAIN location, Issue(f, n, "location"))
                       \cup When(NeedsPreceding(id) /\ <<f, id - 1>> \notin DOMAIN location,
                                 Issue(f, n, "preceding location"))
<1>1. LocationIssues(f, n) = UNION {Of(id) : id \in IdsOf(f, n)}
  BY DEF LocationIssues
<1> HIDE DEF Of
<1>2. PICK id \in IdsOf(f, n) : i \in Of(id)
  BY <1>1
<1>3. id \in Nat /\ id \in CommittedIds(stateIndex, f)
  BY RecordCommitted
<1>4. \A jd \in CommittedIds(stateIndex, f) : <<f, jd>> \in DOMAIN location
  BY DEF IInv, Recoverable, CommittedLocated
<1>5. /\ NeedsPreceding(id) /\ <<f, id - 1>> \notin DOMAIN location
      /\ i = Issue(f, n, "preceding location")
  BY <1>2, <1>3, <1>4 DEF Of, When
<1>6. id = FirstId(stateIndex, f)
  BY <1>3, <1>4, <1>5, Preceding
<1>7. f = BlockHeader
  BY <1>5, <1>6, ZeroNeedsNone DEF FirstId
<1>8. id = stateIndex.start
  BY <1>6, <1>7 DEF FirstId
<1>9. id = n
  <2>1. PICK b \in Blocks : \E j \in 1 .. Size(b, f) :
          id = Metadata(f, n).first + j - 1
    BY RecordRead
  <2>2. PICK j \in 1 .. Size(b, f) : id = Metadata(f, n).first + j - 1
    BY <2>1
  <2>3. Size(b, f) = 1
    BY <1>7, BlockFacts DEF Size
  <2>4. Metadata(f, n).first = n /\ n \in Nat
    BY <1>7, StartedThen DEF VInv, HeaderIds, Metadata
  <2> QED
    BY <2>2, <2>3, <2>4
<1> QED
  BY <1>5, <1>7, <1>8, <1>9 DEF StartsInside

(* Where no location is missed, every record is read as it was written. *)
LEMMA PayloadSound ==
  ASSUME IInv, CInv, NEW r, QInv(r), VInv, NEW n \in CommittedHeights, NEW f \in Family,
         NEW id \in IdsOf(f, n), LocationIssues(f, n) = {}
  PROVE  Bounded(f, id) /\ Decodes(f, n, id)
<1>1. PICK b \in Blocks : \E j \in 1 .. Size(b, f) :
        /\ n \in DOMAIN blockHash /\ BlockWithHash(blockHash[n]) = b /\ b.number = n
        /\ Metadata(f, n).first \in Nat /\ Metadata(f, n).count = Size(b, f)
        /\ id = Metadata(f, n).first + j - 1 /\ RowOf(f, n, id) = b.rows[f][j]
        /\ id \in Nat /\ RowStored(f, id, b.rows[f][j].bytes)
  BY RecordRead
<1>2. PICK j \in 1 .. Size(b, f) :
        /\ n \in DOMAIN blockHash /\ BlockWithHash(blockHash[n]) = b /\ b.number = n
        /\ Metadata(f, n).first \in Nat /\ Metadata(f, n).count = Size(b, f)
        /\ id = Metadata(f, n).first + j - 1 /\ RowOf(f, n, id) = b.rows[f][j]
        /\ id \in Nat /\ RowStored(f, id, b.rows[f][j].bytes)
  BY <1>1
<1>3. PICK row \in Seq(Byte) : row = b.rows[f][j].bytes
  BY RowBytes DEF Size
<1>4. /\ id \in CommittedIds(stateIndex, f)
      /\ HoldsAt(blob[<<f, Partition(id)>>], PayloadStart(f, id), location[<<f, id>>], row)
  BY <1>2, <1>3 DEF RowStored
<1>5. <<f, Partition(id)>> \in DOMAIN blob /\ blob[<<f, Partition(id)>>] \in Seq(Byte)
  BY <1>4 DEF IInv, TypeOK, Recoverable, CommittedLocated
<1>6. Start(f, id) = PayloadStart(f, id)
  <2>1. CASE ~NeedsPreceding(id)
    BY <2>1 DEF Start, PayloadStart, NeedsPreceding
  <2>2. CASE NeedsPreceding(id) /\ id # FirstId(stateIndex, f)
    BY <2>2 DEF Start, PayloadStart, NeedsPreceding
  <2>3. ASSUME NeedsPreceding(id), id = FirstId(stateIndex, f) PROVE FALSE
    <3>1. f = BlockHeader /\ id # 0
      BY <2>3, ZeroNeedsNone DEF FirstId
    <3>2. id = Opened.start
      BY <2>3, <3>1, StartedThen DEF FirstId
    <3>3. id - 1 \in Nat /\ ~(id <= id - 1)
      BY <1>2, <3>1
    <3>4. <<f, id - 1>> \notin DOMAIN location
      BY <3>1, <3>2, <3>3 DEF VInv, LocationsAbove
    <3>5. Issue(f, n, "preceding location") \in
            When(NeedsPreceding(id) /\ <<f, id - 1>> \notin DOMAIN location, Issue(f, n, "preceding location"))
      BY <2>3, <3>4 DEF When
    <3>6. Issue(f, n, "preceding location") \in LocationIssues(f, n)
      <4> DEFINE Of(jd) == When(<<f, jd>> \notin DOMAIN location, Issue(f, n, "location"))
                             \cup When(NeedsPreceding(jd) /\ <<f, jd - 1>> \notin DOMAIN location,
                                       Issue(f, n, "preceding location"))
      <4>1. LocationIssues(f, n) = UNION {Of(jd) : jd \in IdsOf(f, n)}
        BY DEF LocationIssues
      <4>2. Issue(f, n, "preceding location") \in Of(id)
        BY <3>5
      <4> HIDE DEF Of
      <4> QED
        BY <4>1, <4>2
    <3> QED
      BY <3>6
  <2> QED
    BY <2>1, <2>2, <2>3
<1>7. PICK from \in Nat : from = Start(f, id)
  BY <1>4, <1>6 DEF HoldsAt
<1>8. /\ location[<<f, id>>] = from + Len(row) /\ Len(row) \in Nat
      /\ location[<<f, id>>] <= Len(blob[<<f, Partition(id)>>])
  BY <1>3, <1>4, <1>6, <1>7 DEF HoldsAt
<1>9. Bounded(f, id)
  <2>1. from <= location[<<f, id>>]
    BY <1>8
  <2> QED
    BY <1>5, <1>7, <1>8, <2>1 DEF Bounded
<1>10. Item(f, id) = row
  BY <1>4, <1>5, <1>6, HeldIsRead DEF Item
<1>11. id - Metadata(f, n).first < Len(b.rows[f])
  <2>1. Size(b, f) \in Nat /\ Size(b, f) = Len(b.rows[f])
    BY BlockFacts DEF Size
  <2> QED
    BY <1>2, <2>1
<1> QED
  BY <1>2, <1>3, <1>9, <1>10, <1>11 DEF Decodes

LEMMA PayloadIssuesAre ==
  ASSUME IInv, CInv, NEW r, QInv(r), VInv, NEW n \in CommittedHeights, NEW f \in Family
  PROVE  PayloadIssues(f, n) = LocationIssues(f, n)
BY PayloadSound DEF PayloadIssues, When

(* The bits of every record are set and counted. *)
LEMMA MembershipSound ==
  ASSUME IInv, CInv, NEW r, QInv(r), NEW n \in CommittedHeights, NEW f \in Family
  PROVE  MembershipIssues(f, n) = {}
<1>1. ASSUME NEW id \in IdsOf(f, n), NEW w \in RowOf(f, n, id).filters, NEW key, key = <<f, w, Page(id)>>
      PROVE  key \in DOMAIN bitmap /\ key \in DOMAIN pageStats /\ id - Page(id) \in bitmap[key]
  <2>1. PICK b \in Blocks : \E j \in 1 .. Size(b, f) :
          /\ RowOf(f, n, id) = b.rows[f][j] /\ id \in Nat
          /\ \A v \in Filter : v \in b.rows[f][j].filters <=> Marked(f, v, id)
    BY RecordRead
  <2>2. PICK j \in 1 .. Size(b, f) :
          /\ RowOf(f, n, id) = b.rows[f][j] /\ id \in Nat
          /\ \A v \in Filter : v \in b.rows[f][j].filters <=> Marked(f, v, id)
    BY <2>1
  <2>3. w \in Filter
    BY <2>2, RowFilters
  <2>4. key \in DOMAIN bitmap /\ id - Page(id) \in bitmap[key]
    BY <1>1, <2>2, <2>3 DEF Marked
  <2>5. PICK p \in Nat : p = Page(id)
    BY <2>2, PageFacts
  <2>6. key[3] + (id - p) = id /\ key[1] = f
    BY <1>1, <2>2, <2>5
  <2>7. id - p \in Visible(key)
    BY <2>4, <2>5, <2>6, RecordCommitted DEF Visible
  <2>8. ~Understated(key)
    BY <2>4, StatsAre DEF QInv
  <2> QED
    BY <2>4, <2>7, <2>8 DEF Understated
<1> QED
  BY <1>1 DEF MembershipIssues, When

(* The ids of a committed block begin where those before it end. *)
LEMMA ContiguousSound ==
  ASSUME IInv, CInv, NEW r, QInv(r), VInv, NEW n \in CommittedHeights, NEW from \in CommittedHeights,
         NEW f \in Family
  PROVE  ~NonContiguous(f, n, from)
<1>1. SUFFICES ASSUME NEW m \in 0 .. n - 1, LastWithMetadata(f, m, n, from),
                      NextPrimaryId(f, m) # Metadata(f, n).first
               PROVE  FALSE
  BY DEF NonContiguous
<1>2. /\ n \in Nat /\ stateIndex.start \in Nat /\ stateIndex.start <= n
      /\ stateIndex.next[BlockHeader] \in Nat /\ n < stateIndex.next[BlockHeader]
      /\ Opened.start = stateIndex.start
  BY StartedThen
<1>3. m \in Nat /\ m < n /\ <<f, m>> \in DOMAIN familyRange
  BY <1>1, <1>2 DEF LastWithMetadata
<1>4. stateIndex.start <= m
  BY <1>2, <1>3 DEF VInv, RangesAbove
<1>5. n - 1 \in CommittedHeights /\ m <= n - 1
  BY <1>2, <1>3, <1>4 DEF CommittedHeights
<1>6. <<f, n - 1>> \in DOMAIN familyRange
  BY <1>5, StoredRange
<1>7. m = n - 1
  <2>1. ASSUME m < n - 1 PROVE FALSE
    <3>1. n - 1 \in m + 1 .. n - 1
      BY <1>2, <1>3, <2>1
    <3> QED
      BY <1>1, <1>6, <3>1 DEF LastWithMetadata
  <2> QED
    BY <1>2, <1>3, <1>5, <2>1
<1>8. m \in CommittedHeights /\ m + 1 = n
  BY <1>2, <1>5, <1>7
<1>9. RangeEnd(f, m) = familyRange[<<f, n>>].first
  BY <1>8 DEF VInv, RangesJoin
<1> QED
  BY <1>1, <1>9 DEF RangeEnd, NextPrimaryId, Metadata

LEMMA KeySound ==
  ASSUME IInv, CInv, NEW r, QInv(r), NEW n \in CommittedHeights, NEW f \in Family
  PROVE  ~BlockIndexMismatch(f, n)
BY DEF BlockIndexMismatch, QInv, KeysStored, KeyStored, Metadata

LEMMA BlockSound ==
  ASSUME IInv, CInv, NEW r, QInv(r), VInv, NEW n \in CommittedHeights, NEW from \in CommittedHeights,
         NEW f \in Family, NEW i \in BlockIssues(f, n, from)
  PROVE  i = Issue(BlockHeader, stateIndex.start, "preceding location") /\ StartsInside
<1>1. n \in DOMAIN blockHash /\ <<f, n>> \in DOMAIN familyRange
  BY StoredRange
<1>2. ~NonContiguous(f, n, from) /\ ~BlockIndexMismatch(f, n)
  BY ContiguousSound, KeySound
<1>3. i \in validate_payload(f, n)
  BY <1>1, <1>2 DEF BlockIssues, When
<1>4. i \in LocationIssues(f, n)
  BY <1>3, PayloadIssuesAre, MembershipSound DEF validate_payload
<1> QED
  BY <1>4, MissedLocation

(* At the head every family is where the frontier says. *)
LEMMA FrontierSound ==
  ASSUME IInv, CInv, NEW r, QInv(r), VInv, NEW from \in CommittedHeights, NEW to \in CommittedHeights,
         to = LastBlockId(stateIndex), from <= to
  PROVE  FrontierIssues(from, to) = {}
<1>1. /\ to \in Nat /\ from \in Nat /\ stateIndex.next[BlockHeader] \in Nat
      /\ to + 1 = stateIndex.next[BlockHeader]
  BY StartedThen DEF LastBlockId
<1>2. ASSUME NEW f \in Family
      PROVE  /\ to \in 0 .. to /\ LastWithMetadata(f, to, to + 1, from)
             /\ NextPrimaryId(f, to) = stateIndex.next[f]
  <2>1. RangeEnd(f, to) = stateIndex.next[f]
    BY <1>1 DEF VInv, RangesJoin
  <2>2. <<f, to>> \in DOMAIN familyRange
    BY StoredRange
  <2>3. to + 1 .. to + 1 - 1 = {} /\ to >= from - 1 /\ to \in 0 .. to
    BY <1>1
  <2> QED
    BY <2>1, <2>2, <2>3 DEF RangeEnd, NextPrimaryId, Metadata, LastWithMetadata
<1> DEFINE Off(f) == ~\E m \in 0 .. to : /\ LastWithMetadata(f, m, to + 1, from)
                                         /\ NextPrimaryId(f, m) = stateIndex.next[f]
<1>3. FrontierIssues(from, to) = UNION {When(Off(f), Issue(f, to, "frontier")) : f \in Family \ {BlockHeader}}
  BY DEF FrontierIssues
<1>4. \A f \in Family : ~Off(f)
  BY <1>2
<1> HIDE DEF Off
<1> QED
  BY <1>3, <1>4 DEF When

(* The bits that the validator expects are those of the records it reads. *)
Expects(from, to, key, bit) ==
  \E f \in Family, n \in from .. to :
    /\ PayloadIssues(f, n) = {}
    /\ \E id \in IdsOf(f, n) : \E w \in RowOf(f, n, id).filters :
         key = <<f, w, Page(id)>> /\ bit = id - Page(id)

LEMMA ExpectedAre ==
  ASSUME NEW from, NEW to
  PROVE  \A e : e \in ExpectedBits(from, to) =>
           \E key, bit : e = <<key, bit>> /\ Expects(from, to, key, bit)
<1> DEFINE Bits(f, n, id) == {<<<<f, w, Page(id)>>, id - Page(id)>> : w \in RowOf(f, n, id).filters}
           Read(f, n) == IF PayloadIssues(f, n) = {} THEN IdsOf(f, n) ELSE {}
           Of(f, n) == UNION {Bits(f, n, id) : id \in Read(f, n)}
<1>1. ExpectedBits(from, to) = UNION {Of(f, n) : f \in Family, n \in from .. to}
  BY DEF ExpectedBits
<1>2. \A f, n, e : e \in Of(f, n) => \E id \in Read(f, n) : e \in Bits(f, n, id)
  OBVIOUS
<1>3. \A f, n, id, e : e \in Bits(f, n, id) =>
        \E w \in RowOf(f, n, id).filters : e = <<<<f, w, Page(id)>>, id - Page(id)>>
  OBVIOUS
<1>4. \A f, n, id : id \in Read(f, n) => PayloadIssues(f, n) = {} /\ id \in IdsOf(f, n)
  OBVIOUS
<1> HIDE DEF Of, Bits, Read
<1>5. SUFFICES ASSUME NEW e \in ExpectedBits(from, to)
               PROVE  \E key, bit : e = <<key, bit>> /\ Expects(from, to, key, bit)
  OBVIOUS
<1>6. PICK f \in Family, n \in from .. to : e \in Of(f, n)
  BY <1>1
<1>7. PICK id \in Read(f, n) : e \in Bits(f, n, id)
  BY <1>2, <1>6
<1>8. PICK w \in RowOf(f, n, id).filters : e = <<<<f, w, Page(id)>>, id - Page(id)>>
  BY <1>3, <1>7
<1>9. Expects(from, to, <<f, w, Page(id)>>, id - Page(id))
  BY <1>4, <1>7, <1>8 DEF Expects
<1> QED
  BY <1>8, <1>9

LEMMA ExpectedHas ==
  ASSUME NEW from, NEW to, NEW key, NEW bit, Expects(from, to, key, bit)
  PROVE  <<key, bit>> \in ExpectedBits(from, to)
<1> DEFINE Bits(f, n, id) == {<<<<f, w, Page(id)>>, id - Page(id)>> : w \in RowOf(f, n, id).filters}
           Read(f, n) == IF PayloadIssues(f, n) = {} THEN IdsOf(f, n) ELSE {}
           Of(f, n) == UNION {Bits(f, n, id) : id \in Read(f, n)}
<1>1. ExpectedBits(from, to) = UNION {Of(f, n) : f \in Family, n \in from .. to}
  BY DEF ExpectedBits
<1>2. PICK f \in Family, n \in from .. to :
        /\ PayloadIssues(f, n) = {}
        /\ \E id \in IdsOf(f, n) : \E w \in RowOf(f, n, id).filters :
             key = <<f, w, Page(id)>> /\ bit = id - Page(id)
  BY DEF Expects
<1>3. PICK id \in IdsOf(f, n) : \E w \in RowOf(f, n, id).filters :
        key = <<f, w, Page(id)>> /\ bit = id - Page(id)
  BY <1>2
<1>4. PICK w \in RowOf(f, n, id).filters : key = <<f, w, Page(id)>> /\ bit = id - Page(id)
  BY <1>3
<1>5. <<key, bit>> \in Bits(f, n, id)
  BY <1>4
<1>6. id \in Read(f, n)
  BY <1>2
<1> HIDE DEF Bits, Read
<1>7. <<key, bit>> \in Of(f, n)
  BY <1>5, <1>6
<1> HIDE DEF Of
<1> QED
  BY <1>1, <1>7

(* An expected bit is set. *)
LEMMA ExpectedSet ==
  ASSUME IInv, CInv, NEW r, QInv(r), NEW from, NEW to, from .. to = CommittedHeights,
         NEW key \in DOMAIN bitmap, NEW bit, Expects(from, to, key, bit)
  PROVE  bit \in bitmap[key]
<1>1. PICK f \in Family, n \in CommittedHeights : \E id \in IdsOf(f, n) : \E w \in RowOf(f, n, id).filters :
        key = <<f, w, Page(id)>> /\ bit = id - Page(id)
  BY DEF Expects
<1>2. PICK id \in IdsOf(f, n) : \E w \in RowOf(f, n, id).filters :
        key = <<f, w, Page(id)>> /\ bit = id - Page(id)
  BY <1>1
<1>3. PICK w \in RowOf(f, n, id).filters : key = <<f, w, Page(id)>> /\ bit = id - Page(id)
  BY <1>2
<1>4. PICK b \in Blocks : \E j \in 1 .. Size(b, f) :
        /\ RowOf(f, n, id) = b.rows[f][j]
        /\ \A v \in Filter : v \in b.rows[f][j].filters <=> Marked(f, v, id)
  BY RecordRead
<1>5. PICK j \in 1 .. Size(b, f) :
        /\ RowOf(f, n, id) = b.rows[f][j]
        /\ \A v \in Filter : v \in b.rows[f][j].filters <=> Marked(f, v, id)
  BY <1>4
<1>6. w \in Filter
  BY <1>3, <1>5, RowFilters
<1> QED
  BY <1>3, <1>5, <1>6 DEF Marked

(* And without the two reasons for an alarm, a bit that is set is expected. *)
LEMMA SetExpected ==
  ASSUME IInv, CInv, NEW r, QInv(r), VInv, NEW from, NEW to, from .. to = CommittedHeights,
         NEW h \in CommittedHeights,
         NEW key \in DOMAIN bitmap, NEW bit \in bitmap[key],
         ~(key[1] = BlockHeader /\ StartsInside), ~BitsInFlight(key[1])
  PROVE  Expects(from, to, key, bit)
<1>1. IsPageKey(key) /\ bit \in 0 .. PAGE_SPAN - 1
  BY DEF QInv, BitmapType
<1>2. PICK f \in Family, w \in Filter, id \in Nat :
        key = <<f, w, Page(id)>> /\ bit = id - Page(id) /\ key[1] = f /\ key[3] + bit = id
  BY <1>1, BitIsId
<1>3. Marked(f, w, id)
  BY <1>2 DEF Marked
<1>4. stateIndex.next[f] \in Nat /\ FirstId(stateIndex, f) \in Nat
  BY OpenedIds
<1>5. id < stateIndex.next[f]
  <2>1. ~(id >= stateIndex.next[f])
    BY <1>2 DEF BitsInFlight
  <2> QED
    BY <1>4, <2>1
<1>6. FirstId(stateIndex, f) <= id
  <2>1. CASE f = BlockHeader
    BY <1>3, <2>1, StartedThen DEF VInv, MarksAbove, FirstId
  <2>2. CASE f # BlockHeader
    BY <2>2 DEF FirstId
  <2> QED
    BY <2>1, <2>2
<1>7. id \in CommittedIds(stateIndex, f)
  BY <1>4, <1>5, <1>6 DEF CommittedIds
<1>8. PICK n \in CommittedHeights : familyRange[<<f, n>>].first <= id /\ id < RangeEnd(f, n)
  BY <1>7 DEF VInv, IdsCovered
<1>9. id \in IdsOf(f, n)
  <2>1. familyRange[<<f, n>>].first \in Nat /\ familyRange[<<f, n>>].count \in Nat
    BY StoredRange
  <2> QED
    BY <1>8, <2>1 DEF IdsOf, NextPrimaryId, Metadata, RangeEnd
<1>10. PayloadIssues(f, n) = {}
  <2>1. ASSUME NEW i \in LocationIssues(f, n) PROVE FALSE
    BY <1>2, MissedLocation
  <2> QED
    BY <2>1, PayloadIssuesAre
<1>11. w \in RowOf(f, n, id).filters
  <2>1. PICK b \in Blocks : \E j \in 1 .. Size(b, f) :
          /\ RowOf(f, n, id) = b.rows[f][j]
          /\ \A v \in Filter : v \in b.rows[f][j].filters <=> Marked(f, v, id)
    BY <1>9, RecordRead
  <2> QED
    BY <1>3, <2>1
<1> QED
  BY <1>2, <1>9, <1>10, <1>11 DEF Expects

LEMMA OrphansSound ==
  ASSUME IInv, CInv, NEW r, QInv(r), VInv, NEW from, NEW to, from .. to = CommittedHeights,
         NEW h \in CommittedHeights, NEW i \in validate_bitmap_exact(from, to)
  PROVE  /\ i.what = "orphaned bits"
         /\ (i.family = BlockHeader /\ StartsInside) \/ BitsInFlight(i.family)
<1> DEFINE Alarm(key) == Issue(key[1], to, "orphaned bits")
           Want(key) == {e[2] : e \in {x \in ExpectedBits(from, to) : x[1] = key}}
<1>1. validate_bitmap_exact(from, to) =
        {Alarm(key) : key \in {e[1] : e \in ExpectedBits(from, to)} \cap
                              {k \in DOMAIN bitmap : bitmap[k] # Want(k)}}
  BY DEF validate_bitmap_exact
<1>2. \A key : Alarm(key).what = "orphaned bits" /\ Alarm(key).family = key[1]
  BY DEF Issue
<1>3. \A key, bit : <<key, bit>> \in ExpectedBits(from, to) => bit \in Want(key)
  OBVIOUS
<1>4. \A key, bit : bit \in Want(key) => \E x \in ExpectedBits(from, to) : x[1] = key /\ x[2] = bit
  OBVIOUS
<1> HIDE DEF Alarm, Want
<1>5. PICK key \in DOMAIN bitmap : i = Alarm(key) /\ bitmap[key] # Want(key)
  BY <1>1
<1>6. ASSUME ~(key[1] = BlockHeader /\ StartsInside), ~BitsInFlight(key[1])
      PROVE  FALSE
  <2>1. ASSUME NEW bit \in bitmap[key] PROVE bit \in Want(key)
    BY <1>3, <1>6, <2>1, SetExpected, ExpectedHas
  <2>2. ASSUME NEW bit \in Want(key) PROVE bit \in bitmap[key]
    <3>1. PICK x \in ExpectedBits(from, to) : x[1] = key /\ x[2] = bit
      BY <1>4, <2>2
    <3>2. PICK k, b : x = <<k, b>> /\ Expects(from, to, k, b)
      BY <3>1, ExpectedAre
    <3>3. k = key /\ b = bit
      BY <3>1, <3>2
    <3> QED
      BY <3>2, <3>3, ExpectedSet
  <2> QED
    BY <1>5, <2>1, <2>2
<1> QED
  BY <1>2, <1>5, <1>6

(* What the validator may say of an index that is sound. *)
Excused(i) ==
  \/ i = Issue(BlockHeader, stateIndex.start, "preceding location") /\ StartsInside
  \/ /\ i.what = "orphaned bits"
     /\ (i.family = BlockHeader /\ StartsInside) \/ BitsInFlight(i.family)

LEMMA ValidationSound ==
  ASSUME IInv, CInv, NEW r, QInv(r), VInv, NEW from \in CommittedHeights, NEW to \in CommittedHeights,
         from <= to, NEW i \in run_validation(from, to)
  PROVE  Excused(i)
<1> DEFINE Of(f, n) == BlockIssues(f, n, from)
           Whole == from = stateIndex.start /\ to = LastBlockId(stateIndex)
<1>1. run_validation(from, to) =
        (UNION {Of(f, n) : f \in Family, n \in from .. to})
          \cup (IF Whole THEN validate_bitmap_exact(from, to) ELSE {})
          \cup (IF to = LastBlockId(stateIndex) THEN FrontierIssues(from, to) ELSE {})
  BY DEF run_validation
<1> HIDE DEF Of, Whole
<1>2. \A n \in from .. to : n \in CommittedHeights
  BY StartedThen DEF CommittedHeights
<1>3. CASE \E f \in Family, n \in from .. to : i \in Of(f, n)
  <2>1. PICK f \in Family, n \in from .. to : i \in Of(f, n)
    BY <1>3
  <2>2. n \in CommittedHeights /\ i \in BlockIssues(f, n, from)
    BY <1>2, <2>1 DEF Of
  <2> QED
    BY <2>2, BlockSound DEF Excused
<1>4. CASE Whole /\ i \in validate_bitmap_exact(from, to)
  <2>1. from .. to = CommittedHeights
    BY <1>4 DEF Whole, CommittedHeights, LastBlockId
  <2> QED
    BY <1>4, <2>1, OrphansSound DEF Excused
<1>5. CASE to = LastBlockId(stateIndex) /\ i \in FrontierIssues(from, to)
  BY <1>5, FrontierSound
<1>6. \/ i \in UNION {Of(f, n) : f \in Family, n \in from .. to}
      \/ Whole /\ i \in validate_bitmap_exact(from, to)
      \/ to = LastBlockId(stateIndex) /\ i \in FrontierIssues(from, to)
  BY <1>1
<1>7. i \in UNION {Of(f, n) : f \in Family, n \in from .. to} =>
        \E f \in Family, n \in from .. to : i \in Of(f, n)
  OBVIOUS
<1> QED
  BY <1>3, <1>4, <1>5, <1>6, <1>7

LEMMA QuietThen == IInv /\ CInv /\ HasRun /\ VInv => ValidatorQuiet
<1> SUFFICES ASSUME IInv, CInv, HasRun, VInv PROVE ValidatorQuiet
  OBVIOUS
<1>1. PICK r : QInv(r)
  BY DEF HasRun
<1>2. stateIndex.start .. LastBlockId(stateIndex) = CommittedHeights
  BY DEF CommittedHeights, LastBlockId
<1>3. ASSUME NEW from \in CommittedHeights, NEW to \in CommittedHeights, from <= to,
             NEW i \in run_validation(from, to)
      PROVE  Excused(i)
  BY <1>1, <1>3, ValidationSound
<1> QED
  BY <1>2, <1>3 DEF ValidatorQuiet, Excused

(* At every moment, whatever crash, failed write or flush under way, the   *)
(* validate command reports nothing about committed blocks but the two     *)
(* alarms that ValidatorQuiet names.                                       *)
THEOREM ValidatorIsQuiet == Spec => []ValidatorQuiet
<1>1. IInv /\ CInv /\ HasRun /\ VInv /\ [Next]_vars => (IInv /\ CInv /\ HasRun /\ VInv)'
  BY InvStep, CInvStep, RunStep, VInvStep
<1>2. Init => IInv /\ CInv /\ HasRun /\ VInv
  BY InitIInv, InitCInv, InitHasRun, InitVInv
<1> QED
  BY <1>1, <1>2, QuietThen, PTL DEF Spec
=============================================================================
