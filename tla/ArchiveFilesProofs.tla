-------------------------- MODULE ArchiveFilesProofs -------------------------
(***************************************************************************)
(* Proofs about the archiver's programs around the block pipeline, for     *)
(* every set of puts, files, directories, blocks and documents and every   *)
(* number of faults: what is read from a store was put there, a file is    *)
(* not archived as it was before it first came to rest, the block writer's *)
(* marker skips nothing, a migration loses no document, and the circuit    *)
(* breaker agrees with itself.                                             *)
(***************************************************************************)
EXTENDS MCArchiveFiles, FiniteSetTheorems, TLAPS

(* The least of a set of natural numbers, and the greatest of a bounded    *)
(* one, are in it.                                                         *)
LEMMA Least ==
  ASSUME NEW S, S \subseteq Nat, S # {}
  PROVE  Min(S) \in S /\ \A x \in S : Min(S) <= x
<1> DEFINE R == {ss \in Nat \X Nat : ss[1] < ss[2]}
<1>1. IsWellFoundedOn(R, Nat)
  BY NatLessThanWellFounded, Zenon DEF OpToRel
<1>2. \A x, y \in Nat : x < y => <<x, y>> \in R
  OBVIOUS
<1> HIDE DEF R
<1>3. PICK x \in S : \A y \in S : ~(<<y, x>> \in R)
  BY <1>1, WFMin
<1>4. \A y \in S : ~(y < x)
  BY <1>2, <1>3
<1>5. \A y \in S : x <= y
  BY <1>4
<1> DEFINE P(m) == \A y \in S : m <= y
<1>6. \E m \in S : P(m)
  BY <1>5
<1>7. Min(S) = CHOOSE m \in S : P(m)
  BY Zenon DEF Min
<1> HIDE DEF P
<1>8. Min(S) \in S /\ P(Min(S))
  BY <1>6, <1>7
<1> QED
  BY <1>8 DEF P

LEMMA Greatest ==
  ASSUME NEW n \in Nat, NEW S, S \subseteq 0 .. n, S # {}
  PROVE  Max(S) \in S /\ \A x \in S : x <= Max(S)
<1> DEFINE T == {n - x : x \in S}
<1>1. T \subseteq Nat /\ T # {}
  <2>1. \A x \in S : n - x \in Nat
    OBVIOUS
  <2> QED
    BY <2>1
<1> HIDE DEF T
<1>2. PICK y \in T : \A z \in T : y <= z
  BY <1>1, Least
<1>a. \A x \in S : n - x \in T
  BY DEF T
<1>3. PICK m \in S : y = n - m
  BY DEF T
<1>4. \A x \in S : x <= m
  BY <1>2, <1>3, <1>a
<1> DEFINE P(k) == \A x \in S : k >= x
<1>5. \E k \in S : P(k)
  BY <1>4
<1>6. Max(S) = CHOOSE k \in S : P(k)
  BY Zenon DEF Max
<1> HIDE DEF P
<1>7. Max(S) \in S /\ P(Max(S))
  BY <1>5, <1>6
<1> QED
  BY <1>7 DEF P

-----------------------------------------------------------------------------
(* The migration.  The renamed collection is filled once, from a capped    *)
(* collection, before anything has been copied; what is at or below the    *)
(* last copied id, in memory and on disk, is in the collection; and when   *)
(* the renamed collection is about to be dropped all of it is.             *)
CopiedUpTo(n) == \A i \in DOMAIN capped.docs : i <= n => HasDoc(coll, i)
CopiedAll == \A i \in DOMAIN capped.docs : HasDoc(coll, i)

Phases == {"DiskCheck", "Renamed", "Copying", "Dropping"}
MigrationState == [phase : Phases, last_id : Nat]

IsCollection(c) ==
  /\ c = [exists |-> c.exists, capped |-> c.capped, docs |-> c.docs]
  /\ c.exists \in BOOLEAN /\ c.capped \in BOOLEAN
  /\ DOMAIN c.docs \subseteq Ids
  /\ c.docs = [i \in DOMAIN c.docs |-> c.docs[i]]

MigrationType ==
  /\ IsCollection(coll) /\ IsCollection(capped)
  /\ state \in MigrationState
  /\ meta \in [exists : BOOLEAN, state : MigrationState]
  /\ written \in [Ids -> Nat]

MigrationPhases ==
  /\ step \in {"Renamed", "Create", "Created"} => meta.state.phase = "Renamed"
  /\ step \in {"Copying", "Checkpoint"} => state.phase = "Copying"
  /\ ~meta.exists => meta.state.phase # "Dropping" /\ meta.state.last_id = 0
  /\ coll.capped => /\ DOMAIN capped.docs = {}
                    /\ state.last_id = 0
                    /\ meta.state.last_id = 0
  /\ step \notin {"off", "Create"} => coll.exists
  /\ ~coll.exists => DOMAIN coll.docs = {}

MigrationCopied ==
  /\ CopiedUpTo(state.last_id)
  /\ CopiedUpTo(meta.state.last_id)
  /\ step \in {"Copied", "Dropping"} \/ meta.state.phase = "Dropping" => CopiedAll

MigrationInv == MigrationType /\ MigrationPhases /\ MigrationCopied /\ DocumentsKept

LEMMA MigrationStart == MigrationInit => MigrationInv
<1> SUFFICES ASSUME MigrationInit PROVE MigrationInv
  OBVIOUS
<1> USE MigrationAssumption DEF MigrationInit, NoCollection, NewState
<1>1. PICK ids \in SUBSET Ids :
        /\ coll = [exists |-> TRUE, capped |-> TRUE, docs |-> [i \in ids |-> 1]]
        /\ written = [i \in Ids |-> IF i \in ids THEN 1 ELSE 0]
  OBVIOUS
<1>2. MigrationType
  BY <1>1 DEF MigrationType, IsCollection, MigrationState, Phases
<1>3. MigrationPhases
  BY <1>1 DEF MigrationPhases
<1>4. MigrationCopied
  BY <1>1 DEF MigrationCopied, CopiedUpTo, CopiedAll
<1>5. DocumentsKept
  BY <1>1 DEF DocumentsKept, HasDoc
<1> QED
  BY <1>2, <1>3, <1>4, <1>5 DEF MigrationInv

(* The batch that is copied next leaves no gap below its last id, and is   *)
(* empty only when nothing is left.                                        *)
LEMMA BatchFacts ==
  ASSUME MigrationType
  PROVE  /\ NextIds = {} => Remaining = {}
         /\ NextIds # {} => /\ Max(NextIds) \in NextIds
                            /\ \A i \in Remaining : i <= Max(NextIds) => i \in NextIds
<1> DEFINE Below(i) == {j \in Remaining : j < i}
<1>1. Remaining \subseteq 0 .. LastId /\ LastId \in Nat /\ BatchSize \in Nat \ {0}
  BY MigrationAssumption DEF Remaining, MigrationType, IsCollection, Ids
<1>2. \A i \in Remaining : IsFiniteSet(Below(i)) /\ Cardinality(Below(i)) \in Nat
  <2>1. IsFiniteSet(0 .. LastId)
    BY <1>1, FS_Interval
  <2>2. \A i \in Remaining : Below(i) \subseteq 0 .. LastId
    BY <1>1
  <2> QED
    BY <2>1, <2>2, FS_Subset, FS_CardinalityType
<1>3. NextIds = {i \in Remaining : Cardinality(Below(i)) < BatchSize}
  BY DEF NextIds
<1>4. ASSUME Remaining # {}
      PROVE  NextIds # {}
  <2>0. Remaining \subseteq Nat
    BY <1>1
  <2>1. Min(Remaining) \in Remaining /\ \A x \in Remaining : Min(Remaining) <= x
    BY <1>4, <2>0, Least
  <2>2. ASSUME NEW j \in Below(Min(Remaining)) PROVE FALSE
    <3>1. j \in Nat /\ Min(Remaining) \in Nat /\ j < Min(Remaining) /\ Min(Remaining) <= j
      BY <2>0, <2>1
    <3> QED
      BY <3>1
  <2>3. Below(Min(Remaining)) = {}
    BY <2>2
  <2> QED
    BY <1>1, <1>3, <2>1, <2>3, FS_EmptySet
<1>5. ASSUME NextIds # {}
      PROVE  /\ Max(NextIds) \in NextIds
             /\ \A i \in Remaining : i <= Max(NextIds) => i \in NextIds
  <2>1. NextIds \subseteq 0 .. LastId
    BY <1>1, <1>3
  <2>2. Max(NextIds) \in NextIds
    BY <1>1, <1>5, <2>1, Greatest
  <2>3. ASSUME NEW i \in Remaining, i <= Max(NextIds)
        PROVE  i \in NextIds
    <3>0. Remaining \subseteq Nat /\ Max(NextIds) \in Remaining
      BY <1>1, <1>3, <2>2
    <3>a. ASSUME NEW j \in Below(i) PROVE j \in Below(Max(NextIds))
      <4>1. j \in Nat /\ i \in Nat /\ Max(NextIds) \in Nat /\ j < i
        BY <3>0
      <4>2. j < Max(NextIds)
        BY <2>3, <4>1
      <4> QED
        BY <4>2
    <3>1. Below(i) \subseteq Below(Max(NextIds)) /\ Max(NextIds) \in Remaining
      BY <3>0, <3>a
    <3>2. Cardinality(Below(i)) <= Cardinality(Below(Max(NextIds)))
      BY <1>2, <3>1, FS_Subset
    <3>3. Cardinality(Below(Max(NextIds))) < BatchSize
      BY <1>3, <2>2
    <3>b. Cardinality(Below(i)) \in Nat /\ Cardinality(Below(Max(NextIds))) \in Nat /\ BatchSize \in Nat
      BY <1>1, <1>2, <3>0
    <3> HIDE DEF Below
    <3>4. Cardinality(Below(i)) < BatchSize
      BY <3>2, <3>3, <3>b
    <3> USE DEF Below
    <3> QED
      BY <1>3, <3>4
  <2> QED
    BY <2>2, <2>3
<1> QED
  BY <1>4, <1>5

LEMMA MigrationStep ==
  ASSUME MigrationInv, MigrationNext
  PROVE  MigrationInv'
<1> USE MigrationAssumption DEF MigrationInv, HasDoc, CopiedUpTo, CopiedAll
<1>1. ASSUME NEW i \in Ids, Write(i)
      PROVE  MigrationInv'
  <2>1. /\ coll'.exists = TRUE /\ coll'.capped = coll.capped
        /\ DOMAIN coll'.docs = DOMAIN coll.docs \cup {i}
        /\ \A j \in DOMAIN coll'.docs : coll'.docs[j] = IF j = i THEN written[i] + 1 ELSE coll.docs[j]
        /\ IsCollection(coll')
    BY <1>1 DEF Write, MigrationType, IsCollection
  <2>2. /\ written' \in [Ids -> Nat] /\ written'[i] = written[i] + 1
        /\ \A j \in Ids : j # i => written'[j] = written[j]
    BY <1>1 DEF Write, MigrationType
  <2>3. UNCHANGED <<capped, meta, state, step>>
    BY <1>1 DEF Write
  <2>4. MigrationType'
    BY <2>1, <2>2, <2>3 DEF MigrationType
  <2>5. MigrationPhases'
    BY <2>1, <2>3 DEF MigrationPhases
  <2>6. MigrationCopied'
    BY <2>1, <2>3 DEF MigrationCopied
  <2>7. DocumentsKept'
    BY <2>1, <2>2, <2>3 DEF DocumentsKept
  <2> QED
    BY <2>4, <2>5, <2>6, <2>7
<1>2. CASE run_migrate_capped
  <2>1. /\ DOMAIN coll'.docs = DOMAIN coll.docs
        /\ \A j \in DOMAIN coll.docs : coll'.docs[j] = coll.docs[j]
        /\ coll'.capped => coll.capped
        /\ coll'.exists /\ IsCollection(coll')
    BY <1>2 DEF run_migrate_capped, MigrationPhases, MigrationType, IsCollection, Uncapped, NoCollection
  <2>2. UNCHANGED <<capped, meta, written>> /\ state' \in {meta.state, NewState} /\ step' = state'.phase
        /\ (state' = NewState \/ meta.exists)
    BY <1>2 DEF run_migrate_capped
  <2>3. MigrationType'
    BY <2>1, <2>2 DEF MigrationType, NewState, MigrationState, Phases
  <2>4. MigrationPhases'
    BY <2>1, <2>2 DEF MigrationPhases, NewState, MigrationType, MigrationState, Phases
  <2>5. MigrationCopied'
    <3>1. \A i \in DOMAIN capped.docs : i \in Nat /\ i > 0
      BY DEF MigrationType, IsCollection, Ids
    <3>2. \A i \in DOMAIN capped.docs : i <= state'.last_id => i \in DOMAIN coll.docs
      BY <2>2, <3>1 DEF MigrationCopied, NewState
    <3>3. state'.phase = "Dropping" => meta.state.phase = "Dropping"
      BY <2>2 DEF NewState
    <3>4. step' \in Phases
      BY <2>2, <2>3 DEF MigrationType, MigrationState
    <3>5. step' # "Copied" /\ (step' = "Dropping" => meta.state.phase = "Dropping")
      BY <2>2, <3>3, <3>4 DEF Phases
    <3> QED
      BY <2>1, <2>2, <3>2, <3>5 DEF MigrationCopied
  <2>6. DocumentsKept'
    BY <2>1, <2>2 DEF DocumentsKept
  <2> QED
    BY <2>3, <2>4, <2>5, <2>6
<1>3. CASE ensure_disk_space
  BY <1>3 DEF ensure_disk_space, upsert, MigrationType, MigrationState, Phases, IsCollection,
       MigrationPhases, MigrationCopied, DocumentsKept
<1>4. CASE maybe_rename
  <2>1. CASE coll.capped
    <3>1. /\ capped' = coll /\ coll' = NoCollection /\ step' = "Create"
          /\ UNCHANGED <<meta, state, written>>
      BY <1>4, <2>1 DEF maybe_rename
    <3>2. DOMAIN coll'.docs = {} /\ ~coll'.capped /\ IsCollection(coll')
      BY <3>1 DEF NoCollection, IsCollection
    <3>3. MigrationType'
      BY <3>1, <3>2 DEF MigrationType
    <3>4. MigrationPhases'
      BY <1>4, <2>1, <3>1, <3>2 DEF MigrationPhases, maybe_rename
    <3>5. MigrationCopied'
      BY <1>4, <2>1, <3>1, <3>2 DEF MigrationCopied, MigrationPhases, maybe_rename, MigrationType, IsCollection, Ids
    <3>6. DocumentsKept'
      BY <2>1, <3>1, <3>2 DEF DocumentsKept, MigrationPhases
    <3> QED
      BY <3>3, <3>4, <3>5, <3>6
  <2>2. CASE ~coll.capped
    BY <1>4, <2>2 DEF maybe_rename, MigrationType, MigrationPhases, MigrationCopied, DocumentsKept, IsCollection
  <2> QED
    BY <2>1, <2>2
<1>5. CASE create_uncapped_and_indexes
  <2>1. /\ DOMAIN coll'.docs = DOMAIN coll.docs
        /\ \A j \in DOMAIN coll.docs : coll'.docs[j] = coll.docs[j]
        /\ coll'.capped => coll.capped
        /\ coll'.exists /\ IsCollection(coll')
    BY <1>5 DEF create_uncapped_and_indexes, MigrationPhases, MigrationType, IsCollection, Uncapped, NoCollection
  <2>2. UNCHANGED <<capped, meta, state, written>> /\ step = "Create" /\ step' = "Created"
    BY <1>5 DEF create_uncapped_and_indexes
  <2>3. MigrationType'
    BY <2>1, <2>2 DEF MigrationType
  <2>4. MigrationPhases' /\ MigrationCopied' /\ DocumentsKept'
    BY <2>1, <2>2 DEF MigrationPhases, MigrationCopied, DocumentsKept
  <2> QED
    BY <2>3, <2>4
<1>6. CASE EnterCopying
  BY <1>6 DEF EnterCopying, upsert, MigrationType, MigrationState, Phases, IsCollection,
       MigrationPhases, MigrationCopied, DocumentsKept
<1>7. CASE copy_batches
  <2>1. UNCHANGED <<capped, meta, written>> /\ step = "Copying"
    BY <1>7 DEF copy_batches
  <2>2. CASE NextIds = {}
    <3>1. UNCHANGED <<coll, state>> /\ step' = "Copied"
      BY <1>7, <2>2 DEF copy_batches
    <3>2. Remaining = {}
      BY <2>2, BatchFacts
    <3>3. CopiedAll
      BY <3>2 DEF Remaining, MigrationCopied, MigrationType, IsCollection, Ids, MigrationState
    <3> QED
      BY <2>1, <3>1, <3>3 DEF MigrationType, IsCollection, MigrationPhases, MigrationCopied, DocumentsKept
  <2>3. CASE NextIds # {}
    <3> DEFINE top == Max(NextIds)
    <3>1. /\ coll' = [coll EXCEPT !.docs = MergeInto(@, NextIds)]
          /\ state' = [state EXCEPT !.last_id = top]
          /\ step' = "Checkpoint"
      BY <1>7, <2>3 DEF copy_batches
    <3>2. top \in NextIds /\ \A i \in Remaining : i <= top => i \in NextIds
      BY <2>3, BatchFacts
    <3>3. NextIds \subseteq DOMAIN capped.docs /\ \A i \in NextIds : i \in Ids
      BY DEF NextIds, Remaining, MigrationType, IsCollection
    <3> HIDE DEF top
    <3>4. /\ coll'.exists = coll.exists /\ coll'.capped = coll.capped
          /\ DOMAIN coll'.docs = DOMAIN coll.docs \cup NextIds
          /\ \A j \in DOMAIN coll'.docs : coll'.docs[j] = IF j \in DOMAIN coll.docs THEN coll.docs[j] ELSE capped.docs[j]
          /\ IsCollection(coll')
      BY <3>1, <3>3 DEF MergeInto, MigrationType, IsCollection
    <3>5. state'.last_id = top /\ state'.phase = state.phase /\ state' \in MigrationState
      BY <3>1, <3>2, <3>3 DEF MigrationType, MigrationState, Ids
    <3>6. MigrationType'
      BY <2>1, <3>4, <3>5 DEF MigrationType
    <3>7. MigrationPhases'
      <4>1. ~coll.capped /\ DOMAIN coll.docs \subseteq DOMAIN coll'.docs
        BY <2>3, <3>3, <3>4 DEF MigrationPhases
      <4>2. coll.exists
        BY <2>1 DEF MigrationPhases
      <4> QED
        BY <2>1, <3>1, <3>4, <3>5, <4>1, <4>2 DEF MigrationPhases
    <3>8. MigrationCopied'
      <4>1. ASSUME NEW i \in DOMAIN capped.docs, i <= top PROVE i \in DOMAIN coll'.docs
        BY <3>2, <3>4, <4>1 DEF Remaining, MigrationCopied, MigrationType, IsCollection, Ids, MigrationState
      <4> QED
        BY <2>1, <3>1, <3>4, <3>5, <4>1 DEF MigrationCopied
    <3>9. DocumentsKept'
      BY <2>1, <3>3, <3>4 DEF DocumentsKept
    <3> QED
      BY <3>6, <3>7, <3>8, <3>9
  <2> QED
    BY <2>2, <2>3
<1>8. CASE SaveCheckpoint
  BY <1>8 DEF SaveCheckpoint, upsert, MigrationType, IsCollection, MigrationPhases, MigrationCopied, DocumentsKept
<1>9. CASE EnterDropping
  BY <1>9 DEF EnterDropping, upsert, MigrationType, MigrationState, Phases, IsCollection,
       MigrationPhases, MigrationCopied, DocumentsKept
<1>10. CASE drop_source
  <2>1. /\ capped' = NoCollection /\ step' = "Delete" /\ step = "Dropping"
        /\ UNCHANGED <<coll, meta, state, written>>
    BY <1>10 DEF drop_source
  <2>2. DOMAIN capped'.docs = {} /\ IsCollection(capped')
    BY <2>1 DEF NoCollection, IsCollection
  <2> QED
    BY <2>1, <2>2 DEF MigrationType, MigrationPhases, MigrationCopied, DocumentsKept
<1>11. CASE DeleteState
  BY <1>11 DEF DeleteState, NewState, MigrationType, MigrationState, Phases, IsCollection, Ids,
       MigrationPhases, MigrationCopied, DocumentsKept
<1>12. CASE Stop
  BY <1>12 DEF Stop, NewState, MigrationType, MigrationState, Phases, IsCollection, Ids,
       MigrationPhases, MigrationCopied, DocumentsKept
<1> QED
  BY <1>1, <1>2, <1>3, <1>4, <1>5, <1>6, <1>7, <1>8, <1>9, <1>10, <1>11, <1>12 DEF MigrationNext

(***************************************************************************)
(* migrate-capped loses no document and takes none back in time, for every *)
(* collection, batch size and sequence of stops and writes.                *)
(***************************************************************************)
THEOREM MigrationKeepsDocuments == Spec => []DocumentsKept
<1>1. Init => MigrationInv
  BY MigrationStart DEF Init
<1>2. MigrationInv /\ [Next]_vars => MigrationInv'
  <2> SUFFICES ASSUME MigrationInv, [Next]_vars, UNCHANGED migrationVars PROVE MigrationInv'
    BY MigrationStep DEF Next, vars
  <2> QED
    BY DEF migrationVars, MigrationInv, MigrationType, IsCollection, MigrationPhases, MigrationCopied,
         CopiedUpTo, CopiedAll, HasDoc, DocumentsKept
<1>3. MigrationInv => DocumentsKept
  BY DEF MigrationInv
<1> QED
  BY <1>1, <1>2, <1>3, PTL DEF Spec

-----------------------------------------------------------------------------
(* The block writer.  A stream works beyond the marker, and what is not    *)
(* whole of its range is still to be done or has failed; the number that   *)
(* set_latest_block is about to write is one up to which nothing is        *)
(* missing but what a write-range has opened again.                        *)
WriterType ==
  /\ uploaded \in Nat
  /\ blockFile \in [BlockNumbers -> {"none", "cut", "whole"}]
  /\ latest \in [file : {"none", "cut", "whole"}, block : Nat]
  /\ writer \in [at : {"loop", "stream", "write_range", "set", "exit"}, stop : Nat, batch : SUBSET Nat]
  /\ todo \in SUBSET Nat /\ failed \in SUBSET Nat /\ floor \in Nat

OnDisk(first, last) == \A b \in first .. last : blockFile[b] = "whole" \/ b \in recut

MarkerInv ==
  /\ latest.file = "none" => latest.block = 0
  /\ IF latest.block = 0 THEN floor = 0
     ELSE floor <= latest.block + 1 /\ OnDisk(floor, latest.block)

RangeInv ==
  /\ tasks \subseteq todo
  /\ ~InRange => todo = {} /\ failed = {}
  /\ writer.at = "stream" =>
       /\ StreamStart <= writer.stop
       /\ todo \cup failed \subseteq StreamStart .. writer.stop
       /\ \A b \in StreamStart .. writer.stop : blockFile[b] = "whole" \/ b \in todo \cup failed
  /\ writer.at = "set" =>
       IF writer.stop = 0 THEN latest.block = 0
       ELSE latest.block <= writer.stop /\ OnDisk(floor, writer.stop)

WriterInv == WriterType /\ MarkerInv /\ RangeInv

LEMMA WriterStart == WriterInit => WriterInv
  BY DEF WriterInit, WriterInv, WriterType, MarkerInv, RangeInv, AtLoop, InRange

LEMMA StreamFacts ==
  ASSUME WriterType
  PROVE  /\ StreamStart \in Nat
         /\ latest.block = 0 => StreamStart = 0
         /\ latest.block # 0 => StreamStart = latest.block + 1
         /\ StreamStart < uploaded => StreamStop \in Nat /\ StreamStart <= StreamStop
<1>1. /\ StreamStart \in Nat
      /\ latest.block = 0 => StreamStart = 0
      /\ latest.block # 0 => StreamStart = latest.block + 1
  BY DEF WriterType, StreamStart
<1>2. uploaded \in Nat /\ MaxBlocksPerIter \in Nat
  BY BlockWriterAssumption DEF WriterType
<1> DEFINE s == StreamStart + MaxBlocksPerIter
<1>3. s \in Nat /\ s >= StreamStart
  BY <1>1, <1>2
<1>4. StreamStop = Min({uploaded, s})
  BY DEF StreamStop
<1> HIDE DEF s
<1>5. Min({uploaded, s}) \in {uploaded, s}
  <2>1. {uploaded, s} \subseteq Nat /\ {uploaded, s} # {}
    BY <1>2, <1>3
  <2> QED
    BY <2>1, Least, Zenon
<1>6. StreamStop = uploaded \/ StreamStop = s
  BY <1>4, <1>5
<1>7. StreamStart < uploaded => StreamStop \in Nat /\ StreamStart <= StreamStop
  BY <1>1, <1>2, <1>3, <1>6
<1> QED
  BY <1>1, <1>7

(* A stream that ends covers everything from the floor to its answer.      *)
LEMMA StreamEnds ==
  ASSUME WriterInv, writer.at = "stream", todo = {}
  PROVE  /\ LastBlock \in Nat
         /\ IF LastBlock = 0 THEN latest.block = 0
            ELSE latest.block <= LastBlock /\ OnDisk(floor, LastBlock)
<1> DEFINE last == LastBlock
<1>0. WriterType /\ RangeInv
  BY DEF WriterInv
<1>1. /\ StreamStart \in Nat /\ writer.stop \in Nat /\ failed \subseteq StreamStart .. writer.stop
      /\ StreamStart <= writer.stop /\ latest.block \in Nat /\ floor \in Nat
      /\ \A b \in StreamStart .. writer.stop : blockFile[b] = "whole" \/ b \in failed
  <2>1. StreamStart \in Nat
    BY <1>0, StreamFacts
  <2>2. writer.stop \in Nat /\ latest.block \in Nat /\ floor \in Nat
    BY <1>0 DEF WriterType
  <2>3. StreamStart <= writer.stop /\ todo \cup failed \subseteq StreamStart .. writer.stop
        /\ \A b \in StreamStart .. writer.stop : blockFile[b] = "whole" \/ b \in todo \cup failed
    BY <1>0 DEF RangeInv
  <2> QED
    BY <2>1, <2>2, <2>3
<1>2. /\ last \in Nat /\ last <= writer.stop
      /\ latest.block # 0 => latest.block <= last
      /\ last # 0 => \A b \in StreamStart .. last : b \notin failed
  <2>1. CASE failed = {}
    BY <1>1, <2>1, StreamFacts DEF LastBlock, WriterInv
  <2>2. CASE failed # {}
    <3>0. \A x \in failed : x \in Nat /\ StreamStart <= x /\ x <= writer.stop
      BY <1>1
    <3>1. /\ Min(failed) \in failed /\ \A x \in failed : Min(failed) <= x
      <4>1. failed \subseteq Nat
        BY <3>0
      <4> QED
        BY <2>2, <4>1, Least
    <3> DEFINE m == Min(failed)
    <3>2. m \in Nat /\ StreamStart <= m /\ m <= writer.stop
      BY <3>0, <3>1
    <3>3. last = IF m = 0 THEN 0 ELSE m - 1
      BY <2>2 DEF LastBlock
    <3> HIDE DEF m, last
    <3>4. last \in Nat /\ last <= m /\ (m # 0 => last < m)
      BY <3>2, <3>3
    <3>5. latest.block # 0 => latest.block <= last
      BY <1>1, <3>2, <3>3, StreamFacts DEF WriterInv
    <3>6. ASSUME NEW b \in StreamStart .. last, b \in failed, m # 0 PROVE FALSE
      BY <1>1, <3>1, <3>2, <3>4, <3>6 DEF m
    <3>7. m = 0 => last = 0
      BY <3>3
    <3> QED
      BY <1>1, <3>2, <3>4, <3>5, <3>6, <3>7
  <2> QED
    BY <2>1, <2>2
<1> HIDE DEF last
<1>3. last = 0 => latest.block = 0
  BY <1>1, <1>2
<1>4. ASSUME last # 0, NEW b \in floor .. last
      PROVE  blockFile[b] = "whole" \/ b \in recut
  <2>1. b \in Nat /\ floor <= b /\ b <= last
    BY <1>1, <1>2, <1>4
  <2>2. CASE latest.block # 0 /\ b <= latest.block
    <3>1. b \in floor .. latest.block
      BY <1>1, <2>1, <2>2
    <3> QED
      BY <2>2, <3>1 DEF WriterInv, MarkerInv, OnDisk
  <2>3. CASE latest.block = 0 \/ b > latest.block
    <3>1. b \in StreamStart .. last /\ b \in StreamStart .. writer.stop
      BY <1>1, <1>2, <2>1, <2>3, StreamFacts DEF WriterInv
    <3> QED
      BY <1>1, <1>2, <1>4, <3>1
  <2> QED
    BY <1>1, <2>1, <2>2, <2>3
<1> QED
  BY <1>1, <1>2, <1>3, <1>4 DEF last, OnDisk

LEMMA WriterKept ==
  ASSUME WriterInv, WriterNext
  PROVE  WriterInv'
<1> USE DEF WriterInv
<1>0. WriterType /\ MarkerInv /\ RangeInv
  OBVIOUS
<1>1. CASE Upload
  <2>1. UNCHANGED <<blockFile, latest, writer, todo, tasks, failed, floor, recut>> /\ uploaded' \in Nat
    BY <1>1 DEF Upload, WriterType
  <2> QED
    BY <2>1 DEF WriterType, MarkerInv, RangeInv, OnDisk, InRange, StreamStart
<1>2. ASSUME NEW b \in BlockNumbers, SetStartBlock(b)
      PROVE  WriterInv'
  <2>1. /\ latest' = [file |-> "whole", block |-> b] /\ b \in Nat
        /\ floor' = IF b = 0 THEN 0 ELSE b + 1
        /\ writer.at = "loop"
        /\ UNCHANGED <<uploaded, blockFile, writer, todo, tasks, failed, recut>>
    BY <1>2, BlockWriterAssumption DEF SetStartBlock, BlockNumbers, AtLoop
  <2>2. WriterType'
    BY <2>1 DEF WriterType
  <2>3. MarkerInv'
    BY <2>1 DEF MarkerInv, OnDisk
  <2>4. RangeInv'
    BY <2>1 DEF RangeInv, InRange
  <2> QED
    BY <2>2, <2>3, <2>4
<1>3. ASSUME NEW start \in BlockNumbers, NEW stop \in BlockNumbers, WriteRange(start, stop)
      PROVE  WriterInv'
  <2>1. start \in Nat /\ stop \in Nat
    BY BlockWriterAssumption DEF BlockNumbers
  <2>2. /\ writer' = [at |-> "write_range", stop |-> stop, batch |-> start .. stop]
        /\ todo' = start .. stop /\ tasks' = {} /\ failed' = {}
        /\ UNCHANGED <<uploaded, blockFile, latest, floor, recut>>
    BY <1>3 DEF WriteRange, BeginRange
  <2>3. WriterType'
    BY <2>1, <2>2 DEF WriterType
  <2>4. MarkerInv'
    BY <2>2 DEF MarkerInv, OnDisk
  <2>5. RangeInv'
    BY <2>2 DEF RangeInv, InRange
  <2> QED
    BY <2>3, <2>4, <2>5
<1>3a. ASSUME NEW range \in WriteRanges, WriteRange(range[1], range[2])
       PROVE  WriterInv'
  <2>1. range[1] \in BlockNumbers /\ range[2] \in BlockNumbers
    BY BlockWriterAssumption DEF BlockNumbers
  <2> QED
    BY <1>3, <1>3a, <2>1
<1>4. ASSUME NEW b \in BlockNumbers, BlockFailed(b)
      PROVE  WriterInv'
  <2>1. /\ InRange /\ b \in todo /\ tasks' = tasks \ {b} /\ todo' = todo \ {b} /\ failed' = failed \cup {b}
        /\ UNCHANGED <<uploaded, blockFile, latest, writer, floor, recut>>
    BY <1>4 DEF BlockFailed, Window
  <2>2. WriterType'
    BY <2>1 DEF WriterType
  <2>3. MarkerInv' /\ StreamStart' = StreamStart
    BY <2>1 DEF MarkerInv, OnDisk, StreamStart
  <2>4. RangeInv'
    BY <2>1, <2>3 DEF RangeInv, InRange
  <2> QED
    BY <2>2, <2>3, <2>4
<1>5. CASE get_latest_block
  <2>1. /\ latest' = [file |-> "cut", block |-> 0] /\ writer.at = "loop" /\ latest.file = "none"
        /\ writer' = [at |-> "set", stop |-> 0, batch |-> {}]
        /\ UNCHANGED <<uploaded, blockFile, todo, tasks, failed, floor, recut>>
    BY <1>5 DEF get_latest_block, AtLoop
  <2>2. WriterType' /\ MarkerInv'
    BY <2>1 DEF WriterType, MarkerInv
  <2>3. RangeInv'
    BY <2>1 DEF RangeInv, InRange
  <2> QED
    BY <2>2, <2>3
<1>6. CASE Stream
  <2>1. StreamStart \in Nat /\ StreamStop \in Nat /\ StreamStart <= StreamStop
    BY <1>6, StreamFacts DEF Stream
  <2>2. /\ writer' = [at |-> "stream", stop |-> StreamStop, batch |-> StreamStart .. StreamStop]
        /\ todo' = StreamStart .. StreamStop /\ tasks' = {} /\ failed' = {}
        /\ UNCHANGED <<uploaded, blockFile, latest, floor, recut>>
    BY <1>6 DEF Stream, BeginRange
  <2>3. WriterType'
    BY <2>1, <2>2 DEF WriterType
  <2>4. MarkerInv' /\ StreamStart' = StreamStart
    BY <2>2 DEF MarkerInv, OnDisk, StreamStart
  <2>5. RangeInv'
    <3>1. writer'.at = "stream" /\ writer'.stop = StreamStop
      BY <2>2
    <3> QED
      BY <2>1, <2>2, <2>4, <3>1 DEF RangeInv, InRange
  <2> QED
    BY <2>3, <2>4, <2>5
<1>7. ASSUME NEW b \in BlockNumbers, process_block(b)
      PROVE  WriterInv'
  <2>1. /\ InRange /\ b \in todo /\ tasks' = tasks \cup {b}
        /\ blockFile' = [blockFile EXCEPT ![b] = "cut"]
        /\ recut' = IF writer.at = "write_range" THEN recut \cup {b} ELSE recut \ {b}
        /\ UNCHANGED <<uploaded, latest, writer, todo, failed, floor>>
    BY <1>7 DEF process_block, Window
  <2>2. WriterType'
    BY <2>1 DEF WriterType
  <2>3. StreamStart' = StreamStart /\ \A c : c # b => blockFile'[c] = blockFile[c]
    BY <2>1 DEF StreamStart, WriterType
  <2>4. b \in Nat /\ StreamStart \in Nat /\ floor \in Nat /\ latest.block \in Nat
    BY BlockWriterAssumption, StreamFacts DEF BlockNumbers, WriterType
  <2>5. ASSUME NEW c \in floor .. latest.block, latest.block # 0,
               blockFile[c] = "whole" \/ c \in recut
        PROVE  blockFile'[c] = "whole" \/ c \in recut'
    <3>1. CASE writer.at = "write_range"
      BY <2>1, <2>3, <2>5, <3>1
    <3>2. CASE writer.at = "stream"
      <4>1. b > latest.block
        BY <2>1, <2>4, <2>5, <3>2, StreamFacts DEF RangeInv
      <4>2. c # b
        BY <2>4, <4>1
      <4> QED
        BY <2>1, <2>3, <2>5, <3>2, <4>2
    <3> QED
      BY <2>1, <3>1, <3>2 DEF InRange
  <2>6. MarkerInv'
    BY <2>1, <2>5 DEF MarkerInv, OnDisk
  <2>7. RangeInv'
    BY <2>1, <2>3 DEF RangeInv, InRange
  <2> QED
    BY <2>2, <2>6, <2>7
<1>8. ASSUME NEW b \in BlockNumbers, BlockWritten(b)
      PROVE  WriterInv'
  <2>1. /\ b \in todo /\ tasks' = tasks \ {b} /\ todo' = todo \ {b}
        /\ blockFile' = [blockFile EXCEPT ![b] = "whole"] /\ recut' = recut \ {b}
        /\ UNCHANGED <<uploaded, latest, writer, failed, floor>>
    BY <1>8 DEF BlockWritten, RangeInv
  <2>2. WriterType'
    BY <2>1 DEF WriterType
  <2>3. StreamStart' = StreamStart /\ \A c : blockFile'[c] = blockFile[c] \/ (c = b /\ blockFile'[c] = "whole")
    BY <2>1 DEF StreamStart, WriterType
  <2>4. MarkerInv'
    <3>1. ASSUME NEW c \in floor .. latest.block, blockFile[c] = "whole" \/ c \in recut
          PROVE  blockFile'[c] = "whole" \/ c \in recut'
      <4>1. CASE c = b
        BY <2>1, <4>1 DEF WriterType
      <4>2. CASE c # b
        BY <2>1, <2>3, <3>1, <4>2
      <4> QED
        BY <4>1, <4>2
    <3>2. latest' = latest /\ floor' = floor
      BY <2>1
    <3>3. OnDisk(floor, latest.block) => OnDisk(floor, latest.block)'
      BY <3>1, <3>2 DEF OnDisk
    <3> QED
      BY <3>2, <3>3 DEF MarkerInv
  <2>5. RangeInv'
    <3>1. writer.at \in {"stream", "write_range"} /\ writer' = writer /\ latest' = latest
      BY <2>1 DEF RangeInv, InRange
    <3>2. tasks' \subseteq todo' /\ todo' \cup failed' \subseteq todo \cup failed
      BY <2>1 DEF RangeInv
    <3>3. ASSUME NEW c, blockFile[c] = "whole" \/ c \in todo \cup failed
          PROVE  blockFile'[c] = "whole" \/ c \in todo' \cup failed'
      <4>1. CASE c = b
        BY <2>1, <4>1 DEF WriterType
      <4>2. CASE c # b
        <5>1. blockFile'[c] = blockFile[c]
          BY <2>3, <4>2
        <5> QED
          BY <2>1, <3>3, <4>2, <5>1
      <4> QED
        BY <4>1, <4>2
    <3> QED
      BY <2>3, <3>1, <3>2, <3>3 DEF RangeInv, InRange
  <2> QED
    BY <2>2, <2>4, <2>5
<1>9. CASE Retry
  <2>1. /\ InRange /\ todo = {} /\ todo' = failed /\ failed' = {} /\ UNCHANGED <<uploaded, blockFile, latest, tasks, floor, recut>>
        /\ writer' = [writer EXCEPT !.batch = failed]
    BY <1>9 DEF Retry
  <2>2. writer'.at = writer.at /\ writer'.stop = writer.stop /\ WriterType'
    BY <2>1 DEF WriterType
  <2>3. MarkerInv' /\ StreamStart' = StreamStart
    BY <2>1 DEF MarkerInv, OnDisk, StreamStart
  <2>4. RangeInv'
    BY <2>1, <2>2, <2>3 DEF RangeInv, InRange
  <2> QED
    BY <2>2, <2>3, <2>4
<1>10. CASE RangeEnds
  <2>1. /\ InRange /\ todo = {} /\ failed' = {} /\ UNCHANGED <<uploaded, blockFile, todo, tasks, floor, recut>>
    BY <1>10 DEF RangeEnds
  <2>2. CASE writer.at = "stream"
    <3>1. writer' = [at |-> "set", stop |-> LastBlock, batch |-> {}] /\ latest' = [latest EXCEPT !.file = "cut"]
      BY <1>10, <2>2 DEF RangeEnds
    <3> DEFINE last == LastBlock
    <3>2. /\ last \in Nat
          /\ IF last = 0 THEN latest.block = 0
             ELSE latest.block <= last /\ OnDisk(floor, last)
      BY <2>1, <2>2, StreamEnds
    <3>a. writer' = [at |-> "set", stop |-> last, batch |-> {}]
      BY <3>1
    <3> HIDE DEF last
    <3>3. latest'.block = latest.block /\ latest'.file = "cut" /\ WriterType'
      BY <2>1, <3>1, <3>2, <3>a DEF WriterType
    <3>4. MarkerInv'
      BY <2>1, <3>3 DEF MarkerInv, OnDisk
    <3>5. RangeInv'
      BY <2>1, <3>2, <3>3, <3>a DEF RangeInv, InRange, OnDisk
    <3> QED
      BY <3>3, <3>4, <3>5
  <2>3. CASE writer.at = "write_range"
    <3>1. writer' = [at |-> "exit", stop |-> 0, batch |-> {}] /\ latest' = latest
      BY <1>10, <2>3 DEF RangeEnds, AtLoop
    <3>2. WriterType' /\ MarkerInv'
      BY <2>1, <3>1 DEF WriterType, MarkerInv, OnDisk
    <3>3. RangeInv'
      BY <2>1, <3>1 DEF RangeInv, InRange
    <3> QED
      BY <3>2, <3>3
  <2> QED
    BY <2>1, <2>2, <2>3 DEF InRange
<1>11. CASE set_latest_block
  <2>1. /\ writer.at = "set" /\ latest' = [file |-> "whole", block |-> writer.stop] /\ writer' = AtLoop
        /\ UNCHANGED <<uploaded, blockFile, todo, tasks, failed, floor, recut>>
    BY <1>11 DEF set_latest_block
  <2>2. writer.stop \in Nat /\ floor \in Nat /\ latest.block \in Nat
    BY DEF WriterType
  <2>3. WriterType'
    BY <2>1, <2>2 DEF WriterType, AtLoop
  <2>4. MarkerInv'
    BY <2>1, <2>2 DEF MarkerInv, RangeInv, OnDisk
  <2>5. RangeInv'
    BY <2>1 DEF RangeInv, InRange, AtLoop
  <2> QED
    BY <2>3, <2>4, <2>5
<1>12. CASE Kill
  <2>1. /\ writer' = AtLoop /\ todo' = {} /\ tasks' = {} /\ failed' = {}
        /\ UNCHANGED <<uploaded, blockFile, latest, floor, recut>>
    BY <1>12 DEF Kill
  <2>2. WriterType' /\ MarkerInv'
    BY <2>1 DEF WriterType, MarkerInv, OnDisk, AtLoop
  <2>3. RangeInv'
    BY <2>1 DEF RangeInv, InRange, AtLoop
  <2> QED
    BY <2>2, <2>3
<1>13. CASE UNCHANGED writerVars
  BY <1>13 DEF writerVars, WriterType, MarkerInv, RangeInv, OnDisk, InRange, StreamStart
<1> QED
  BY <1>1, <1>2, <1>3a, <1>4, <1>5, <1>6, <1>7, <1>8, <1>9, <1>10, <1>11, <1>12, <1>13
     DEF WriterNext, WriterStep, Sleep

(***************************************************************************)
(* The block writer's marker skips nothing, for every archive, range,      *)
(* concurrency and retry limit, whichever blocks fail and whenever the     *)
(* process is killed: a block it has passed is whole, unless a write-range *)
(* over the same directory has opened it again.                            *)
(***************************************************************************)
THEOREM MarkerSkipsNothing == Spec => []BlocksOnDisk
<1>1. Init => WriterInv
  BY WriterStart DEF Init
<1>2. WriterInv /\ [Next]_vars => WriterInv'
  <2> SUFFICES ASSUME WriterInv, [Next]_vars, UNCHANGED writerVars PROVE WriterInv'
    BY WriterKept DEF Next, vars
  <2> QED
    BY DEF writerVars, WriterInv, WriterType, MarkerInv, RangeInv, OnDisk, InRange, StreamStart
<1>3. WriterInv => BlocksOnDisk
  BY DEF WriterInv, MarkerInv, OnDisk, BlocksOnDisk
<1> QED
  BY <1>1, <1>2, <1>3, PTL DEF Spec

-----------------------------------------------------------------------------
(* The file workers.  A worker only walks through directories that are not *)
(* hidden, and what it has listed has passed the age check once: later     *)
(* writes only raise the version, so that what is read of the file, and    *)
(* what is put after that, is no older than the version that passed.       *)
Listable == {d \in Dirs : d = Root \/ d \notin Excluded}

Entries == [cached : BOOLEAN, known : SUBSET Files, seen : Nat, hot : BOOLEAN]

FolderType ==
  /\ present \subseteq AllFiles
  /\ version \in [AllFiles -> Nat] /\ quiet \in [AllFiles -> Nat] /\ object \in [AllFiles -> Nat]
  /\ age \in [AllFiles -> {"new", "old", "ahead"}]
  /\ upload \in [AllFiles -> [at : {"exists", "read", "put"}, bytes : Nat]]
  /\ modified \in [Dirs -> Nat]
  /\ dir_states \in [Dirs -> Entries]
  /\ walk \in [at : {"idle", "walk", "list", "files"}, queue : Seq(Listable),
               dir : Listable \cup {NoDir}, modified : Nat, left : SUBSET Files]
  /\ known_in_s3 \subseteq LedgerFiles
  /\ bft \in [running : BOOLEAN, left : SUBSET LedgerFiles]

AgeInv ==
  \A f \in AllFiles : /\ quiet[f] <= version[f]
                      /\ f \in present => version[f] # 0
                      /\ f \in present /\ age[f] # "new" => quiet[f] # 0

ListedInv ==
  /\ walk.at \in {"list", "files"} => walk.dir \in Listable
  /\ walk.left # {} => walk.at = "files"
  /\ \A f \in walk.left : DirOf[f] = walk.dir /\ f \notin Excluded /\ quiet[f] # 0
  /\ \A f \in bft.left : quiet[f] # 0

Fit(f, n) == quiet[f] # 0 /\ ~Hidden(f) /\ n \in quiet[f] .. version[f]

UploadInv == \A f \in AllFiles : upload[f].at = "put" => Fit(f, upload[f].bytes)
ObjectInv == \A f \in AllFiles : object[f] # 0 => Fit(f, object[f])
KnownInv ==
  /\ \A f \in known_in_s3 : object[f] # 0
  /\ \A d \in Dirs : \A f \in dir_states[d].known : object[f] # 0

FolderInv == FolderType /\ AgeInv /\ ListedInv /\ UploadInv /\ ObjectInv /\ KnownInv

LEMMA SetToSeqType ==
  ASSUME NEW S, IsFiniteSet(S)
  PROVE  SetToSeq(S) \in Seq(S)
<1>1. Cardinality(S) \in Nat /\ ExistsBijection(1 .. Cardinality(S), S)
  BY FS_CardinalityType
<1>2. \E f \in [1 .. Cardinality(S) -> S] : IsInjective(f)
  BY <1>1 DEF ExistsBijection, Bijection, Injection
<1>3. SetToSeq(S) \in [1 .. Cardinality(S) -> S]
  BY <1>2 DEF SetToSeq
<1> QED
  BY <1>1, <1>3

LEMMA EnqueueType ==
  ASSUME NEW d, NEW queue \in Seq(Listable)
  PROVE  EnqueueChildren(d, queue) \in Seq(Listable)
<1>1. ChildDirs(d) \subseteq Listable /\ Listable \subseteq Dirs
  BY DEF ChildDirs, Listable, entry_has_excluded_prefix
<1>2. IsFiniteSet(ChildDirs(d))
  <2>1. ChildDirs(d) \subseteq Dirs /\ IsFiniteSet(Dirs)
    BY <1>1, FolderAssumption
  <2> QED
    BY <2>1, FS_Subset
<1>3. SetToSeq(ChildDirs(d)) \in Seq(ChildDirs(d))
  BY <1>2, SetToSeqType
<1>4. SetToSeq(ChildDirs(d)) \in Seq(Listable)
  BY <1>1, <1>3
<1> QED
  BY <1>4 DEF EnqueueChildren

LEMMA EntrySet ==
  ASSUME FolderType, NEW d \in Dirs, NEW e, e \in Entries, dir_states' = [dir_states EXCEPT ![d] = e]
  PROVE  /\ dir_states' \in [Dirs -> Entries] /\ dir_states'[d] = e
         /\ \A c \in Dirs : c # d => dir_states'[c] = dir_states[c]
  BY DEF FolderType

LEMMA FolderStart == FolderInit => FolderInv
<1> SUFFICES ASSUME FolderInit PROVE FolderInv
  OBVIOUS
<1>1. Root \in Listable /\ <<>> \in Seq(Listable)
  BY FolderAssumption DEF Listable
<1>2. FolderType
  BY <1>1 DEF FolderInit, FolderType, Entries, Idle, BftIdle, NoEntry, NotBegun
<1>3. AgeInv /\ ListedInv /\ UploadInv /\ ObjectInv /\ KnownInv
  BY DEF FolderInit, AgeInv, ListedInv, UploadInv, ObjectInv, KnownInv, Idle, BftIdle, NoEntry, NotBegun
<1> QED
  BY <1>2, <1>3 DEF FolderInv

(* The first version to pass the check stays, and versions only grow.      *)
Aging ==
  \A f \in AllFiles : (quiet[f] # 0 => quiet'[f] = quiet[f]) /\ version[f] <= version'[f]

LEMMA FitKept ==
  ASSUME FolderType, FolderType', Aging, NEW f \in AllFiles, NEW n, Fit(f, n)
  PROVE  Fit(f, n)'
<1>1. quiet[f] \in Nat /\ version[f] \in Nat /\ version'[f] \in Nat
  BY DEF FolderType
<1> QED
  BY <1>1 DEF Aging, Fit, Hidden

(* The steps of the other processes.                                       *)
LEMMA FilesKept ==
  ASSUME FolderInv, NEW files, files \subseteq AllFiles, FilesChange(files)
  PROVE  FolderInv'
<1>0. FolderType /\ AgeInv /\ ListedInv /\ UploadInv /\ ObjectInv /\ KnownInv
  BY DEF FolderInv
<1>1. PICK f \in AllFiles : CreateFile(f) \/ WriteFile(f) \/ RemoveFile(f) \/ AgeFile(f) \/ SetClockBack(f)
  BY DEF FilesChange
<1>2. UNCHANGED <<object, upload, dir_states, walk, known_in_s3, bft>>
  BY <1>1 DEF CreateFile, WriteFile, RemoveFile, AgeFile, SetClockBack
<1>3. modified' \in [Dirs -> Nat]
  <2>1. \A ds : Touched(ds) \in [Dirs -> Nat]
    BY <1>0 DEF Touched, FolderType
  <2> QED
    BY <1>0, <1>1, <2>1 DEF CreateFile, WriteFile, RemoveFile, AgeFile, SetClockBack, FolderType
<1>4. present' \subseteq AllFiles
  BY <1>0, <1>1 DEF CreateFile, WriteFile, RemoveFile, AgeFile, SetClockBack, FolderType
<1>5. /\ version' \in [AllFiles -> Nat] /\ quiet' \in [AllFiles -> Nat]
      /\ age' \in [AllFiles -> {"new", "old", "ahead"}]
  <2>1. /\ version' = version \/ version' = [version EXCEPT ![f] = version[f] + 1]
        /\ quiet' = quiet \/ \E n \in {version[f], quiet[f]} : quiet' = [quiet EXCEPT ![f] = n]
        /\ age' = age \/ \E a \in {"new", "old", "ahead"} : age' = [age EXCEPT ![f] = a]
    BY <1>1 DEF CreateFile, WriteFile, RemoveFile, AgeFile, SetClockBack, Written, Passes
  <2>2. version[f] \in Nat /\ quiet[f] \in Nat
    BY <1>0 DEF FolderType
  <2>3. version' \in [AllFiles -> Nat]
    BY <1>0, <2>1, <2>2 DEF FolderType
  <2>4. quiet' \in [AllFiles -> Nat]
    BY <1>0, <2>1, <2>2 DEF FolderType
  <2>5. age' \in [AllFiles -> {"new", "old", "ahead"}]
    BY <1>0, <2>1 DEF FolderType
  <2> QED
    BY <2>3, <2>4, <2>5
<1>6. FolderType'
  BY <1>0, <1>2, <1>3, <1>4, <1>5 DEF FolderType
<1>7. Aging /\ AgeInv'
  <2>1. CASE CreateFile(f) \/ WriteFile(f)
    <3>1. /\ version' = [version EXCEPT ![f] = @ + 1] /\ age' = [age EXCEPT ![f] = "new"]
          /\ quiet' = quiet /\ present' \subseteq present \cup {f}
      BY <2>1 DEF CreateFile, WriteFile, Written
    <3> QED
      BY <1>0, <3>1 DEF Aging, AgeInv, FolderType
  <2>2. CASE RemoveFile(f)
    BY <1>0, <2>2 DEF RemoveFile, Aging, AgeInv, FolderType
  <2>3. CASE AgeFile(f) \/ SetClockBack(f)
    <3>1. /\ version' = version /\ present' = present /\ f \in present
          /\ \/ Passes(f) /\ \E a : age' = [age EXCEPT ![f] = a]
             \/ quiet' = quiet /\ age' = [age EXCEPT ![f] = "new"]
      BY <2>3 DEF AgeFile, SetClockBack, Exists
    <3>2. CASE Passes(f) /\ \E a : age' = [age EXCEPT ![f] = a]
      <4>1. /\ quiet' = [quiet EXCEPT ![f] = IF quiet[f] = 0 THEN version[f] ELSE quiet[f]]
            /\ version[f] # 0 /\ quiet[f] \in Nat /\ version[f] \in Nat
        BY <1>0, <3>1, <3>2 DEF Passes, AgeInv, FolderType
      <4>2. \A g \in AllFiles : g # f => quiet'[g] = quiet[g] /\ age'[g] = age[g]
        BY <1>0, <3>2, <4>1 DEF FolderType
      <4>3. quiet'[f] # 0 /\ quiet'[f] <= version[f] /\ (quiet[f] # 0 => quiet'[f] = quiet[f])
        BY <1>0, <4>1 DEF FolderType, AgeInv
      <4>4. Aging
        BY <1>0, <3>1, <4>2, <4>3 DEF Aging, FolderType
      <4>5. AgeInv'
        BY <1>0, <3>1, <4>2, <4>3 DEF AgeInv, FolderType
      <4> QED
        BY <4>4, <4>5
    <3>3. CASE quiet' = quiet /\ age' = [age EXCEPT ![f] = "new"]
      BY <1>0, <3>1, <3>3 DEF Aging, AgeInv, FolderType
    <3> QED
      BY <3>1, <3>2, <3>3
  <2> QED
    BY <1>1, <2>1, <2>2, <2>3
<1>8. ListedInv'
  BY <1>0, <1>2, <1>7 DEF ListedInv, FolderType, AllFiles, Aging
<1>9. UploadInv' /\ ObjectInv' /\ KnownInv'
  <2>1. UploadInv'
    BY <1>0, <1>2, <1>6, <1>7, FitKept DEF UploadInv
  <2>2. ObjectInv'
    BY <1>0, <1>2, <1>6, <1>7, FitKept DEF ObjectInv
  <2>3. KnownInv'
    BY <1>0, <1>2 DEF KnownInv
  <2> QED
    BY <2>1, <2>2, <2>3
<1> QED
  BY <1>6, <1>7, <1>8, <1>9 DEF FolderInv

(* A request for a file that was listed: what is stored stays stored.      *)
LEMMA RequestFits ==
  ASSUME FolderInv, NEW f \in AllFiles, quiet[f] # 0, ~Hidden(f), NEW answer,
         process_single_file(f, answer), UNCHANGED fileVars
  PROVE  /\ object' \in [AllFiles -> Nat]
         /\ upload' \in [AllFiles -> [at : {"exists", "read", "put"}, bytes : Nat]]
         /\ UploadInv' /\ ObjectInv'
         /\ \A g \in AllFiles : object[g] # 0 => object'[g] # 0
         /\ answer \in {"exists", "put"} => object'[f] # 0
<1>0. FolderType /\ AgeInv /\ UploadInv /\ ObjectInv
  BY DEF FolderInv
<1>1. UNCHANGED <<present, version, quiet>> /\ \A g, n : Fit(g, n)' <=> Fit(g, n)
  BY DEF fileVars, Fit, Hidden
<1>2. quiet[f] \in Nat /\ version[f] \in Nat /\ quiet[f] <= version[f]
  BY <1>0 DEF FolderType, AgeInv
<1>3. PICK next \in [at : {"exists", "read", "put"}, bytes : Nat] :
         upload' = [upload EXCEPT ![f] = next] /\ (next.at = "put" => next.bytes = version[f])
  <2>1. \/ upload' = [upload EXCEPT ![f] = [at |-> "exists", bytes |-> 0]]
        \/ upload' = [upload EXCEPT ![f] = [at |-> "read", bytes |-> 0]]
        \/ upload' = [upload EXCEPT ![f] = [at |-> "put", bytes |-> version[f]]]
    BY DEF process_single_file, GoesOn, NotBegun
  <2>2. \E next \in {[at |-> "exists", bytes |-> 0], [at |-> "read", bytes |-> 0],
                     [at |-> "put", bytes |-> version[f]]} : upload' = [upload EXCEPT ![f] = next]
    BY <2>1
  <2>3. \A next \in {[at |-> "exists", bytes |-> 0], [at |-> "read", bytes |-> 0],
                     [at |-> "put", bytes |-> version[f]]} :
           /\ next \in [at : {"exists", "read", "put"}, bytes : Nat]
           /\ next.at = "put" => next.bytes = version[f]
    BY <1>2
  <2> QED
    BY <2>2, <2>3
<1>4. \/ object' = object /\ (answer \in {"exists", "put"} => object[f] # 0)
      \/ upload[f].at = "put" /\ Put(f)
  BY DEF process_single_file
<1>5. upload' \in [AllFiles -> [at : {"exists", "read", "put"}, bytes : Nat]] /\ UploadInv'
  <2>1. \A g \in AllFiles : upload'[g] = IF g = f THEN next ELSE upload[g]
    BY <1>0, <1>3 DEF FolderType
  <2>2. next.at = "put" => Fit(f, next.bytes)
    BY <1>2, <1>3 DEF Fit
  <2> QED
    BY <1>0, <1>1, <1>3, <2>1, <2>2 DEF UploadInv, FolderType
<1>6. CASE object' = object /\ (answer \in {"exists", "put"} => object[f] # 0)
  BY <1>0, <1>1, <1>5, <1>6 DEF FolderType, ObjectInv
<1>7. CASE upload[f].at = "put" /\ Put(f)
  <2>1. Fit(f, upload[f].bytes)
    BY <1>0, <1>7 DEF UploadInv
  <2>2. upload[f].bytes \in Nat /\ upload[f].bytes # 0
    BY <1>2, <2>1 DEF Fit
  <2>3. object' = [object EXCEPT ![f] = IF object[f] = 0 THEN upload[f].bytes ELSE object[f]]
    BY <1>7 DEF Put
  <2>4. object' \in [AllFiles -> Nat] /\ \A g \in AllFiles : g # f => object'[g] = object[g]
    BY <1>0, <2>2, <2>3 DEF FolderType
  <2>5. object'[f] # 0 /\ Fit(f, object'[f])
    BY <1>0, <2>1, <2>2, <2>3 DEF FolderType, ObjectInv
  <2>6. ObjectInv'
    BY <1>0, <1>1, <2>4, <2>5 DEF ObjectInv
  <2> QED
    BY <1>5, <2>4, <2>5, <2>6
<1> QED
  BY <1>4, <1>6, <1>7

LEMMA FolderKept ==
  ASSUME FolderInv, FolderNext \/ BftNext
  PROVE  FolderInv'
<1>0. FolderType /\ AgeInv /\ ListedInv /\ UploadInv /\ ObjectInv /\ KnownInv
  BY DEF FolderInv
<1>1. ASSUME FilesChange(Files) \/ FilesChange(LedgerFiles)
      PROVE  FolderInv'
  <2>1. Files \subseteq AllFiles /\ LedgerFiles \subseteq AllFiles
    BY DEF AllFiles
  <2> QED
    BY <1>1, <2>1, FilesKept
<1>2. ASSUME UNCHANGED <<fileVars, modified, object>>, upload' = upload \/ upload' = [f \in AllFiles |-> NotBegun],
             FolderType', ListedInv', KnownInv'
      PROVE  FolderInv'
  <2>1. UNCHANGED <<present, version, age, quiet>> /\ \A g, n : Fit(g, n)' <=> Fit(g, n)
    BY <1>2 DEF fileVars, Fit, Hidden
  <2>2. AgeInv' /\ ObjectInv'
    BY <1>0, <1>2, <2>1 DEF AgeInv, ObjectInv
  <2>3. UploadInv'
    BY <1>0, <1>2, <2>1 DEF UploadInv, NotBegun
  <2> QED
    BY <1>2, <2>2, <2>3 DEF FolderInv
<1>3. ASSUME UNCHANGED <<fileVars, modified, object, dir_states, known_in_s3>>
      PROVE  KnownInv'
  BY <1>0, <1>3 DEF KnownInv
<1>4. ASSUME NEW d \in Dirs, Cool(d)
      PROVE  FolderInv'
  <2>1. UNCHANGED <<fileVars, modified, object, upload, walk, known_in_s3, bft>>
        /\ dir_states' = [dir_states EXCEPT ![d].hot = FALSE]
    BY <1>4 DEF Cool
  <2>2. dir_states' \in [Dirs -> Entries]
        /\ \A e \in Dirs : dir_states'[e].known = dir_states[e].known
    <3>1. PICK e : e = [dir_states[d] EXCEPT !.hot = FALSE] /\ dir_states' = [dir_states EXCEPT ![d] = e]
      BY <2>1
    <3>2. e \in Entries /\ e.known = dir_states[d].known
      BY <1>0, <3>1 DEF FolderType, Entries
    <3> QED
      BY <1>0, <3>1, <3>2, EntrySet
  <2>3. FolderType' /\ ListedInv' /\ KnownInv'
    BY <1>0, <2>1, <2>2 DEF FolderType, ListedInv, KnownInv, fileVars
  <2> QED
    BY <1>2, <2>1, <2>3
<1>5. CASE recursive_dir_archiver
  <2>1. /\ walk' = [at |-> "walk", queue |-> <<Root>>, dir |-> NoDir, modified |-> 0, left |-> {}]
        /\ UNCHANGED <<fileVars, modified, object, upload, dir_states, known_in_s3, bft>>
    BY <1>5 DEF recursive_dir_archiver, Idle
  <2>2. <<Root>> \in Seq(Listable)
    BY FolderAssumption DEF Listable
  <2>3. FolderType' /\ ListedInv'
    BY <1>0, <2>1, <2>2 DEF FolderType, ListedInv, fileVars
  <2> QED
    BY <1>2, <1>3, <2>1, <2>3
<1>6. CASE archive_recursive_tick
  <2>0. PICK d : d = Head(walk.queue)
    OBVIOUS
  <2>1. d \in Listable /\ d \in Dirs /\ Tail(walk.queue) \in Seq(Listable) /\ modified[d] \in Nat
        /\ walk.at = "walk" /\ walk.left = {}
    BY <1>0, <1>6, <2>0 DEF FolderType, ListedInv, archive_recursive_tick, Listable
  <2>2. UNCHANGED <<fileVars, modified, object, upload, known_in_s3, bft>>
    BY <1>6 DEF archive_recursive_tick
  <2>3. \/ walk' = [walk EXCEPT !.at = "list", !.queue = Tail(walk.queue), !.dir = d, !.modified = modified[d]]
        \/ walk' = [walk EXCEPT !.queue = EnqueueChildren(d, Tail(walk.queue))]
    BY <1>6, <2>0 DEF archive_recursive_tick
  <2>4. EnqueueChildren(d, Tail(walk.queue)) \in Seq(Listable)
    BY <2>1, EnqueueType
  <2>5. PICK q : q = EnqueueChildren(d, Tail(walk.queue))
    OBVIOUS
  <2>6. /\ walk' \in [at : {"idle", "walk", "list", "files"}, queue : Seq(Listable),
                      dir : Listable \cup {NoDir}, modified : Nat, left : SUBSET Files]
        /\ walk'.left = {} /\ (walk'.at \in {"list", "files"} => walk'.dir \in Listable)
    <3>1. CASE walk' = [walk EXCEPT !.at = "list", !.queue = Tail(walk.queue), !.dir = d, !.modified = modified[d]]
      BY <1>0, <2>1, <3>1 DEF FolderType
    <3>2. CASE walk' = [walk EXCEPT !.queue = q]
      BY <1>0, <2>1, <2>4, <2>5, <3>2 DEF FolderType
    <3> QED
      BY <2>3, <2>5, <3>1, <3>2
  <2>7. PICK e : /\ e = dir_states[d] \/ e = [cached |-> TRUE, known |-> {}, seen |-> 0, hot |-> TRUE]
                 /\ dir_states' = dir_states \/ dir_states' = [dir_states EXCEPT ![d] = e]
    <3>1. \/ dir_states' = dir_states
          \/ dir_states' = [dir_states EXCEPT ![d] = IF dir_states[d].cached THEN dir_states[d]
                              ELSE [cached |-> TRUE, known |-> {}, seen |-> 0, hot |-> TRUE]]
      BY <1>6, <2>0 DEF archive_recursive_tick, NoEntry
    <3>2. CASE dir_states[d].cached
      BY <3>1, <3>2
    <3>3. CASE ~dir_states[d].cached
      BY <3>1, <3>3
    <3> QED
      BY <3>2, <3>3
  <2>8. dir_states' \in [Dirs -> Entries]
        /\ \A c \in Dirs : dir_states'[c].known \subseteq dir_states[c].known
    <3>1. e \in Entries /\ e.known \subseteq dir_states[d].known
      <4>1. dir_states[d] \in Entries
        BY <1>0, <2>1 DEF FolderType
      <4>2. [cached |-> TRUE, known |-> {}, seen |-> 0, hot |-> TRUE] \in Entries
        BY DEF Entries
      <4>3. CASE e = dir_states[d]
        BY <4>1, <4>3
      <4>4. CASE e = [cached |-> TRUE, known |-> {}, seen |-> 0, hot |-> TRUE]
        BY <4>2, <4>4
      <4> QED
        BY <2>7, <4>3, <4>4
    <3>2. CASE dir_states' = dir_states
      BY <1>0, <3>2 DEF FolderType
    <3>3. CASE dir_states' = [dir_states EXCEPT ![d] = e]
      BY <1>0, <2>1, <3>1, <3>3, EntrySet
    <3> QED
      BY <2>7, <3>2, <3>3
  <2>9. FolderType' /\ ListedInv' /\ KnownInv'
    BY <1>0, <2>2, <2>6, <2>8 DEF FolderType, ListedInv, KnownInv, fileVars
  <2> QED
    BY <1>2, <2>2, <2>9
<1>7. CASE archive_dir
  <2>1. PICK local, known : /\ local = LocalFiles(walk.dir) /\ known \subseteq dir_states[walk.dir].known
                            /\ walk' = [walk EXCEPT !.at = "files", !.left = local \ known]
                            /\ \/ dir_states' = [dir_states EXCEPT ![walk.dir].known = known]
                               \/ dir_states' = [dir_states EXCEPT ![walk.dir].known = dir_states[walk.dir].known]
    BY <1>7 DEF archive_dir
  <2>2. UNCHANGED <<fileVars, modified, object, upload, known_in_s3, bft>> /\ walk.at = "list"
    BY <1>7 DEF archive_dir
  <2>3. \A f \in local : f \in Files /\ DirOf[f] = walk.dir /\ f \notin Excluded /\ quiet[f] # 0
    BY <1>0, <2>1 DEF LocalFiles, FolderType, Exists, file_is_too_new, entry_has_excluded_prefix,
                AgeInv, AllFiles
  <2>4. walk.dir \in Listable /\ walk.dir \in Dirs
    BY <1>0, <2>2 DEF ListedInv, Listable
  <2>5. dir_states' \in [Dirs -> Entries]
        /\ \A e \in Dirs : dir_states'[e].known \subseteq dir_states[e].known
    <3>1. PICK e : /\ e = [dir_states[walk.dir] EXCEPT !.known = known] \/ e = dir_states[walk.dir]
                   /\ dir_states' = [dir_states EXCEPT ![walk.dir] = e]
      BY <1>0, <2>1, <2>4 DEF FolderType, Entries
    <3>2. e \in Entries /\ e.known \subseteq dir_states[walk.dir].known
      <4>1. dir_states[walk.dir] \in Entries
        BY <1>0, <2>4 DEF FolderType
      <4>2. CASE e = dir_states[walk.dir]
        BY <4>1, <4>2
      <4>3. CASE e = [dir_states[walk.dir] EXCEPT !.known = known]
        BY <2>1, <4>1, <4>3 DEF Entries
      <4> QED
        BY <3>1, <4>2, <4>3
    <3> QED
      BY <1>0, <2>4, <3>1, <3>2, EntrySet
  <2>6. FolderType' /\ walk'.dir = walk.dir /\ walk'.left \subseteq local /\ walk'.at = "files"
    BY <1>0, <2>1, <2>2, <2>3, <2>5 DEF FolderType, fileVars
  <2>7. ListedInv'
    BY <1>0, <2>2, <2>3, <2>4, <2>6 DEF ListedInv, fileVars
  <2>8. KnownInv'
    BY <1>0, <2>2, <2>5 DEF KnownInv
  <2> QED
    BY <1>2, <2>2, <2>6, <2>7, <2>8
<1>8. ASSUME NEW f \in Files, FolderFile(f)
      PROVE  FolderInv'
  <2>1. PICK answer : /\ process_single_file(f, answer)
                      /\ walk' = [walk EXCEPT !.left = Left(walk.left, f, answer)]
                      /\ dir_states' = [dir_states EXCEPT ![walk.dir].known =
                           IF answer = "exists" THEN dir_states[walk.dir].known \cup {f}
                           ELSE dir_states[walk.dir].known]
    BY <1>8 DEF FolderFile
  <2>2. f \in walk.left /\ walk.at = "files" /\ UNCHANGED <<fileVars, modified, known_in_s3, bft>>
    BY <1>8 DEF FolderFile
  <2>3. quiet[f] # 0 /\ ~Hidden(f) /\ f \in AllFiles /\ walk.dir \in Dirs
    BY <1>0, <2>2 DEF ListedInv, Hidden, AllFiles, Listable
  <2>4. /\ object' \in [AllFiles -> Nat]
        /\ upload' \in [AllFiles -> [at : {"exists", "read", "put"}, bytes : Nat]]
        /\ UploadInv' /\ ObjectInv'
        /\ \A g \in AllFiles : object[g] # 0 => object'[g] # 0
        /\ answer \in {"exists", "put"} => object'[f] # 0
    BY <2>1, <2>2, <2>3, RequestFits
  <2>5. Left(walk.left, f, answer) \subseteq walk.left
    BY DEF Left
  <2>6. /\ walk' \in [at : {"idle", "walk", "list", "files"}, queue : Seq(Listable),
                      dir : Listable \cup {NoDir}, modified : Nat, left : SUBSET Files]
        /\ walk'.left \subseteq walk.left /\ walk'.at = walk.at /\ walk'.dir = walk.dir
    BY <1>0, <2>1, <2>5 DEF FolderType
  <2>7. /\ dir_states' \in [Dirs -> Entries]
        /\ \A e \in Dirs : \A g \in dir_states'[e].known :
              g \in dir_states[e].known \/ (answer = "exists" /\ g = f)
    <3>1. PICK e : /\ e = [dir_states[walk.dir] EXCEPT !.known =
                             IF answer = "exists" THEN dir_states[walk.dir].known \cup {f}
                             ELSE dir_states[walk.dir].known]
                   /\ dir_states' = [dir_states EXCEPT ![walk.dir] = e]
      BY <2>1
    <3>2. /\ e \in Entries
          /\ \A g \in e.known : g \in dir_states[walk.dir].known \/ (answer = "exists" /\ g = f)
      BY <1>0, <2>3, <3>1 DEF FolderType, Entries
    <3> QED
      BY <1>0, <2>3, <3>1, <3>2, EntrySet
  <2>8. FolderType' /\ ListedInv'
    BY <1>0, <2>2, <2>4, <2>6, <2>7 DEF FolderType, ListedInv, fileVars
  <2>9. KnownInv'
    <3>1. \A d \in Dirs : dir_states[d].known \subseteq AllFiles
      BY <1>0 DEF FolderType, Entries, AllFiles
    <3>2. known_in_s3 \subseteq AllFiles
      BY <1>0 DEF FolderType, AllFiles
    <3> QED
      BY <1>0, <2>2, <2>4, <2>7, <3>1, <3>2 DEF KnownInv
  <2>10. AgeInv'
    BY <1>0, <2>2 DEF AgeInv, fileVars
  <2> QED
    BY <2>4, <2>8, <2>9, <2>10 DEF FolderInv
<1>9. CASE mark_processed
  <2>0. PICK q : q = EnqueueChildren(walk.dir, walk.queue)
    OBVIOUS
  <2>1. /\ walk' = [at |-> "walk", queue |-> q, dir |-> NoDir, modified |-> 0, left |-> {}]
        /\ UNCHANGED <<fileVars, modified, object, upload, known_in_s3, bft>> /\ walk.at = "files"
        /\ dir_states' = [dir_states EXCEPT ![walk.dir].seen = walk.modified, ![walk.dir].hot = TRUE]
    BY <1>9, <2>0 DEF mark_processed, Idle
  <2>2. q \in Seq(Listable) /\ walk.dir \in Dirs
    BY <1>0, <2>0, <2>1, EnqueueType DEF FolderType, ListedInv, Listable
  <2>3. dir_states' \in [Dirs -> Entries]
        /\ \A e \in Dirs : dir_states'[e].known = dir_states[e].known
    <3>1. PICK e : /\ e = [dir_states[walk.dir] EXCEPT !.seen = walk.modified, !.hot = TRUE]
                   /\ dir_states' = [dir_states EXCEPT ![walk.dir] = e]
      BY <2>1
    <3>2. e \in Entries /\ e.known = dir_states[walk.dir].known
      BY <1>0, <2>2, <3>1 DEF FolderType, Entries
    <3> QED
      BY <1>0, <2>2, <3>1, <3>2, EntrySet
  <2>4. FolderType' /\ ListedInv' /\ KnownInv'
    BY <1>0, <2>1, <2>2, <2>3 DEF FolderType, ListedInv, KnownInv, fileVars
  <2> QED
    BY <1>2, <2>1, <2>4
<1>10. ASSUME EndTick \/ ListingFails
       PROVE  FolderInv'
  <2>1. /\ \E at \in {"idle", "walk"} : walk' = [at |-> at, queue |-> <<>>, dir |-> NoDir, modified |-> 0, left |-> {}]
        /\ UNCHANGED <<fileVars, modified, object, upload, known_in_s3, bft>>
        /\ \/ dir_states' = dir_states
           \/ dir_states' = [d \in Dirs |-> IF dir_states[d].hot THEN dir_states[d] ELSE NoEntry]
    BY <1>10 DEF EndTick, ListingFails, Idle, gc_dir_state
  <2>2. dir_states' \in [Dirs -> Entries]
        /\ \A e \in Dirs : dir_states'[e].known \subseteq dir_states[e].known
    <3>1. NoEntry \in Entries /\ NoEntry.known = {}
      BY DEF NoEntry, Entries
    <3>2. CASE dir_states' = dir_states
      BY <1>0, <3>2 DEF FolderType
    <3>3. CASE dir_states' = [d \in Dirs |-> IF dir_states[d].hot THEN dir_states[d] ELSE NoEntry]
      BY <1>0, <3>1, <3>3 DEF FolderType
    <3> QED
      BY <2>1, <3>2, <3>3
  <2>3. <<>> \in Seq(Listable)
    OBVIOUS
  <2>4. FolderType' /\ ListedInv' /\ KnownInv'
    BY <1>0, <2>1, <2>2, <2>3 DEF FolderType, ListedInv, KnownInv, fileVars
  <2> QED
    BY <1>2, <2>1, <2>4
<1>11. CASE archive_bft_blocks
  <2>1. UNCHANGED <<fileVars, modified, object, upload, dir_states, walk>>
    BY <1>11 DEF archive_bft_blocks
  <2>2. PICK unread, local : /\ local = add_dir_to_local_map(unread)
                             /\ \/ bft' = bft /\ known_in_s3' = known_in_s3
                                \/ /\ known_in_s3' = known_in_s3 \cap local
                                   /\ bft' = [running |-> TRUE, left |-> local \ (known_in_s3 \cap local)]
    BY <1>11 DEF archive_bft_blocks
  <2>3. \A f \in local : f \in LedgerFiles /\ quiet[f] # 0
    BY <1>0, <2>2 DEF add_dir_to_local_map, FolderType, Exists, file_is_too_new, AgeInv, AllFiles
  <2>4. /\ bft' \in [running : BOOLEAN, left : SUBSET LedgerFiles] /\ known_in_s3' \subseteq known_in_s3
        /\ \A f \in bft'.left : quiet[f] # 0
    <3>1. CASE bft' = bft /\ known_in_s3' = known_in_s3
      BY <1>0, <3>1 DEF FolderType, ListedInv
    <3>2. CASE /\ known_in_s3' = known_in_s3 \cap local
               /\ bft' = [running |-> TRUE, left |-> local \ (known_in_s3 \cap local)]
      BY <2>3, <3>2
    <3> QED
      BY <2>2, <3>1, <3>2
  <2>5. FolderType' /\ ListedInv' /\ KnownInv'
    BY <1>0, <2>1, <2>4 DEF FolderType, ListedInv, KnownInv, fileVars
  <2> QED
    BY <1>2, <2>1, <2>5
<1>12. ASSUME NEW f \in LedgerFiles, BftFile(f)
       PROVE  FolderInv'
  <2>1. PICK answer : /\ process_single_file(f, answer)
                      /\ bft' = [bft EXCEPT !.left = Left(bft.left, f, answer)]
                      /\ known_in_s3' = known_in_s3 \cup IF answer \in {"exists", "put"} THEN {f} ELSE {}
    BY <1>12 DEF BftFile
  <2>2. f \in bft.left /\ UNCHANGED <<fileVars, modified, dir_states, walk>>
    BY <1>12 DEF BftFile
  <2>3. quiet[f] # 0 /\ ~Hidden(f) /\ f \in AllFiles
    BY <1>0, <2>2, FolderAssumption DEF ListedInv, Hidden, AllFiles
  <2>4. /\ object' \in [AllFiles -> Nat]
        /\ upload' \in [AllFiles -> [at : {"exists", "read", "put"}, bytes : Nat]]
        /\ UploadInv' /\ ObjectInv'
        /\ \A g \in AllFiles : object[g] # 0 => object'[g] # 0
        /\ answer \in {"exists", "put"} => object'[f] # 0
    BY <2>1, <2>2, <2>3, RequestFits
  <2>5. Left(bft.left, f, answer) \subseteq bft.left
    BY DEF Left
  <2>6. /\ bft' \in [running : BOOLEAN, left : SUBSET LedgerFiles] /\ bft'.left \subseteq bft.left
        /\ known_in_s3' \subseteq LedgerFiles
    BY <1>0, <2>1, <2>5 DEF FolderType
  <2>7. FolderType' /\ ListedInv'
    BY <1>0, <2>2, <2>4, <2>6 DEF FolderType, ListedInv, fileVars
  <2>8. KnownInv'
    <3>1. \A d \in Dirs : dir_states[d].known \subseteq AllFiles
      BY <1>0 DEF FolderType, Entries, AllFiles
    <3>2. known_in_s3 \subseteq AllFiles
      BY <1>0 DEF FolderType, AllFiles
    <3> QED
      BY <1>0, <2>1, <2>2, <2>4, <3>1, <3>2 DEF KnownInv
  <2>9. AgeInv'
    BY <1>0, <2>2 DEF AgeInv, fileVars
  <2> QED
    BY <2>4, <2>7, <2>8, <2>9 DEF FolderInv
<1>13. CASE bft_block_archive_worker
  <2>1. bft' = [running |-> FALSE, left |-> {}]
        /\ UNCHANGED <<fileVars, modified, object, upload, dir_states, walk, known_in_s3>>
    BY <1>13 DEF bft_block_archive_worker, BftIdle
  <2>2. FolderType' /\ ListedInv'
    BY <1>0, <2>1 DEF FolderType, ListedInv, fileVars
  <2> QED
    BY <1>2, <1>3, <2>1, <2>2
<1>14. CASE Restart
  <2>1. /\ walk' = [at |-> "idle", queue |-> <<>>, dir |-> NoDir, modified |-> 0, left |-> {}]
        /\ bft' = [running |-> FALSE, left |-> {}] /\ UNCHANGED <<fileVars, modified, object>>
        /\ upload' = [f \in AllFiles |-> NotBegun] /\ known_in_s3' = {}
        /\ dir_states' = [d \in Dirs |-> NoEntry]
    BY <1>14 DEF Restart, Idle, BftIdle
  <2>2. <<>> \in Seq(Listable)
    OBVIOUS
  <2>3. upload' \in [AllFiles -> [at : {"exists", "read", "put"}, bytes : Nat]]
        /\ dir_states' \in [Dirs -> Entries]
        /\ \A d \in Dirs : dir_states'[d].known = {}
    BY <2>1 DEF NotBegun, NoEntry, Entries
  <2>4. FolderType' /\ ListedInv' /\ KnownInv'
    BY <1>0, <2>1, <2>2, <2>3 DEF FolderType, ListedInv, KnownInv, fileVars
  <2> QED
    BY <1>2, <2>1, <2>4
<1> QED
  BY <1>1, <1>4, <1>5, <1>6, <1>7, <1>8, <1>9, <1>10, <1>11, <1>12, <1>13, <1>14
     DEF FolderNext, BftNext, FolderStep, BftStep

(***************************************************************************)
(* What the file workers store of a name, which NoClobber keeps for good,  *)
(* is no older than the first version of it that nobody wrote for the      *)
(* minimum age or that the clock fell behind, and never a hidden file's;   *)
(* what they take for stored is: for every tree of directories, every set  *)
(* of files, and any number of writes, removals, faults and restarts       *)
(* between a listing, a read and a put.                                    *)
(***************************************************************************)
THEOREM FilesStoredQuiet == Spec => []StoredQuiet
<1>1. Init => FolderInv
  BY FolderStart DEF Init
<1>2. FolderInv /\ [Next]_vars => FolderInv'
  <2> SUFFICES ASSUME FolderInv, [Next]_vars, UNCHANGED folderVars PROVE FolderInv'
    BY FolderKept DEF Next, vars
  <2> QED
    BY DEF folderVars, fileVars, FolderInv, FolderType, AgeInv, ListedInv, UploadInv, ObjectInv, KnownInv,
           Fit, Hidden
<1>3. FolderInv => StoredQuiet
  BY DEF FolderInv, ObjectInv, KnownInv, Fit, StoredQuiet
<1> QED
  BY <1>1, <1>2, <1>3, PTL DEF Spec

-----------------------------------------------------------------------------
(* The stores.  The document of a key holds a value somebody put, or names *)
(* chunks that are there.  Chunks are never taken away, and each is one of *)
(* some put's; those of a key that is not torn are one put's, and so are   *)
(* those that a writer or a reader whom nobody disturbed relies on.        *)
HeldUpTo(k, m) == \A n \in 1 .. m : Holds(chunk_id(k, n))
Have(p, m) ==
  \A n \in 1 .. m : Holds(chunk_id(p.key, n)) /\ docs[chunk_id(p.key, n)] = Inline(<<p.value[n]>>)
OnePut(k, m) == \E p \in Puts : p.key = k /\ Len(p.value) = m /\ Have(p, m)

GoodDoc(k, d) ==
  \/ /\ d.chunks = 0
     /\ Whole(k, d.value) \/ (backend = "FileSystem" /\ d.value = <<>>)
  \/ /\ backend = "Mongo"
     /\ d.chunks \in Nat /\ d.chunks > 0
     /\ HeldUpTo(k, d.chunks)
     /\ k \in torn \/ OnePut(k, d.chunks)

MainInv == \A k \in Keys : exists(k) => GoodDoc(k, docs[Main(k)])

ChunkInv ==
  \A k \in Keys, n \in Nat \ {0} : Holds(chunk_id(k, n)) =>
    \E p \in Puts : /\ p.key = k /\ n <= Len(p.value)
                    /\ docs[chunk_id(k, n)] = Inline(<<p.value[n]>>)

PutOk(w, s) ==
  \/ s = NoPut
  \/ \E p \in Puts, r \in {"memory", "put_object", "batch_write"} : s = [request |-> r, put |-> p]
  \/ /\ backend = "FileSystem"
     /\ \E p \in Puts, r \in {"open", "write_all"} : s = [request |-> r, put |-> p]
  \/ /\ backend = "Mongo"
     /\ \E p \in Puts :
          \/ Len(p.value) > 1 /\ s = [request |-> "check", put |-> p]
          \/ /\ s = [request |-> "main", put |-> p]
             /\ Len(p.value) > 1 => /\ HeldUpTo(p.key, Len(p.value))
                                    /\ w \in disturbed \/ Have(p, Len(p.value))
          \/ /\ Len(p.value) > 1
             /\ \E n \in 1 .. Len(p.value) :
                  /\ s = [request |-> "chunk", put |-> p, n |-> n]
                  /\ HeldUpTo(p.key, n - 1)
                  /\ w \in disturbed \/ Have(p, n - 1)

PuttingInv ==
  /\ putting = [w \in KvWriters |-> putting[w]]
  /\ \A w \in KvWriters : PutOk(w, putting[w])

ReadOk(r) ==
  r # NotReading => backend = "Mongo" /\
    \E k \in Keys, m \in Nat, t \in BOOLEAN :
       /\ r = [key |-> k, chunks |-> m, torn |-> t]
       /\ m > 0 /\ HeldUpTo(k, m)
       /\ t \/ OnePut(k, m)

KvInv ==
  /\ backend \in {"Memory", "FileSystem", "AwsS3", "Mongo", "AwsDynamoDB"}
  /\ MainInv /\ ChunkInv /\ PuttingInv /\ ReadOk(reading) /\ ReadsExact

LEMMA PutsTyped ==
  ASSUME NEW p \in Puts
  PROVE  /\ p.key \in Keys /\ Len(p.value) \in Nat
         /\ p.value = [n \in 1 .. Len(p.value) |-> p.value[n]]
  BY KvAssumption DEF Keys

(* What a step leaves in place: no chunk goes away, and the chunks of a    *)
(* key stay the same unless the key is K.                                  *)
ChunksStay == \A k \in Keys, n \in Nat \ {0} : Holds(chunk_id(k, n)) => Holds(chunk_id(k, n))'
SameChunks(k) ==
  \A n \in Nat \ {0} : Holds(chunk_id(k, n)) => docs'[chunk_id(k, n)] = docs[chunk_id(k, n)]

LEMMA HeldKept ==
  ASSUME ChunksStay, NEW k \in Keys, NEW m \in Nat, HeldUpTo(k, m)
  PROVE  HeldUpTo(k, m)'
<1>1. \A n \in 1 .. m : n \in Nat \ {0}
  OBVIOUS
<1> QED
  BY <1>1 DEF ChunksStay, HeldUpTo

LEMMA HaveKept ==
  ASSUME ChunksStay, NEW p \in Puts, SameChunks(p.key), NEW m \in Nat, Have(p, m)
  PROVE  Have(p, m)'
<1>1. \A n \in 1 .. m : n \in Nat \ {0}
  OBVIOUS
<1>2. p.key \in Keys
  BY PutsTyped
<1>3. \A n \in 1 .. m : Holds(chunk_id(p.key, n))' /\ docs'[chunk_id(p.key, n)] = docs[chunk_id(p.key, n)]
  BY <1>1, <1>2 DEF ChunksStay, SameChunks, Have
<1> QED
  BY <1>3 DEF Have, chunk_id

LEMMA OnePutKept ==
  ASSUME ChunksStay, NEW k \in Keys, SameChunks(k), NEW m \in Nat, OnePut(k, m)
  PROVE  OnePut(k, m)'
<1>1. PICK p \in Puts : p.key = k /\ Len(p.value) = m /\ Have(p, m)
  BY DEF OnePut
<1>2. Have(p, m)'
  BY <1>1, HaveKept
<1> QED
  BY <1>1, <1>2 DEF OnePut

LEMMA GoodKept ==
  ASSUME backend' = backend, ChunksStay, NEW k \in Keys, NEW d, GoodDoc(k, d),
         k \in torn' \/ (k \notin torn /\ SameChunks(k))
  PROVE  GoodDoc(k, d)'
<1>1. CASE d.chunks = 0 /\ (Whole(k, d.value) \/ (backend = "FileSystem" /\ d.value = <<>>))
  BY <1>1 DEF GoodDoc, Whole
<1>2. CASE /\ backend = "Mongo" /\ d.chunks \in Nat /\ d.chunks > 0
           /\ HeldUpTo(k, d.chunks) /\ (k \in torn \/ OnePut(k, d.chunks))
  <2>1. PICK m : m = d.chunks
    OBVIOUS
  <2>2. m \in Nat /\ HeldUpTo(k, m) /\ (k \in torn \/ OnePut(k, m))
    BY <1>2, <2>1
  <2>3. HeldUpTo(k, m)'
    BY <2>2, HeldKept
  <2>4. k \in torn' \/ OnePut(k, m)'
    BY <2>2, OnePutKept
  <2> QED
    BY <1>2, <2>1, <2>3, <2>4 DEF GoodDoc
<1> QED
  BY <1>1, <1>2 DEF GoodDoc

(* What a step does to the documents.                                      *)
LEMMA SetDoc ==
  ASSUME NEW i, NEW d, docs' = With(i, d)
  PROVE  /\ \A j : Holds(j) => Holds(j)'
         /\ Holds(i)' /\ docs'[i] = d
         /\ \A j : j # i => (Holds(j)' <=> Holds(j))
         /\ \A j : j # i /\ Holds(j) => docs'[j] = docs[j]
  BY DEF With, Holds

LEMMA MainsAndChunks ==
  /\ \A h, k : Main(h) = Main(k) => h = k
  /\ \A h, k, m, n : chunk_id(h, m) = chunk_id(k, n) => h = k /\ m = n
  /\ \A h, k : \A n \in Nat \ {0} : chunk_id(h, n) # Main(k)
  BY DEF Main, chunk_id

(* The documents of the keys and the chunks, where a document is unchanged *)
(* or, for the one key K, good.                                            *)
LEMMA MainsKept ==
  ASSUME KvInv, backend' = backend, ChunksStay,
         \A k \in Keys : exists(k)' =>
            \/ \E d : docs'[Main(k)] = d /\ GoodDoc(k, d)'
            \/ /\ exists(k) /\ docs'[Main(k)] = docs[Main(k)]
               /\ k \in torn' \/ (k \notin torn /\ SameChunks(k))
  PROVE  MainInv'
<1> SUFFICES ASSUME NEW k \in Keys, exists(k)' PROVE GoodDoc(k, docs[Main(k)])'
  BY DEF MainInv, Main
<1>1. CASE \E d : docs'[Main(k)] = d /\ GoodDoc(k, d)'
  <2>1. PICK d : (docs[Main(k)])' = d /\ GoodDoc(k, d)'
    BY <1>1 DEF Main
  <2> QED
    BY <2>1 DEF GoodDoc
<1>2. CASE /\ exists(k) /\ docs'[Main(k)] = docs[Main(k)]
           /\ k \in torn' \/ (k \notin torn /\ SameChunks(k))
  <2> DEFINE d == docs[Main(k)]
  <2>1. GoodDoc(k, d) /\ (docs[Main(k)])' = d
    BY <1>2 DEF KvInv, MainInv, Main
  <2> HIDE DEF d
  <2>2. \A e : GoodDoc(k, e) => GoodDoc(k, e)'
    BY <1>2, GoodKept
  <2>3. \A e : e = d => GoodDoc(k, e)'
    BY <2>1, <2>2
  <2> QED
    BY <2>1, <2>3 DEF GoodDoc
<1> QED
  BY <1>1, <1>2

LEMMA ChunksKept ==
  ASSUME KvInv, \A k \in Keys : SameChunks(k),
         \A k \in Keys, n \in Nat \ {0} : Holds(chunk_id(k, n))' => Holds(chunk_id(k, n))
  PROVE  ChunkInv'
<1> SUFFICES ASSUME NEW k \in Keys, NEW n \in Nat \ {0}, Holds(chunk_id(k, n))'
             PROVE  \E p \in Puts : /\ p.key = k /\ n <= Len(p.value)
                                    /\ docs'[chunk_id(k, n)] = Inline(<<p.value[n]>>)
  BY DEF ChunkInv, chunk_id, Inline
<1>1. docs'[chunk_id(k, n)] = docs[chunk_id(k, n)] /\ Holds(chunk_id(k, n))
  BY DEF SameChunks
<1> QED
  BY <1>1 DEF KvInv, ChunkInv

(* The other writers, which a step disturbs when it changes their chunks.  *)
LEMMA PutOkKept ==
  ASSUME backend' = backend, ChunksStay, NEW w, NEW s, PutOk(w, s),
         w \in disturbed => w \in disturbed',
         ASSUME NEW p \in Puts, s.put = p, s.request \in {"chunk", "main"}
         PROVE  SameChunks(p.key) \/ w \in disturbed'
  PROVE  PutOk(w, s)'
<1>1. ASSUME NEW p \in Puts, NEW m \in Nat, HeldUpTo(p.key, m), w \in disturbed \/ Have(p, m),
             s.put = p, s.request \in {"chunk", "main"}
      PROVE  HeldUpTo(p.key, m)' /\ (w \in disturbed' \/ Have(p, m)')
  BY <1>1, PutsTyped, HeldKept, HaveKept
<1>2. ASSUME backend = "Mongo", NEW p \in Puts, s = [request |-> "main", put |-> p],
             Len(p.value) > 1 => HeldUpTo(p.key, Len(p.value)) /\ (w \in disturbed \/ Have(p, Len(p.value)))
      PROVE  PutOk(w, s)'
  <2>1. Len(p.value) \in Nat /\ s.put = p /\ s.request = "main"
    BY <1>2, PutsTyped
  <2>2. Len(p.value) > 1 => HeldUpTo(p.key, Len(p.value))' /\ (w \in disturbed' \/ Have(p, Len(p.value))')
    BY <1>1, <1>2, <2>1
  <2> QED
    BY <1>2, <2>2 DEF PutOk
<1>3. ASSUME backend = "Mongo", NEW p \in Puts, Len(p.value) > 1, NEW n \in 1 .. Len(p.value),
             s = [request |-> "chunk", put |-> p, n |-> n],
             HeldUpTo(p.key, n - 1), w \in disturbed \/ Have(p, n - 1)
      PROVE  PutOk(w, s)'
  <2>1. n - 1 \in Nat /\ s.put = p /\ s.request = "chunk"
    BY <1>3, PutsTyped
  <2>2. HeldUpTo(p.key, n - 1)' /\ (w \in disturbed' \/ Have(p, n - 1)')
    BY <1>1, <1>3, <2>1
  <2> QED
    BY <1>3, <2>2 DEF PutOk
<1>4. CASE s = NoPut \/ \E p \in Puts, r \in {"memory", "put_object", "batch_write"} : s = [request |-> r, put |-> p]
  BY <1>4 DEF PutOk
<1>5. CASE /\ backend = "FileSystem"
           /\ \E p \in Puts, r \in {"open", "write_all"} : s = [request |-> r, put |-> p]
  BY <1>5 DEF PutOk
<1>6. CASE backend = "Mongo" /\ \E p \in Puts : Len(p.value) > 1 /\ s = [request |-> "check", put |-> p]
  BY <1>6 DEF PutOk
<1> QED
  BY <1>2, <1>3, <1>4, <1>5, <1>6 DEF PutOk

LEMMA ReadKept ==
  ASSUME backend' = backend, ChunksStay, NEW r, ReadOk(r), r # NotReading => SameChunks(r.key)
  PROVE  ReadOk(r)'
<1> SUFFICES ASSUME r # NotReading PROVE ReadOk(r)'
  BY DEF ReadOk
<1>1. PICK k \in Keys, m \in Nat, t \in BOOLEAN :
         /\ r = [key |-> k, chunks |-> m, torn |-> t]
         /\ m > 0 /\ HeldUpTo(k, m) /\ (t \/ OnePut(k, m))
  BY DEF ReadOk
<1>2. HeldUpTo(k, m)' /\ (t \/ OnePut(k, m)')
  BY <1>1, HeldKept, OnePutKept
<1> QED
  BY <1>1, <1>2 DEF ReadOk

(* A writer's step keeps the invariant when the store does, its next       *)
(* request is in order, and it disturbs whom it should.                    *)
LEMMA WriterKeeps ==
  ASSUME KvInv, backend' = backend, MainInv', ChunkInv', ChunksStay,
         NEW w \in KvWriters, NEW s, putting' = [putting EXCEPT ![w] = s], PutOk(w, s)',
         \A v \in KvWriters \ {w} : v \in disturbed => v \in disturbed',
         \A v \in KvWriters \ {w} : putting[v].request \in {"chunk", "main"} =>
              SameChunks(putting[v].put.key) \/ v \in disturbed',
         ReadOk(reading)', got' = NoAnswer
  PROVE  KvInv'
<1>1. /\ putting' = [v \in KvWriters |-> putting'[v]]
      /\ \A v \in KvWriters : putting'[v] = IF v = w THEN s ELSE putting[v]
  BY DEF KvInv, PuttingInv
<1>2. ASSUME NEW v \in KvWriters PROVE PutOk(v, putting[v])'
  <2>1. CASE v = w
    BY <1>1, <2>1 DEF PutOk
  <2>2. CASE v # w
    <3> DEFINE t == putting[v]
    <3>1. PutOk(v, t) /\ (putting[v])' = t
      BY <1>1, <2>2 DEF KvInv, PuttingInv
    <3>2. /\ v \in disturbed => v \in disturbed'
          /\ t.request \in {"chunk", "main"} => SameChunks(t.put.key) \/ v \in disturbed'
      BY <2>2
    <3> HIDE DEF t
    <3>3. PICK u : u = t
      OBVIOUS
    <3>4. PutOk(v, u)'
      BY <3>1, <3>2, <3>3, PutOkKept
    <3> QED
      BY <3>1, <3>3, <3>4 DEF PutOk
  <2> QED
    BY <2>1, <2>2
<1>3. PuttingInv'
  BY <1>1, <1>2 DEF PuttingInv
<1>4. ReadsExact'
  BY DEF ReadsExact, NoAnswer
<1> QED
  BY <1>3, <1>4 DEF KvInv

(* A step that changes a main document at most, and no history.            *)
LEMMA MainStep ==
  ASSUME KvInv, backend' = backend, torn' = torn,
         NEW k \in Keys, NEW d, docs' = docs \/ (docs' = With(Main(k), d) /\ GoodDoc(k, d))
  PROVE  MainInv' /\ ChunkInv' /\ ChunksStay /\ \A h \in Keys : SameChunks(h)
<1>1. CASE docs' = docs
  <2>1. ChunksStay /\ \A h \in Keys : SameChunks(h)
    BY <1>1 DEF ChunksStay, SameChunks, Holds, chunk_id
  <2>2. \A h \in Keys, n \in Nat \ {0} : Holds(chunk_id(h, n))' => Holds(chunk_id(h, n))
    BY <1>1 DEF Holds, chunk_id
  <2>3. \A h \in Keys : exists(h)' => exists(h) /\ docs'[Main(h)] = docs[Main(h)]
    BY <1>1 DEF exists, Holds, Main
  <2> QED
    BY <2>1, <2>2, <2>3, ChunksKept, MainsKept
<1>2. CASE docs' = With(Main(k), d) /\ GoodDoc(k, d)
  <2>1. ChunksStay /\ \A h \in Keys : SameChunks(h)
    BY <1>2, SetDoc, MainsAndChunks DEF ChunksStay, SameChunks
  <2>2. \A h \in Keys, n \in Nat \ {0} : Holds(chunk_id(h, n))' => Holds(chunk_id(h, n))
    BY <1>2, SetDoc, MainsAndChunks
  <2>3. GoodDoc(k, d)' /\ docs'[Main(k)] = d
    BY <1>2, <2>1, GoodKept, SetDoc
  <2>4. \A h \in Keys : h # k /\ exists(h)' => exists(h) /\ docs'[Main(h)] = docs[Main(h)]
    <3>1. \A h \in Keys : h # k => Main(h) # Main(k)
      BY MainsAndChunks
    <3>2. \A j : j # Main(k) /\ Holds(j)' => Holds(j) /\ docs'[j] = docs[j]
      BY <1>2, SetDoc
    <3> QED
      BY <3>1, <3>2 DEF exists, Main
  <2> QED
    BY <2>1, <2>2, <2>3, <2>4, ChunksKept, MainsKept
<1> QED
  BY <1>1, <1>2

(* The put of a request, which is what its key and value stand for.        *)
RequestFor(w, r, p) ==
  /\ putting[w].put = p /\ Key(w) = p.key /\ Value(w) = p.value
  /\ r # "chunk" => putting[w] = [request |-> r, put |-> p]
  /\ r \in {"open", "write_all"} => backend = "FileSystem"
  /\ r \in {"check", "chunk", "main"} => backend = "Mongo"
  /\ r \in {"check", "chunk"} => Len(p.value) > 1
  /\ r = "main" /\ Len(p.value) > 1 =>
       HeldUpTo(p.key, Len(p.value)) /\ (w \in disturbed \/ Have(p, Len(p.value)))
  /\ r = "chunk" => /\ putting[w] = [request |-> r, put |-> p, n |-> putting[w].n]
                    /\ putting[w].n \in 1 .. Len(p.value)
                    /\ HeldUpTo(p.key, putting[w].n - 1)
                    /\ w \in disturbed \/ Have(p, putting[w].n - 1)

LEMMA PutOf ==
  ASSUME KvInv, NEW w \in KvWriters, NEW r, r # "none", At(w, r)
  PROVE  \E p \in Puts : RequestFor(w, r, p)
<1> DEFINE s == putting[w]
<1>1. PutOk(w, s) /\ s.request = r /\ s # NoPut
  BY DEF KvInv, PuttingInv, At, NoPut
<1> HIDE DEF s
<1>2. ASSUME NEW p \in Puts, NEW q, s = [request |-> q, put |-> p], q # "chunk",
             q \in {"open", "write_all"} => backend = "FileSystem",
             q \in {"check", "main"} => backend = "Mongo",
             q = "check" => Len(p.value) > 1,
             q = "main" /\ Len(p.value) > 1 =>
               HeldUpTo(p.key, Len(p.value)) /\ (w \in disturbed \/ Have(p, Len(p.value)))
      PROVE  RequestFor(w, r, p)
  <2>1. q = r /\ s.put = p
    BY <1>1, <1>2
  <2> QED
    BY <1>2, <2>1 DEF RequestFor, Key, Value, s
<1>3. CASE \E p \in Puts, q \in {"memory", "put_object", "batch_write"} : s = [request |-> q, put |-> p]
  BY <1>2, <1>3
<1>4. CASE /\ backend = "FileSystem"
           /\ \E p \in Puts, q \in {"open", "write_all"} : s = [request |-> q, put |-> p]
  BY <1>2, <1>4
<1>5. CASE backend = "Mongo" /\ \E p \in Puts : Len(p.value) > 1 /\ s = [request |-> "check", put |-> p]
  BY <1>2, <1>5
<1>6. ASSUME backend = "Mongo", NEW p \in Puts, s = [request |-> "main", put |-> p],
             Len(p.value) > 1 => HeldUpTo(p.key, Len(p.value)) /\ (w \in disturbed \/ Have(p, Len(p.value)))
      PROVE  RequestFor(w, r, p)
  BY <1>2, <1>6
<1>7. ASSUME backend = "Mongo", NEW p \in Puts, Len(p.value) > 1, NEW n \in 1 .. Len(p.value),
             s = [request |-> "chunk", put |-> p, n |-> n],
             HeldUpTo(p.key, n - 1), w \in disturbed \/ Have(p, n - 1)
      PROVE  RequestFor(w, r, p)
  <2>1. r = "chunk" /\ s.put = p /\ s.n = n
    BY <1>1, <1>7
  <2> QED
    BY <1>7, <2>1 DEF RequestFor, Key, Value, s
<1> QED
  BY <1>1, <1>3, <1>4, <1>5, <1>6, <1>7 DEF PutOk

(* A chunk is written: the key is torn and the others are disturbed, or    *)
(* nothing that was there has changed; the writer has one chunk more.      *)
LEMMA ChunkStep ==
  ASSUME KvInv, backend' = backend, NEW w \in KvWriters, NEW p \in Puts, RequestFor(w, "chunk", p),
         WriteChunk(w), NEW n, n = putting[w].n
  PROVE  /\ MainInv' /\ ChunkInv' /\ ChunksStay /\ ReadOk(reading)'
         /\ \A v \in KvWriters \ {w} : v \in disturbed => v \in disturbed'
         /\ \A v \in KvWriters \ {w} : putting[v].request \in {"chunk", "main"} =>
              SameChunks(putting[v].put.key) \/ v \in disturbed'
         /\ HeldUpTo(p.key, n)'
         /\ w \in disturbed' \/ Have(p, n)'
<1>b. PICK c : c = chunk_id(p.key, n)
  OBVIOUS
<1>c. PICK d : d = Inline(<<p.value[n]>>)
  OBVIOUS
<1>1. /\ Key(w) = p.key /\ Value(w) = p.value /\ backend = "Mongo"
      /\ n \in 1 .. Len(p.value) /\ HeldUpTo(p.key, n - 1) /\ (w \in disturbed \/ Have(p, n - 1))
  BY DEF RequestFor
<1>2. p.key \in Keys /\ Len(p.value) \in Nat /\ n \in Nat \ {0} /\ n <= Len(p.value)
  <2>1. p.key \in Keys /\ Len(p.value) \in Nat
    BY PutsTyped
  <2> QED
    BY <1>1, <2>1
<1>3. /\ docs' = With(c, d)
      /\ IF Holds(c) /\ docs[c] # d
         THEN /\ torn' = torn \cup {p.key}
              /\ disturbed' = disturbed \cup {v \in KvWriters \ {w} :
                                  putting[v].request \in {"chunk", "main"} /\ Key(v) = p.key}
              /\ reading' = IF reading # NotReading /\ reading.key = p.key
                            THEN [reading EXCEPT !.torn = TRUE] ELSE reading
         ELSE torn' = torn /\ disturbed' = disturbed /\ reading' = reading
  BY <1>1, <1>b, <1>c DEF WriteChunk, Replaces, tearVars
<1>4. /\ \A j : Holds(j) => Holds(j)'
      /\ Holds(c)' /\ docs'[c] = d
      /\ \A j : j # c => (Holds(j)' <=> Holds(j))
      /\ \A j : j # c /\ Holds(j) => docs'[j] = docs[j]
  BY <1>3, SetDoc
<1>5. ChunksStay
  BY <1>4 DEF ChunksStay
<1>6. \A k \in Keys : k # p.key => SameChunks(k)
  BY <1>4, <1>b, MainsAndChunks DEF SameChunks
<1>7. ~(Holds(c) /\ docs[c] # d) => \A k \in Keys : SameChunks(k)
  BY <1>4 DEF SameChunks
<1>8. \A k \in Keys : (SameChunks(k) /\ (k \in torn' <=> k \in torn)) \/ k \in torn'
  BY <1>3, <1>6, <1>7
<1>9. MainInv'
  <2>1. \A k \in Keys : Main(k) # c
    BY <1>2, <1>b, MainsAndChunks
  <2>2. \A k \in Keys : exists(k)' => exists(k) /\ docs'[Main(k)] = docs[Main(k)]
    BY <1>4, <2>1 DEF exists, Main
  <2> QED
    BY <1>5, <1>8, <2>2, MainsKept
<1>10. ChunkInv'
  <2> SUFFICES ASSUME NEW k \in Keys, NEW m \in Nat \ {0}, Holds(chunk_id(k, m))'
               PROVE  \E q \in Puts : /\ q.key = k /\ m <= Len(q.value)
                                      /\ docs'[chunk_id(k, m)] = Inline(<<q.value[m]>>)
    BY DEF ChunkInv, chunk_id, Inline
  <2>1. CASE chunk_id(k, m) = c
    <3>1. k = p.key /\ m = n
      BY <2>1, <1>b, MainsAndChunks
    <3> QED
      BY <1>2, <1>4, <2>1, <3>1, <1>c
  <2>2. CASE chunk_id(k, m) # c
    <3>0. PICK j : j = chunk_id(k, m)
      OBVIOUS
    <3>1. Holds(j)' => Holds(j) /\ docs'[j] = docs[j]
      BY <1>4, <2>2, <3>0
    <3>2. Holds(j)'
      BY <3>0 DEF Holds, chunk_id
    <3>3. ChunkInv /\ Holds(chunk_id(k, m))
      BY <3>0, <3>1, <3>2 DEF KvInv
    <3>4. PICK q \in Puts : /\ q.key = k /\ m <= Len(q.value)
                            /\ docs[chunk_id(k, m)] = Inline(<<q.value[m]>>)
      BY <3>3, Zenon DEF ChunkInv
    <3> QED
      BY <3>0, <3>1, <3>2, <3>4
  <2> QED
    BY <2>1, <2>2
<1>11. HeldUpTo(p.key, n)' /\ (w \in disturbed' \/ Have(p, n)')
  <2>1. \A m \in 1 .. n : m = n \/ (m \in 1 .. n - 1 /\ chunk_id(p.key, m) # c)
    BY <1>2, <1>b, MainsAndChunks
  <2>2. \A m \in 1 .. n : Holds(chunk_id(p.key, m))'
    BY <1>1, <1>4, <2>1, <1>b DEF HeldUpTo
  <2>3. w \in disturbed => w \in disturbed'
    BY <1>3
  <2>4. ASSUME Have(p, n - 1), NEW m \in 1 .. n
        PROVE  docs'[chunk_id(p.key, m)] = Inline(<<p.value[m]>>)
    <3>1. CASE m = n
      BY <1>4, <3>1, <1>b, <1>c
    <3>2. CASE m # n
      BY <1>4, <2>1, <2>4, <3>2 DEF Have
    <3> QED
      BY <3>1, <3>2
  <2> QED
    BY <1>1, <2>2, <2>3, <2>4 DEF HeldUpTo, Have, chunk_id, Inline
<1>12. ReadOk(reading)'
  <2>1. CASE reading # NotReading /\ reading.key = p.key /\ Holds(c) /\ docs[c] # d
    <3>1. PICK k \in Keys, m \in Nat, t \in BOOLEAN :
             reading = [key |-> k, chunks |-> m, torn |-> t] /\ m > 0 /\ HeldUpTo(k, m)
      BY <2>1 DEF KvInv, ReadOk
    <3>2. reading' = [key |-> k, chunks |-> m, torn |-> TRUE]
      BY <1>3, <2>1, <3>1
    <3>3. HeldUpTo(k, m)'
      BY <1>5, <3>1, HeldKept
    <3> QED
      BY <1>1, <3>1, <3>2, <3>3 DEF ReadOk
  <2>2. CASE ~(reading # NotReading /\ reading.key = p.key /\ Holds(c) /\ docs[c] # d)
    <3>1. reading' = reading
      BY <1>3, <2>2
    <3>2. reading # NotReading => reading.key \in Keys
      BY DEF KvInv, ReadOk
    <3>3. reading # NotReading => SameChunks(reading.key)
      BY <1>6, <1>7, <2>2, <3>2
    <3>4. PICK r : r = reading
      OBVIOUS
    <3>5. ReadOk(r)'
      BY <1>5, <3>3, <3>4, ReadKept DEF KvInv
    <3> QED
      BY <3>1, <3>4, <3>5 DEF ReadOk
  <2> QED
    BY <2>1, <2>2
<1>13. \A v \in KvWriters \ {w} : v \in disturbed => v \in disturbed'
  BY <1>3
<1>14. ASSUME NEW v \in KvWriters \ {w}, putting[v].request \in {"chunk", "main"}
       PROVE  SameChunks(putting[v].put.key) \/ v \in disturbed'
  <2>1. At(v, putting[v].request) /\ putting[v].request # "none"
    BY <1>14 DEF At
  <2>2. putting[v].put \in Puts
    BY <2>1, PutOf DEF RequestFor
  <2>3. putting[v].put.key \in Keys
    BY <2>2, PutsTyped
  <2> QED
    BY <1>3, <1>6, <1>7, <1>14, <2>3 DEF Key
<1> QED
  BY <1>5, <1>9, <1>10, <1>11, <1>12, <1>13, <1>14

(* A main document is written: by a writer nobody disturbed it names that  *)
(* writer's chunks.                                                        *)
LEMMA DocumentStep ==
  ASSUME KvInv, backend' = backend, NEW w \in KvWriters, NEW p \in Puts, RequestFor(w, "main", p),
         WriteMain(w)
  PROVE  /\ MainInv' /\ ChunkInv' /\ ChunksStay /\ (\A k \in Keys : SameChunks(k))
         /\ disturbed' = disturbed /\ reading' = reading
<1>1. /\ Key(w) = p.key /\ Value(w) = p.value /\ backend = "Mongo"
      /\ Len(p.value) > 1 => HeldUpTo(p.key, Len(p.value)) /\ (w \in disturbed \/ Have(p, Len(p.value)))
  BY DEF RequestFor
<1>2. p.key \in Keys /\ Len(p.value) \in Nat
  BY PutsTyped
<1>3. disturbed' = disturbed /\ reading' = reading
  BY DEF WriteMain
<1>4. CASE Skips(w)
  <2>1. docs' = docs /\ torn' = torn
    BY <1>4 DEF WriteMain
  <2> QED
    BY <1>2, <1>3, <2>1, MainStep
<1>5. CASE ~Skips(w)
  <2>a. PICK k : k = p.key
    OBVIOUS
  <2>b. PICK d : d = KeyValueDocument(p.value)
    OBVIOUS
  <2>1. /\ docs' = With(Main(k), d)
        /\ torn' = IF w \in disturbed THEN torn \cup {k} ELSE torn \ {k}
    BY <1>1, <1>5, <2>a, <2>b DEF WriteMain
  <2>2. ChunksStay /\ \A h \in Keys : SameChunks(h)
    BY <2>1, SetDoc, MainsAndChunks DEF ChunksStay, SameChunks
  <2>3. \A h \in Keys, n \in Nat \ {0} : Holds(chunk_id(h, n))' => Holds(chunk_id(h, n))
    BY <2>1, SetDoc, MainsAndChunks
  <2>4. docs'[Main(k)] = d
    BY <2>1, SetDoc
  <2>5. GoodDoc(k, d)'
    <3>1. CASE Len(p.value) > 1
      <4>1. d.chunks = Len(p.value)
        BY <2>b, <3>1 DEF KeyValueDocument, Chunked
      <4>2. HeldUpTo(k, Len(p.value))'
        BY <1>1, <1>2, <2>2, <2>a, <3>1, HeldKept
      <4>3. CASE w \in disturbed
        <5>1. k \in torn'
          BY <2>1, <4>3
        <5> QED
          BY <1>1, <1>2, <3>1, <4>1, <4>2, <5>1 DEF GoodDoc
      <4>4. CASE w \notin disturbed
        <5>1. Have(p, Len(p.value))
          BY <1>1, <3>1, <4>4
        <5>2. Have(p, Len(p.value))'
          BY <1>2, <2>2, <5>1, HaveKept
        <5>3. OnePut(k, Len(p.value))'
          BY <2>a, <5>2 DEF OnePut
        <5> QED
          BY <1>1, <1>2, <3>1, <4>1, <4>2, <5>3 DEF GoodDoc
      <4> QED
        BY <4>3, <4>4
    <3>2. CASE ~(Len(p.value) > 1)
      <4>1. d.chunks = 0 /\ d.value = p.value
        BY <2>b, <3>2 DEF KeyValueDocument, Inline
      <4> QED
        BY <2>a, <4>1 DEF GoodDoc, Whole
    <3> QED
      BY <3>1, <3>2
  <2>6. \A h \in Keys : h # k /\ exists(h)' => /\ exists(h) /\ docs'[Main(h)] = docs[Main(h)]
                                               /\ h \in torn' <=> h \in torn
    <3>1. \A h \in Keys : h # k => Main(h) # Main(k)
      BY MainsAndChunks
    <3>2. \A j : j # Main(k) /\ Holds(j)' => Holds(j) /\ docs'[j] = docs[j]
      BY <2>1, SetDoc
    <3>3. \A h \in Keys : h # k => (h \in torn' <=> h \in torn)
      BY <2>1
    <3> QED
      BY <3>1, <3>2, <3>3 DEF exists, Main
  <2>7. MainInv'
    BY <2>2, <2>4, <2>5, <2>6, MainsKept
  <2>8. ChunkInv'
    BY <2>2, <2>3, ChunksKept
  <2> QED
    BY <1>3, <2>2, <2>7, <2>8
<1> QED
  BY <1>4, <1>5

LEMMA DropMain ==
  ASSUME KvInv, backend' = backend, torn' = torn, NEW k \in Keys, docs' = Without(Main(k))
  PROVE  MainInv' /\ ChunkInv' /\ ChunksStay /\ \A h \in Keys : SameChunks(h)
<1>1. /\ \A i : Holds(i)' <=> Holds(i) /\ i # Main(k)
      /\ \A i : Holds(i)' => docs'[i] = docs[i]
  BY DEF Without, Holds
<1>2. \A h \in Keys, n \in Nat \ {0} : Holds(chunk_id(h, n))' <=> Holds(chunk_id(h, n))
  BY <1>1, MainsAndChunks
<1>3. \A h \in Keys, n \in Nat \ {0} : Holds(chunk_id(h, n)) => docs'[chunk_id(h, n)] = docs[chunk_id(h, n)]
  BY <1>1, <1>2
<1>4. ChunksStay /\ \A h \in Keys : SameChunks(h)
  BY <1>2, <1>3 DEF ChunksStay, SameChunks
<1>5. \A h \in Keys : exists(h)' => exists(h) /\ docs'[Main(h)] = docs[Main(h)]
  BY <1>1 DEF exists, Main
<1> QED
  BY <1>2, <1>4, <1>5, ChunksKept, MainsKept

LEMMA KvStart ==
  ASSUME NEW b \in {"Memory", "FileSystem", "AwsS3", "Mongo", "AwsDynamoDB"}, KvInit(b)
  PROVE  KvInv
  BY DEF KvInit, KvInv, MainInv, ChunkInv, PuttingInv, PutOk, ReadOk, ReadsExact, NoAnswer,
         exists, Holds

(* The writers and the reader of a step that changes no chunk stay as they *)
(* are.                                                                    *)
LEMMA OthersKept ==
  ASSUME KvInv, backend' = backend, ChunksStay, \A k \in Keys : SameChunks(k)
  PROVE  /\ reading' = reading => ReadOk(reading)'
         /\ \A v \in KvWriters : putting[v].request \in {"chunk", "main"} => SameChunks(putting[v].put.key)
         /\ putting' = putting /\ disturbed' = disturbed => PuttingInv'
<1>1. ASSUME NEW v \in KvWriters, putting[v].request \in {"chunk", "main"}
      PROVE  SameChunks(putting[v].put.key)
  <2>1. At(v, putting[v].request) /\ putting[v].request # "none"
    BY <1>1 DEF At
  <2>2. putting[v].put \in Puts
    BY <2>1, PutOf DEF RequestFor
  <2> QED
    BY <2>2, PutsTyped
<1>2. ASSUME reading' = reading PROVE ReadOk(reading)'
  <2>1. PICK r : r = reading
    OBVIOUS
  <2>2. ReadOk(r) /\ (r # NotReading => r.key \in Keys)
    BY <2>1 DEF KvInv, ReadOk
  <2>3. ReadOk(r)'
    BY <2>2, ReadKept
  <2> QED
    BY <1>2, <2>1, <2>3 DEF ReadOk
<1>3. ASSUME putting' = putting, disturbed' = disturbed PROVE PuttingInv'
  <2>1. ASSUME NEW v \in KvWriters PROVE PutOk(v, putting[v])'
    <3>1. PICK s : s = putting[v]
      OBVIOUS
    <3>2. PutOk(v, s) /\ (s.request \in {"chunk", "main"} => SameChunks(s.put.key))
      BY <1>1, <3>1 DEF KvInv, PuttingInv
    <3>3. PutOk(v, s)'
      BY <1>3, <3>2, PutOkKept
    <3> QED
      BY <1>3, <3>1, <3>3 DEF PutOk
  <2> QED
    BY <1>3, <2>1 DEF PuttingInv, KvInv
<1> QED
  BY <1>1, <1>2, <1>3

(* A writer's request.                                                     *)
LEMMA QuietStep ==
  ASSUME KvInv, backend' = backend, MainInv', ChunkInv', ChunksStay, \A k \in Keys : SameChunks(k),
         NEW w \in KvWriters, NEW s, putting' = [putting EXCEPT ![w] = s], PutOk(w, s)',
         \A v \in KvWriters \ {w} : v \in disturbed => v \in disturbed',
         reading' = reading, got' = NoAnswer
  PROVE  KvInv'
<1>1. /\ ReadOk(reading)'
      /\ \A v \in KvWriters : putting[v].request \in {"chunk", "main"} => SameChunks(putting[v].put.key)
  BY OthersKept
<1> QED
  BY <1>1, WriterKeeps

LEMMA RequestKept ==
  ASSUME KvInv, NEW w \in KvWriters, KvRequest(w) \/ MongoFails(w) \/ Die(w)
  PROVE  KvInv'
<1>0. PutOk(w, NoPut)'
  BY DEF PutOk
<1>1. ASSUME NEW p \in Puts, BeginPut(w, p)
      PROVE  KvInv'
  <2>0. PICK s : s = FirstRequest(p)
    OBVIOUS
  <2>1. /\ putting' = [putting EXCEPT ![w] = s] /\ UNCHANGED <<backend, docs, reading, torn>>
        /\ got' = NoAnswer /\ disturbed' = disturbed \ {w}
    BY <1>1, <2>0 DEF BeginPut
  <2>2. PutOk(w, s)'
    <3>1. Len(p.value) \in Nat
      BY PutsTyped
    <3>2. CASE backend = "Mongo"
      <4>1. s = IF Len(p.value) <= 1 THEN [request |-> "main", put |-> p]
                ELSE IF p.policy = "NoClobber" THEN [request |-> "check", put |-> p]
                ELSE [request |-> "chunk", put |-> p, n |-> 1]
        BY <2>0, <3>2 DEF FirstRequest
      <4>2. CASE Len(p.value) <= 1
        <5>1. ~(Len(p.value) > 1) /\ s = [request |-> "main", put |-> p]
          BY <3>1, <4>1, <4>2
        <5> QED
          BY <2>1, <3>2, <5>1 DEF PutOk
      <4>3. CASE Len(p.value) > 1
        <5>1. 1 \in 1 .. Len(p.value) /\ 1 .. 1 - 1 = {}
          BY <3>1, <4>3
        <5>2. HeldUpTo(p.key, 1 - 1)' /\ Have(p, 1 - 1)'
          BY <5>1 DEF HeldUpTo, Have
        <5>3. s = [request |-> "check", put |-> p] \/ s = [request |-> "chunk", put |-> p, n |-> 1]
          BY <3>1, <4>1, <4>3
        <5> QED
          BY <2>1, <3>2, <4>3, <5>1, <5>2, <5>3 DEF PutOk
      <4> QED
        BY <3>1, <4>2, <4>3
    <3>3. CASE backend # "Mongo"
      <4>1. /\ backend = "Memory" => s = [request |-> "memory", put |-> p]
            /\ backend = "FileSystem" => s = [request |-> "open", put |-> p]
            /\ backend = "AwsS3" => s = [request |-> "put_object", put |-> p]
            /\ backend = "AwsDynamoDB" => s = [request |-> "batch_write", put |-> p]
        BY <2>0 DEF FirstRequest
      <4> QED
        BY <2>1, <3>3, <4>1 DEF KvInv, PutOk
    <3> QED
      BY <3>2, <3>3
  <2>3. MainInv' /\ ChunkInv' /\ ChunksStay /\ \A k \in Keys : SameChunks(k)
    BY <2>1, PutsTyped, MainStep
  <2> QED
    BY <2>1, <2>2, <2>3, QuietStep
<1>2. ASSUME NEW p \in Puts, NEW d, putting' = [putting EXCEPT ![w] = NoPut], UNCHANGED <<backend, reading, torn, disturbed>>,
             docs' = docs \/ (docs' = With(Main(p.key), d) /\ GoodDoc(p.key, d)), got' = NoAnswer
      PROVE  KvInv'
  <2>1. MainInv' /\ ChunkInv' /\ ChunksStay /\ \A k \in Keys : SameChunks(k)
    BY <1>2, PutsTyped, MainStep
  <2> QED
    BY <1>0, <1>2, <2>1, QuietStep
<1>4. ASSUME MemoryPut(w) \/ S3Put(w) \/ FsWrite(w) \/ DynamoBulkPut(w)
      PROVE  KvInv'
  <2>1. PICK r \in {"memory", "put_object", "write_all", "batch_write"} : At(w, r)
    BY <1>4 DEF MemoryPut, S3Put, FsWrite, DynamoBulkPut
  <2>2. PICK p \in Puts : Key(w) = p.key /\ Value(w) = p.value
    BY <2>1, PutOf DEF RequestFor
  <2>3. /\ putting' = [putting EXCEPT ![w] = NoPut] /\ UNCHANGED <<backend, reading, torn, disturbed>>
        /\ docs' = docs \/ docs' = With(Main(Key(w)), Inline(Value(w)))
        /\ got' = NoAnswer
    BY <1>4 DEF MemoryPut, S3Put, FsWrite, DynamoBulkPut, Answer, upload_to_db, tearVars
  <2>4. GoodDoc(p.key, Inline(p.value))
    BY DEF GoodDoc, Inline, Whole
  <2> QED
    BY <1>2, <2>2, <2>3, <2>4
<1>5. CASE FsOpen(w)
  <2>1. PICK p \in Puts : Key(w) = p.key /\ putting[w] = [request |-> "open", put |-> p] /\ backend = "FileSystem"
    BY <1>5, PutOf DEF RequestFor, FsOpen
  <2>a. UNCHANGED <<backend, reading, torn, disturbed>> /\ got' = NoAnswer
    BY <1>5 DEF FsOpen, tearVars
  <2>2. CASE putting' = [putting EXCEPT ![w] = NoPut] /\ docs' = docs
    BY <1>2, <2>2, <2>a
  <2>3. CASE /\ docs' = With(Main(Key(w)), Inline(<<>>))
             /\ GoOn(w, [putting[w] EXCEPT !.request = "write_all"])
    <3> DEFINE s == [request |-> "write_all", put |-> p]
    <3>1. /\ putting' = [putting EXCEPT ![w] = [putting[w] EXCEPT !.request = "write_all"]]
          /\ docs' = With(Main(p.key), Inline(<<>>))
      BY <2>1, <2>3 DEF GoOn
    <3>2. [putting[w] EXCEPT !.request = "write_all"] = s
      BY <2>1
    <3>3. GoodDoc(p.key, Inline(<<>>)) /\ p.key \in Keys
      BY <2>1, PutsTyped DEF GoodDoc, Inline
    <3>4. MainInv' /\ ChunkInv' /\ ChunksStay /\ \A k \in Keys : SameChunks(k)
      BY <2>a, <3>1, <3>3, MainStep
    <3>5. PutOk(w, s)'
      BY <2>1, <2>a DEF PutOk
    <3> HIDE DEF s
    <3> QED
      BY <2>a, <3>1, <3>2, <3>4, <3>5, QuietStep
  <2> QED
    BY <1>5, <2>2, <2>3 DEF FsOpen, Answer
<1>6. CASE MongoCheck(w)
  <2>1. PICK p \in Puts : /\ Key(w) = p.key /\ putting[w] = [request |-> "check", put |-> p]
                          /\ putting[w].put = p /\ backend = "Mongo" /\ Len(p.value) > 1
    BY <1>6, PutOf DEF RequestFor, MongoCheck
  <2>2. UNCHANGED <<backend, docs, reading, torn, disturbed>> /\ got' = NoAnswer
    BY <1>6 DEF MongoCheck, tearVars
  <2>3. CASE Skips(w)
    <3>1. putting' = [putting EXCEPT ![w] = NoPut]
      BY <1>6, <2>3 DEF MongoCheck, Answer
    <3> QED
      BY <1>2, <2>2, <3>1
  <2>4. CASE ~Skips(w)
    <3> DEFINE s == [request |-> "chunk", put |-> p, n |-> 1]
    <3>1. putting' = [putting EXCEPT ![w] = s]
      BY <1>6, <2>1, <2>4 DEF MongoCheck, GoOn
    <3>2. 1 \in 1 .. Len(p.value) /\ 1 .. 1 - 1 = {}
      BY <2>1, PutsTyped
    <3>3. HeldUpTo(p.key, 1 - 1)' /\ Have(p, 1 - 1)'
      BY <3>2 DEF HeldUpTo, Have
    <3>4. PutOk(w, s)'
      BY <2>1, <2>2, <3>2, <3>3 DEF PutOk
    <3>5. MainInv' /\ ChunkInv' /\ ChunksStay /\ \A k \in Keys : SameChunks(k)
      BY <2>2, PutsTyped, MainStep
    <3> HIDE DEF s
    <3> QED
      BY <2>2, <3>1, <3>4, <3>5, QuietStep
  <2> QED
    BY <2>3, <2>4
<1>7. CASE MongoChunk(w)
  <2>0. PICK n : n = putting[w].n
    OBVIOUS
  <2>1. PICK p \in Puts : RequestFor(w, "chunk", p)
    <3>1. At(w, "chunk")
      BY <1>7 DEF MongoChunk
    <3> QED
      BY <3>1, PutOf
  <2>2. /\ putting[w].put = p /\ Value(w) = p.value /\ putting[w] = [request |-> "chunk", put |-> p, n |-> n]
        /\ n \in 1 .. Len(p.value) /\ Len(p.value) \in Nat /\ Len(p.value) > 1 /\ backend = "Mongo"
    BY <2>0, <2>1, PutsTyped DEF RequestFor
  <2>3. WriteChunk(w) /\ backend' = backend /\ got' = NoAnswer /\ putting' = [putting EXCEPT ![w] = AfterChunk(w)]
    BY <1>7 DEF MongoChunk, GoOn
  <2>4. /\ MainInv' /\ ChunkInv' /\ ChunksStay /\ ReadOk(reading)'
        /\ \A v \in KvWriters \ {w} : v \in disturbed => v \in disturbed'
        /\ \A v \in KvWriters \ {w} : putting[v].request \in {"chunk", "main"} =>
             SameChunks(putting[v].put.key) \/ v \in disturbed'
        /\ HeldUpTo(p.key, n)'
        /\ w \in disturbed' \/ Have(p, n)'
    BY <2>0, <2>1, <2>3, ChunkStep
  <2>5. PICK s : s = AfterChunk(w)
    OBVIOUS
  <2>6. s = IF n < Len(p.value) THEN [request |-> "chunk", put |-> p, n |-> n + 1]
            ELSE [request |-> "main", put |-> p]
    <3>1. [putting[w] EXCEPT !.n = n + 1] = [request |-> "chunk", put |-> p, n |-> n + 1]
      BY <2>2
    <3> QED
      BY <2>0, <2>2, <2>5, <3>1 DEF AfterChunk
  <2>7. PutOk(w, s)'
    <3>1. CASE n < Len(p.value)
      <4>1. n + 1 \in 1 .. Len(p.value) /\ (n + 1) - 1 = n
        BY <2>2, <3>1
      <4>2. s = [request |-> "chunk", put |-> p, n |-> n + 1]
        BY <2>6, <3>1
      <4>3. HeldUpTo(p.key, (n + 1) - 1)' /\ (w \in disturbed' \/ Have(p, (n + 1) - 1)')
        BY <2>4, <4>1
      <4> QED
        BY <2>2, <2>3, <4>1, <4>2, <4>3 DEF PutOk
    <3>2. CASE n = Len(p.value)
      <4>1. s = [request |-> "main", put |-> p]
        BY <2>2, <2>6, <3>2
      <4> QED
        BY <2>2, <2>3, <2>4, <3>2, <4>1 DEF PutOk
    <3> QED
      BY <2>2, <3>1, <3>2
  <2> QED
    BY <2>3, <2>4, <2>5, <2>7, WriterKeeps
<1>8. ASSUME NEW p \in Puts, RequestFor(w, "main", p), WriteMain(w), backend' = backend, got' = NoAnswer,
             putting' = [putting EXCEPT ![w] = NoPut]
      PROVE  KvInv'
  <2>1. /\ MainInv' /\ ChunkInv' /\ ChunksStay /\ (\A k \in Keys : SameChunks(k))
        /\ disturbed' = disturbed /\ reading' = reading
    BY <1>8, DocumentStep
  <2> QED
    BY <1>0, <1>8, <2>1, QuietStep
<1>9. CASE MongoMain(w)
  <2>1. PICK p \in Puts : RequestFor(w, "main", p)
    BY <1>9, PutOf DEF MongoMain
  <2> QED
    BY <1>8, <1>9, <2>1 DEF MongoMain, Answer
<1>10. CASE MongoFails(w)
  <2>1. putting' = [putting EXCEPT ![w] = NoPut] /\ backend' = backend /\ got' = NoAnswer
    BY <1>10 DEF MongoFails, Answer
  <2>2. CASE putting[w].request \in {"check", "chunk", "main"} /\ UNCHANGED <<docs, reading, tearVars>>
    <3>1. At(w, putting[w].request) /\ putting[w].request # "none"
      BY <2>2 DEF At
    <3>2. \E p \in Puts : TRUE
      BY <3>1, PutOf
    <3> QED
      BY <1>2, <2>1, <2>2, <3>2 DEF tearVars
  <2>3. CASE At(w, "chunk") /\ WriteChunk(w)
    <3>1. PICK p \in Puts : RequestFor(w, "chunk", p)
      BY <2>3, PutOf
    <3>2. /\ MainInv' /\ ChunkInv' /\ ChunksStay /\ ReadOk(reading)'
          /\ \A v \in KvWriters \ {w} : v \in disturbed => v \in disturbed'
          /\ \A v \in KvWriters \ {w} : putting[v].request \in {"chunk", "main"} =>
               SameChunks(putting[v].put.key) \/ v \in disturbed'
      BY <2>1, <2>3, <3>1, ChunkStep
    <3> QED
      BY <1>0, <2>1, <3>2, WriterKeeps
  <2>4. CASE At(w, "main") /\ WriteMain(w)
    <3>1. PICK p \in Puts : RequestFor(w, "main", p)
      BY <2>4, PutOf
    <3> QED
      BY <1>8, <2>1, <2>4, <3>1
  <2> QED
    BY <1>10, <2>2, <2>3, <2>4 DEF MongoFails
<1>11. CASE Die(w)
  <2>1. /\ putting' = [putting EXCEPT ![w] = NoPut] /\ got' = NoAnswer
        /\ UNCHANGED <<backend, docs, reading, torn, disturbed>>
    BY <1>11 DEF Die, tearVars
  <2>2. putting[w] # NoPut /\ PutOk(w, putting[w])
    BY <1>11 DEF Die, KvInv, PuttingInv
  <2>3. \E p \in Puts : TRUE
    BY <2>2 DEF PutOk
  <2> QED
    BY <1>2, <2>1, <2>3
<1> QED
  BY <1>1, <1>4, <1>5, <1>6, <1>7, <1>9, <1>10, <1>11 DEF KvRequest

(* What a request answers about a key whose document it has read.          *)
LEMMA LookupExact ==
  ASSUME KvInv, NEW key \in Keys, got' = Lookup(key), backend' = backend,
         backend = "Mongo" => ~(exists(key) /\ docs[Main(key)].chunks > 0)
  PROVE  ReadsExact'
<1>1. CASE exists(key)
  <2> DEFINE d == docs[Main(key)]
  <2>1. GoodDoc(key, d) /\ (backend = "Mongo" => ~(d.chunks > 0))
    BY <1>1 DEF KvInv, MainInv
  <2>2. got' = [result |-> "some", key |-> key, value |-> d.value, mixed |-> FALSE]
    BY <1>1 DEF Lookup, Some
  <2> HIDE DEF d
  <2>3. Whole(key, d.value) \/ (backend = "FileSystem" /\ d.value = <<>>)
    BY <2>1 DEF GoodDoc
  <2> QED
    BY <2>2, <2>3 DEF ReadsExact, Whole
<1>2. CASE ~exists(key)
  BY <1>2 DEF Lookup, None, ReadsExact
<1> QED
  BY <1>1, <1>2

LEMMA ReaderKept ==
  ASSUME KvInv, UNCHANGED <<backend, docs, putting, torn, disturbed>>, ReadOk(reading)', ReadsExact'
  PROVE  KvInv'
<1>1. ChunksStay /\ \A k \in Keys : SameChunks(k)
  BY DEF ChunksStay, SameChunks, Holds, chunk_id
<1>2. \A k \in Keys, n \in Nat \ {0} : Holds(chunk_id(k, n))' => Holds(chunk_id(k, n))
  BY DEF Holds, chunk_id
<1>3. \A k \in Keys : exists(k)' => exists(k) /\ docs'[Main(k)] = docs[Main(k)]
  BY DEF exists, Holds, Main
<1>4. MainInv' /\ ChunkInv' /\ PuttingInv'
  BY <1>1, <1>2, <1>3, MainsKept, ChunksKept, OthersKept
<1> QED
  BY <1>4 DEF KvInv

LEMMA KvKept ==
  ASSUME KvInv, KvNext
  PROVE  KvInv'
<1>1. ASSUME NEW w \in KvWriters, KvRequest(w) \/ MongoFails(w) \/ Die(w)
      PROVE  KvInv'
  BY <1>1, RequestKept
<1>2. ASSUME UNCHANGED <<backend, docs, putting, torn, disturbed, reading>>, ReadsExact'
      PROVE  KvInv'
  <2>1. ReadOk(reading)'
    BY <1>2 DEF KvInv, ReadOk, HeldUpTo, OnePut, Have, Holds, chunk_id, Inline
  <2> QED
    BY <1>2, <2>1, ReaderKept
<1>3. got' = NoAnswer => ReadsExact'
  BY DEF ReadsExact, NoAnswer
<1>4. ASSUME S3Stuck \/ S3Stale
      PROVE  KvInv'
  BY <1>2, <1>3, <1>4 DEF S3Stuck, S3Stale, tearVars
<1>5. ASSUME NEW key \in Keys, LocalGet(key) \/ batch_get(key)
      PROVE  KvInv'
  <2>1. got' = Lookup(key) /\ UNCHANGED <<backend, docs, putting, torn, disturbed, reading>> /\ backend # "Mongo"
    BY <1>5 DEF LocalGet, batch_get, Reads, tearVars
  <2> QED
    BY <1>2, <2>1, LookupExact
<1>6. ASSUME NEW key \in Keys, S3Get(key)
      PROVE  KvInv'
  <2>1. /\ got' = Lookup(key) \/ got' = None(key) \/ got' = NoAnswer
        /\ UNCHANGED <<backend, docs, putting, torn, disturbed, reading>> /\ backend # "Mongo"
    BY <1>6 DEF S3Get, Reads, tearVars
  <2>2. CASE got' = None(key)
    BY <1>2, <2>1, <2>2 DEF None, ReadsExact
  <2> QED
    BY <1>2, <1>3, <2>1, <2>2, LookupExact
<1>7. ASSUME NEW key \in Keys, MongoGet(key)
      PROVE  KvInv'
  <2>1. UNCHANGED <<backend, docs, putting, torn, disturbed>> /\ backend = "Mongo"
    BY <1>7 DEF MongoGet, Reads, tearVars
  <2>2. CASE exists(key) /\ docs[Main(key)].chunks > 0
    <3>a. PICK d : d = docs[Main(key)]
      OBVIOUS
    <3>b. PICK t : t = (key \in torn)
      OBVIOUS
    <3>c. t \in BOOLEAN
      <4>1. CASE key \in torn
        BY <3>b, <4>1
      <4>2. CASE key \notin torn
        BY <3>b, <4>2
      <4> QED
        BY <4>1, <4>2
    <3>1. reading' = [key |-> key, chunks |-> d.chunks, torn |-> t] /\ got' = NoAnswer
      BY <1>7, <2>2, <3>a, <3>b DEF MongoGet
    <3>2. GoodDoc(key, d) /\ d.chunks # 0
      <4>1. ~(0 > 0)
        OBVIOUS
      <4>2. docs[Main(key)].chunks # 0
        BY <2>2, <4>1, Zenon
      <4> QED
        BY <2>2, <3>a, <4>2 DEF KvInv, MainInv
    <3>3. d.chunks \in Nat /\ d.chunks > 0 /\ HeldUpTo(key, d.chunks) /\ (t \/ OnePut(key, d.chunks))
      BY <3>2, <3>b DEF GoodDoc
    <3>4. HeldUpTo(key, d.chunks)' /\ (t \/ OnePut(key, d.chunks)')
      BY <2>1, <3>3 DEF HeldUpTo, OnePut, Have, Holds, chunk_id, Inline
    <3>5. ReadOk(reading)'
      BY <2>1, <3>1, <3>3, <3>4, <3>c DEF ReadOk
    <3> QED
      BY <1>3, <2>1, <3>1, <3>5, ReaderKept
  <2>3. CASE ~(exists(key) /\ docs[Main(key)].chunks > 0)
    <3>1. got' = Lookup(key) /\ reading' = reading
      BY <1>7, <2>3 DEF MongoGet
    <3> QED
      BY <1>2, <2>1, <2>3, <3>1, LookupExact
  <2> QED
    BY <2>2, <2>3
<1>8. CASE resolve
  <2>1. PICK k \in Keys, m \in Nat, t \in BOOLEAN :
           /\ reading = [key |-> k, chunks |-> m, torn |-> t]
           /\ m > 0 /\ HeldUpTo(k, m) /\ (t \/ OnePut(k, m))
    BY <1>8 DEF resolve, KvInv, ReadOk
  <2>2. reading.key = k /\ reading.chunks = m /\ reading.torn = t
    BY <2>1
  <2>3. UNCHANGED <<backend, docs, putting, torn, disturbed>> /\ reading' = NotReading
    BY <1>8 DEF resolve, tearVars
  <2>a. PICK value : value = [n \in 1 .. m |-> docs[chunk_id(k, n)].value[1]]
    OBVIOUS
  <2>4. got' = Some(k, value, t)
    BY <1>8, <2>1, <2>2, <2>a DEF resolve, HeldUpTo
  <2>b. \A c : Inline(<<c>>).value[1] = c
    BY DEF Inline
  <2>5. ASSUME OnePut(k, m) PROVE ReadsExact'
    <3>1. PICK p \in Puts : p.key = k /\ Len(p.value) = m /\ Have(p, m)
      BY <2>5 DEF OnePut
    <3>2. \A n \in 1 .. m : docs[chunk_id(k, n)].value[1] = p.value[n]
      BY <2>b, <3>1 DEF Have
    <3>3. value = [n \in 1 .. Len(p.value) |-> p.value[n]]
      BY <2>a, <3>1, <3>2
    <3>4. value = p.value
      BY <3>3, PutsTyped
    <3> QED
      BY <2>4, <3>1, <3>4 DEF Some, ReadsExact, Whole
  <2>6. ASSUME t PROVE ReadsExact'
    <3>1. backend = "Mongo"
      BY <1>8 DEF resolve, KvInv, ReadOk
    <3>2. ASSUME NEW n \in 1 .. m
          PROVE  \E p \in Puts : p.key = k /\ n <= Len(p.value) /\ p.value[n] = value[n]
      <4>1. n \in Nat \ {0} /\ Holds(chunk_id(k, n)) /\ ChunkInv
        BY <2>1 DEF HeldUpTo, KvInv
      <4>2. PICK p \in Puts : p.key = k /\ n <= Len(p.value) /\ docs[chunk_id(k, n)] = Inline(<<p.value[n]>>)
        BY <4>1, Zenon DEF ChunkInv
      <4>3. value[n] = p.value[n]
        BY <2>a, <2>b, <4>2
      <4> QED
        BY <4>2, <4>3
    <3>3. Len(value) = m
      BY <2>1, <2>a
    <3> QED
      BY <2>3, <2>4, <2>6, <3>1, <3>2, <3>3 DEF Some, ReadsExact, ChunkWise
  <2>8. ReadsExact'
    BY <2>1, <2>5, <2>6
  <2>9. ReadOk(reading)'
    BY <2>3 DEF ReadOk
  <2> QED
    BY <2>3, <2>8, <2>9, ReaderKept
<1>9. ASSUME NEW key \in Keys, delete(key)
      PROVE  KvInv'
  <2>1. /\ docs' = Without(Main(key)) /\ UNCHANGED <<backend, putting, reading, torn, disturbed>>
        /\ got' = NoAnswer
    BY <1>9 DEF delete, tearVars
  <2>2. MainInv' /\ ChunkInv' /\ ChunksStay /\ \A k \in Keys : SameChunks(k)
    BY <2>1, DropMain
  <2>3. PuttingInv' /\ ReadOk(reading)'
    BY <2>1, <2>2, OthersKept
  <2> QED
    BY <1>3, <2>1, <2>2, <2>3 DEF KvInv
<1> QED
  BY <1>1, <1>4, <1>5, <1>6, <1>7, <1>8, <1>9 DEF KvNext

(***************************************************************************)
(* A get finds every chunk and answers with a value that was put, whole,   *)
(* in every store, but for a file half written and a MongoDB key that was  *)
(* torn, where it answers with chunks that were put: for every set of puts *)
(* and writers and every number of faults, whatever values the puts of a   *)
(* key have, and whatever requests of puts, deletes and reads interleave.  *)
(***************************************************************************)
THEOREM ReadsAreExact == Spec => []ReadsExact
<1>1. Init => KvInv
  <2>1. \A b \in {"Memory", "FileSystem", "AwsS3", "Mongo", "AwsDynamoDB"} : KvInit(b) => KvInv
    BY KvStart
  <2> QED
    BY <2>1, KvAssumption DEF Init
<1>2. KvInv /\ [Next]_vars => KvInv'
  <2> SUFFICES ASSUME KvInv, UNCHANGED kvVars PROVE KvInv'
    BY KvKept DEF Next, vars
  <2>1. UNCHANGED <<backend, docs, putting, reading, got, torn, disturbed>>
    BY DEF kvVars, tearVars
  <2>2. ReadOk(reading)' /\ ReadsExact'
    BY <2>1 DEF KvInv, ReadOk, HeldUpTo, OnePut, Have, Holds, chunk_id, Inline, ReadsExact, Whole, ChunkWise
  <2> QED
    BY <2>1, <2>2, ReaderKept
<1>3. KvInv => ReadsExact
  BY DEF KvInv
<1> QED
  BY <1>1, <1>2, <1>3, PTL DEF Spec
-----------------------------------------------------------------------------
(***************************************************************************)
(* The circuit breaker that requests to the stores pass through, for any   *)
(* number of concurrent requests and any threshold.                        *)
(***************************************************************************)
BreakerInv == BreakerTypeOK /\ BreakerConsistent

(* Moving a request keeps the type of pc. *)
LEMMA GotoType ==
  ASSUME pc \in [Request -> Places], NEW r \in Request, NEW place \in Places, Goto(r, place)
  PROVE  pc' \in [Request -> Places]
BY DEF Goto

(* A step of the executor preserves the invariant; only the two recording  *)
(* calls and the second half of should_use_fallback touch the breaker.     *)
LEMMA ExecuteBreaker ==
  ASSUME BreakerInv, NEW r \in Request, Execute(r) \/ Cancel(r)
  PROVE  BreakerInv'
<1> USE BreakerAssumption DEF BreakerInv, BreakerTypeOK, BreakerConsistent, breaker
<1>a. {"idle", "check", "upgrade", "primary", "primary_only", "succeeded", "failed",
       "fallback"} = Places
  BY DEF Places
<1>1. CASE Begin(r)
  <2>1. pc' \in [Request -> Places]
    BY <1>1, <1>a, GotoType DEF Begin
  <2> QED
    BY <1>1, <2>1 DEF Begin
<1>2. CASE Check(r)
  <2>1. pc' \in [Request -> Places]
    BY <1>2, <1>a, GotoType DEF Check
  <2> QED
    BY <1>2, <2>1 DEF Check
<1>3. CASE Upgrade(r)
  <2>1. pc' \in [Request -> Places]
    BY <1>3, <1>a, GotoType DEF Upgrade
  <2> QED
    BY <1>3, <2>1 DEF Upgrade
<1>4. CASE AskPrimary(r)
  <2>1. pc' \in [Request -> Places]
    BY <1>4, <1>a, GotoType DEF AskPrimary
  <2> QED
    BY <1>4, <2>1 DEF AskPrimary
<1>5. CASE RecordSuccess(r)
  <2>1. pc' \in [Request -> Places]
    BY <1>5, <1>a, GotoType DEF RecordSuccess
  <2> QED
    BY <1>5, <2>1 DEF RecordSuccess
<1>6. CASE RecordFailure(r)
  <2>1. pc' \in [Request -> Places]
    BY <1>6, <1>a, GotoType DEF RecordFailure
  <2> QED
    BY <1>6, <2>1 DEF RecordFailure, Opens, CountFailure
<1>7. CASE PrimaryOnly(r) \/ AskFallback(r) \/ Cancel(r)
  <2>1. pc' \in [Request -> Places]
    BY <1>7, <1>a, GotoType DEF PrimaryOnly, AskFallback, Cancel
  <2> QED
    BY <1>7, <2>1 DEF PrimaryOnly, AskFallback, Cancel
<1> QED
  BY <1>1, <1>2, <1>3, <1>4, <1>5, <1>6, <1>7 DEF Execute

(* The breaker of failover_circuit_breaker.rs stays consistent under every *)
(* interleaving of its lock acquisitions: an open circuit always has an    *)
(* opening time and a closed one is below its threshold.                   *)
THEOREM AlwaysConsistent == Spec => []BreakerConsistent
<1>1. Init => BreakerInv
  <2>1. BreakerInit => BreakerInv
    BY BreakerAssumption DEF BreakerInit, BreakerInv, BreakerTypeOK, BreakerConsistent, Places
  <2> QED
    BY <2>1 DEF Init
<1>2. BreakerInv /\ BreakerNext => BreakerInv'
  <2> SUFFICES ASSUME BreakerInv, BreakerNext PROVE BreakerInv'
    OBVIOUS
  <2>1. ASSUME NEW r \in Request, Execute(r) \/ Cancel(r) PROVE BreakerInv'
    BY <2>1, ExecuteBreaker
  <2>2. CASE RecoveryTimeout
    BY <2>2 DEF RecoveryTimeout, BreakerInv, BreakerTypeOK, BreakerConsistent
  <2>3. CASE Flip
    BY <2>3 DEF Flip, BreakerInv, BreakerTypeOK, BreakerConsistent, breaker
  <2> QED
    BY <2>1, <2>2, <2>3 DEF BreakerNext
<1>3. BreakerInv /\ UNCHANGED breakerVars => BreakerInv'
  BY DEF breakerVars, BreakerInv, BreakerTypeOK, BreakerConsistent, breaker
<1>4. BreakerInv /\ [Next]_vars => BreakerInv'
  BY <1>2, <1>3 DEF Next, vars
<1> QED
  BY <1>1, <1>4, PTL DEF Spec, BreakerInv
=============================================================================
