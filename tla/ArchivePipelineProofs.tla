------------------------ MODULE ArchivePipelineProofs ------------------------
(***************************************************************************)
(* Proofs about ArchivePipeline, for every chain length, range size,       *)
(* concurrency, number of failures and choice of options.                  *)
(***************************************************************************)
EXTENDS ArchivePipeline, TLAPS

(* Everything the archiver is asked for is in the archive for block n. *)
Archived(n) == \A kind \in Fatal : <<kind, n>> \in objects

(* Everything the indexer is asked for is in the index for block n. *)
IndexHas(n) == \A entry \in Entries : <<entry, n>> \in index

(* The archiver's position is justified by the archive: all blocks below   *)
(* start_block, below the head of the stream and up to the marker to be    *)
(* written are archived.                                                   *)
ArchiverInv ==
  /\ aDone \subseteq objects
  /\ apc = "archive" => aStart <= aHead /\ aHead <= aEnd
  /\ ~opts.skipBad =>
       /\ \A n \in Block : n <= uploaded => Archived(n)
       /\ apc # "down" => \A n \in Block : n < aStart => Archived(n)
       /\ apc = "archive" => \A n \in Block : n < aHead => Archived(n)
       /\ apc = "checkpoint" /\ aNew # 0 => \A n \in Block : n <= aNew => Archived(n)

(* The archiver's position is ahead of its marker. *)
AheadInv ==
  /\ uploaded # 0
  /\ aStart <= MaxBlock + 1
  /\ ~readError =>
       /\ apc # "down" => uploaded < aStart
       /\ apc = "checkpoint" => aNew >= uploaded

(* The indexer's position is justified by the index in the same way.       *)
IndexerInv ==
  /\ iDone \subseteq index
  /\ iStart <= MaxBlock + 1
  /\ ipc = "index" => iStart <= iHead /\ iHead <= iEnd
  /\ indexed # U64_MOD - 1 => \A n \in Block : n <= indexed => IndexHas(n)
  /\ ipc # "down" => \A n \in Block : n < iStart => IndexHas(n)
  /\ ipc = "index" => \A n \in Block : n < iHead => IndexHas(n)
  /\ ipc = "checkpoint" /\ iNew \notin {0, U64_MOD - 1} =>
       \A n \in Block : n <= iNew => IndexHas(n)

(* What has been read for indexing is in the archive. *)
ReadInv ==
  ~iopts.hasFallback =>
    /\ \A n \in iRead : HasBlockData(n)
    /\ \A e \in index : HasBlockData(e[2])

IInv == TypeOK /\ ArchiverInv /\ AheadInv /\ IndexerInv /\ ReadInv

-----------------------------------------------------------------------------
(* Where a worker resumes, without the wrap-around that cannot happen for  *)
(* a block of the chain.                                                   *)
LEMMA ResumeFacts ==
  /\ Resume(None) = 0
  /\ Resume(0) = 0
  /\ \A m \in Block : m # 0 => Resume(m) = m + 1
  /\ U64_MOD - 1 \notin Block
  /\ U64_MOD - 1 # None
  /\ Resume(U64_MOD - 1) = 0
<1>1. ASSUME NEW m \in Block, m # 0 PROVE Resume(m) = m + 1
  <2>1. m + 1 \in Nat /\ m + 1 < U64_MOD /\ m # -1
    BY ArchiveAssumption DEF Block
  <2>2. (m + 1) % U64_MOD = m + 1
    BY <2>1, ArchiveAssumption
  <2> QED
    BY <1>1, <2>1, <2>2 DEF Resume, None
<1>2. Resume(U64_MOD - 1) = 0
  <2>1. (U64_MOD - 1 + 1) % U64_MOD = 0
    BY ArchiveAssumption
  <2> QED
    BY <2>1, ArchiveAssumption DEF Resume, None
<1> QED
  BY <1>1, <1>2, ArchiveAssumption DEF Resume, None, Block

(* The initial state satisfies the invariant. *)
LEMMA InitIInv == Init => IInv
<1> SUFFICES ASSUME Init PROVE IInv
  OBVIOUS
<1> USE DEF Init, ArchiveInit, ArchiverInit, IndexerInit
<1>1. ArchiverType
  BY ArchiveAssumption, WorkerAssumption
  DEF ArchiverType, Block, None, WorkerStates
<1>2. IndexerType
  BY ArchiveAssumption, IndexAssumption
  DEF IndexerType, Block, None, IndexerStates
<1>3. readError \in BOOLEAN
  OBVIOUS
<1>4. ArchiverInv
  BY ArchiveAssumption DEF ArchiverInv, Block, None
<1>5. AheadInv
  BY ArchiveAssumption DEF AheadInv, Block, None
<1>6. IndexerInv /\ ReadInv
  BY ArchiveAssumption DEF IndexerInv, ReadInv, Block, None
<1> QED
  BY <1>1, <1>2, <1>3, <1>4, <1>5, <1>6 DEF IInv, TypeOK

-----------------------------------------------------------------------------
(* The archiver's steps keep its types. *)
LEMMA ArchiverKeepsType ==
  ASSUME IInv, ArchiverStep \/ ArchiverTrouble
  PROVE  ArchiverType'
<1> USE ArchiveAssumption, WorkerAssumption DEF Block, None, WorkerStates, archive, Fail
<1>0. ArchiverType /\ AheadInv /\ (apc = "archive" => aStart <= aHead /\ aHead <= aEnd)
  BY DEF IInv, TypeOK, ArchiverInv
<1>1. CASE ArchiverStart
  <2>1. Resume(uploaded) \in Nat
    BY <1>0, ResumeFacts DEF ArchiverType
  <2> QED
    BY <1>0, <1>1, <2>1 DEF ArchiverType, ArchiverStart
<1>2. CASE ArchiverStop
  BY <1>0, <1>2 DEF ArchiverType, ArchiverStop
<1>3. CASE ArchiverPoll
  <2>1. aEnd' \in Int /\ aEnd' <= sourceLatest /\ aStart <= aEnd'
    BY <1>0, <1>3 DEF ArchiverType, ArchiverPoll, Minimum
  <2> QED
    BY <1>0, <1>3, <2>1 DEF ArchiverType, ArchiverPoll
<1>4. ASSUME NEW kind \in Kind, NEW n \in Block, PutObject(kind, n) PROVE ArchiverType'
  BY <1>0, <1>4 DEF ArchiverType, PutObject
<1>5. ASSUME NEW kind \in Kind, NEW n \in Block, PutFails(kind, n) PROVE ArchiverType'
  <2>1. JoinedWith(kind) \subseteq Kind
    BY DEF JoinedWith, Kind
  <2> QED
    BY <1>0, <1>5, <2>1 DEF ArchiverType, PutFails
<1>6. CASE BlockArchived
  <2>1. aHead <= aEnd
    BY <1>0, <1>6 DEF BlockArchived, HeadFinished
  <2> QED
    BY <1>0, <1>6, <2>1 DEF ArchiverType, BlockArchived
<1>7. CASE BlockFailed
  BY <1>0, <1>7 DEF ArchiverType, BlockFailed
<1>8. CASE ArchiverCheckpoint
  <2>1. Resume(aNew) \in Nat
    BY <1>0, ResumeFacts DEF ArchiverType
  <2> QED
    BY <1>0, <1>8, <2>1 DEF ArchiverType, ArchiverCheckpoint
<1>9. CASE ArchiverCrash
  BY <1>0, <1>9 DEF ArchiverType, ArchiverCrash
<1> QED
  BY <1>1, <1>2, <1>3, <1>4, <1>5, <1>6, <1>7, <1>8, <1>9
  DEF ArchiverStep, ArchiverTrouble

(* The archiver's steps keep its position justified. *)
LEMMA ArchiverKeepsInv ==
  ASSUME IInv, ArchiverStep \/ ArchiverTrouble
  PROVE  ArchiverInv'
<1> USE ArchiveAssumption DEF archive
<1>0. ArchiverType /\ ArchiverInv /\ AheadInv
  BY DEF IInv, TypeOK
<1>a. opts' = opts /\ objects \subseteq objects'
  BY DEF ArchiverStep, ArchiverTrouble, ArchiverStart, ArchiverStop, ArchiverPoll,
     PutObject, PutFails, BlockArchived, BlockFailed, ArchiverCheckpoint, ArchiverCrash
<1>b. Fatal' = Fatal /\ Wanted' = Wanted
  BY <1>a DEF Fatal, Wanted
<1>c. \A n : Archived(n) => Archived(n)'
  BY <1>a, <1>b DEF Archived
<1>d. Block \subseteq Int /\ uploaded \in Int /\ aStart \in Int /\ aHead \in Block
      /\ aEnd \in Block /\ aNew \in Block /\ aHead \in Int /\ aEnd \in Int /\ aNew \in Int
  BY <1>0 DEF ArchiverType, Block, None
<1> HIDE DEF Archived
<1>1. CASE ArchiverStart
  <2>1. \A n \in Block : n < Resume(uploaded) => n <= uploaded
    BY <1>0, <1>d, ResumeFacts DEF ArchiverType, Block, None
  <2> QED
    BY <1>0, <1>1, <1>a, <1>c, <1>d, <2>1 DEF ArchiverInv, ArchiverStart, Block
<1>2. CASE ArchiverStop
  BY <1>0, <1>2, <1>a, <1>c DEF ArchiverInv, ArchiverStop
<1>3. CASE ArchiverPoll
  BY <1>0, <1>3, <1>a, <1>c, <1>d DEF ArchiverInv, ArchiverPoll
<1>4. ASSUME NEW kind \in Kind, NEW n \in Block, PutObject(kind, n) PROVE ArchiverInv'
  BY <1>0, <1>4, <1>a, <1>c DEF ArchiverInv, PutObject, Outstanding
<1>5. ASSUME NEW kind \in Kind, NEW n \in Block, PutFails(kind, n) PROVE ArchiverInv'
  BY <1>0, <1>5, <1>a, <1>c DEF ArchiverInv, PutFails, Outstanding
<1>6. CASE BlockArchived
  <2>1. ~opts.skipBad => Archived(aHead)
    BY <1>0, <1>6 DEF ArchiverInv, BlockArchived, HeadFinished, HeadBad, Fatal, Archived
  <2>2. ~opts.skipBad => \A n \in Block : n <= aHead => Archived(n)
    BY <1>0, <1>6, <1>d, <2>1 DEF ArchiverInv, BlockArchived, HeadFinished
  <2>3. CASE aHead = aEnd
    BY <1>0, <1>6, <1>a, <1>c, <1>d, <2>2, <2>3
    DEF ArchiverInv, BlockArchived, HeadFinished
  <2>4. CASE aHead # aEnd
    BY <1>0, <1>6, <1>a, <1>c, <1>d, <2>2, <2>4
    DEF ArchiverInv, BlockArchived, HeadFinished
  <2> QED
    BY <2>3, <2>4
<1>7. CASE BlockFailed
  BY <1>0, <1>7, <1>a, <1>c, <1>d DEF ArchiverInv, BlockFailed, HeadFinished
<1>8. CASE ArchiverCheckpoint
  <2>1. \A n \in Block : n < Resume(aNew) => aNew # 0 /\ n <= aNew
    BY <1>d, ResumeFacts DEF Block, None
  <2> QED
    BY <1>0, <1>8, <1>a, <1>c, <1>d, <2>1 DEF ArchiverInv, ArchiverCheckpoint, Block
<1>9. CASE ArchiverCrash
  BY <1>0, <1>9, <1>a, <1>c DEF ArchiverInv, ArchiverCrash
<1> QED
  BY <1>1, <1>2, <1>3, <1>4, <1>5, <1>6, <1>7, <1>8, <1>9
  DEF ArchiverStep, ArchiverTrouble

(* The archiver's steps keep it ahead of its marker, and move the marker   *)
(* forward unless a start-up read has failed.                              *)
LEMMA ArchiverStaysAhead ==
  ASSUME IInv, ArchiverStep \/ ArchiverTrouble
  PROVE  AheadInv' /\ (~readError => uploaded' >= uploaded)
<1> USE ArchiveAssumption DEF archive
<1>0. ArchiverType /\ AheadInv /\ (apc = "archive" => aStart <= aHead /\ aHead <= aEnd)
  BY DEF IInv, TypeOK, ArchiverInv
<1>d. /\ uploaded \in Int /\ uploaded >= -1 /\ uploaded <= MaxBlock
      /\ aStart \in Int /\ aHead \in Int /\ aEnd \in Int /\ aNew \in Int
      /\ aStart >= 0 /\ aHead >= 0 /\ aNew >= 0 /\ aEnd <= MaxBlock /\ aNew <= MaxBlock
  BY <1>0 DEF ArchiverType, Block, None
<1>1. CASE ArchiverStart
  <2>1. /\ Resume(uploaded) > uploaded
        /\ Resume(uploaded) <= MaxBlock + 1
    BY <1>0, <1>d, ResumeFacts DEF ArchiverType, AheadInv, Block, None
  <2> QED
    BY <1>0, <1>1, <1>d, <2>1 DEF AheadInv, ArchiverStart
<1>2. CASE ArchiverStop
  BY <1>0, <1>2, <1>d DEF AheadInv, ArchiverStop
<1>3. CASE ArchiverPoll
  BY <1>0, <1>3, <1>d DEF AheadInv, ArchiverPoll
<1>4. ASSUME NEW kind \in Kind, NEW n \in Block, PutObject(kind, n)
      PROVE  AheadInv' /\ (~readError => uploaded' >= uploaded)
  BY <1>0, <1>4, <1>d DEF AheadInv, PutObject
<1>5. ASSUME NEW kind \in Kind, NEW n \in Block, PutFails(kind, n)
      PROVE  AheadInv' /\ (~readError => uploaded' >= uploaded)
  BY <1>0, <1>5, <1>d DEF AheadInv, PutFails
<1>6. CASE BlockArchived
  BY <1>0, <1>6, <1>d DEF AheadInv, BlockArchived, HeadFinished
<1>7. CASE BlockFailed
  BY <1>0, <1>7, <1>d DEF AheadInv, BlockFailed, HeadFinished
<1>8. CASE ArchiverCheckpoint
  <2>1. /\ aNew = 0 => Resume(aNew) = 0
        /\ aNew # 0 => Resume(aNew) = aNew + 1
    BY <1>0, ResumeFacts DEF ArchiverType
  <2> QED
    BY <1>0, <1>8, <1>d, <2>1 DEF AheadInv, ArchiverCheckpoint
<1>9. CASE ArchiverCrash
  BY <1>0, <1>9, <1>d DEF AheadInv, ArchiverCrash
<1> QED
  BY <1>1, <1>2, <1>3, <1>4, <1>5, <1>6, <1>7, <1>8, <1>9
  DEF ArchiverStep, ArchiverTrouble

(* The archiver's steps leave a Boolean in readError. *)
LEMMA ReadErrorBoolean ==
  ASSUME readError \in BOOLEAN, ArchiverStep \/ ArchiverTrouble
  PROVE  readError' \in BOOLEAN
BY Zenon DEF ArchiverStep, ArchiverTrouble, ArchiverStart, ArchiverStop, ArchiverPoll,
   PutObject, PutFails, BlockArchived, BlockFailed, ArchiverCheckpoint, ArchiverCrash

-----------------------------------------------------------------------------
(* The indexer's steps keep its types. *)
LEMMA IndexerKeepsType ==
  ASSUME IInv, IndexerStep \/ IndexerTrouble
  PROVE  IndexerType'
<1> USE ArchiveAssumption, IndexAssumption DEF None, IndexerStates, Fail
<1>0. /\ IndexerType /\ uploaded \in Block \cup {None}
      /\ iStart <= MaxBlock + 1 /\ (ipc = "index" => iStart <= iHead /\ iHead <= iEnd)
  BY DEF IInv, TypeOK, ArchiverType, IndexerInv
<1>1. CASE IndexerStart
  <2>1. Resume(indexed) \in Nat
    BY <1>0, ResumeFacts DEF IndexerType, Block
  <2> QED
    BY <1>0, <1>1, <2>1 DEF IndexerType, IndexerStart
<1>2. CASE IndexerPanic \/ IndexerStop
  BY <1>0, <1>2 DEF IndexerType, IndexerPanic, IndexerStop
<1>3. CASE IndexerPoll
  <2>1. iEnd' \in Int /\ iEnd' <= uploaded /\ iStart <= iEnd'
    BY <1>0, <1>3 DEF IndexerType, IndexerPoll, Minimum, Block
  <2> QED
    BY <1>0, <1>3, <2>1 DEF IndexerType, IndexerPoll, Block
<1>4. ASSUME NEW n \in Block, ReadBlockData(n) PROVE IndexerType'
  BY <1>0, <1>4 DEF IndexerType, ReadBlockData
<1>5. ASSUME NEW entry \in Tx \cup {"logs"}, NEW n \in Block, PutEntry(entry, n)
      PROVE  IndexerType'
  BY <1>0, <1>5 DEF IndexerType, PutEntry
<1>6. ASSUME NEW n \in Block, DataMissing(n) \/ IndexingFails(n) PROVE IndexerType'
  <2>1. Entries \subseteq Tx \cup {"logs"}
    BY DEF Entries
  <2> QED
    BY <1>0, <1>6, <2>1 DEF IndexerType, DataMissing, IndexingFails
<1>7. CASE BlockIndexed
  <2>1. iHead <= iEnd
    BY <1>0, <1>7 DEF BlockIndexed
  <2> QED
    BY <1>0, <1>7, <2>1 DEF IndexerType, BlockIndexed, Block
<1>8. CASE BlockNotIndexed
  <2>1. iHead # 0 => (iHead - 1) % U64_MOD = iHead - 1
    BY <1>0 DEF IndexerType, Block
  <2>2. (0 - 1) % U64_MOD = U64_MOD - 1
    OBVIOUS
  <2> QED
    BY <1>0, <1>8, <2>1, <2>2 DEF IndexerType, BlockNotIndexed, Block
<1>9. CASE IndexerCheckpoint
  <2>1. Resume(iNew) \in Nat
    BY <1>0, ResumeFacts DEF IndexerType, Block
  <2> QED
    BY <1>0, <1>9, <2>1 DEF IndexerType, IndexerCheckpoint, Block
<1>10. CASE IndexerCrash
  BY <1>0, <1>10 DEF IndexerType, IndexerCrash, Block
<1> QED
  BY <1>1, <1>2, <1>3, <1>4, <1>5, <1>6, <1>7, <1>8, <1>9, <1>10
  DEF IndexerStep, IndexerTrouble

(* The indexer's steps keep its position justified. *)
LEMMA IndexerKeepsInv ==
  ASSUME IInv, IndexerStep \/ IndexerTrouble
  PROVE  IndexerInv'
<1> USE ArchiveAssumption
<1>0. IndexerType /\ IndexerInv /\ uploaded \in Block \cup {None}
  BY DEF IInv, TypeOK, ArchiverType
<1>a. iopts' = iopts /\ index \subseteq index'
  BY DEF IndexerStep, IndexerTrouble, IndexerStart, IndexerPanic, IndexerStop, IndexerPoll,
     ReadBlockData, PutEntry, DataMissing, IndexingFails, BlockIndexed,
     BlockNotIndexed, IndexerCheckpoint, IndexerCrash
<1>c. \A n : IndexHas(n) => IndexHas(n)'
  BY <1>a DEF IndexHas, Entries
<1>d. /\ Block \subseteq Int /\ \A n \in Block : n >= 0 /\ n <= MaxBlock
      /\ iStart \in Int /\ iHead \in Block /\ iEnd \in Block
      /\ indexed \in Int /\ iNew \in Int /\ iHead \in Int /\ iEnd \in Int
  BY <1>0 DEF IndexerType, Block, None
<1>1. CASE IndexerStart
  <2>1. /\ Resume(indexed) <= MaxBlock + 1
        /\ \A n \in Block : n < Resume(indexed) => n <= indexed /\ indexed # U64_MOD - 1
    BY <1>0, <1>d, ResumeFacts DEF IndexerType, Block, None
  <2> QED
    BY <1>0, <1>1, <1>a, <1>c, <1>d, <2>1 DEF IndexerInv, IndexerStart
<1>2. CASE IndexerPanic \/ IndexerStop
  BY <1>0, <1>2, <1>a, <1>c, <1>d DEF IndexerInv, IndexerPanic, IndexerStop
<1>3. CASE IndexerPoll
  BY <1>0, <1>3, <1>a, <1>c, <1>d DEF IndexerInv, IndexerPoll
<1>4. ASSUME NEW n \in Block, ReadBlockData(n) PROVE IndexerInv'
  BY <1>0, <1>4, <1>a, <1>c DEF IndexerInv, ReadBlockData
<1>5. ASSUME NEW entry \in Tx \cup {"logs"}, NEW n \in Block, PutEntry(entry, n)
      PROVE  IndexerInv'
  BY <1>0, <1>5, <1>a, <1>c DEF IndexerInv, PutEntry
<1>6. ASSUME NEW n \in Block, DataMissing(n) \/ IndexingFails(n) PROVE IndexerInv'
  BY <1>0, <1>6, <1>a, <1>c DEF IndexerInv, DataMissing, IndexingFails
<1>7. CASE BlockIndexed
  <2>1. IndexHas(iHead)
    BY <1>0, <1>7 DEF IndexerInv, BlockIndexed, AllPut, IndexHas
  <2>0. \A n \in Block : n < iHead => IndexHas(n)
    BY <1>0, <1>7 DEF IndexerInv, BlockIndexed
  <2>2. ASSUME NEW n \in Block, n <= iHead PROVE IndexHas(n)
    <3>1. n = iHead \/ n < iHead
      BY <1>d, <2>2
    <3> QED
      BY <2>0, <2>1, <3>1
  <2>3. CASE iHead = iEnd
    BY <1>0, <1>7, <1>a, <1>c, <1>d, <2>2, <2>3 DEF IndexerInv, BlockIndexed
  <2>4. CASE iHead # iEnd
    BY <1>0, <1>7, <1>a, <1>c, <1>d, <2>2, <2>4 DEF IndexerInv, BlockIndexed
  <2> QED
    BY <2>3, <2>4
<1>8. CASE BlockNotIndexed
  <2>1. iHead # 0 => (iHead - 1) % U64_MOD = iHead - 1
    BY <1>0 DEF IndexerType, Block
  <2>2. (0 - 1) % U64_MOD = U64_MOD - 1
    OBVIOUS
  <2>3. iNew' = U64_MOD - 1 \/ iNew' = iHead - 1
    BY <1>8, <2>1, <2>2 DEF BlockNotIndexed
  <2> QED
    BY <1>0, <1>8, <1>a, <1>c, <1>d, <2>3 DEF IndexerInv, BlockNotIndexed
<1>9. CASE IndexerCheckpoint
  <2>1. /\ Resume(iNew) <= MaxBlock + 1
        /\ \A n \in Block : n < Resume(iNew) => n <= iNew /\ iNew \notin {0, U64_MOD - 1}
    BY <1>0, <1>d, ResumeFacts DEF IndexerType, Block, None
  <2> QED
    BY <1>0, <1>9, <1>a, <1>c, <1>d, <2>1 DEF IndexerInv, IndexerCheckpoint
<1>10. CASE IndexerCrash
  BY <1>0, <1>10, <1>a, <1>c DEF IndexerInv, IndexerCrash
<1> QED
  BY <1>1, <1>2, <1>3, <1>4, <1>5, <1>6, <1>7, <1>8, <1>9, <1>10
  DEF IndexerStep, IndexerTrouble

(* The indexer indexes only what it has read. *)
LEMMA IndexerKeepsRead ==
  ASSUME IInv, IndexerStep \/ IndexerTrouble, objects' = objects
  PROVE  ReadInv'
<1>0. ReadInv
  BY DEF IInv
<1>a. iopts' = iopts
  BY DEF IndexerStep, IndexerTrouble, IndexerStart, IndexerPanic, IndexerStop, IndexerPoll,
     ReadBlockData, PutEntry, DataMissing, IndexingFails, BlockIndexed,
     BlockNotIndexed, IndexerCheckpoint, IndexerCrash
<1>b. \A n : HasBlockData(n)' <=> HasBlockData(n)
  BY DEF HasBlockData
<1>4. ASSUME NEW n \in Block, ReadBlockData(n) PROVE ReadInv'
  BY <1>0, <1>4, <1>a, <1>b DEF ReadInv, ReadBlockData
<1>5. ASSUME NEW entry \in Tx \cup {"logs"}, NEW n \in Block, PutEntry(entry, n)
      PROVE  ReadInv'
  <2>1. \A e \in index' : e \in index \/ e[2] \in iRead
    BY <1>5 DEF PutEntry
  <2> QED
    BY <1>0, <1>5, <1>a, <1>b, <2>1 DEF ReadInv, PutEntry
<1>6. ASSUME index' = index, iRead' \in {iRead, {}} PROVE ReadInv'
  BY <1>0, <1>6, <1>a, <1>b DEF ReadInv
<1>7. ASSUME NEW n \in Block, IndexingFails(n) PROVE ReadInv'
  <2>1. \A e \in index' : e \in index \/ e[2] \in iRead
    BY <1>7 DEF IndexingFails
  <2> QED
    BY <1>0, <1>7, <1>a, <1>b, <2>1 DEF ReadInv, IndexingFails
<1> QED
  BY <1>4, <1>5, <1>6, <1>7
  DEF IndexerStep, IndexerTrouble, IndexerStart, IndexerPanic, IndexerStop, IndexerPoll,
      DataMissing, BlockIndexed, BlockNotIndexed,
      IndexerCheckpoint, IndexerCrash

-----------------------------------------------------------------------------
(* A step that leaves the archiver's variables alone keeps what is said of *)
(* it.                                                                     *)
LEMMA ArchiverFrame ==
  ASSUME ArchiverInv, AheadInv, UNCHANGED <<archive, opts, archiverVars>>
  PROVE  ArchiverInv' /\ AheadInv'
BY DEF ArchiverInv, AheadInv, Archived, Fatal, Wanted, archive, archiverVars

(* The same for the indexer's variables. *)
LEMMA IndexerFrame ==
  ASSUME IndexerType, IndexerInv, UNCHANGED indexState
  PROVE  IndexerType' /\ IndexerInv'
BY DEF IndexerType, IndexerInv, IndexHas, Entries, indexState, indexerVars

(* A growing archive keeps what has been read in it. *)
LEMMA ReadFrame ==
  ASSUME ReadInv, UNCHANGED indexState, objects \subseteq objects'
  PROVE  ReadInv'
BY DEF ReadInv, HasBlockData, indexState, indexerVars

(* Every step preserves the invariant, and moves the archiver's marker     *)
(* forward unless a start-up read has failed.                              *)
LEMMA NextIInv ==
  ASSUME IInv, [Next]_vars
  PROVE  IInv' /\ (~readError => uploaded' >= uploaded)
<1>0. TypeOK /\ ArchiverInv /\ AheadInv /\ IndexerInv /\ ReadInv
  BY DEF IInv
<1>a. uploaded \in Int
  BY <1>0, ArchiveAssumption DEF TypeOK, ArchiverType, Block, None
<1>1. CASE NewBlock
  <2>1. UNCHANGED <<archive, opts, archiverVars>> /\ UNCHANGED indexState
    BY <1>1 DEF NewBlock
  <2>2. ArchiverType'
    BY <1>0, <1>1, ArchiveAssumption
    DEF TypeOK, ArchiverType, NewBlock, Block, archive, archiverVars
  <2>3. readError' \in BOOLEAN /\ objects \subseteq objects'
    BY <1>0, <2>1 DEF TypeOK, archiverVars, archive
  <2>5. uploaded' >= uploaded
    BY <1>a, <2>1 DEF archive
  <2> QED
    BY <1>0, <2>1, <2>2, <2>3, <2>5, ArchiverFrame, IndexerFrame, ReadFrame
    DEF IInv, TypeOK
<1>2. CASE Archiver
  <2>1. (ArchiverStep \/ ArchiverTrouble) /\ UNCHANGED indexState
    BY <1>2 DEF Archiver
  <2>2. objects \subseteq objects'
    BY <2>1 DEF ArchiverStep, ArchiverTrouble, ArchiverStart, ArchiverStop,
       ArchiverPoll, PutObject, PutFails, BlockArchived, BlockFailed,
       ArchiverCheckpoint, ArchiverCrash, archive
  <2>3. readError' \in BOOLEAN
    BY <1>0, <2>1, ReadErrorBoolean DEF TypeOK
  <2>4. IndexerType' /\ IndexerInv' /\ ReadInv'
    BY <1>0, <2>1, <2>2, IndexerFrame, ReadFrame DEF TypeOK
  <2> QED
    BY <2>1, <2>3, <2>4, ArchiverKeepsType, ArchiverKeepsInv, ArchiverStaysAhead
    DEF IInv, TypeOK
<1>3. CASE Indexer
  <2>1. /\ IndexerStep \/ IndexerTrouble
        /\ UNCHANGED <<sourceLatest, archive, opts, archiverVars>>
    BY <1>3 DEF Indexer
  <2>0. fails \in Nat
    BY <1>0 DEF TypeOK, ArchiverType
  <2>2. fails' = fails \/ Fail
    BY <2>1
    DEF IndexerStep, IndexerTrouble, IndexerStart, IndexerPanic, IndexerStop,
        IndexerPoll, ReadBlockData, PutEntry, DataMissing, IndexingFails, BlockIndexed,
        BlockNotIndexed, IndexerCheckpoint, IndexerCrash
  <2>6. fails' \in Nat
    BY <2>0, <2>2 DEF Fail
  <2>3. ArchiverType'
    BY <1>0, <2>1, <2>6 DEF TypeOK, ArchiverType, archive, archiverVars
  <2>4. readError' \in BOOLEAN /\ objects' = objects
    BY <1>0, <2>1 DEF TypeOK, archiverVars, archive
  <2>5. uploaded' >= uploaded
    BY <1>a, <2>1 DEF archive
  <2> QED
    BY <1>0, <2>1, <2>3, <2>4, <2>5, ArchiverFrame, IndexerKeepsType, IndexerKeepsInv,
       IndexerKeepsRead
    DEF IInv, TypeOK
<1>4. CASE UNCHANGED vars
  <2>1. /\ UNCHANGED <<archive, opts, archiverVars>> /\ UNCHANGED indexState
        /\ UNCHANGED <<sourceLatest, fails>>
    BY <1>4 DEF vars
  <2>2. ArchiverType'
    BY <1>0, <2>1 DEF TypeOK, ArchiverType, archive, archiverVars
  <2>3. readError' \in BOOLEAN /\ objects \subseteq objects'
    BY <1>0, <2>1 DEF TypeOK, archiverVars, archive
  <2>5. uploaded' >= uploaded
    BY <1>a, <2>1 DEF archive
  <2> QED
    BY <1>0, <2>1, <2>2, <2>3, <2>5, ArchiverFrame, IndexerFrame, ReadFrame
    DEF IInv, TypeOK
<1> QED
  BY <1>1, <1>2, <1>3, <1>4 DEF Next

(* The invariant holds in every reachable state of the pipeline. *)
THEOREM Invariant == Spec => []IInv
<1>1. IInv /\ [Next]_vars => IInv'
  BY NextIInv
<1> QED
  BY <1>1, InitIInv, PTL DEF Spec

(* The archiver's marker only covers blocks that are completely archived,  *)
(* and the indexer's marker only blocks that are completely indexed,       *)
(* whatever fails or crashes (archive_blocks, index_blocks).               *)
THEOREM MarkersTruthful == Spec => [](UploadedComplete /\ IndexedComplete)
<1>1. IInv => UploadedComplete /\ IndexedComplete
  <2> SUFFICES ASSUME IInv PROVE UploadedComplete /\ IndexedComplete
    OBVIOUS
  <2>0. ArchiverType /\ IndexerType /\ ArchiverInv /\ IndexerInv
    BY DEF IInv, TypeOK
  <2>3. \A n \in 0 .. uploaded : n \in Block /\ n <= uploaded
    BY <2>0, ArchiveAssumption DEF ArchiverType, Block, None
  <2>4. indexed # U64_MOD - 1 => \A n \in 0 .. indexed : n \in Block /\ n <= indexed
    BY <2>0, ArchiveAssumption DEF IndexerType, Block, None
  <2>1. UploadedComplete
    BY <2>0, <2>3 DEF UploadedComplete, ArchiverInv, Archived
  <2>2. IndexedComplete
    BY <2>0, <2>4 DEF IndexedComplete, IndexedUpTo, IndexerInv, IndexHas
  <2> QED
    BY <2>1, <2>2
<1> QED
  BY <1>1, Invariant, PTL

(* An index entry is only written for a block the archive holds, so that   *)
(* an entry by reference can be resolved (handle_block).                   *)
THEOREM EntriesResolve == Spec => []ReferencesResolve
<1>1. IInv => ReferencesResolve
  BY DEF IInv, ReadInv, ReferencesResolve
<1> QED
  BY <1>1, Invariant, PTL

(* Together: what the two markers and the entries of the index promise is  *)
(* in the archive, whatever fails or crashes.                              *)
THEOREM PromisesHold == Spec => []PromisesKept
<1>1. (UploadedComplete /\ IndexedComplete) /\ ReferencesResolve => PromisesKept
  BY DEF PromisesKept
<1> QED
  BY <1>1, MarkersTruthful, EntriesResolve, PTL

(* As long as no start-up read fails, the archiver's marker never moves    *)
(* back (archive_worker, checkpoint_latest).                               *)
THEOREM MarkerNeverBack == Spec => MarkerForward
<1>1. IInv /\ [Next]_vars => [~readError => uploaded' >= uploaded]_vars
  BY NextIInv
<1> QED
  BY <1>1, Invariant, PTL DEF Spec, MarkerForward
=============================================================================
