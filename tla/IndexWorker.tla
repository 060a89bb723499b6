----------------------------- MODULE IndexWorker -----------------------------
(***************************************************************************)
(* monad-indexer's index_worker: one process that follows the archiver's   *)
(* marker, reads each archived block back and writes one entry per         *)
(* transaction to the transaction index and, when it is configured, the    *)
(* logs of the block to the log index.                                     *)
(***************************************************************************)
EXTENDS BlockArchive

CONSTANTS
  IndexBlocksPerIteration,  \* max_blocks_per_iteration
  IndexConcurrentBlocks,    \* max_concurrent_blocks
  Tx,                       \* the transactions of a block
  IndexerOptions            \* the option records to check

(* stopBlock is None or a block number. *)
IndexOptionType == [stopBlock : Int, hasFallback : BOOLEAN, logIndex : BOOLEAN]

ASSUME IndexAssumption ==
  /\ IndexBlocksPerIteration \in Nat \ {0}
  /\ IndexConcurrentBlocks \in Nat \ {0}
  /\ IndexerOptions \subseteq IndexOptionType
  /\ "logs" \notin Tx

VARIABLES
  iopts,    \* the indexer's options, fixed for a deployment
  index,    \* the entries written: <<transaction or "logs", block number>>
  indexed,  \* the indexer's marker, or None
  ipc,      \* where index_worker is
  iStart,   \* start_block
  iEnd,     \* end of the range being indexed
  iHead,    \* the next result the buffered stream yields
  iRead,    \* blocks of the range whose data has been read
  iDone,    \* entries of the range that have been put
  iFailed,  \* blocks of the range that have failed
  iNew      \* new_latest_indexed

indexerVars == <<ipc, iStart, iEnd, iHead, iRead, iDone, iFailed, iNew>>

IndexerInit ==
  /\ iopts \in IndexerOptions
  /\ index = {}
  /\ indexed = None
  /\ ipc = "down"
  /\ iStart = 0 /\ iEnd = 0 /\ iHead = 0 /\ iNew = 0
  /\ iRead = {} /\ iDone = {} /\ iFailed = {}

(***************************************************************************)
(* Start-up.  A failed read of the marker counts as an empty index.        *)
(***************************************************************************)
IndexerStart ==
  /\ ipc = "down"
  /\ ipc' = "poll"
  /\ \/ iStart' = Resume(indexed) /\ UNCHANGED fails
     \/ Fail /\ iStart' = 0
  /\ UNCHANGED <<index, indexed, iEnd, iHead, iRead, iDone, iFailed, iNew, iopts>>

(***************************************************************************)
(* One turn of the loop.  The archive has to have a marker: the worker     *)
(* unwraps it, and the process aborts when it is missing.                  *)
(***************************************************************************)
IndexerPanic ==
  /\ ipc = "poll"
  /\ uploaded = None
  /\ ipc' = "down"
  /\ iStart' = 0
  /\ UNCHANGED <<index, indexed, iEnd, iHead, iRead, iDone, iFailed, iNew,
                 iopts, fails>>

IndexerStopped == iopts.stopBlock # None /\ iStart > iopts.stopBlock

IndexerStop ==
  /\ ipc = "poll"
  /\ uploaded # None
  /\ IndexerStopped
  /\ ipc' = "stopped"
  /\ UNCHANGED <<index, indexed, iStart, iEnd, iHead, iRead, iDone, iFailed, iNew,
                 iopts, fails>>

IndexerPoll ==
  /\ ipc = "poll"
  /\ uploaded # None
  /\ ~IndexerStopped
  /\ iEnd' = Minimum(uploaded, iStart + IndexBlocksPerIteration - 1)
  /\ iStart <= iEnd'
  /\ iHead' = iStart
  /\ ipc' = "index"
  /\ UNCHANGED <<index, indexed, iStart, iRead, iDone, iFailed, iNew, iopts, fails>>

(***************************************************************************)
(* handle_block for every block in the window of the buffered stream: read *)
(* the block's data, put the transaction entries in any order, then the    *)
(* logs.  A part missing from the archive fails the block unless there is  *)
(* a fallback source.                                                      *)
(***************************************************************************)
Indexing(n) ==
  /\ ipc = "index"
  /\ n \in iHead .. iEnd /\ n < iHead + IndexConcurrentBlocks
  /\ n \notin iFailed

Entries == Tx \cup (IF iopts.logIndex THEN {"logs"} ELSE {})
AllPut(n) == \A entry \in Entries : <<entry, n>> \in iDone

ReadBlockData(n) ==
  /\ Indexing(n)
  /\ n \notin iRead
  /\ HasBlockData(n) \/ iopts.hasFallback
  /\ iRead' = iRead \cup {n}
  /\ UNCHANGED <<index, indexed, ipc, iStart, iEnd, iHead, iDone, iFailed, iNew,
                 iopts, fails>>

PutEntry(entry, n) ==
  /\ Indexing(n)
  /\ n \in iRead
  /\ entry \in Entries
  /\ <<entry, n>> \notin iDone
  /\ entry = "logs" => \A tx \in Tx : <<tx, n>> \in iDone
  /\ index' = index \cup {<<entry, n>>}
  /\ iDone' = iDone \cup {<<entry, n>>}
  /\ UNCHANGED <<indexed, ipc, iStart, iEnd, iHead, iRead, iFailed, iNew, iopts,
                 fails>>

DataMissing(n) ==
  /\ Indexing(n)
  /\ n \notin iRead
  /\ ~HasBlockData(n) /\ ~iopts.hasFallback
  /\ iFailed' = iFailed \cup {n}
  /\ UNCHANGED <<index, indexed, ipc, iStart, iEnd, iHead, iRead, iDone, iNew,
                 iopts, fails>>

(* Before the read completes nothing has been written; after it, the      *)
(* entries of the failed put may still have reached the store.             *)
IndexingFails(n) ==
  /\ Indexing(n)
  /\ ~AllPut(n)
  /\ Fail
  /\ iFailed' = iFailed \cup {n}
  /\ \E landed \in SUBSET {e \in (Entries \X {n}) \ iDone :
                             n \in iRead /\ (e[1] = "logs" => Tx \X {n} \subseteq iDone)} :
       index' = index \cup landed
  /\ UNCHANGED <<indexed, ipc, iStart, iEnd, iHead, iRead, iDone, iNew, iopts>>

BlockIndexed ==
  /\ ipc = "index"
  /\ iHead \notin iFailed
  /\ iHead \in iRead /\ AllPut(iHead)
  /\ IF iHead = iEnd
       THEN ipc' = "checkpoint" /\ iNew' = iEnd /\ UNCHANGED iHead
       ELSE iHead' = iHead + 1 /\ UNCHANGED <<ipc, iNew>>
  /\ UNCHANGED <<index, indexed, iStart, iEnd, iRead, iDone, iFailed, iopts, fails>>

(* err_block - 1 on an unsigned integer. *)
BlockNotIndexed ==
  /\ ipc = "index"
  /\ iHead \in iFailed
  /\ ipc' = "checkpoint"
  /\ iNew' = (iHead - 1) % U64_MOD
  /\ UNCHANGED <<index, indexed, iStart, iEnd, iHead, iRead, iDone, iFailed,
                 iopts, fails>>

IndexerCheckpoint ==
  /\ ipc = "checkpoint"
  /\ \/ iNew = 0 /\ UNCHANGED <<indexed, fails>>
     \/ iNew # 0 /\ indexed' = iNew /\ UNCHANGED fails
     \/ iNew # 0 /\ Fail /\ UNCHANGED indexed
  /\ iStart' = Resume(iNew)
  /\ ipc' = "poll"
  /\ iEnd' = 0 /\ iHead' = 0 /\ iNew' = 0
  /\ iRead' = {} /\ iDone' = {} /\ iFailed' = {}
  /\ UNCHANGED <<index, iopts>>

IndexerCrash ==
  /\ ipc \notin {"down", "stopped"}
  /\ Fail
  /\ ipc' = "down"
  /\ iStart' = 0 /\ iEnd' = 0 /\ iHead' = 0 /\ iNew' = 0
  /\ iRead' = {} /\ iDone' = {} /\ iFailed' = {}
  /\ UNCHANGED <<index, indexed, iopts>>

IndexerStep ==
  \/ IndexerStart
  \/ IndexerPanic
  \/ IndexerStop
  \/ IndexerPoll
  \/ \E n \in Block : ReadBlockData(n)
  \/ \E entry \in Tx \cup {"logs"}, n \in Block : PutEntry(entry, n)
  \/ \E n \in Block : DataMissing(n)
  \/ BlockIndexed
  \/ BlockNotIndexed
  \/ IndexerCheckpoint

IndexerTrouble ==
  \/ \E n \in Block : IndexingFails(n)
  \/ IndexerCrash
=============================================================================
