---------------------------- MODULE ArchiveWorker ----------------------------
(***************************************************************************)
(* monad-archiver's block_archive_worker: one process that copies blocks   *)
(* from the source to the archive, a range at a time, several blocks at    *)
(* once, and records how far it got in the archive's marker.               *)
(***************************************************************************)
EXTENDS BlockArchive

CONSTANTS
  MaxBlocksPerIteration,  \* max_blocks_per_iteration
  MaxConcurrentBlocks,    \* max_concurrent_blocks
  ArchiverOptions         \* the option records to check

(* stopBlock is None or a block number. *)
OptionType ==
  [stopBlock : Int, skipBad : BOOLEAN, requireTraces : BOOLEAN, tracesOnly : BOOLEAN]

ASSUME WorkerAssumption ==
  /\ MaxBlocksPerIteration \in Nat \ {0}
  /\ MaxConcurrentBlocks \in Nat \ {0}
  /\ ArchiverOptions \subseteq OptionType

VARIABLES
  opts,      \* the archiver's options, fixed for a deployment
  apc,       \* where archive_worker is
  aStart,    \* start_block
  aEnd,      \* end of the range being archived
  aHead,     \* the next result the buffered stream yields
  aDone,     \* objects of the range that have been put
  aFailed,   \* objects of the range whose read or put failed or was dropped
  aNew,      \* new_latest_uploaded
  readError  \* a start-up read of the marker has failed

archiverVars == <<apc, aStart, aEnd, aHead, aDone, aFailed, aNew, readError>>

ArchiverInit ==
  /\ opts \in ArchiverOptions
  /\ apc = "down"
  /\ aStart = 0 /\ aEnd = 0 /\ aHead = 0 /\ aNew = 0
  /\ aDone = {} /\ aFailed = {}
  /\ readError = FALSE

(***************************************************************************)
(* Start-up.  A failed read of the marker counts as an empty archive.      *)
(***************************************************************************)
(* Mutant: the marker is not read. *)
ArchiverStartAtZero ==
  /\ apc = "down"
  /\ apc' = "poll"
  /\ aStart' = 0
  /\ UNCHANGED <<aEnd, aHead, aDone, aFailed, aNew, readError, sourceLatest,
                 archive, opts, fails>>

ArchiverStart ==
  /\ apc = "down"
  /\ apc' = "poll"
  /\ \/ /\ aStart' = Resume(uploaded)
        /\ UNCHANGED <<readError, fails>>
     \/ /\ Fail
        /\ aStart' = 0
        /\ readError' = TRUE
  /\ UNCHANGED <<aEnd, aHead, aDone, aFailed, aNew, sourceLatest, archive, opts>>

(***************************************************************************)
(* One turn of the loop.  The range is not cut at stop_block; an error     *)
(* from the source or an empty range leads back here.                      *)
(***************************************************************************)
Stopped == opts.stopBlock # None /\ aStart > opts.stopBlock

ArchiverStop ==
  /\ apc = "poll"
  /\ Stopped
  /\ apc' = "stopped"
  /\ UNCHANGED <<aStart, aEnd, aHead, aDone, aFailed, aNew, readError,
                 sourceLatest, archive, opts, fails>>

(* Mutant: the end of the range is exclusive. *)
ArchiverPollExclusive ==
  /\ apc = "poll"
  /\ ~Stopped
  /\ aEnd' = Minimum(sourceLatest, aStart + MaxBlocksPerIteration - 1) - 1
  /\ aStart <= aEnd'
  /\ aHead' = aStart
  /\ aDone' = {} /\ aFailed' = {}
  /\ apc' = "archive"
  /\ UNCHANGED <<aStart, aNew, readError, sourceLatest, archive, opts, fails>>

ArchiverPoll ==
  /\ apc = "poll"
  /\ ~Stopped
  /\ aEnd' = Minimum(sourceLatest, aStart + MaxBlocksPerIteration - 1)
  /\ aStart <= aEnd'
  /\ aHead' = aStart
  /\ aDone' = {} /\ aFailed' = {}
  /\ apc' = "archive"
  /\ UNCHANGED <<aStart, aNew, readError, sourceLatest, archive, opts, fails>>

(***************************************************************************)
(* archive_block for every block in the window of the buffered stream.     *)
(* block and block_hash are joined: when one fails the other is dropped.   *)
(***************************************************************************)
Wanted == IF opts.tracesOnly THEN {"traces"} ELSE Kind

InFlight(n) == n \in aHead .. aEnd /\ n < aHead + MaxConcurrentBlocks

Outstanding(kind, n) ==
  /\ apc = "archive"
  /\ InFlight(n)
  /\ kind \in Wanted
  /\ <<kind, n>> \notin aDone \cup aFailed

JoinedWith(kind) == IF kind \in {"block", "block_hash"} THEN {"block", "block_hash"} ELSE {kind}

PutObject(kind, n) ==
  /\ Outstanding(kind, n)
  /\ objects' = objects \cup {<<kind, n>>}
  /\ aDone' = aDone \cup {<<kind, n>>}
  /\ UNCHANGED <<apc, aStart, aEnd, aHead, aFailed, aNew, readError,
                 sourceLatest, uploaded, opts, fails>>

(* A request that failed or was dropped may still have reached the store. *)
PutFails(kind, n) ==
  /\ Outstanding(kind, n)
  /\ Fail
  /\ aFailed' = aFailed \cup (JoinedWith(kind) \X {n})
  /\ \E landed \in SUBSET (JoinedWith(kind) \X {n}) : objects' = objects \cup landed
  /\ UNCHANGED <<apc, aStart, aEnd, aHead, aDone, aNew, readError,
                 sourceLatest, uploaded, opts>>

(***************************************************************************)
(* Results come out in block order.  Traces are fatal only on request.     *)
(***************************************************************************)
Fatal == IF opts.requireTraces \/ opts.tracesOnly THEN Wanted ELSE Wanted \ {"traces"}

HeadFinished ==
  /\ apc = "archive"
  /\ \A kind \in Wanted : <<kind, aHead>> \in aDone \cup aFailed

HeadBad == \E kind \in Fatal : <<kind, aHead>> \in aFailed

BlockArchived ==
  /\ HeadFinished
  /\ ~HeadBad \/ opts.skipBad
  /\ IF aHead = aEnd
       THEN apc' = "checkpoint" /\ aNew' = aEnd /\ UNCHANGED aHead
       ELSE aHead' = aHead + 1 /\ UNCHANGED <<apc, aNew>>
  /\ UNCHANGED <<aStart, aEnd, aDone, aFailed, readError, sourceLatest, archive,
                 opts, fails>>

(* Mutant: the failed block is reported as uploaded. *)
BlockFailedCounted ==
  /\ HeadFinished
  /\ HeadBad /\ ~opts.skipBad
  /\ apc' = "checkpoint"
  /\ aNew' = aHead
  /\ UNCHANGED <<aStart, aEnd, aHead, aDone, aFailed, readError, sourceLatest,
                 archive, opts, fails>>

BlockFailed ==
  /\ HeadFinished
  /\ HeadBad /\ ~opts.skipBad
  /\ apc' = "checkpoint"
  /\ aNew' = IF aHead = 0 THEN 0 ELSE aHead - 1
  /\ UNCHANGED <<aStart, aEnd, aHead, aDone, aFailed, readError, sourceLatest,
                 archive, opts, fails>>

(***************************************************************************)
(* checkpoint_latest: a failed put is logged and the loop goes on.         *)
(***************************************************************************)
ArchiverCheckpoint ==
  /\ apc = "checkpoint"
  /\ \/ aNew = 0 /\ UNCHANGED <<uploaded, fails>>
     \/ aNew # 0 /\ uploaded' = aNew /\ UNCHANGED fails
     \/ aNew # 0 /\ Fail /\ UNCHANGED uploaded
  /\ aStart' = Resume(aNew)
  /\ apc' = "poll"
  /\ aEnd' = 0 /\ aHead' = 0 /\ aNew' = 0
  /\ aDone' = {} /\ aFailed' = {}
  /\ UNCHANGED <<readError, sourceLatest, objects, opts>>

ArchiverCrash ==
  /\ apc \notin {"down", "stopped"}
  /\ Fail
  /\ apc' = "down"
  /\ aStart' = 0 /\ aEnd' = 0 /\ aHead' = 0 /\ aNew' = 0
  /\ aDone' = {} /\ aFailed' = {}
  /\ UNCHANGED <<readError, sourceLatest, archive, opts>>

ArchiverStep ==
  \/ ArchiverStart
  \/ ArchiverStop
  \/ ArchiverPoll
  \/ \E kind \in Kind, n \in Block : PutObject(kind, n)
  \/ BlockArchived
  \/ BlockFailed
  \/ ArchiverCheckpoint

ArchiverTrouble ==
  \/ \E kind \in Kind, n \in Block : PutFails(kind, n)
  \/ ArchiverCrash
=============================================================================
