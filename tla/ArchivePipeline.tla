--------------------------- MODULE ArchivePipeline ---------------------------
(***************************************************************************)
(* The archiver and the indexer over one archive: the source finalizes     *)
(* blocks, the archiver copies them and moves its marker, the indexer      *)
(* follows that marker.  The two processes share nothing but the archive.  *)
(***************************************************************************)
EXTENDS ArchiveWorker, IndexWorker

indexState == <<iopts, index, indexed, indexerVars>>
vars == <<sourceLatest, archive, fails, opts, archiverVars, indexState>>

Init == ArchiveInit /\ ArchiverInit /\ IndexerInit

NewBlock ==
  /\ sourceLatest < MaxBlock
  /\ sourceLatest' = sourceLatest + 1
  /\ UNCHANGED <<archive, fails, opts, archiverVars, indexState>>

Archiver == (ArchiverStep \/ ArchiverTrouble) /\ UNCHANGED indexState
Indexer ==
  /\ IndexerStep \/ IndexerTrouble
  /\ UNCHANGED <<sourceLatest, archive, opts, archiverVars>>

Next == NewBlock \/ Archiver \/ Indexer

Spec == Init /\ [][Next]_vars

(* Each loop polls for ever and each process is started again when it      *)
(* dies; the chain keeps growing up to the bound.                          *)
Fairness ==
  /\ WF_vars(NewBlock)
  /\ WF_vars(ArchiverStep /\ UNCHANGED indexState)
  /\ WF_vars(IndexerStep /\ UNCHANGED <<sourceLatest, archive, opts, archiverVars>>)

FairSpec == Spec /\ Fairness

-----------------------------------------------------------------------------
(***************************************************************************)
(* Properties.                                                             *)
(***************************************************************************)
WorkerStates == {"down", "poll", "archive", "checkpoint", "stopped"}
IndexerStates == {"down", "poll", "index", "checkpoint", "stopped"}

(* The variables keep their types; in particular no block number leaves    *)
(* the range of the chain except through the indexer's wrapped subtraction.*)
ArchiverType ==
  /\ sourceLatest \in Block
  /\ objects \subseteq Kind \X Block
  /\ uploaded \in Block \cup {None}
  /\ fails \in Nat
  /\ opts \in OptionType /\ apc \in WorkerStates
  /\ aStart \in Nat /\ aEnd \in Block /\ aHead \in Block /\ aNew \in Block
  /\ aDone \subseteq Kind \X Block /\ aFailed \subseteq Kind \X Block

IndexerType ==
  /\ iopts \in IndexOptionType /\ ipc \in IndexerStates
  /\ index \subseteq (Tx \cup {"logs"}) \X Block
  /\ indexed \in Block \cup {None, U64_MOD - 1}
  /\ iStart \in Nat /\ iEnd \in Block /\ iHead \in Block
  /\ iNew \in Block \cup {U64_MOD - 1}
  /\ iRead \subseteq Block /\ iFailed \subseteq Block
  /\ iDone \subseteq (Tx \cup {"logs"}) \X Block

TypeOK == ArchiverType /\ IndexerType /\ readError \in BOOLEAN

(* The marker tells the truth: unless bad blocks are skipped on purpose,   *)
(* everything the archiver is asked for is in the archive for every block  *)
(* up to the marker, whatever failed, was dropped in flight or crashed.    *)
UploadedComplete ==
  ~opts.skipBad =>
    \A n \in 0 .. uploaded : \A kind \in Fatal : <<kind, n>> \in objects

(* The marker never moves back, unless a start-up read of it has failed    *)
(* and the archiver has begun again from block 0.                          *)
MarkerForward == [][~readError => uploaded' >= uploaded]_vars

(* Every block up to the indexer's marker is fully indexed; the value a    *)
(* failure of block 0 wraps around to is no such claim.                    *)
IndexedUpTo(m) ==
  \A n \in 0 .. m : \A entry \in Entries : <<entry, n>> \in index
IndexedComplete == indexed # U64_MOD - 1 => IndexedUpTo(indexed)

(* Without a fallback source, an index entry is only ever written for a    *)
(* block whose data the archive holds, so that an entry stored by          *)
(* reference resolves.                                                     *)
ReferencesResolve ==
  ~iopts.hasFallback => \A e \in index : HasBlockData(e[2])

(* What markers and index entries promise is there: neither marker runs    *)
(* ahead of its work, and no entry is ahead of the block it leads to.      *)
PromisesKept == UploadedComplete /\ IndexedComplete /\ ReferencesResolve

(* The archiver reaches the end of the chain, or its stop block, once      *)
(* failures stop.                                                          *)
ArchiverCatchesUp ==
  <>[](\/ apc = "stopped"
       \/ aStart = MaxBlock + 1)

(* With traces required, or a fallback source, the indexer reaches the     *)
(* archiver's marker or its own stop block; a block archived without       *)
(* traces would hold it up for ever.                                       *)
IndexerCatchesUp ==
  (\/ iopts.hasFallback
   \/ opts.requireTraces /\ ~opts.tracesOnly /\ ~opts.skipBad) =>
     <>[](ipc = "stopped" \/ iStart > uploaded)

(* Both workers catch up: the archiver with the chain, the indexer with    *)
(* the archiver.                                                           *)
CatchUp == ArchiverCatchesUp /\ IndexerCatchesUp
=============================================================================
