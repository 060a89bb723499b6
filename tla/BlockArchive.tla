----------------------------- MODULE BlockArchive -----------------------------
(***************************************************************************)
(* The block data archive (monad-archive's BlockDataArchive over a key     *)
(* value store) and the block source that feeds it.                        *)
(*                                                                         *)
(* The archive is the set of objects that have been put, each named by its *)
(* kind and block number, and four progress markers, of which one archiver *)
(* and one indexer use one each.  An object's content is a function of its *)
(* name, so overwriting and skipping an existing object are the same step. *)
(***************************************************************************)
EXTENDS Integers, FiniteSets

CONSTANTS
  MaxBlock,   \* bound: the last block the source ever finalizes
  MaxFails,   \* bound: failed reads, failed writes and crashes in a behaviour
  U64_MOD     \* 2^64: unsigned arithmetic wraps in the release build

ASSUME ArchiveAssumption ==
  /\ MaxBlock \in Nat
  /\ MaxFails \in Nat
  /\ U64_MOD \in Nat /\ U64_MOD > MaxBlock + 1

VARIABLES
  sourceLatest,  \* get_latest(Uploaded) of the block source
  objects,       \* the objects in the archive: <<kind, block number>>
  uploaded,      \* the archiver's marker, or None
  fails          \* failures so far

archive == <<objects, uploaded>>

None == -1

(* block and block_hash are put by one call of archive_block. *)
Kind == {"block", "block_hash", "receipts", "traces"}
Block == 0 .. MaxBlock

(* What get_block_data_with_offsets reads of a block. *)
BlockData == {"block", "receipts", "traces"}
HasBlockData(n) == \A kind \in BlockData : <<kind, n>> \in objects

(* get_latest(..).unwrap_or(Some(0)).unwrap_or(0), then the block after it. *)
Resume(latest) == IF latest \in {None, 0} THEN 0 ELSE (latest + 1) % U64_MOD

Minimum(a, b) == IF a <= b THEN a ELSE b

ArchiveInit ==
  /\ sourceLatest = 0
  /\ objects = {}
  /\ uploaded = None
  /\ fails = 0

Fail ==
  /\ fails < MaxFails
  /\ fails' = fails + 1
=============================================================================
